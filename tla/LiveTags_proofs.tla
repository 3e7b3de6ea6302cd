--------------------------- MODULE LiveTags_proofs ---------------------------
(***************************************************************************)
(* Theorems about the announcer of LiveTags: for any rooms, members, queue, *)
(* faults and crashes, no tag is saved, every tag has a row to undo it from, *)
(* and a quiet announcer has tagged the ones who are live.                  *)
(***************************************************************************)
EXTENDS LiveTags, TLAPS

\* Every member starts with the nickname they chose, and no row exists.
LEMMA InitTags == Init => TagsInv
<1> SUFFICES ASSUME Init PROVE TagsInv
  OBVIOUS
<1> USE DEF Init
<1>1. TagsTypeOK
  <2>1. nick \in [Members -> Nicknames]
    BY DEF Nicknames
  <2>2. queue \in Seq(Snapshots)
    OBVIOUS
  <2> QED
    BY <2>1, <2>2 DEF TagsTypeOK, Phases
<1>2. SavedIsClean
  BY <1>1 DEF SavedIsClean
<1>3. TagIsOwed /\ TaskInv
  BY DEF TagIsOwed, TaskInv
<1> QED
  BY <1>2, <1>3 DEF TagsInv

\* A task goes to its next stage.
LEMMA NextStage ==
  ASSUME NEW t \in Tasks, NEW s \in Stages
  PROVE  /\ [t EXCEPT !.stage = s] \in Tasks
         /\ [t EXCEPT !.stage = s].stage = s
         /\ [t EXCEPT !.stage = s].member = t.member
         /\ [t EXCEPT !.stage = s].nick = t.nick
BY DEF Tasks

\* A snapshot overwritten by others excuses the members of its guild.
LEMMA PublishExcuses ==
  ASSUME TagsTypeOK, NEW r \in Rooms, NEW users \in SUBSET Users, Publish(r, users)
  PROVE  /\ queue' \in Seq(Snapshots)
         /\ excused \subseteq excused' /\ excused' \subseteq Members
<1> DEFINE x == [room |-> r, publishers |-> users]
           q == Append(queue, x)
<1>1. queue \in Seq(Snapshots) /\ x \in Snapshots /\ excused \subseteq Members
  BY DEF TagsTypeOK, Snapshots
<1> HIDE DEF x
<1>2. q \in Seq(Snapshots) /\ q # <<>> /\ Head(q) \in Snapshots /\ Tail(q) \in Seq(Snapshots)
  <2>1. q \in Seq(Snapshots) /\ Len(q) = Len(queue) + 1 /\ Len(queue) \in Nat
    BY <1>1
  <2>2. q # <<>>
    BY <2>1
  <2> HIDE DEF q
  <2> QED
    BY <2>1, <2>2
<1> HIDE DEF q
<1>3. /\ queue' \in {queue, q, Tail(q)}
      /\ excused' \in {excused, excused \cup Population(GuildOf[Head(q).room])}
  BY DEF Publish, q, x
<1>4. Population(GuildOf[Head(q).room]) \subseteq Members
  BY <1>2, TagsAssumption DEF Snapshots, Population, Members
<1> QED
  BY <1>1, <1>2, <1>3, <1>4

\* Rooms and members: a member who renames themselves is excused, and nothing
\* else of the invariant depends on who publishes.
LEMMA WorldKeeps ==
  ASSUME TagsInv,
         \/ \E r \in Rooms, users \in SUBSET Users : Publish(r, users)
         \/ \E m \in Members, x \in Nicknames : Rename(m, x)
         \/ Crash
  PROVE  TagsInv'
<1> USE DEF TagsInv, SavedIsClean, TagIsOwed, TaskInv
<1>1. ASSUME NEW r \in Rooms, NEW users \in SUBSET Users, Publish(r, users)
      PROVE  TagsInv'
  <2> USE <1>1 DEF Publish
  <2>1. /\ queue' \in Seq(Snapshots)
        /\ excused \subseteq excused' /\ excused' \subseteq Members
    BY PublishExcuses
  <2>2. spoken' \subseteq Rooms /\ live' \in [Rooms -> SUBSET Users] /\ published' \in Nat
    BY DEF TagsTypeOK
  <2>3. TagsTypeOK'
    BY <2>1, <2>2 DEF TagsTypeOK
  <2> QED
    BY <2>1, <2>3
<1>2. ASSUME NEW m \in Members, NEW x \in Nicknames, Rename(m, x)
      PROVE  TagsInv'
  <2> USE <1>2 DEF Rename, world
  <2>1. TagsTypeOK'
    BY DEF TagsTypeOK
  <2>2. TagIsOwed'
    BY DEF TagsTypeOK
  <2> QED
    BY <2>1, <2>2
<1>3. ASSUME Crash
      PROVE  TagsInv'
  <2> USE <1>3 DEF Crash, Fault, world
  <2>1. excused' \subseteq Members /\ excused \subseteq excused'
    BY DEF TagsTypeOK, Tasks
  <2>2. TagsTypeOK'
    BY <2>1 DEF TagsTypeOK, Phases
  <2>3. TagIsOwed'
    BY <2>1
  <2> QED
    BY <2>2, <2>3
<1> QED
  BY <1>1, <1>2, <1>3

\* The loop starts a task only when there is none, and writes no nickname.
LEMMA LoopKeeps ==
  ASSUME TagsInv, Spawn \/ Sweep \/ Receive \/ Flush \/ Apply \/ UpdateTags
  PROVE  TagsInv'
<1> USE TagsAssumption DEF TagsInv
<1> DEFINE Kept == UNCHANGED <<nick, saved>> /\ excused \subseteq excused' /\ TagsTypeOK'
<1>1. ASSUME Kept, UNCHANGED task
      PROVE  TagsInv'
  BY <1>1 DEF SavedIsClean, TagIsOwed, TaskInv
<1>2. ASSUME Kept, task = None, NEW m \in Members, NEW stage \in {"fetch", "forget"},
             Begin(stage, m)
      PROVE  TagsInv'
  BY <1>2 DEF SavedIsClean, TagIsOwed, TaskInv, Begin
<1>3. ASSUME NEW m \in Members, NEW stage \in {"fetch", "forget"}, Begin(stage, m)
      PROVE  task' \in Tasks
  BY <1>3 DEF Begin, Tasks, Stages
<1>4. CASE Spawn
  <2> USE <1>4 DEF Spawn, Run, Fault, NoFault, world, counts
  <2>1. left' \subseteq Members /\ excused' \subseteq Members /\ excused \subseteq excused'
    BY DEF SavedIsClean, TagsTypeOK, Rows
  <2>2. queue' \in Seq(Snapshots) /\ spoken' \subseteq Rooms /\ phase' \in Phases
    <3>1. CASE phase' = "sweep" /\ UNCHANGED <<queue, spoken>>
      BY <3>1 DEF SavedIsClean, TagsTypeOK, Phases
    <3>2. CASE phase' = "select" /\ queue' = <<>> /\ spoken' = {}
      BY <3>2 DEF Phases
    <3> QED
      BY <3>1, <3>2
  <2>3. faults' \in Nat /\ published' \in Nat /\ renames' \in Nat
    BY DEF SavedIsClean, TagsTypeOK
  <2>4. TagsTypeOK'
    BY <2>1, <2>2, <2>3 DEF SavedIsClean, TagsTypeOK
  <2> QED
    BY <1>1, <2>1, <2>4
<1>5. CASE Sweep
  <2> USE <1>5 DEF Sweep, Run, NoFault, world, counts
  <2>1. CASE \E m \in left : left' = left \ {m} /\ Begin("forget", m)
    <3>1. PICK m \in left : left' = left \ {m} /\ Begin("forget", m)
      BY <2>1
    <3>2. m \in Members
      BY DEF SavedIsClean, TagsTypeOK
    <3>3. task' \in Tasks
      BY <1>3, <3>1, <3>2
    <3>4. TagsTypeOK'
      <4>1. UNCHANGED <<phase, queue, spoken>> \/ Run
        OBVIOUS
      <4> QED
        BY <3>1, <3>3, <4>1 DEF SavedIsClean, TagsTypeOK, Phases
    <3> QED
      BY <1>2, <3>1, <3>2, <3>4
  <2>2. CASE UNCHANGED task /\ Run
    <3>1. TagsTypeOK'
      BY <2>2 DEF SavedIsClean, TagsTypeOK, Phases
    <3> QED
      BY <1>1, <2>2, <3>1
  <2> QED
    BY <2>1, <2>2
<1>6. CASE Receive
  <2> USE <1>6 DEF Receive, NoFault, world, counts
  <2>1. Head(queue) \in Snapshots /\ Tail(queue) \in Seq(Snapshots)
    BY DEF SavedIsClean, TagsTypeOK
  <2>2. TagsTypeOK'
    BY <2>1 DEF SavedIsClean, TagsTypeOK, Snapshots
  <2> QED
    BY <1>1, <2>2
<1>7. CASE Flush
  <2> USE <1>7 DEF Flush, NoFault, world, counts
  <2>1. TagsTypeOK'
    BY DEF SavedIsClean, TagsTypeOK, Phases
  <2> QED
    BY <1>1, <2>1
<1>8. CASE Apply
  <2> USE <1>8 DEF Apply, NoFault, Fault, world, counts
  <2>1. applying' \in Snapshots \cup {None} /\ pending' \in [Rooms -> (SUBSET Users) \cup {None}]
    BY DEF SavedIsClean, TagsTypeOK, Snapshots, Waiting
  <2>2. excused' \subseteq Members /\ excused \subseteq excused'
    BY DEF SavedIsClean, TagsTypeOK, Members, Waiting, Population
  <2>3. faults' \in Nat /\ published' \in Nat /\ renames' \in Nat /\ phase' \in Phases
    BY DEF SavedIsClean, TagsTypeOK, Phases
  <2>4. TagsTypeOK'
    BY <2>1, <2>2, <2>3 DEF SavedIsClean, TagsTypeOK
  <2> QED
    BY <1>1, <2>2, <2>4
<1>9. CASE UpdateTags
  <2> USE <1>9 DEF UpdateTags, NoFault, world, counts
  <2>1. Wanted \subseteq Members /\ Stale \subseteq Members
    BY DEF SavedIsClean, TagsTypeOK, Wanted, Stale, Members, Snapshots
  <2>2. CASE \E m \in Members, stage \in {"fetch", "forget"} :
               Begin(stage, m) /\ tagged' \subseteq Members /\ UNCHANGED applying
    <3>1. PICK m \in Members, stage \in {"fetch", "forget"} :
                 Begin(stage, m) /\ tagged' \subseteq Members /\ UNCHANGED applying
      BY <2>2
    <3>2. task' \in Tasks
      BY <1>3, <3>1
    <3>3. TagsTypeOK'
      BY <3>1, <3>2 DEF SavedIsClean, TagsTypeOK
    <3> QED
      BY <1>2, <3>1, <3>3
  <2>3. CASE applying' = None /\ UNCHANGED <<tagged, task>>
    <3>1. TagsTypeOK'
      BY <2>3 DEF SavedIsClean, TagsTypeOK
    <3> QED
      BY <1>1, <2>3, <3>1
  <2>4. tagged \subseteq Members
    BY DEF SavedIsClean, TagsTypeOK
  <2> QED
    BY <2>1, <2>2, <2>3, <2>4
<1> QED
  BY <1>4, <1>5, <1>6, <1>7, <1>8, <1>9

\* One nickname: the row is written before the tag and outlives it.
LEMMA TaskKeeps ==
  ASSUME TagsInv, Fetch \/ Remember \/ Edit \/ Undo \/ Forget \/ Restore
  PROVE  TagsInv'
<1> USE TagsAssumption DEF TagsInv, At, Who, NoFault, Fault, world, counts, Loop
<1>1. task \in Tasks /\ task.member \in Members /\ task # None
  BY DEF SavedIsClean, TagsTypeOK, Tasks, Fetch, Remember, Edit, Undo, Forget, Restore
<1>2. excused' \subseteq Members /\ excused \subseteq excused' /\ faults' \in Nat
  BY <1>1 DEF SavedIsClean, TagsTypeOK, Fetch, Remember, Edit, Undo, Forget, Restore
<1> DEFINE Typed == task' \in Tasks \cup {None} /\ nick' \in [Members -> Nicknames]
                    /\ saved' \in [Members -> Nicknames \cup {None}]
<1>3. ASSUME Typed PROVE TagsTypeOK'
  BY <1>2, <1>3 DEF SavedIsClean, TagsTypeOK, Fetch, Remember, Edit, Undo, Forget, Restore
<1>4. CASE Fetch
  <2> USE <1>4 DEF Fetch
  <2>1. nick[task.member] \in Nicknames /\ nick[task.member] # None
    BY <1>1 DEF SavedIsClean, TagsTypeOK
  <2>2. Typed
    BY <1>1, <2>1 DEF SavedIsClean, TagsTypeOK, Tasks, Stages
  <2>3. SavedIsClean' /\ TaskInv'
    BY <1>1, <1>3, <2>1, <2>2 DEF SavedIsClean, TaskInv, Tasks
  <2>4. TagIsOwed'
    BY <1>1, <1>2 DEF TagIsOwed
  <2> QED
    BY <2>3, <2>4
<1>5. CASE Remember
  <2> USE <1>5 DEF Remember
  <2>1. task.nick \in Nicknames /\ task.nick # None /\ ~task.nick.tag
    BY <1>1 DEF SavedIsClean, TaskInv, Tasks
  <2>2. Typed
    BY <1>1, <2>1 DEF SavedIsClean, TagsTypeOK, Tasks, Stages
  <2>3. \A m \in Members : saved[m] # None => saved'[m] = saved[m]
    BY DEF SavedIsClean, TagsTypeOK
  <2>4. SavedIsClean'
    BY <1>1, <1>3, <2>1, <2>2 DEF SavedIsClean, TagsTypeOK, Tasks
  <2>5. TaskInv'
    BY <1>1, <1>2, <2>1 DEF SavedIsClean, TagsTypeOK, TaskInv, Tasks
  <2>6. TagIsOwed'
    BY <1>1, <1>2, <2>3 DEF TagIsOwed
  <2> QED
    BY <2>4, <2>5, <2>6
<1>6. CASE Edit
  <2> USE <1>6 DEF Edit
  <2>1. /\ task.nick \in Nicknames /\ ~task.nick.tag
        /\ saved[task.member] # None
        /\ [task.nick EXCEPT !.tag = TRUE] \in Nicknames
    BY <1>1 DEF SavedIsClean, TaskInv, Tasks, Nicknames
  <2>2. Typed
    <3>1. [task EXCEPT !.stage = "undo"] \in Tasks
      <4>1. "undo" \in Stages
        BY DEF Stages
      <4> HIDE <1>6 DEF TagsInv, NoFault, Fault, world, counts, Loop, Edit
      <4> QED
        BY <1>1, <4>1, NextStage, Zenon
    <3>2. task' \in Tasks \cup {None}
      <4> DEFINE u == [task EXCEPT !.stage = "undo"]
      <4>1. task' = None \/ task' = u
        OBVIOUS
      <4> HIDE DEF u
      <4> QED
        BY <3>1, <4>1 DEF u
    <3>3. nick' \in [Members -> Nicknames]
      <4> DEFINE e == [task.nick EXCEPT !.tag = TRUE]
      <4>1. nick' \in {nick, [nick EXCEPT ![task.member] = e]}
        OBVIOUS
      <4>2. e \in Nicknames /\ nick \in [Members -> Nicknames]
        BY <2>1 DEF SavedIsClean, TagsTypeOK
      <4> HIDE <1>6 DEF e, Edit
      <4> QED
        BY <4>1, <4>2
    <3>4. saved' \in [Members -> Nicknames \cup {None}]
      BY DEF SavedIsClean, TagsTypeOK
    <3> QED
      BY <3>2, <3>3, <3>4
  <2>3. SavedIsClean' /\ TaskInv'
    BY <1>1, <1>3, <2>1, <2>2 DEF SavedIsClean, TaskInv, Tasks
  <2>4. TagIsOwed'
    BY <1>1, <1>2, <2>1 DEF TagIsOwed, SavedIsClean, TagsTypeOK
  <2> QED
    BY <2>3, <2>4
<1>7. CASE Undo
  <2> USE <1>7 DEF Undo
  <2>1. task.member \in excused
    BY <1>1 DEF TaskInv
  <2>2. Typed
    BY <1>1 DEF SavedIsClean, TagsTypeOK
  <2>3. SavedIsClean' /\ TaskInv'
    BY <1>1, <1>3, <2>2 DEF SavedIsClean, TagsTypeOK, TaskInv
  <2>4. TagIsOwed'
    BY <1>1, <1>2, <2>1 DEF TagIsOwed, SavedIsClean, TagsTypeOK
  <2> QED
    BY <2>3, <2>4
<1>8. CASE Forget
  <2> USE <1>8 DEF Forget
  <2>1. saved[task.member] # None => saved[task.member] \in Nicknames /\ ~saved[task.member].tag
    BY <1>1 DEF SavedIsClean, TagsTypeOK
  <2>2. CASE task' = None /\ UNCHANGED nick
             /\ saved' \in [Members -> Nicknames \cup {None}]
             /\ \A m \in Members : saved'[m] = saved[m]
    <3>1. Typed
      BY <1>1, <2>2 DEF SavedIsClean, TagsTypeOK
    <3>2. SavedIsClean' /\ TaskInv'
      BY <1>1, <1>3, <2>2, <3>1 DEF SavedIsClean, TagsTypeOK, TaskInv
    <3>3. TagIsOwed'
      BY <1>1, <1>2, <2>2 DEF TagIsOwed, SavedIsClean, TagsTypeOK
    <3> QED
      BY <3>2, <3>3
  <2>3. CASE /\ saved[task.member] # None
             /\ saved' = [saved EXCEPT ![task.member] = None]
             /\ task' = [task EXCEPT !.stage = "restore", !.nick = saved[task.member]]
    <3>1. /\ task' \in Tasks /\ task' # None /\ task'.stage = "restore"
          /\ task'.member = task.member /\ task'.nick = saved[task.member]
      <4> DEFINE n == saved[task.member]
                 t == [task EXCEPT !.stage = "restore", !.nick = n]
      <4>1. "restore" \in Stages /\ n \in Nicknames
        BY <2>1, <2>3 DEF Stages
      <4> HIDE DEF n
      <4>2. /\ t \in Tasks /\ t.stage = "restore"
            /\ t.member = task.member /\ t.nick = n
        <5> HIDE <1>8 DEF TagsInv, NoFault, Fault, world, counts, Loop, Forget, At, Who
        <5> QED
          BY <1>1, <4>1 DEF Tasks
      <4> QED
        BY <2>3, <4>2 DEF n
    <3>2. Typed
      BY <1>1, <3>1, <2>3 DEF SavedIsClean, TagsTypeOK
    <3>3. SavedIsClean' /\ TaskInv'
      BY <1>1, <1>3, <2>1, <2>3, <3>1, <3>2 DEF SavedIsClean, TagsTypeOK, TaskInv
    <3>4. TagIsOwed'
      BY <1>1, <1>2, <2>3, <3>1 DEF TagIsOwed, SavedIsClean, TagsTypeOK
    <3> QED
      BY <3>3, <3>4
  <2>4. \/ saved[task.member] = None
        \/ saved[task.member] # None
    OBVIOUS
  <2> QED
    BY <1>1, <2>2, <2>3, <2>4 DEF SavedIsClean, TagsTypeOK
<1>9. CASE Restore
  <2> USE <1>9 DEF Restore
  <2>1. task.nick \in Nicknames /\ ~task.nick.tag
    BY <1>1 DEF SavedIsClean, TaskInv, Tasks
  <2>2. Typed
    BY <1>1, <2>1 DEF SavedIsClean, TagsTypeOK
  <2>3. SavedIsClean' /\ TaskInv'
    BY <1>1, <1>3, <2>2 DEF SavedIsClean, TagsTypeOK, TaskInv
  <2>4. TagIsOwed'
    BY <1>1, <1>2, <2>1 DEF TagIsOwed, SavedIsClean, TagsTypeOK
  <2> QED
    BY <2>3, <2>4
<1> QED
  BY <1>4, <1>5, <1>6, <1>7, <1>8, <1>9

\* A step that changes nothing.
LEMMA StutterKeeps == ASSUME TagsInv, UNCHANGED vars PROVE TagsInv'
BY DEF vars, TagsInv, SavedIsClean, TagsTypeOK, TagIsOwed, TaskInv

\* The announcer's invariant, whatever is published, fails or crashes.
THEOREM TagsInvariant == TagsSpec => []TagsInv
<1>1. TagsInv /\ [Next]_vars => TagsInv'
  BY WorldKeeps, LoopKeeps, TaskKeeps, StutterKeeps DEF Next, Announce
<1> QED
  BY InitTags, <1>1, PTL DEF TagsSpec

\* No nickname with the prefix is ever saved, or on its way to being saved
\* (live_tags.rs:29).
THEOREM SavedStaysClean == TagsSpec => []SavedIsClean
<1>1. TagsInv => SavedIsClean
  BY DEF TagsInv
<1> QED
  BY TagsInvariant, <1>1, PTL

\* Every tag can be undone from its row, unless a call about that member
\* failed (announce.rs:237).
THEOREM TagsAreOwed == TagsSpec => []TagIsOwed
<1>1. TagsInv => TagIsOwed
  BY DEF TagsInv
<1> QED
  BY TagsInvariant, <1>1, PTL

-----------------------------------------------------------------------------
(* QuietIsRight.                                                            *)

\* What the first snapshot and the others become when it leaves the queue.
LEMMA TailShifts ==
  ASSUME NEW q \in Seq(Snapshots), q # <<>>
  PROVE  /\ Len(q) \in Nat \ {0}
         /\ Tail(q) \in Seq(Snapshots) /\ Len(Tail(q)) = Len(q) - 1
         /\ \A i \in 1..Len(Tail(q)) : Tail(q)[i] = q[i + 1]
         /\ Head(q) = q[1]
OBVIOUS

\* A snapshot is appended, and the oldest may be overwritten for it; its room is
\* lost unless a later one of it is queued.
LEMMA PublishShifts ==
  ASSUME TagsTypeOK, NEW r \in Rooms, NEW users \in SUBSET Users, Publish(r, users), Subscribed,
         NEW x, x = [room |-> r, publishers |-> users]
  PROVE  /\ Len(queue) \in Nat
         /\ \/ /\ Len(queue') = Len(queue) + 1
               /\ \A i \in 1..Len(queue) : queue'[i] = queue[i]
               /\ queue'[Len(queue) + 1] = x
            \/ /\ Len(queue) > 0 /\ Len(queue') = Len(queue)
               /\ \A i \in 1..(Len(queue) - 1) : queue'[i] = queue[i + 1]
               /\ queue'[Len(queue)] = x
               /\ ~Queued(queue[1].room, queue') => Population(GuildOf[queue[1].room]) \subseteq excused'
<1> DEFINE q == Append(queue, x)
<1>1. queue \in Seq(Snapshots) /\ x \in Snapshots
  BY DEF TagsTypeOK, Snapshots
<1> HIDE DEF q
<1>2. /\ q \in Seq(Snapshots) /\ Len(q) = Len(queue) + 1 /\ Len(queue) \in Nat
      /\ \A i \in 1..Len(queue) : q[i] = queue[i]
      /\ q[Len(queue) + 1] = x
  BY <1>1 DEF q
<1>3. /\ q # <<>>
  BY <1>2
<1>4. /\ Tail(q) \in Seq(Snapshots) /\ Len(Tail(q)) = Len(q) - 1
      /\ \A i \in 1..Len(Tail(q)) : Tail(q)[i] = q[i + 1]
      /\ Head(q) = q[1]
  BY <1>2, <1>3, TailShifts
<1>5. CASE Len(q) <= Capacity
  BY <1>2, <1>5 DEF Publish, q
<1>6. CASE ~(Len(q) <= Capacity)
  <2>1. /\ queue' = Tail(q)
        /\ ~Queued(Head(q).room, Tail(q)) => Population(GuildOf[Head(q).room]) \subseteq excused'
    BY <1>6 DEF Publish, q
  <2>2. Len(queue) > 0 /\ Head(q) = queue[1]
    BY <1>2, <1>4, <1>6, TagsAssumption
  <2>3. /\ Len(queue') = Len(queue)
        /\ \A i \in 1..(Len(queue) - 1) : queue'[i] = queue[i + 1]
        /\ queue'[Len(queue)] = x
    BY <1>2, <1>4, <2>1, <2>2
  <2> QED
    BY <1>2, <2>1, <2>2, <2>3
<1> QED
  BY <1>5, <1>6

\* At first nothing is known and nothing is changed.
LEMMA InitQuiet == Init => QuietInv
<1> SUFFICES ASSUME Init PROVE QuietInv
  OBVIOUS
<1> USE DEF Init
<1>1. PhaseInv
  BY DEF PhaseInv
<1>2. SpokenInv
  BY DEF SpokenInv
<1>3. NewestInv
  BY DEF NewestInv
<1>4. MemberInv
  BY DEF MemberInv, MemberOK, Busy, Subscribed
<1> QED
  BY <1>1, <1>2, <1>3, <1>4 DEF QuietInv

\* Who is excused stays so.
LEMMA ExcusedGrows ==
  ASSUME TagsInv, Next
  PROVE  excused \subseteq excused'
<1>1. CASE \E r \in Rooms, users \in SUBSET Users : Publish(r, users)
  BY <1>1, PublishExcuses DEF TagsInv, SavedIsClean
<1>2. CASE ~\E r \in Rooms, users \in SUBSET Users : Publish(r, users)
  BY <1>2 DEF Next, Announce, Rename, Crash, Spawn, Sweep, Receive, Flush, Apply, UpdateTags, Fetch,
     Remember, Edit, Undo, Forget, Restore, Fault, NoFault
<1> QED
  BY <1>1, <1>2

\* A nickname's task goes from stage to stage, and the loop waits for it.
LEMMA TaskSteps ==
  ASSUME TagsInv, Fetch \/ Remember \/ Edit \/ Undo \/ Forget \/ Restore
  PROVE  /\ UNCHANGED Loop /\ UNCHANGED world /\ task \in Tasks /\ task # None
         /\ \/ task' = None
            \/ /\ task'.member = task.member
               /\ <<task.stage, task'.stage>> \in
                     {<<"fetch", "remember">>, <<"remember", "edit">>,
                      <<"edit", "undo">>, <<"forget", "restore">>}
<1>1. UNCHANGED Loop /\ UNCHANGED world
  BY DEF Fetch, Remember, Edit, Undo, Forget, Restore, Loop, world
<1>2. task \in Tasks /\ task # None
  BY DEF TagsInv, SavedIsClean, TagsTypeOK, Fetch, Remember, Edit, Undo, Forget, Restore, At
<1>5. CASE Fetch
  BY <1>1, <1>2, <1>5 DEF Fetch, At, Tasks
<1>6. CASE Remember
  BY <1>1, <1>2, <1>6 DEF Remember, At, Tasks
<1>7. CASE Edit
  BY <1>1, <1>2, <1>7 DEF Edit, At, Tasks
<1>8. CASE Forget
  BY <1>1, <1>2, <1>8 DEF Forget, At, Tasks
<1>9. CASE Undo \/ Restore
  BY <1>1, <1>2, <1>9 DEF Undo, Restore
<1> QED
  BY <1>1, <1>2, <1>5, <1>6, <1>7, <1>8, <1>9

\* Each phase has what it needs.
LEMMA PhaseKeeps ==
  ASSUME TagsInv, QuietInv, Next
  PROVE  PhaseInv'
<1> USE DEF QuietInv, PhaseInv, Subscribed
<1>1. task # None => task \in Tasks
  BY DEF TagsInv, SavedIsClean, TagsTypeOK
<1>2. CASE \E r \in Rooms, users \in SUBSET Users : Publish(r, users)
  BY <1>2 DEF Publish
<1>3. CASE Spawn \/ Crash \/ Sweep
  BY <1>3 DEF Spawn, Crash, Sweep, Run, Begin
<1>4. CASE Receive \/ Flush \/ Apply
  BY <1>4 DEF Receive, Flush, Apply, Waiting
<1>5. CASE UpdateTags
  BY <1>5 DEF UpdateTags, Begin
<1>6. CASE Fetch \/ Remember \/ Edit \/ Undo \/ Forget \/ Restore
  <2>1. UNCHANGED Loop /\ task # None
    BY <1>6, TaskSteps
  <2>2. \/ task' = None
        \/ task.stage = "forget" /\ task'.stage = "restore"
        \/ task.stage \notin {"forget", "restore"}
    BY <1>6, TaskSteps
  <2> QED
    BY <2>1, <2>2 DEF Loop
<1>7. CASE \E m \in Members, x \in Nicknames : Rename(m, x)
  BY <1>7 DEF Rename
<1> QED
  BY <1>2, <1>3, <1>4, <1>5, <1>6, <1>7 DEF Next, Announce

\* A room that has not published is nowhere.
LEMMA SpokenKeeps ==
  ASSUME TagsInv, QuietInv, Next
  PROVE  SpokenInv'
<1> USE DEF QuietInv, SpokenInv
<1>1. TagsTypeOK
  BY DEF TagsInv, SavedIsClean
<1>2. CASE \E r \in Rooms, users \in SUBSET Users : Publish(r, users)
  <2>1. PICK r \in Rooms, users \in SUBSET Users : Publish(r, users)
    BY <1>2
  <2>2. CASE ~Subscribed
    BY <2>1, <2>2 DEF Publish
  <2>3. CASE Subscribed
    <3> DEFINE x == [room |-> r, publishers |-> users]
    <3>1. spoken' = spoken \cup {r} /\ UNCHANGED <<pending, applying, tagged>>
      BY <2>1, <2>3 DEF Publish
    <3>2. x.room = r /\ x = [room |-> r, publishers |-> users]
      OBVIOUS
    <3> HIDE DEF x
    <3>3. \A i \in 1..Len(queue') : queue'[i].room \in spoken'
      <4>1. \A i \in 1..Len(queue) : queue[i].room \in spoken'
        BY <3>1
      <4>2. x.room \in spoken'
        BY <3>1, <3>2
      <4>3. CASE /\ Len(queue') = Len(queue) + 1
                 /\ \A i \in 1..Len(queue) : queue'[i] = queue[i]
                 /\ queue'[Len(queue) + 1] = x
        <5>1. Len(queue) \in Nat
          BY <1>1 DEF TagsTypeOK
        <5> QED
          BY <4>1, <4>2, <4>3, <5>1
      <4>4. CASE /\ Len(queue) > 0 /\ Len(queue') = Len(queue)
                 /\ \A i \in 1..(Len(queue) - 1) : queue'[i] = queue[i + 1]
                 /\ queue'[Len(queue)] = x
        <5>1. Len(queue) \in Nat
          BY <1>1 DEF TagsTypeOK
        <5> QED
          BY <4>1, <4>2, <4>4, <5>1
      <4> QED
        BY <1>1, <2>1, <2>3, <3>2, <4>3, <4>4, PublishShifts
    <3> QED
      BY <3>1, <3>3
  <2> QED
    BY <2>2, <2>3
<1>3. CASE Spawn \/ Crash \/ Sweep
  BY <1>3 DEF Spawn, Crash, Sweep, Run, Begin, PhaseInv, Subscribed
<1>4. CASE Receive
  <2>1. /\ Len(queue) \in Nat \ {0} /\ queue' = Tail(queue) /\ Len(queue') = Len(queue) - 1
        /\ \A i \in 1..Len(queue') : queue'[i] = queue[i + 1]
        /\ Head(queue) = queue[1]
    BY <1>1, <1>4, TailShifts DEF Receive, TagsTypeOK
  <2>2. UNCHANGED <<spoken, applying, tagged>>
    BY <1>4 DEF Receive
  <2>3. \A i \in 1..Len(queue') : queue'[i].room \in spoken'
    BY <2>1, <2>2
  <2>4. \A r \in Rooms : pending'[r] # None => r \in spoken'
    BY <1>1, <1>4, <2>1, <2>2 DEF Receive, TagsTypeOK
  <2> QED
    BY <2>2, <2>3, <2>4
<1>5. CASE Flush \/ Apply
  BY <1>1, <1>5 DEF Flush, Apply, Waiting, TagsTypeOK
<1>6. CASE UpdateTags
  BY <1>1, <1>6 DEF UpdateTags, Begin, Wanted, Stale, TagsTypeOK, Snapshots
<1>7. CASE Fetch \/ Remember \/ Edit \/ Undo \/ Forget \/ Restore
  BY <1>7 DEF Fetch, Remember, Edit, Undo, Forget, Restore, Loop
<1>8. CASE \E m \in Members, x \in Nicknames : Rename(m, x)
  BY <1>8 DEF Rename
<1> QED
  BY <1>2, <1>3, <1>4, <1>5, <1>6, <1>7, <1>8 DEF Next, Announce

\* The newest snapshot queued of each room says who is live in it.
QueueNewest ==
  \A r \in Rooms, i \in 1..Len(queue) : Newest(r, i) => queue[i].publishers = live[r]

\* The newest word on a room, once none of it is queued.
Arrived(r) ==
  \/ Lost(GuildOf[r])
  \/ (pending[r] # None /\ pending[r] = live[r])
  \/ /\ pending[r] = None /\ applying # None
     /\ applying.room = r /\ applying.publishers = live[r]
  \/ /\ pending[r] = None /\ (applying # None => applying.room # r)
     /\ HasOneRoom(GuildOf[r]) => Tagged(GuildOf[r]) = live[r]

LEMMA NewestParts ==
  NewestInv <=> QueueNewest /\ \A r \in spoken : ~Queued(r, queue) => Arrived(r)
BY DEF NewestInv, QueueNewest, Arrived

\* A snapshot is published: it is the newest of its room, and what it overwrites
\* is lost or has a later one behind it.
LEMMA PublishNewest ==
  ASSUME TagsTypeOK, PhaseInv, SpokenInv, NewestInv, excused \subseteq excused',
         NEW r \in Rooms, NEW users \in SUBSET Users, Publish(r, users)
  PROVE  NewestInv'
<1>1. UNCHANGED <<pending, applying, tagged>> /\ live' = [live EXCEPT ![r] = users]
  BY DEF Publish
<1>2. /\ live'[r] = users
      /\ \A s \in Rooms : s # r => live'[s] = live[s]
  BY <1>1 DEF TagsTypeOK
<1>3. CASE ~Subscribed
  <2>1. queue' = <<>> /\ spoken' = {}
    BY <1>3 DEF Publish, PhaseInv
  <2>2. NewestInv'
    BY <2>1 DEF NewestInv
  <2> QED
    BY <2>2
<1>4. CASE Subscribed
  <2> DEFINE x == [room |-> r, publishers |-> users]
  <2>1. x.room = r /\ x.publishers = users /\ x = [room |-> r, publishers |-> users]
    OBVIOUS
  <2> HIDE DEF x
  <2>2. spoken' = spoken \cup {r} /\ Len(queue) \in Nat
    BY <1>4 DEF Publish, TagsTypeOK
  <2>3. QueueNewest /\ \A s \in spoken : ~Queued(s, queue) => Arrived(s)
    BY NewestParts
  <2>4. ASSUME NEW s \in spoken, ~Queued(s, queue), s # r
        PROVE  Arrived(s)'
    BY <1>1, <1>2, <2>3, <2>4 DEF Arrived, Lost, Tagged, TagsTypeOK
  <2>5. CASE /\ Len(queue') = Len(queue) + 1
             /\ \A i \in 1..Len(queue) : queue'[i] = queue[i]
             /\ queue'[Len(queue) + 1] = x
    <3>1. ASSUME NEW s \in Rooms, NEW i \in 1..Len(queue'), Newest(s, i)'
          PROVE  queue'[i].publishers = live'[s]
      <4>1. CASE i = Len(queue) + 1
        BY <1>2, <2>1, <2>2, <2>5, <3>1, <4>1 DEF Newest
      <4>2. CASE i \in 1..Len(queue)
        <5>1. s # r
          BY <2>1, <2>2, <2>5, <3>1, <4>2 DEF Newest
        <5>2. Newest(s, i)
          BY <2>2, <2>5, <3>1, <4>2 DEF Newest
        <5> QED
          BY <1>2, <2>3, <2>5, <4>2, <5>1, <5>2 DEF QueueNewest
      <4> QED
        BY <2>2, <2>5, <4>1, <4>2
    <3>2. Queued(r, queue')
      BY <2>1, <2>2, <2>5 DEF Queued
    <3>3. ASSUME NEW s \in spoken', ~Queued(s, queue')
          PROVE  Arrived(s)'
      <4>1. s # r /\ s \in spoken
        BY <2>2, <3>2, <3>3
      <4>2. ~Queued(s, queue)
        BY <2>2, <2>5, <3>3 DEF Queued
      <4> QED
        BY <2>4, <4>1, <4>2
    <3> QED
      BY <3>1, <3>3 DEF NewestInv, Arrived
  <2>6. CASE /\ Len(queue) > 0 /\ Len(queue') = Len(queue)
             /\ \A i \in 1..(Len(queue) - 1) : queue'[i] = queue[i + 1]
             /\ queue'[Len(queue)] = x
             /\ ~Queued(queue[1].room, queue') => Population(GuildOf[queue[1].room]) \subseteq excused'
    <3>1. ASSUME NEW s \in Rooms, NEW i \in 1..Len(queue'), Newest(s, i)'
          PROVE  queue'[i].publishers = live'[s]
      <4>1. CASE i = Len(queue)
        BY <1>2, <2>1, <2>2, <2>6, <3>1, <4>1 DEF Newest
      <4>2. CASE i \in 1..(Len(queue) - 1)
        <5>1. s # r
          BY <2>1, <2>2, <2>6, <3>1, <4>2 DEF Newest
        <5>2. Newest(s, i + 1)
          <6>1. queue[i + 1].room = s
            BY <2>6, <3>1, <4>2 DEF Newest
          <6>2. ASSUME NEW j \in (i + 2)..Len(queue)
                PROVE  queue[j].room # s
            <7>1. /\ j - 1 \in (i + 1)..Len(queue') /\ j - 1 \in 1..(Len(queue) - 1)
                  /\ (j - 1) + 1 = j
              BY <2>2, <2>6, <4>2, <6>2
            <7>2. queue'[j - 1].room # s /\ queue'[j - 1] = queue[(j - 1) + 1]
              BY <2>6, <3>1, <7>1 DEF Newest
            <7> QED
              BY <7>1, <7>2
          <6>3. (i + 1) + 1 = i + 2
            BY <2>2, <4>2
          <6> QED
            BY <6>1, <6>2, <6>3 DEF Newest
        <5>3. i + 1 \in 1..Len(queue)
          BY <2>2, <4>2
        <5> QED
          BY <1>2, <2>3, <2>6, <4>2, <5>1, <5>2, <5>3 DEF QueueNewest
      <4> QED
        BY <2>2, <2>6, <4>1, <4>2
    <3>2. Queued(r, queue')
      BY <2>1, <2>2, <2>6 DEF Queued
    <3>3. ASSUME NEW s \in spoken', ~Queued(s, queue')
          PROVE  Arrived(s)'
      <4>1. s # r /\ s \in spoken
        BY <2>2, <3>2, <3>3
      <4>2. CASE queue[1].room = s
        BY <2>6, <3>3, <4>2 DEF Arrived, Lost
      <4>3. CASE queue[1].room # s
        <5>1. ASSUME NEW j \in 1..Len(queue)
              PROVE  queue[j].room # s
          <6>1. CASE j = 1
            BY <4>3, <6>1
          <6>2. CASE j # 1
            <7>1. j - 1 \in 1..(Len(queue) - 1) /\ (j - 1) + 1 = j /\ j - 1 \in 1..Len(queue')
              BY <2>2, <2>6, <5>1, <6>2
            <7> QED
              BY <2>6, <3>3, <7>1 DEF Queued
          <6> QED
            BY <6>1, <6>2
        <5> QED
          BY <2>4, <4>1, <5>1 DEF Queued
      <4> QED
        BY <4>2, <4>3
    <3> QED
      BY <3>1, <3>3 DEF NewestInv, Arrived
  <2> QED
    BY <1>4, <2>1, <2>5, <2>6, PublishShifts
<1> QED
  BY <1>3, <1>4

\* A snapshot is received: the newest of a room is pending when none is behind it.
LEMMA ReceiveNewest ==
  ASSUME TagsTypeOK, PhaseInv, SpokenInv, NewestInv, Receive
  PROVE  NewestInv'
<1>1. /\ Len(queue) \in Nat \ {0} /\ Len(queue') = Len(queue) - 1
      /\ \A i \in 1..Len(queue') : queue'[i] = queue[i + 1]
      /\ Head(queue) = queue[1]
  BY TailShifts DEF Receive, TagsTypeOK
<1>2. queue[1] \in Snapshots
  BY <1>1 DEF TagsTypeOK
<1>3. /\ UNCHANGED <<live, spoken, applying, tagged, excused>>
      /\ pending' = [pending EXCEPT ![queue[1].room] = queue[1].publishers]
      /\ applying = None
  BY <1>1 DEF Receive, NoFault, world, PhaseInv
<1>4. QueueNewest /\ \A s \in spoken : ~Queued(s, queue) => Arrived(s)
  BY NewestParts
<1>5. ASSUME NEW s \in Rooms, NEW i \in 1..Len(queue'), Newest(s, i)'
      PROVE  queue'[i].publishers = live'[s]
  <2>1. Newest(s, i + 1)
    <3>1. queue[i + 1].room = s
      BY <1>1, <1>5 DEF Newest
    <3>2. ASSUME NEW j \in (i + 2)..Len(queue)
          PROVE  queue[j].room # s
      <4>1. /\ j - 1 \in (i + 1)..Len(queue') /\ j - 1 \in 1..Len(queue')
            /\ (j - 1) + 1 = j
        BY <1>1, <1>5, <3>2
      <4>2. queue'[j - 1].room # s /\ queue'[j - 1] = queue[(j - 1) + 1]
        BY <1>1, <1>5, <4>1 DEF Newest
      <4> QED
        BY <4>1, <4>2
    <3>3. (i + 1) + 1 = i + 2
      BY <1>1, <1>5
    <3> QED
      BY <3>1, <3>2, <3>3 DEF Newest
  <2>2. i + 1 \in 1..Len(queue) /\ queue'[i] = queue[i + 1]
    BY <1>1, <1>5
  <2> QED
    BY <1>3, <1>4, <2>1, <2>2 DEF QueueNewest
<1>6. ASSUME NEW s \in spoken, ~Queued(s, queue')
      PROVE  Arrived(s)'
  <2>1. \A j \in 2..Len(queue) : queue[j].room # s
    <3>1. SUFFICES ASSUME NEW j \in 2..Len(queue)
                   PROVE  queue[j].room # s
      OBVIOUS
    <3>2. j - 1 \in 1..Len(queue') /\ (j - 1) + 1 = j
      BY <1>1
    <3> QED
      BY <1>1, <1>6, <3>2 DEF Queued
  <2>2. CASE queue[1].room = s
    <3>1. Newest(s, 1) /\ 1 \in 1..Len(queue) /\ s \in Rooms
      BY <1>1, <2>1, <2>2 DEF Newest, TagsTypeOK
    <3>2. queue[1].publishers = live[s]
      BY <1>4, <3>1 DEF QueueNewest
    <3>3. live[s] # None
      BY <3>1, TagsAssumption DEF TagsTypeOK
    <3> QED
      BY <1>3, <2>2, <3>1, <3>2, <3>3 DEF Arrived, TagsTypeOK
  <2>3. CASE queue[1].room # s
    <3>1. ~Queued(s, queue)
      <4>1. \A j \in 1..Len(queue) : j = 1 \/ j \in 2..Len(queue)
        BY <1>1
      <4> QED
        BY <2>1, <2>3, <4>1 DEF Queued
    <3>2. Arrived(s) /\ pending'[s] = pending[s]
      BY <1>3, <1>4, <2>3, <3>1 DEF TagsTypeOK
    <3> QED
      BY <1>3, <3>2 DEF Arrived, Lost, Tagged
  <2> QED
    BY <2>2, <2>3
<1> QED
  BY <1>3, <1>5, <1>6 DEF NewestInv, Arrived

\* A snapshot pending is taken, or skipped at the cost of its guild.
LEMMA ApplyNewest ==
  ASSUME TagsTypeOK, PhaseInv, SpokenInv, NewestInv, excused \subseteq excused', Apply
  PROVE  NewestInv'
<1>1. UNCHANGED <<live, queue, spoken, tagged>> /\ applying = None
  BY DEF Apply, world
<1>2. QueueNewest /\ \A s \in spoken : ~Queued(s, queue) => Arrived(s)
  BY NewestParts
<1>3. QueueNewest'
  BY <1>1, <1>2 DEF QueueNewest, Newest
<1>4. ASSUME NEW s \in spoken, ~Queued(s, queue)
      PROVE  Arrived(s)'
  <2>1. Arrived(s) /\ s \in Rooms
    BY <1>2, <1>4 DEF TagsTypeOK
  <2>2. CASE UNCHANGED <<pending, applying>>
    BY <1>1, <2>1, <2>2 DEF Arrived, Lost, Tagged
  <2>3. ASSUME NEW r \in Waiting, pending' = [pending EXCEPT ![r] = None],
               applying' = [room |-> r, publishers |-> pending[r]]
        PROVE  Arrived(s)'
    <3>1. r \in Rooms /\ pending[r] # None /\ pending[r] \in SUBSET Users
      BY DEF Waiting, TagsTypeOK
    <3>2. applying' # None /\ applying'.room = r /\ applying'.publishers = pending[r]
      BY <2>3, <3>1, TagsAssumption DEF Snapshots
    <3>3. CASE s = r
      BY <1>1, <2>1, <2>3, <3>1, <3>2, <3>3 DEF Arrived, Lost, TagsTypeOK
    <3>4. CASE s # r
      BY <1>1, <2>1, <2>3, <3>1, <3>2, <3>4 DEF Arrived, Lost, Tagged, TagsTypeOK
    <3> QED
      BY <3>3, <3>4
  <2>4. ASSUME NEW r \in Waiting, pending' = [pending EXCEPT ![r] = None],
               Population(GuildOf[r]) \subseteq excused', UNCHANGED applying
        PROVE  Arrived(s)'
    <3>1. CASE s = r
      BY <2>4, <3>1 DEF Arrived, Lost
    <3>2. CASE s # r
      BY <1>1, <2>1, <2>4, <3>2 DEF Arrived, Lost, Tagged, TagsTypeOK
    <3> QED
      BY <3>1, <3>2
  <2> QED
    BY <2>2, <2>3, <2>4 DEF Apply, Fault
<1> QED
  BY <1>1, <1>3, <1>4 DEF NewestInv, QueueNewest, Arrived

\* A snapshot is applied: when it is, exactly its publishers are tagged.
LEMMA UpdateNewest ==
  ASSUME TagsTypeOK, PhaseInv, SpokenInv, NewestInv, UpdateTags
  PROVE  NewestInv'
<1> DEFINE g == GuildOf[applying.room]
<1>1. /\ UNCHANGED <<live, queue, spoken, pending, excused>>
      /\ applying # None /\ applying \in Snapshots
  BY DEF UpdateTags, world, NoFault, TagsTypeOK
<1>2. QueueNewest /\ \A s \in spoken : ~Queued(s, queue) => Arrived(s)
  BY NewestParts
<1>3. QueueNewest'
  BY <1>1, <1>2 DEF QueueNewest, Newest
<1>4. ASSUME NEW s \in spoken, ~Queued(s, queue)
      PROVE  Arrived(s)'
  <2>1. Arrived(s) /\ s \in Rooms
    BY <1>2, <1>4 DEF TagsTypeOK
  <2>2. CASE applying' = applying
    <3>1. CASE applying.room = s
      BY <1>1, <2>1, <2>2, <3>1 DEF Arrived, Lost
    <3>2. CASE applying.room # s
      <4>1. HasOneRoom(GuildOf[s]) => GuildOf[s] # g
        BY <1>1, <2>1, <3>2 DEF HasOneRoom, Snapshots
      <4>2. GuildOf[s] # g => Tagged(GuildOf[s])' = Tagged(GuildOf[s])
        <5>1. \A m : m[1] # g => (m \in tagged' <=> m \in tagged)
          BY DEF UpdateTags, Wanted, Stale
        <5> QED
          BY <5>1 DEF Tagged
      <4> QED
        BY <1>1, <2>1, <2>2, <3>2, <4>1, <4>2 DEF Arrived, Lost
    <3> QED
      BY <3>1, <3>2
  <2>3. CASE applying' = None /\ tagged' = tagged /\ Wanted \subseteq tagged /\ Stale = {}
    <3>1. Tagged(g) = applying.publishers
      <4>1. applying.publishers \subseteq Users
        BY <1>1 DEF Snapshots
      <4>2. ASSUME NEW u \in Users
            PROVE  <<g, u>> \in tagged <=> u \in applying.publishers
        BY <2>3, <4>1 DEF Wanted, Stale
      <4> QED
        BY <4>1, <4>2 DEF Tagged
    <3>2. Tagged(GuildOf[s])' = Tagged(GuildOf[s])
      BY <2>3 DEF Tagged
    <3> QED
      BY <1>1, <2>1, <2>3, <3>1, <3>2 DEF Arrived, Lost
  <2> QED
    BY <2>2, <2>3 DEF UpdateTags
<1> QED
  BY <1>1, <1>3, <1>4 DEF NewestInv, QueueNewest, Arrived

\* The newest word on a room is never overtaken by an older one.
LEMMA NewestKeeps ==
  ASSUME TagsInv, QuietInv, Next
  PROVE  NewestInv'
<1>1. TagsTypeOK /\ PhaseInv /\ SpokenInv /\ NewestInv /\ excused \subseteq excused'
  BY ExcusedGrows DEF TagsInv, SavedIsClean, QuietInv
<1>2. CASE \E r \in Rooms, users \in SUBSET Users : Publish(r, users)
  BY <1>1, <1>2, PublishNewest
<1>3. CASE Receive \/ Apply \/ UpdateTags
  BY <1>1, <1>3, ReceiveNewest, ApplyNewest, UpdateNewest
<1>4. CASE queue' = <<>> /\ spoken' = {}
  BY <1>4 DEF NewestInv
<1>5. CASE UNCHANGED <<live, queue, spoken, pending, applying, tagged>>
  BY <1>1, <1>5 DEF NewestInv, Newest, Queued, Lost, Tagged
<1>6. CASE Spawn \/ Crash \/ Sweep
  BY <1>1, <1>4, <1>5, <1>6 DEF Spawn, Crash, Sweep, Run, world, PhaseInv
<1>7. CASE Flush \/ \E m \in Members, x \in Nicknames : Rename(m, x)
  BY <1>5, <1>7 DEF Flush, Rename, world
<1>8. CASE Fetch \/ Remember \/ Edit \/ Undo \/ Forget \/ Restore
  BY <1>5, <1>8, TaskSteps DEF Loop, world
<1> QED
  BY <1>2, <1>3, <1>6, <1>7, <1>8 DEF Next, Announce

\* What a task does to the nickname and the row of its member, if no call fails.
LEMMA MemberSteps ==
  ASSUME TagsInv, QuietInv, Fetch \/ Remember \/ Edit \/ Undo \/ Forget \/ Restore,
         NEW m \in Members \ excused', m \in Members \ excused
  PROVE  MemberOK(m)'
<1> DEFINE w == task.member
           chosen == [name |-> own[m], tag |-> FALSE]
<1>1. /\ task \in Tasks /\ task # None /\ w \in Members
      /\ UNCHANGED <<own, immune, phase, left, tagged>>
  BY TaskSteps DEF Loop, world, Tasks
<1>2. TagsTypeOK /\ TaskInv /\ PhaseInv /\ MemberOK(m) /\ TagIsOwed
  BY DEF TagsInv, SavedIsClean, QuietInv, MemberInv
<1>3. /\ nick[m] \in Nicknames /\ nick[m].tag \in BOOLEAN
      /\ saved[m] \in Nicknames \cup {None}
      /\ task.nick \in Nicknames \cup {None}
  BY <1>1, <1>2 DEF TagsTypeOK, Tasks, Nicknames
<1>4. CASE w # m
  <2>1. UNCHANGED <<nick[m], saved[m]>>
    BY <1>1, <1>2, <1>4 DEF Fetch, Remember, Edit, Undo, Forget, Restore, Who, TagsTypeOK
  <2>2. ~Busy(m) /\ ~Busy(m)'
    BY <1>4, TaskSteps DEF Busy
  <2> QED
    BY <1>1, <1>2, <2>1, <2>2 DEF MemberOK, Subscribed
<1>5. CASE w = m
  <2>1. Busy(m)
    BY <1>1, <1>5 DEF Busy
  <2>2. /\ nick[m].name = own[m]
        /\ saved[m] # None => saved[m] = chosen
        /\ task.nick # None => task.nick = chosen
        /\ m \in tagged <=> task.stage \notin {"forget", "restore"}
        /\ task.stage \in {"remember", "edit"} => m \notin immune
        /\ task.stage \in {"fetch", "restore"} => saved[m] = None
    BY <1>2, <2>1 DEF MemberOK, Busy
  <2>3. phase = "flush" \/ (phase = "sweep" /\ task.stage \in {"forget", "restore"})
    BY <1>1, <1>2 DEF PhaseInv, TagsTypeOK, Phases
  <2>4. chosen \in Nicknames /\ chosen.name = own[m] /\ chosen.tag = FALSE /\ chosen # None
    <3>1. own[m] \in Names \cup {None}
      BY <1>2 DEF TagsTypeOK
    <3>2. chosen \in Nicknames /\ chosen.name = own[m] /\ chosen.tag = FALSE
      BY <3>1 DEF Nicknames
    <3> QED
      BY <3>2, TagsAssumption
  <2>5. nick[m].tag = TRUE => saved[m] # None \/ task.stage = "restore"
    <3>1. nick[m].tag => saved[m] # None \/ task.stage = "restore"
      BY <1>2, Zenon DEF TagIsOwed
    <3> QED
      BY <3>1, Zenon
  <2>6. nick[m].tag = FALSE => nick[m] = chosen
    BY <1>3, <2>2 DEF Nicknames
  <2> DEFINE Moved ==
        /\ nick'[m].name = own[m] /\ nick'[m].tag \in BOOLEAN
        /\ saved'[m] \in {chosen, None}
        /\ task' # None =>
             /\ task'.member = m /\ task'.nick \in {chosen, None}
             /\ m \in tagged <=> task'.stage \notin {"forget", "restore"}
             /\ task'.stage \in {"remember", "edit"} => m \notin immune
             /\ task'.stage \in {"fetch", "restore"} => saved'[m] = None
        /\ phase = "sweep" /\ saved'[m] # None => task' # None
        /\ phase = "flush" /\ task' = None =>
             /\ nick'[m].tag = TRUE <=> m \in tagged \ immune
             /\ saved'[m] # None <=> m \in tagged \ immune
  <2>7. ASSUME Moved PROVE MemberOK(m)'
    <3>1. Busy(m)' <=> task' # None
      BY <2>7 DEF Busy
    <3>2. Subscribed' <=> phase = "flush"
      BY <1>1, <2>3 DEF Subscribed
    <3>3. own'[m] = own[m] /\ phase' = phase /\ tagged' = tagged /\ immune' = immune
      BY <1>1
    <3>4. [name |-> own'[m], tag |-> FALSE] = chosen
      BY <3>3
    <3> HIDE DEF chosen
    <3> QED
      BY <2>7, <3>1, <3>2, <3>3, <3>4 DEF MemberOK
  <2> HIDE DEF chosen
  <2>8. CASE Fetch
    <3>1. /\ saved' = saved /\ nick' = nick /\ task.stage = "fetch"
          /\ \/ task' = None /\ (m \in immune \/ nick[m].tag)
             \/ /\ ~(m \in immune) /\ ~nick[m].tag
                /\ task' = [task EXCEPT !.stage = "remember", !.nick = nick[m]]
      BY <1>5, <2>8 DEF Fetch, Fault, At, Who
    <3>2. saved[m] = None /\ m \in tagged /\ phase = "flush"
      BY <2>2, <2>3, <3>1
    <3>3. nick[m].tag = FALSE /\ nick[m] = chosen
      BY <1>3, <2>5, <2>6, <3>1, <3>2
    <3>4. CASE task' = None
      <4>1. m \in immune
        <5>1. ~nick[m].tag
          BY <3>3, Zenon
        <5>2. task' # None \/ m \in immune \/ nick[m].tag
          <6>1. CASE ~(m \in immune) /\ ~nick[m].tag
                     /\ task' = [task EXCEPT !.stage = "remember", !.nick = nick[m]]
            <7>1. task' \in Tasks
              BY <1>1, <1>3, <6>1 DEF Tasks, Stages
            <7> QED
              BY <7>1, TagsAssumption
          <6> QED
            BY <3>1, <6>1, Zenon
        <5> QED
          BY <3>4, <5>1, <5>2, Zenon
      <4>2. Moved
        BY <2>2, <3>1, <3>2, <3>3, <3>4, <4>1
      <4> QED
        BY <2>7, <4>2
    <3>5. CASE task' = [task EXCEPT !.stage = "remember", !.nick = nick[m]] /\ m \notin immune
      <4>1. /\ task' \in Tasks
            /\ task'.stage = "remember" /\ task'.nick = nick[m] /\ task'.member = m
        BY <1>1, <1>3, <1>5, <3>5 DEF Tasks, Stages
      <4>2. task' # None
        BY <4>1, TagsAssumption
      <4>3. Moved
        BY <2>2, <3>1, <3>2, <3>3, <3>5, <4>1, <4>2
      <4> QED
        BY <2>7, <4>3
    <3> QED
      BY <3>1, <3>4, <3>5
  <2>9. CASE Remember
    <3>1. /\ nick' = nick /\ task.stage = "remember"
          /\ saved' = [saved EXCEPT ![m] = IF saved[m] = None THEN task.nick ELSE saved[m]]
          /\ task' = [task EXCEPT !.stage = "edit"]
      BY <1>5, <2>9 DEF Remember, Fault, At, Who
    <3>2. task.nick = chosen /\ m \in tagged /\ m \notin immune
      BY <1>1, <1>2, <2>2, <3>1 DEF TaskInv
    <3>3. saved'[m] = chosen
      BY <1>2, <2>2, <3>1, <3>2 DEF TagsTypeOK
    <3>4. /\ task' \in Tasks
          /\ task'.stage = "edit" /\ task'.nick = chosen /\ task'.member = m
      BY <1>1, <1>5, <3>1, <3>2 DEF Tasks, Stages
    <3>5. task' # None
      BY <3>4, TagsAssumption
    <3>6. Moved
      BY <1>3, <2>2, <3>1, <3>2, <3>3, <3>4, <3>5
    <3> QED
      BY <2>7, <3>6
  <2>10. CASE Edit
    <3>1. /\ saved' = saved /\ task.stage = "edit" /\ task' = None
          /\ nick' = [nick EXCEPT ![m] = [task.nick EXCEPT !.tag = TRUE]]
      BY <1>5, <2>10 DEF Edit, Fault, At, Who
    <3>2. task.nick = chosen /\ m \in tagged /\ m \notin immune /\ saved[m] = chosen
      BY <1>1, <1>2, <1>5, <2>2, <3>1 DEF TaskInv
    <3>3. nick'[m] = [chosen EXCEPT !.tag = TRUE]
      BY <1>2, <3>1, <3>2 DEF TagsTypeOK
    <3>4. nick'[m].name = own[m] /\ nick'[m].tag = TRUE
      BY <2>4, <3>3 DEF Nicknames
    <3>5. phase = "flush"
      BY <2>3, <3>1
    <3>6. Moved
      BY <2>4, <3>1, <3>2, <3>4, <3>5
    <3> QED
      BY <2>7, <3>6
  <2>11. CASE Forget
    <3>1. /\ nick' = nick /\ task.stage = "forget" /\ saved' = [saved EXCEPT ![m] = None]
          /\ task' = IF saved[m] = None THEN None
                     ELSE [task EXCEPT !.stage = "restore", !.nick = saved[m]]
      BY <1>5, <2>11 DEF Forget, Fault, At, Who
    <3>2. saved'[m] = None /\ m \notin tagged
      BY <1>2, <2>2, <3>1 DEF TagsTypeOK
    <3>3. CASE saved[m] = None
      <4>1. nick[m].tag = FALSE
        BY <1>3, <2>5, <3>1, <3>3
      <4>2. Moved
        BY <1>3, <2>2, <3>1, <3>2, <3>3, <4>1
      <4> QED
        BY <2>7, <4>2
    <3>4. CASE saved[m] # None
      <4>1. /\ task' \in Tasks
            /\ task'.stage = "restore" /\ task'.nick = saved[m] /\ task'.member = m
        BY <1>1, <1>3, <1>5, <3>1, <3>4 DEF Tasks, Stages
      <4>2. task' # None
        BY <4>1, TagsAssumption
      <4>3. Moved
        BY <1>3, <2>2, <3>1, <3>2, <3>4, <4>1, <4>2
      <4> QED
        BY <2>7, <4>3
    <3> QED
      BY <3>3, <3>4
  <2>12. CASE Restore
    <3>1. /\ saved' = saved /\ task.stage = "restore" /\ task' = None
          /\ nick' = [nick EXCEPT ![m] = task.nick]
      BY <1>5, <2>12 DEF Restore, Fault, At, Who
    <3>2. task.nick = chosen /\ m \notin tagged /\ saved[m] = None
      BY <1>1, <1>2, <2>2, <3>1 DEF TaskInv
    <3>3. nick'[m] = chosen
      BY <1>2, <3>1, <3>2 DEF TagsTypeOK
    <3>4. Moved
      BY <2>4, <3>1, <3>2, <3>3
    <3> QED
      BY <2>7, <3>4
  <2>13. CASE Undo
    BY <1>1, <1>2, <1>5, <2>13 DEF Undo, At, TaskInv
  <2> QED
    BY <2>8, <2>9, <2>10, <2>11, <2>12, <2>13
<1> QED
  BY <1>4, <1>5

\* A task begins: its member alone is busy.
LEMMA BeginsTask ==
  ASSUME NEW stage \in Stages, NEW w \in Members, Begin(stage, w), task = None, NEW m \in Members
  PROVE  /\ task' # None /\ task'.stage = stage /\ task'.nick = None
         /\ ~Busy(m) /\ (Busy(m)' <=> m = w)
<1>1. task' \in Tasks /\ task'.stage = stage /\ task'.nick = None /\ task'.member = w
  BY DEF Begin, Tasks
<1>2. task' # None
  BY <1>1, TagsAssumption
<1> QED
  BY <1>1, <1>2 DEF Busy

\* The loop: a member is marked, or unmarked, when a task for them begins.
LEMMA MemberKeeps ==
  ASSUME TagsInv, QuietInv, Next
  PROVE  MemberInv'
<1> SUFFICES ASSUME NEW m \in Members \ excused'
             PROVE  MemberOK(m)'
  BY DEF MemberInv
<1>1. m \in Members \ excused
  BY ExcusedGrows
<1>2. TagsTypeOK /\ PhaseInv /\ MemberOK(m) /\ TagIsOwed
  BY <1>1 DEF TagsInv, SavedIsClean, QuietInv, MemberInv
<1>3. nick[m].tag \in BOOLEAN
  BY <1>1, <1>2 DEF TagsTypeOK, Nicknames
<1>4. nick[m].tag => saved[m] # None \/ Busy(m)
  BY <1>1, <1>2, Zenon DEF TagIsOwed, Busy
<1>5. ASSUME UNCHANGED <<own, immune, nick[m], saved[m], task, tagged, left>>,
             Subscribed' <=> Subscribed, phase' = "sweep" <=> phase = "sweep"
      PROVE  MemberOK(m)'
  BY <1>2, <1>5 DEF MemberOK, Busy
<1>6. CASE \E r \in Rooms, users \in SUBSET Users : Publish(r, users)
  BY <1>5, <1>6 DEF Publish, Subscribed
<1>7. CASE Receive \/ Flush \/ Apply
  BY <1>5, <1>7 DEF Receive, Flush, Apply, Subscribed, world
<1>8. CASE \E w \in Members, x \in Nicknames : Rename(w, x)
  <2>1. PICK w \in Members, x \in Nicknames : Rename(w, x)
    BY <1>8
  <2>2. m # w
    BY <2>1 DEF Rename
  <2>3. nick'[m] = nick[m]
    BY <1>1, <1>2, <2>1, <2>2 DEF Rename, TagsTypeOK
  <2> QED
    BY <1>5, <2>1, <2>3 DEF Rename, Subscribed, world
<1>9. CASE Crash
  BY <1>2, <1>9 DEF Crash, MemberOK, Busy, Subscribed, world
<1>10. CASE Spawn
  <2>1. /\ task' = None /\ task = None /\ tagged' = {} /\ UNCHANGED <<own, immune, nick, saved>>
    BY <1>2, <1>10 DEF Spawn, PhaseInv, Subscribed, world
  <2>2. \/ phase' = "sweep" /\ left' = Rows
        \/ phase' = "select" /\ saved[m] = None
    BY <1>1, <1>10 DEF Spawn, Run, Fault, Rows
  <2>3. CASE phase' = "sweep" /\ left' = Rows
    BY <1>1, <1>2, <2>1, <2>3 DEF MemberOK, Busy, Subscribed, Rows
  <2>4. CASE phase' = "select" /\ saved[m] = None
    <3>1. ~nick[m].tag
      BY <1>4, <2>1, <2>4 DEF Busy
    <3> QED
      BY <1>2, <2>1, <2>4, <3>1 DEF MemberOK, Busy, Subscribed
  <2> QED
    BY <2>2, <2>3, <2>4
<1>11. CASE Sweep
  <2>1. /\ phase = "sweep" /\ task = None /\ tagged' = {} /\ tagged = {}
        /\ UNCHANGED <<own, immune, nick, saved>>
    BY <1>2, <1>11 DEF Sweep, PhaseInv, Subscribed, world
  <2>2. saved[m] # None => m \in left
    BY <1>2, <2>1 DEF MemberOK, Busy
  <2>3. ASSUME NEW w \in left, left' = left \ {w}, Begin("forget", w), phase' = phase
        PROVE  MemberOK(m)'
    <3>1. w \in Members /\ "forget" \in Stages
      BY <1>2 DEF TagsTypeOK, Stages
    <3>2. /\ task' # None /\ task'.stage = "forget" /\ task'.nick = None
          /\ ~Busy(m) /\ (Busy(m)' <=> m = w)
      BY <1>1, <2>1, <2>3, <3>1, BeginsTask
    <3> QED
      BY <1>2, <2>1, <2>2, <2>3, <3>2 DEF MemberOK, Subscribed
  <2>4. CASE left = {} /\ task' = task /\ phase' = "select"
    <3>1. ~nick[m].tag /\ saved[m] = None
      BY <1>4, <2>1, <2>2, <2>4 DEF Busy
    <3> QED
      BY <1>2, <2>1, <2>4, <3>1 DEF MemberOK, Busy, Subscribed
  <2> QED
    BY <1>11, <2>3, <2>4 DEF Sweep, Run
<1>12. CASE UpdateTags
  <2>1. /\ phase = "flush" /\ phase' = phase /\ task = None
        /\ UNCHANGED <<own, immune, nick, saved, left>>
    BY <1>12 DEF UpdateTags, world
  <2>2. /\ nick[m].tag <=> m \in tagged \ immune
        /\ saved[m] # None <=> m \in tagged \ immune
    BY <1>2, <2>1 DEF MemberOK, Busy, Subscribed
  <2>3. ASSUME NEW w \in Members, w \notin tagged, tagged' = tagged \cup {w}, Begin("fetch", w)
        PROVE  MemberOK(m)'
    <3>1. "fetch" \in Stages
      BY DEF Stages
    <3>2. /\ task' # None /\ task'.stage = "fetch" /\ task'.nick = None
          /\ ~Busy(m) /\ (Busy(m)' <=> m = w)
      BY <1>1, <2>1, <2>3, <3>1, BeginsTask
    <3> QED
      BY <1>2, <2>1, <2>2, <2>3, <3>2 DEF MemberOK, Subscribed
  <2>4. ASSUME NEW w \in tagged, tagged' = tagged \ {w}, Begin("forget", w)
        PROVE  MemberOK(m)'
    <3>1. w \in Members /\ "forget" \in Stages
      BY <1>2 DEF TagsTypeOK, Stages
    <3>2. /\ task' # None /\ task'.stage = "forget" /\ task'.nick = None
          /\ ~Busy(m) /\ (Busy(m)' <=> m = w)
      BY <1>1, <2>1, <2>4, <3>1, BeginsTask
    <3> QED
      BY <1>2, <2>1, <2>2, <2>4, <3>2 DEF MemberOK, Subscribed
  <2>5. CASE UNCHANGED <<tagged, task>>
    BY <1>5, <2>1, <2>5 DEF Subscribed
  <2>6. Wanted \subseteq Members
    BY <1>2, <1>12, TagsAssumption DEF UpdateTags, TagsTypeOK, Wanted, Snapshots, Members
  <2> QED
    BY <1>12, <2>3, <2>4, <2>5, <2>6 DEF UpdateTags, Stale
<1>13. CASE Fetch \/ Remember \/ Edit \/ Undo \/ Forget \/ Restore
  BY <1>1, <1>13, MemberSteps
<1> QED
  BY <1>6, <1>7, <1>8, <1>9, <1>10, <1>11, <1>12, <1>13 DEF Next, Announce

\* A step that changes nothing.
LEMMA StutterQuiet == ASSUME QuietInv, UNCHANGED vars PROVE QuietInv'
<1> USE DEF QuietInv, vars
<1>1. PhaseInv' /\ SpokenInv'
  BY DEF PhaseInv, SpokenInv, Subscribed
<1>2. NewestInv'
  BY DEF NewestInv, Newest, Queued, Lost, Tagged
<1>3. MemberInv'
  BY DEF MemberInv, MemberOK, Busy, Subscribed
<1> QED
  BY <1>1, <1>2, <1>3

\* The newest word on every room is on its way to the tags or written in them,
\* and every member not excused is where the announcer believes them to be.
THEOREM QuietInvariant == TagsSpec => []QuietInv
<1>1. QuietInv /\ TagsInv /\ [Next]_vars => QuietInv'
  BY PhaseKeeps, SpokenKeeps, NewestKeeps, MemberKeeps, StutterQuiet DEF QuietInv
<1> QED
  BY InitQuiet, TagsInvariant, <1>1, PTL DEF TagsSpec

\* In a guild with one room, a quiet announcer has tagged exactly the ones who
\* are live, and left everyone else the nickname they chose (announce.rs:8).
LEMMA QuietFollows == QuietInv /\ TagsInv => QuietIsRight
<1> SUFFICES ASSUME QuietInv, TagsInv, Quiet, NEW m \in Members \ excused, HasOneRoom(m[1])
             PROVE  nick[m] = [name |-> own[m], tag |-> m \in Shown \ immune]
  BY Zenon DEF QuietIsRight
<1>1. TagsTypeOK /\ PhaseInv /\ SpokenInv /\ NewestInv /\ MemberOK(m)
  BY DEF QuietInv, TagsInv, SavedIsClean, MemberInv
<1>2. /\ phase = "select" /\ queue = <<>> /\ task = None /\ applying = None
      /\ \A r \in Rooms : pending[r] = None
  BY <1>1 DEF Quiet, Waiting, PhaseInv
<1>3. PICK g \in Guilds, u \in Users : m = <<g, u>>
  BY DEF Members
<1>4. ASSUME NEW r \in spoken, GuildOf[r] = g
      PROVE  m \in tagged <=> u \in live[r]
  <2>1. r \in Rooms /\ ~Queued(r, queue)
    BY <1>1, <1>2 DEF TagsTypeOK, Queued
  <2>2. ~Lost(g)
    BY <1>3 DEF Lost, Population
  <2>3. Tagged(g) = live[r]
    BY <1>1, <1>2, <1>3, <1>4, <2>1, <2>2 DEF NewestInv
  <2> QED
    BY <1>3, <2>3 DEF Tagged
<1>5. m \in tagged <=> m \in Shown
  <2>1. m \in tagged => \E r \in spoken : GuildOf[r] = g
    BY <1>1, <1>3 DEF SpokenInv
  <2>2. m \in Shown <=> \E r \in spoken : GuildOf[r] = g /\ u \in live[r]
    BY <1>3 DEF Shown
  <2> QED
    BY <1>4, <2>1, <2>2
<1>6. nick[m] \in Nicknames /\ nick[m].tag \in BOOLEAN
  BY <1>1 DEF TagsTypeOK, Nicknames
<1>7. nick[m].name = own[m] /\ (nick[m].tag <=> m \in tagged \ immune)
  BY <1>1, <1>2 DEF MemberOK, Busy, Subscribed
<1>8. nick[m].tag = (m \in Shown \ immune)
  BY <1>5, <1>6, <1>7
<1> QED
  BY <1>6, <1>7, <1>8 DEF Nicknames

\* The tags of a quiet announcer are right, whatever was published, overwritten,
\* failed or crashed before (announce.rs:8, RF-40).
THEOREM QuietAnnouncerIsRight == TagsSpec => []QuietIsRight
BY QuietInvariant, TagsInvariant, QuietFollows, PTL
=============================================================================
