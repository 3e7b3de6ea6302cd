------------------------------ MODULE LiveTags ------------------------------
(***************************************************************************)
(* The [LIVE] tag on a publisher's nickname (bot/src/announce.rs), the      *)
(* snapshots it follows (api/src/announce.rs) and the table of the          *)
(* nicknames it replaced (db/src/repo/live_tags.rs).                        *)
(*                                                                         *)
(* The announcer is one task: every await is a step of it, between which    *)
(* rooms change, members rename themselves and the process may crash.       *)
(* Discord is external.  An edit it reports as failed may have been made.   *)
(***************************************************************************)
EXTENDS Naturals, Sequences, FiniteSets

CONSTANTS
  Rooms, Guilds, Users, Names, None,
  GuildOf,      \* the guild of each room
  Capacity,     \* broadcast::channel(64)
  MaxPublished, \* model bound: snapshots published
  MaxFaults,    \* model bound: failed calls and crashes
  MaxRenames    \* model bound: members who rename themselves

Members   == Guilds \X Users
Nicknames == [name : Names \cup {None}, tag : BOOLEAN]
Stages    == {"fetch", "remember", "edit", "undo", "forget", "restore"}
Phases    == {"down", "sweep", "select", "flush"}
Snapshots == [room : Rooms, publishers : SUBSET Users]
Tasks     == [stage : Stages, member : Members, nick : Nicknames \cup {None}]

ASSUME TagsAssumption ==
  /\ GuildOf \in [Rooms -> Guilds]
  /\ None \notin Nicknames \cup Tasks \cup Snapshots
  /\ \A users \in SUBSET Users : users # None
  /\ Capacity \in Nat \ {0}
  /\ MaxPublished \in Nat /\ MaxFaults \in Nat /\ MaxRenames \in Nat

VARIABLES
  own,       \* the nickname each member chose
  immune,    \* members a bot may not rename: the owner and roles above its own
  nick,      \* Discord: each member's nickname now
  saved,     \* table live_tags: the nickname remembered, None without a row
  live,      \* who publishes in each room
  queue,     \* snapshots the announcer has not received
  spoken,    \* rooms that have published since it subscribed
  phase,     \* of the announcer; down before the process is connected
  left,      \* rows the sweep has still to undo
  pending,   \* the newest snapshot received of each room, None
  applying,  \* the snapshot being applied, None
  tagged,    \* members it has marked
  task,      \* the nickname it is changing, None
  excused,   \* a call about the member failed, they renamed themselves, or the
             \* newest snapshot of their room was overwritten by those of others
  published, faults, renames

world  == <<own, immune, live>>
counts == <<published, faults, renames>>
vars   == <<own, immune, nick, saved, live, queue, spoken, phase, left, pending,
            applying, tagged, task, excused, published, faults, renames>>

TagsTypeOK ==
  /\ own \in [Members -> Names \cup {None}]
  /\ immune \subseteq Members
  /\ nick \in [Members -> Nicknames]
  /\ saved \in [Members -> Nicknames \cup {None}]
  /\ live \in [Rooms -> SUBSET Users]
  /\ queue \in Seq(Snapshots)
  /\ spoken \subseteq Rooms
  /\ phase \in Phases
  /\ left \subseteq Members
  /\ pending \in [Rooms -> (SUBSET Users) \cup {None}]
  /\ applying \in Snapshots \cup {None}
  /\ tagged \subseteq Members
  /\ task \in Tasks \cup {None}
  /\ excused \subseteq Members
  /\ published \in Nat /\ faults \in Nat /\ renames \in Nat

Init ==
  /\ own \in [Members -> Names \cup {None}]
  /\ immune \in SUBSET Members
  /\ nick = [m \in Members |-> [name |-> own[m], tag |-> FALSE]]
  /\ saved = [m \in Members |-> None]
  /\ live = [r \in Rooms |-> {}]
  /\ queue = <<>> /\ spoken = {}
  /\ phase = "down" /\ left = {}
  /\ pending = [r \in Rooms |-> None] /\ applying = None
  /\ tagged = {} /\ task = None /\ excused = {}
  /\ published = 0 /\ faults = 0 /\ renames = 0

Fault(ms) ==
  /\ faults < MaxFaults /\ faults' = faults + 1
  /\ excused' = excused \cup ms
  /\ UNCHANGED <<published, renames>>

NoFault == UNCHANGED <<excused, counts>>

-----------------------------------------------------------------------------
(* Rooms and members.                                                       *)

Subscribed == phase \in {"select", "flush"}
Population(g) == {g} \X Users
Queued(r, q)  == \E i \in 1..Len(q) : q[i].room = r

\* Announcer::publish: a receiver that is behind loses the oldest snapshot, and
\* what is live in a room is unknown to it when that was the room's newest.
Publish(r, users) ==
  /\ published < MaxPublished /\ published' = published + 1
  /\ live' = [live EXCEPT ![r] = users]
  /\ IF Subscribed
     THEN LET q == Append(queue, [room |-> r, publishers |-> users])
              fits == Len(q) <= Capacity
          IN /\ queue' = IF fits THEN q ELSE Tail(q)
             /\ spoken' = spoken \cup {r}
             /\ excused' = IF fits \/ Queued(Head(q).room, Tail(q)) THEN excused
                           ELSE excused \cup Population(GuildOf[Head(q).room])
     ELSE UNCHANGED <<queue, spoken, excused>>
  /\ UNCHANGED <<own, immune, nick, saved, phase, left, pending, applying, tagged, task,
                 faults, renames>>

\* A member, or a moderator, writes any nickname, one with the prefix too.
Rename(m, x) ==
  /\ renames < MaxRenames /\ renames' = renames + 1
  /\ nick' = [nick EXCEPT ![m] = x]
  /\ excused' = excused \cup {m}
  /\ UNCHANGED <<world, saved, queue, spoken, phase, left, pending, applying, tagged, task,
                 published, faults>>

\* The process ends.  A restore between its two halves is lost with it.
Crash ==
  /\ phase # "down"
  /\ Fault(IF task # None /\ task.stage = "restore" THEN {task.member} ELSE {})
  /\ phase' = "down" /\ left' = {} /\ queue' = <<>> /\ spoken' = {}
  /\ pending' = [r \in Rooms |-> None] /\ applying' = None
  /\ tagged' = {} /\ task' = None
  /\ UNCHANGED <<world, nick, saved>>

-----------------------------------------------------------------------------
(* The announcer's loop.                                                    *)

Rows == {m \in Members : saved[m] # None}

Run == phase' = "select" /\ queue' = <<>> /\ spoken' = {} /\ left' = {}

\* spawn: the rows of an earlier run are read, and undone before the loop.
Spawn ==
  /\ phase = "down"
  /\ \/ /\ phase' = "sweep" /\ left' = Rows
        /\ NoFault /\ UNCHANGED <<queue, spoken>>
     \/ Fault(Rows) /\ Run
  /\ UNCHANGED <<world, nick, saved, pending, applying, tagged, task>>

Begin(stage, m) == task' = [stage |-> stage, member |-> m, nick |-> None]

\* sweep_stale_tags, and run's subscription once it is over.
Sweep ==
  /\ phase = "sweep" /\ task = None
  /\ \/ /\ \E m \in left : left' = left \ {m} /\ Begin("forget", m)
        /\ UNCHANGED <<phase, queue, spoken>>
     \/ left = {} /\ Run /\ UNCHANGED task
  /\ NoFault
  /\ UNCHANGED <<world, nick, saved, pending, applying, tagged>>

\* Mutant: the first snapshot of a room is kept until the next flush.
ReceiveOldest ==
  /\ phase = "select" /\ queue # <<>>
  /\ pending' = [pending EXCEPT ![Head(queue).room] =
                   IF @ = None THEN Head(queue).publishers ELSE @]
  /\ queue' = Tail(queue)
  /\ NoFault
  /\ UNCHANGED <<world, nick, saved, spoken, phase, left, applying, tagged, task>>

\* The newest snapshot of a room wins.
Receive ==
  /\ phase = "select" /\ queue # <<>>
  /\ pending' = [pending EXCEPT ![Head(queue).room] = Head(queue).publishers]
  /\ queue' = Tail(queue)
  /\ NoFault
  /\ UNCHANGED <<world, nick, saved, spoken, phase, left, applying, tagged, task>>

Waiting == {r \in Rooms : pending[r] # None}

\* flush.tick, with something to drain; nothing is received until it ends.
Flush ==
  /\ phase = "select" /\ Waiting # {}
  /\ phase' = "flush"
  /\ NoFault
  /\ UNCHANGED <<world, nick, saved, queue, spoken, left, pending, applying, tagged, task>>

\* Mutant: the snapshots are applied and stay pending.
ApplyKept ==
  /\ phase = "flush" /\ applying = None
  /\ \/ /\ \E r \in Waiting : applying' = [room |-> r, publishers |-> pending[r]]
        /\ NoFault /\ UNCHANGED <<phase, pending>>
     \/ /\ Waiting = {} /\ phase' = "select"
        /\ NoFault /\ UNCHANGED <<pending, applying>>
  /\ UNCHANGED <<world, nick, saved, queue, spoken, left, tagged, task>>

\* pending.drain and apply: a snapshot is taken, or skipped because its channel
\* is not in the replica.
Apply ==
  /\ phase = "flush" /\ applying = None
  /\ \/ \E r \in Waiting :
          /\ pending' = [pending EXCEPT ![r] = None]
          /\ \/ applying' = [room |-> r, publishers |-> pending[r]] /\ NoFault
             \/ Fault(Population(GuildOf[r])) /\ UNCHANGED applying
          /\ UNCHANGED phase
     \/ /\ Waiting = {} /\ phase' = "select"
        /\ NoFault /\ UNCHANGED <<pending, applying>>
  /\ UNCHANGED <<world, nick, saved, queue, spoken, left, tagged, task>>

Wanted == {GuildOf[applying.room]} \X applying.publishers
Stale  == {m \in tagged : m[1] = GuildOf[applying.room] /\ m \notin Wanted}

\* update_tags: the wanted ones first, then the stale ones, one at a time.
UpdateTags ==
  /\ phase = "flush" /\ applying # None /\ task = None
  /\ \/ \E m \in Wanted \ tagged :
          tagged' = tagged \cup {m} /\ Begin("fetch", m) /\ UNCHANGED applying
     \/ /\ Wanted \subseteq tagged
        /\ \E m \in Stale : tagged' = tagged \ {m} /\ Begin("forget", m)
        /\ UNCHANGED applying
     \/ /\ Wanted \subseteq tagged /\ Stale = {}
        /\ applying' = None /\ UNCHANGED <<tagged, task>>
  /\ NoFault
  /\ UNCHANGED <<world, nick, saved, queue, spoken, phase, left, pending>>

-----------------------------------------------------------------------------
(* One nickname.                                                            *)

At(stage) == task # None /\ task.stage = stage
Who == task.member
Loop == <<queue, spoken, phase, left, pending, applying, tagged>>

\* Mutant: a nickname that carries the prefix is tagged again.
FetchTagged ==
  /\ At("fetch")
  /\ \/ /\ task' = IF Who \in immune THEN None
                   ELSE [task EXCEPT !.stage = "remember", !.nick = nick[Who]]
        /\ NoFault
     \/ Fault({Who}) /\ task' = None
  /\ UNCHANGED <<world, nick, saved, Loop>>

\* apply_nickname up to tagged_nickname: a member who may not be renamed or is
\* tagged already is left alone.
Fetch ==
  /\ At("fetch")
  /\ \/ /\ task' = IF Who \in immune \/ nick[Who].tag THEN None
                   ELSE [task EXCEPT !.stage = "remember", !.nick = nick[Who]]
        /\ NoFault
     \/ Fault({Who}) /\ task' = None
  /\ UNCHANGED <<world, nick, saved, Loop>>

\* Mutant: the member is renamed even if the nickname could not be saved.
RememberAnyway ==
  /\ At("remember")
  /\ task' = [task EXCEPT !.stage = "edit"]
  /\ saved' \in {saved, [saved EXCEPT ![Who] = IF @ = None THEN task.nick ELSE @]}
  /\ NoFault
  /\ UNCHANGED <<world, nick, Loop>>

\* remember: a row that is there keeps its nickname.
Remember ==
  /\ At("remember")
  /\ \/ /\ saved' = [saved EXCEPT ![Who] = IF @ = None THEN task.nick ELSE @]
        /\ task' = [task EXCEPT !.stage = "edit"]
        /\ NoFault
     \/ Fault({Who}) /\ task' = None /\ UNCHANGED saved
  /\ UNCHANGED <<world, nick, Loop>>

\* member.edit: the nickname with the prefix.
Edit ==
  /\ At("edit")
  /\ \/ /\ nick' = [nick EXCEPT ![Who] = [task.nick EXCEPT !.tag = TRUE]]
        /\ task' = None /\ NoFault
     \/ /\ nick' \in {nick, [nick EXCEPT ![Who] = [task.nick EXCEPT !.tag = TRUE]]}
        /\ Fault({Who}) /\ task' = [task EXCEPT !.stage = "undo"]
  /\ UNCHANGED <<world, saved, Loop>>

\* The row of an edit that failed is forgotten, if the database answers.
Undo ==
  /\ At("undo")
  /\ \/ saved' = [saved EXCEPT ![Who] = None] /\ NoFault
     \/ Fault({Who}) /\ UNCHANGED saved
  /\ task' = None
  /\ UNCHANGED <<world, nick, Loop>>

\* forget, of restore_nickname: the row goes, and its nickname is held.
Forget ==
  /\ At("forget")
  /\ \/ /\ saved' = [saved EXCEPT ![Who] = None]
        /\ task' = IF saved[Who] = None THEN None
                   ELSE [task EXCEPT !.stage = "restore", !.nick = saved[Who]]
        /\ NoFault
     \/ Fault({Who}) /\ task' = None /\ UNCHANGED saved
  /\ UNCHANGED <<world, nick, Loop>>

\* The rest of restore_nickname: an edit that fails is not tried again.
Restore ==
  /\ At("restore")
  /\ \/ nick' = [nick EXCEPT ![Who] = task.nick] /\ NoFault
     \/ Fault({Who}) /\ nick' \in {nick, [nick EXCEPT ![Who] = task.nick]}
  /\ task' = None
  /\ UNCHANGED <<world, saved, Loop>>

-----------------------------------------------------------------------------
Announce ==
  \/ Spawn \/ Sweep \/ Receive \/ Flush \/ Apply \/ UpdateTags
  \/ Fetch \/ Remember \/ Edit \/ Undo \/ Forget \/ Restore

Next ==
  \/ \E r \in Rooms, users \in SUBSET Users : Publish(r, users)
  \/ \E m \in Members, x \in Nicknames : Rename(m, x)
  \/ Crash
  \/ Announce

TagsSpec == Init /\ [][Next]_vars

\* The runtime polls the announcer, calls return, and the process is restarted.
FairTagsSpec == TagsSpec /\ WF_vars(Announce)

-----------------------------------------------------------------------------
(* Properties.                                                              *)

\* What is remembered, and what is about to be, never carries the prefix: a
\* tag is not made permanent by being saved (live_tags.rs:29).
SavedIsClean ==
  /\ TagsTypeOK
  /\ \A m \in Members : saved[m] # None => ~saved[m].tag
  /\ task # None /\ task.nick # None => ~task.nick.tag

\* A tag has a row to undo it from, or is being undone, unless a call about the
\* member failed: renaming before remembering, or forgetting too early, would
\* leave it for ever (announce.rs:237).
TagIsOwed ==
  \A m \in Members :
    nick[m].tag => \/ saved[m] # None
                   \/ task # None /\ task.stage = "restore" /\ task.member = m
                   \/ m \in excused

\* What the step at hand rests on: a nickname is held from the moment it is
\* read, an edit has its row, and an edit that failed has been counted.
TaskInv ==
  task # None =>
    /\ task.stage \in {"remember", "edit", "restore"} => task.nick # None
    /\ task.stage = "edit" => saved[task.member] # None
    /\ task.stage = "undo" => task.member \in excused

TagsInv == SavedIsClean /\ TagIsOwed /\ TaskInv

Quiet == phase = "select" /\ queue = <<>> /\ Waiting = {} /\ task = None

\* Who the room's newest snapshot since the subscription says is live.
Shown == UNION {{GuildOf[r]} \X live[r] : r \in spoken}

\* The rooms of a guild, when there is one at most.
HasOneRoom(g) == \A r, s \in Rooms : GuildOf[r] = g /\ GuildOf[s] = g => r = s

\* In a guild with one room: once the announcer is quiet, exactly the ones who
\* are live wear the tag, and everyone else the very nickname they chose, also
\* after a crash, a burst or an overwritten queue (announce.rs:8, RF-40).
QuietIsRight ==
  Quiet => \A m \in Members \ excused :
             HasOneRoom(m[1]) => nick[m] = [name |-> own[m], tag |-> m \in Shown \ immune]

-----------------------------------------------------------------------------
(* The inductive invariant of QuietIsRight.                                  *)

\* Each phase has what it needs: the loop's state is empty until the announcer
\* subscribes, a nickname changes for a row swept or for a snapshot applied.
PhaseInv ==
  /\ ~Subscribed => /\ queue = <<>> /\ spoken = {} /\ tagged = {}
                    /\ \A r \in Rooms : pending[r] = None
  /\ phase # "flush" => applying = None
  /\ phase \in {"down", "select"} => task = None
  /\ phase = "flush" /\ applying = None => task = None
  /\ phase = "sweep" /\ task # None => task.stage \in {"forget", "restore"}

\* A room that has not published is nowhere, and only the members of rooms that
\* have are tagged.
SpokenInv ==
  /\ \A i \in 1..Len(queue) : queue[i].room \in spoken
  /\ \A r \in Rooms : pending[r] # None => r \in spoken
  /\ applying # None => applying.room \in spoken
  /\ \A m \in tagged : \E r \in spoken : GuildOf[r] = m[1]

Newest(r, i) == queue[i].room = r /\ \A j \in (i + 1)..Len(queue) : queue[j].room # r

Tagged(g) == {u \in Users : <<g, u>> \in tagged}

Lost(g) == Population(g) \subseteq excused

\* The newest word on a room is wherever it has come to: in the queue, pending,
\* being applied, or written in the tags; unless it was lost.
NewestInv ==
  /\ \A r \in Rooms, i \in 1..Len(queue) : Newest(r, i) => queue[i].publishers = live[r]
  /\ \A r \in spoken :
       ~Queued(r, queue) =>
         \/ Lost(GuildOf[r])
         \/ (pending[r] # None /\ pending[r] = live[r])
         \/ /\ pending[r] = None /\ applying # None
            /\ applying.room = r /\ applying.publishers = live[r]
         \/ /\ pending[r] = None /\ (applying # None => applying.room # r)
            /\ HasOneRoom(GuildOf[r]) => Tagged(GuildOf[r]) = live[r]

Busy(m) == task # None /\ task.member = m

\* Where the announcer is with a member: the nickname is the one they chose, or
\* that with the prefix; what is saved or held is what they chose; and with no
\* task at hand a member has tag and row, or neither.
MemberOK(m) ==
  /\ nick[m].name = own[m]
  /\ saved[m] # None => saved[m] = [name |-> own[m], tag |-> FALSE]
  /\ Busy(m) /\ task.nick # None => task.nick = [name |-> own[m], tag |-> FALSE]
  /\ Busy(m) => (m \in tagged <=> task.stage \notin {"forget", "restore"})
  /\ Busy(m) /\ task.stage \in {"remember", "edit"} => m \notin immune
  /\ Busy(m) /\ task.stage \in {"fetch", "restore"} => saved[m] = None
  /\ phase = "sweep" /\ saved[m] # None => m \in left \/ Busy(m)
  /\ Subscribed /\ ~Busy(m) => /\ nick[m].tag <=> m \in tagged \ immune
                               /\ saved[m] # None <=> m \in tagged \ immune

MemberInv == \A m \in Members \ excused : MemberOK(m)

QuietInv == PhaseInv /\ SpokenInv /\ NewestInv /\ MemberInv

-----------------------------------------------------------------------------
\* Once nothing more is published or fails, which the model's bounds see to, the
\* announcer comes to rest.
ComesToRest == []<>Quiet
=============================================================================
