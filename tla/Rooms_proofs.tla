----------------------------- MODULE Rooms_proofs -----------------------------
(***************************************************************************)
(* Proofs about Rooms, for any users, channels, ceilings and bounds: the    *)
(* inductive invariant RoomsInv, the bound of the ledger of publish slots   *)
(* and that a row of room_presence is of somebody who is connected; then    *)
(* EventsInv, and what a quiet room shows, counts and announces of somebody *)
(* let into no other room.                                                  *)
(***************************************************************************)
EXTENDS Rooms, FiniteSetTheorems, TLAPS

\* The part of RoomsInv about rows and the events still to be delivered.
QueueInv == RowsAccounted /\ JoinsAccounted /\ HandlersHaveEvents

-----------------------------------------------------------------------------
(* The ledger. *)

LEMMA SlotsFinite ==
  ASSUME RoomsTypeOK, NEW c \in Channels, NEW s \in Sources
  PROVE  IsFiniteSet(slots[c][s])
<1>1. slots[c][s] \subseteq Users
  BY DEF RoomsTypeOK
<1> QED
  BY <1>1, RoomsAssumption, FS_Subset

\* Giving slots back keeps the bound (release_publication, release_publisher,
\* forget_room, and a refused or unchanged request).
LEMMA LedgerShrinks ==
  ASSUME RoomsTypeOK, LedgerBounded,
         \A c \in Channels, s \in Sources : slots'[c][s] \subseteq slots[c][s]
  PROVE  LedgerBounded'
<1> SUFFICES ASSUME NEW c \in Channels, NEW s \in Sources
             PROVE  Cardinality(slots'[c][s]) <= Ceiling(s)
  BY DEF LedgerBounded, Ceiling
<1>1. IsFiniteSet(slots[c][s])
  BY SlotsFinite
<1>2. /\ IsFiniteSet(slots'[c][s])
      /\ Cardinality(slots'[c][s]) <= Cardinality(slots[c][s])
  BY <1>1, FS_Subset
<1>3. /\ Cardinality(slots[c][s]) \in Nat /\ Cardinality(slots'[c][s]) \in Nat
  BY <1>1, <1>2, FS_CardinalityType
<1>4. Cardinality(slots[c][s]) <= Ceiling(s)
  BY DEF LedgerBounded
<1>5. Ceiling(s) \in Nat
  BY RoomsAssumption DEF Ceiling
<1> QED
  BY <1>2, <1>3, <1>4, <1>5

\* A request claims only where there is room or the slot is already held
\* (claim_publications refuses before changing anything).
LEMMA LedgerClaims ==
  ASSUME RoomsTypeOK, LedgerBounded, NEW c \in Channels, NEW u \in Users,
         NEW wanted \in Requests, ClaimPublications(c, u, wanted)
  PROVE  LedgerBounded'
<1> SUFFICES ASSUME NEW d \in Channels, NEW s \in Sources
             PROVE  Cardinality(slots'[d][s]) <= Ceiling(s)
  BY DEF LedgerBounded, Ceiling
<1> DEFINE S == slots[d][s]
<1>1. /\ S \subseteq Users /\ IsFiniteSet(S) /\ Cardinality(S) \in Nat
      /\ Cardinality(S) <= Ceiling(s) /\ Ceiling(s) \in Nat
  BY SlotsFinite, FS_CardinalityType, RoomsAssumption DEF RoomsTypeOK, LedgerBounded, Ceiling
<1>2. \/ slots'[d][s] = S
      \/ slots'[d][s] = S \ {u}
      \/ slots'[d][s] = S \cup {u} /\ u \notin S /\ Cardinality(S) < Ceiling(s)
  BY DEF ClaimPublications, Fits, RoomsTypeOK
<1>3. CASE slots'[d][s] = S
  BY <1>1, <1>3
<1>4. CASE slots'[d][s] = S \ {u}
  <2>1. IsFiniteSet(S \ {u}) /\ Cardinality(S \ {u}) <= Cardinality(S)
    BY <1>1, FS_Subset
  <2>2. Cardinality(S \ {u}) \in Nat
    BY <2>1, FS_CardinalityType
  <2> QED
    BY <1>1, <1>4, <2>1, <2>2
<1>5. CASE slots'[d][s] = S \cup {u} /\ u \notin S /\ Cardinality(S) < Ceiling(s)
  <2>1. Cardinality(S \cup {u}) = Cardinality(S) + 1
    BY <1>1, <1>5, FS_AddElement
  <2> QED
    BY <1>1, <1>5, <2>1
<1> QED
  BY <1>2, <1>3, <1>4, <1>5

-----------------------------------------------------------------------------
(* The queue of events.  Every action changes it in one of four ways. *)

\* Nothing is reported or answered, no handler starts, no row is added.
LEMMA QueueFrame ==
  ASSUME QueueInv,
         UNCHANGED <<watching, hooks>>,
         \A c \in Channels : step'[c] # "idle" => step[c] # "idle",
         \A c \in Channels : step'[c] = "open" => step[c] = "open",
         \A c \in Channels, u \in Users : InRoom(c, u)' => InRoom(c, u)
  PROVE  QueueInv'
<1>1. RowsAccounted'
  BY DEF QueueInv, RowsAccounted
<1>2. JoinsAccounted'
  BY DEF QueueInv, JoinsAccounted
<1>3. HandlersHaveEvents'
  BY DEF QueueInv, HandlersHaveEvents
<1> QED
  BY <1>1, <1>2, <1>3 DEF QueueInv

\* LiveKit reports something: a join is of somebody who watches from then on, a
\* leave of somebody who does not.
LEMMA QueueReport ==
  ASSUME QueueInv, RoomsTypeOK,
         NEW c \in Channels, NEW e \in Hook,
         hooks' = [hooks EXCEPT ![c] = Append(@, e)],
         UNCHANGED <<row, step>>,
         watching' = IF e.kind = "joined" THEN watching \cup {<<c, e.user>>}
                     ELSE IF e.kind = "left" THEN watching \ {<<c, e.user>>}
                     ELSE watching
  PROVE  QueueInv'
<1>1. /\ Len(hooks[c]) \in Nat
      /\ Len(hooks'[c]) = Len(hooks[c]) + 1
      /\ hooks'[c][Len(hooks[c]) + 1] = e
      /\ \A i \in 1..Len(hooks[c]) : hooks'[c][i] = hooks[c][i]
      /\ \A d \in Channels \ {c} : hooks'[d] = hooks[d]
  BY DEF RoomsTypeOK
<1>2. ASSUME NEW d \in Channels, NEW u, NEW i \in Nat, LeavesAfter(hooks[d], u, i)
      PROVE  LeavesAfter(hooks'[d], u, i)
  BY <1>1, <1>2 DEF LeavesAfter
<1>3. ASSUME NEW i \in Nat, i <= Len(hooks[c]), NEW u, Is(e, "left", u)
      PROVE  LeavesAfter(hooks'[c], u, i)
  BY <1>1, <1>3 DEF LeavesAfter
<1>4. ASSUME NEW d \in Channels, NEW u, <<d, u>> \in watching, <<d, u>> \notin watching'
      PROVE  d = c /\ Is(e, "left", u)
  BY <1>4 DEF Is
<1>5. ASSUME NEW d \in Channels, NEW u \in Users, InRoom(d, u)'
      PROVE  <<d, u>> \in watching' \/ LeavesAfter(hooks'[d], u, 0)
  <2>1. InRoom(d, u)
    BY <1>5 DEF InRoom
  <2>2. <<d, u>> \in watching \/ LeavesAfter(hooks[d], u, 0)
    BY <2>1 DEF QueueInv, RowsAccounted
  <2>3. 0 <= Len(hooks[c])
    BY <1>1
  <2> QED
    BY <1>2, <1>3, <1>4, <2>2, <2>3
<1>6. ASSUME NEW d \in Channels, NEW u \in Users, NEW i \in 1..Len(hooks'[d]),
             Is(hooks'[d][i], "joined", u)
      PROVE  <<d, u>> \in watching' \/ LeavesAfter(hooks'[d], u, i)
  <2>1. CASE d = c /\ i = Len(hooks[c]) + 1
    BY <1>1, <1>6, <2>1 DEF Is
  <2>2. CASE ~(d = c /\ i = Len(hooks[c]) + 1)
    <3>1. /\ i \in 1..Len(hooks[d]) /\ hooks'[d][i] = hooks[d][i] /\ i \in Nat
          /\ d = c => i <= Len(hooks[c])
      BY <1>1, <1>6, <2>2 DEF RoomsTypeOK
    <3>2. <<d, u>> \in watching \/ LeavesAfter(hooks[d], u, i)
      BY <1>6, <3>1 DEF QueueInv, JoinsAccounted
    <3> QED
      BY <1>2, <1>3, <1>4, <3>1, <3>2
  <2> QED
    BY <2>1, <2>2
<1>7. ASSUME NEW d \in Channels, step'[d] # "idle"
      PROVE  /\ hooks'[d] # << >>
             /\ step'[d] = "open" => hooks'[d][1].user \in Users
             /\ \A u \in Users : Is(hooks'[d][1], "left", u) => ~InRoom(d, u)'
  <2>1. /\ hooks[d] # << >>
        /\ step[d] = "open" => hooks[d][1].user \in Users
        /\ \A u \in Users : Is(hooks[d][1], "left", u) => ~InRoom(d, u)
    BY <1>7 DEF QueueInv, HandlersHaveEvents
  <2>2. 1 \in 1..Len(hooks[d]) /\ Len(hooks[d]) \in Nat
    BY <2>1 DEF RoomsTypeOK
  <2>3. hooks'[d] # << >> /\ hooks'[d][1] = hooks[d][1]
    BY <1>1, <2>1, <2>2
  <2> QED
    BY <2>1, <2>3 DEF InRoom
<1> QED
  BY <1>5, <1>6, <1>7 DEF QueueInv, RowsAccounted, JoinsAccounted, HandlersHaveEvents

\* A handler is done with its event.
LEMMA QueueAnswered ==
  ASSUME QueueInv, RoomsTypeOK,
         NEW c \in Channels, hooks[c] # << >>, Answered(c),
         UNCHANGED <<row, watching>>,
         \A u \in Users : Is(hooks[c][1], "left", u) => ~InRoom(c, u)
  PROVE  QueueInv'
<1>1. /\ Len(hooks[c]) \in Nat /\ Len(hooks[c]) > 0
      /\ Len(hooks'[c]) = Len(hooks[c]) - 1
      /\ \A i \in 1..Len(hooks'[c]) : hooks'[c][i] = hooks[c][i + 1]
      /\ \A d \in Channels \ {c} : hooks'[d] = hooks[d] /\ step'[d] = step[d]
      /\ step'[c] = "idle"
  BY DEF RoomsTypeOK, Answered, Goes
<1>2. ASSUME NEW u, NEW i \in Nat, LeavesAfter(hooks[c], u, i + 1)
      PROVE  LeavesAfter(hooks'[c], u, i)
  <2>1. PICK j \in 1..Len(hooks[c]) : j > i + 1 /\ Is(hooks[c][j], "left", u)
    BY <1>2 DEF LeavesAfter
  <2>2. j - 1 \in 1..Len(hooks'[c]) /\ hooks'[c][j - 1] = hooks[c][j] /\ j - 1 > i
    BY <1>1, <2>1
  <2> QED
    BY <2>1, <2>2 DEF LeavesAfter
<1>3. ASSUME NEW d \in Channels, NEW u \in Users, InRoom(d, u)'
      PROVE  <<d, u>> \in watching' \/ LeavesAfter(hooks'[d], u, 0)
  <2>1. InRoom(d, u)
    BY <1>3 DEF InRoom
  <2>2. <<d, u>> \in watching \/ LeavesAfter(hooks[d], u, 0)
    BY <2>1 DEF QueueInv, RowsAccounted
  <2>3. CASE d = c /\ LeavesAfter(hooks[c], u, 0)
    <3>1. LeavesAfter(hooks[c], u, 0 + 1)
      BY <1>1, <2>1, <2>3 DEF LeavesAfter
    <3> QED
      BY <1>2, <2>3, <3>1
  <2> QED
    BY <1>1, <2>2, <2>3
<1>4. ASSUME NEW d \in Channels, NEW u \in Users, NEW i \in 1..Len(hooks'[d]),
             Is(hooks'[d][i], "joined", u)
      PROVE  <<d, u>> \in watching' \/ LeavesAfter(hooks'[d], u, i)
  <2>1. CASE d = c
    <3>1. i + 1 \in 1..Len(hooks[c]) /\ hooks'[c][i] = hooks[c][i + 1] /\ i \in Nat
      BY <1>1, <1>4, <2>1
    <3>2. <<c, u>> \in watching \/ LeavesAfter(hooks[c], u, i + 1)
      BY <1>4, <2>1, <3>1 DEF QueueInv, JoinsAccounted
    <3> QED
      BY <1>2, <2>1, <3>1, <3>2
  <2>2. CASE d # c
    BY <1>1, <1>4, <2>2 DEF QueueInv, JoinsAccounted
  <2> QED
    BY <2>1, <2>2
<1>5. ASSUME NEW d \in Channels, step'[d] # "idle"
      PROVE  /\ hooks'[d] # << >>
             /\ step'[d] = "open" => hooks'[d][1].user \in Users
             /\ \A u \in Users : Is(hooks'[d][1], "left", u) => ~InRoom(d, u)'
  BY <1>1, <1>5 DEF QueueInv, HandlersHaveEvents, InRoom
<1> QED
  BY <1>3, <1>4, <1>5 DEF QueueInv, RowsAccounted, JoinsAccounted, HandlersHaveEvents

\* A handler starts on the first event: only a join adds a row, the user's in that
\* room, and a leave removes it.
LEMMA QueueDelivers ==
  ASSUME QueueInv, RoomsTypeOK,
         NEW c \in Channels, hooks[c] # << >>,
         \A d \in Channels \ {c} : step'[d] = step[d],
         step'[c] = "open" => hooks[c][1].user \in Users,
         UNCHANGED <<hooks, watching>>,
         \A d \in Channels, u \in Users : InRoom(d, u)' =>
           InRoom(d, u) \/ (d = c /\ Is(hooks[c][1], "joined", u)),
         \A u \in Users : Is(hooks[c][1], "left", u) => ~InRoom(c, u)'
  PROVE  QueueInv'
<1>1. 1 \in 1..Len(hooks[c])
  BY DEF RoomsTypeOK
<1>2. ASSUME NEW d \in Channels, NEW u \in Users, InRoom(d, u)'
      PROVE  <<d, u>> \in watching \/ LeavesAfter(hooks[d], u, 0)
  <2>1. CASE InRoom(d, u)
    BY <2>1 DEF QueueInv, RowsAccounted
  <2>2. CASE d = c /\ Is(hooks[c][1], "joined", u)
    <3>1. <<c, u>> \in watching \/ LeavesAfter(hooks[c], u, 1)
      BY <1>1, <2>2 DEF QueueInv, JoinsAccounted
    <3> QED
      BY <2>2, <3>1 DEF LeavesAfter
  <2> QED
    BY <1>2, <2>1, <2>2
<1>3. RowsAccounted'
  BY <1>2 DEF RowsAccounted
<1>4. JoinsAccounted'
  BY DEF QueueInv, JoinsAccounted
<1>5. ASSUME NEW d \in Channels, step'[d] # "idle"
      PROVE  /\ hooks[d] # << >>
             /\ step'[d] = "open" => hooks[d][1].user \in Users
             /\ \A u \in Users : Is(hooks[d][1], "left", u) => ~InRoom(d, u)'
  <2>1. CASE d = c
    BY <2>1
  <2>2. CASE d # c
    <3>1. /\ hooks[d] # << >>
          /\ step[d] = "open" => hooks[d][1].user \in Users
          /\ \A u \in Users : Is(hooks[d][1], "left", u) => ~InRoom(d, u)
      BY <1>5, <2>2 DEF QueueInv, HandlersHaveEvents
    <3> QED
      BY <2>2, <3>1
  <2> QED
    BY <2>1, <2>2
<1>6. HandlersHaveEvents'
  BY <1>5 DEF HandlersHaveEvents
<1> QED
  BY <1>3, <1>4, <1>6 DEF QueueInv

-----------------------------------------------------------------------------
(* One lemma per kind of action: its types, its ledger, its queue. *)

LEMMA EventType ==
  ASSUME NEW k \in Kinds, NEW u \in Users, NEW s \in Sources
  PROVE  Event(k, u, s) \in Hook
  BY DEF Event, Hook

LEMMA ReportType ==
  ASSUME RoomsTypeOK, NEW c \in Channels, NEW e \in Hook, Report(c, e)
  PROVE  hooks' \in [Channels -> Seq(Hook)]
  BY DEF RoomsTypeOK, Report

LEMMA RoomsInitHolds == RoomsInit => RoomsInv
<1> SUFFICES ASSUME RoomsInit PROVE RoomsInv
  OBVIOUS
<1>1. RoomsTypeOK
  BY RoomsAssumption DEF RoomsInit, RoomsTypeOK, NoSweep, Sweep, Rights, Steps, Sources
<1>2. LedgerBounded
  <2>1. Cardinality({}) = 0
    BY FS_EmptySet
  <2> QED
    BY <2>1, RoomsAssumption DEF RoomsInit, LedgerBounded, Ceiling
<1>3. RowsAccounted /\ JoinsAccounted /\ HandlersHaveEvents
  BY DEF RoomsInit, RowsAccounted, JoinsAccounted, HandlersHaveEvents, InRoom
<1> QED
  BY <1>1, <1>2, <1>3 DEF RoomsInv

LEMMA TokenStep ==
  ASSUME RoomsInv, NEW c \in Channels, NEW u \in Users, NEW wanted \in Requests,
         Token(c, u, wanted)
  PROVE  RoomsInv'
<1>1. RoomsTypeOK'
  BY DEF RoomsInv, Token, ClaimPublications, RoomsTypeOK, database, handling, sfu, bounds
<1>2. LedgerBounded'
  BY LedgerClaims DEF RoomsInv, Token
<1>3. QueueInv'
  BY QueueFrame DEF RoomsInv, QueueInv, Token, database, handling, sfu, InRoom
<1> QED
  BY <1>1, <1>2, <1>3 DEF RoomsInv, QueueInv

\* The ledger does not change.
LEMMA LedgerSame ==
  ASSUME RoomsInv, UNCHANGED slots PROVE LedgerBounded'
  BY DEF RoomsInv, LedgerBounded, Ceiling

LEMMA SfuViewerStep ==
  ASSUME RoomsInv, NEW c \in Channels, NEW u \in Users,
         SfuJoin(c, u) \/ SfuLeave(c, u)
  PROVE  RoomsInv'
<1>1. "joined" \in Kinds /\ "left" \in Kinds /\ AnySource \in Sources
  BY DEF Kinds, AnySource, Sources
<1>2. Event("joined", u, AnySource) \in Hook /\ Event("left", u, AnySource) \in Hook
  BY <1>1, EventType
<1>3. RoomsTypeOK'
  <2>1. CASE SfuJoin(c, u)
    <3>1. hooks' \in [Channels -> Seq(Hook)]
      BY <1>2, <2>1, ReportType DEF RoomsInv, SfuJoin
    <3> QED
      BY <2>1, <3>1 DEF RoomsInv, SfuJoin, RoomsTypeOK, serverSide, database, handling, bounds
  <2>2. CASE SfuLeave(c, u)
    <3>1. hooks' \in [Channels -> Seq(Hook)]
      BY <1>2, <2>2, ReportType DEF RoomsInv, SfuLeave, DropViewer
    <3> QED
      BY <2>2, <3>1 DEF RoomsInv, SfuLeave, DropViewer, RoomsTypeOK, serverSide, database,
         handling, bounds
  <2> QED
    BY <2>1, <2>2
<1>4. LedgerBounded'
  BY LedgerSame DEF SfuJoin, SfuLeave, serverSide
<1>5. QueueInv'
  <2>1. CASE SfuJoin(c, u)
    BY <1>2, <2>1, QueueReport DEF RoomsInv, QueueInv, SfuJoin, Report, Event, serverSide,
       database, handling
  <2>2. CASE SfuLeave(c, u)
    BY <1>2, <2>2, QueueReport DEF RoomsInv, QueueInv, SfuLeave, DropViewer, Report, Event,
       serverSide, database, handling
  <2> QED
    BY <2>1, <2>2
<1> QED
  BY <1>3, <1>4, <1>5 DEF RoomsInv, QueueInv

LEMMA SfuPublisherStep ==
  ASSUME RoomsInv, NEW c \in Channels, NEW u \in Users, NEW s \in Sources,
         \/ SfuJoinPublisher(c, u) \/ SfuLeavePublisher(c, u)
         \/ SfuPublish(c, u, s) \/ SfuUnpublish(c, u, s)
  PROVE  RoomsInv'
<1>1. {"publisher_left", "published", "unpublished"} \subseteq Kinds /\ AnySource \in Sources
  BY DEF Kinds, AnySource, Sources
<1>2. /\ Event("publisher_left", u, AnySource) \in Hook
      /\ Event("published", u, s) \in Hook /\ Event("unpublished", u, s) \in Hook
  BY <1>1, EventType
<1>3. RoomsTypeOK'
  <2>1. CASE SfuJoinPublisher(c, u)
    BY <2>1 DEF RoomsInv, SfuJoinPublisher, RoomsTypeOK, serverSide, database, handling, bounds
  <2>2. CASE SfuLeavePublisher(c, u)
    <3>1. hooks' \in [Channels -> Seq(Hook)]
      BY <1>2, <2>2, ReportType DEF RoomsInv, SfuLeavePublisher, DropPublisher
    <3> QED
      BY <2>2, <3>1 DEF RoomsInv, SfuLeavePublisher, DropPublisher, RoomsTypeOK, serverSide,
         database, handling, bounds
  <2>3. CASE SfuPublish(c, u, s)
    <3>1. hooks' \in [Channels -> Seq(Hook)]
      BY <1>2, <2>3, ReportType DEF RoomsInv, SfuPublish
    <3> QED
      BY <2>3, <3>1 DEF RoomsInv, SfuPublish, RoomsTypeOK, serverSide, database, handling, bounds
  <2>4. CASE SfuUnpublish(c, u, s)
    <3>1. hooks' \in [Channels -> Seq(Hook)]
      BY <1>2, <2>4, ReportType DEF RoomsInv, SfuUnpublish
    <3> QED
      BY <2>4, <3>1 DEF RoomsInv, SfuUnpublish, RoomsTypeOK, serverSide, database, handling,
         bounds
  <2> QED
    BY <2>1, <2>2, <2>3, <2>4
<1>4. LedgerBounded'
  BY LedgerSame DEF SfuJoinPublisher, SfuLeavePublisher, SfuPublish, SfuUnpublish, serverSide
<1>5. QueueInv'
  <2>1. CASE SfuJoinPublisher(c, u)
    BY <2>1, QueueFrame DEF RoomsInv, QueueInv, SfuJoinPublisher, serverSide, database,
       handling, InRoom
  <2>2. CASE SfuLeavePublisher(c, u)
    BY <1>2, <2>2, QueueReport DEF RoomsInv, QueueInv, SfuLeavePublisher, DropPublisher,
       Report, Event, serverSide, database, handling
  <2>3. CASE SfuPublish(c, u, s)
    BY <1>2, <2>3, QueueReport DEF RoomsInv, QueueInv, SfuPublish, Report, Event, serverSide,
       database, handling
  <2>4. CASE SfuUnpublish(c, u, s)
    BY <1>2, <2>4, QueueReport DEF RoomsInv, QueueInv, SfuUnpublish, Report, Event, serverSide,
       database, handling
  <2> QED
    BY <2>1, <2>2, <2>3, <2>4
<1> QED
  BY <1>3, <1>4, <1>5 DEF RoomsInv, QueueInv

LEMMA SfuCloseStep ==
  ASSUME RoomsInv, NEW c \in Channels, SfuClose(c)
  PROVE  RoomsInv'
<1>1. Event("finished", None, AnySource) \in Hook
  BY DEF Event, Hook, AnySource, Sources
<1>2. RoomsTypeOK'
  BY <1>1 DEF RoomsInv, SfuClose, Report, RoomsTypeOK, serverSide, database, handling, bounds
<1>3. LedgerBounded'
  BY LedgerSame DEF SfuClose, serverSide
<1>4. QueueInv'
  BY <1>1, QueueReport DEF RoomsInv, QueueInv, SfuClose, Report, Event, serverSide, database,
     handling
<1> QED
  BY <1>2, <1>3, <1>4 DEF RoomsInv, QueueInv

-----------------------------------------------------------------------------
(* The handlers of the webhook. *)

\* What the first event of a room carries.
LEMMA FirstEvent ==
  ASSUME RoomsTypeOK, NEW c \in Channels, hooks[c] # << >>
  PROVE  /\ Now(c) = hooks[c][1] /\ Now(c) \in Hook
         /\ Now(c).kind # "finished" => Now(c).user \in Users /\ Now(c).source \in Sources
  BY DEF RoomsTypeOK, Now, Hook, Kinds

LEMMA OnJoinStep ==
  ASSUME RoomsInv, NEW c \in Channels, OnJoin(c) PROVE RoomsInv'
<1> DEFINE u == Now(c).user
<1>1. /\ hooks[c] # << >> /\ Now(c) = hooks[c][1] /\ Now(c).kind = "joined" /\ u \in Users
  BY FirstEvent DEF RoomsInv, OnJoin, Delivers, Now
<1>2. /\ row' = [row EXCEPT ![u] = [channel |-> c, live |-> {}]]
      /\ [channel |-> c, live |-> {}] \in Row
  BY DEF OnJoin, Row
<1>3. RoomsTypeOK'
  BY <1>1, <1>2 DEF RoomsInv, RoomsTypeOK, OnJoin, Goes, Steps, elsewhere, sfu, bounds
<1>4. LedgerBounded'
  BY LedgerSame DEF OnJoin
<1>5. \A d \in Channels, v \in Users : InRoom(d, v)' =>
        InRoom(d, v) \/ (d = c /\ Is(hooks[c][1], "joined", v))
  BY <1>1, <1>2, RoomsAssumption DEF RoomsInv, RoomsTypeOK, InRoom, Is
<1>6. QueueInv'
  BY <1>1, <1>5, QueueDelivers DEF RoomsInv, RoomsTypeOK, QueueInv, OnJoin, Goes, elsewhere, sfu, Is
<1> QED
  BY <1>3, <1>4, <1>6 DEF RoomsInv, QueueInv

LEMMA OnLeaveStep ==
  ASSUME RoomsInv, NEW c \in Channels, OnLeave(c) PROVE RoomsInv'
<1> DEFINE u == Now(c).user
<1>1. /\ hooks[c] # << >> /\ Now(c) = hooks[c][1] /\ Now(c).kind = "left" /\ u \in Users
  BY FirstEvent DEF RoomsInv, OnLeave, Delivers, Now
<1>2. row' = [row EXCEPT ![u] = None]
  BY DEF OnLeave, Left
<1>3. RoomsTypeOK'
  BY <1>1, <1>2 DEF RoomsInv, RoomsTypeOK, OnLeave, Goes, Steps, elsewhere, sfu, bounds
<1>4. LedgerBounded'
  BY LedgerSame DEF OnLeave
<1>5. /\ \A d \in Channels, v \in Users : InRoom(d, v)' => InRoom(d, v)
      /\ \A v \in Users : Is(hooks[c][1], "left", v) => ~InRoom(c, v)'
  BY <1>1, <1>2 DEF RoomsInv, RoomsTypeOK, InRoom, Is
<1>6. QueueInv'
  BY <1>1, <1>5, QueueDelivers DEF RoomsInv, RoomsTypeOK, QueueInv, OnLeave, Goes, elsewhere, sfu
<1> QED
  BY <1>3, <1>4, <1>6 DEF RoomsInv, QueueInv

\* A handler that changes what a row has live leaves the rooms as they are.
LEMMA OnShareStep ==
  ASSUME RoomsInv, NEW c \in Channels,
         OnShareStart(c) \/ OnPublisherGone(c) \/ OnShareStop(c)
  PROVE  RoomsInv'
<1> DEFINE u == Now(c).user
<1>1. /\ hooks[c] # << >> /\ Now(c) = hooks[c][1] /\ Now(c).kind \notin {"joined", "left"}
      /\ u \in Users /\ Now(c).source \in Sources /\ row[u] # None
  BY FirstEvent DEF RoomsInv, OnShareStart, OnPublisherGone, OnShareStop, Delivers, Now
<1>2. row[u] \in Row
  BY <1>1 DEF RoomsInv, RoomsTypeOK
<1>3. PICK x \in SUBSET Sources : row' = [row EXCEPT ![u].live = x]
  <2>1. row[u].live \subseteq Sources
    BY <1>2 DEF Row
  <2> QED
    BY <1>1, <2>1 DEF OnShareStart, OnPublisherGone, OnShareStop, Cleared
<1>4. row'[u] \in Row /\ row'[u].channel = row[u].channel
  BY <1>1, <1>2, <1>3 DEF RoomsInv, RoomsTypeOK, Row
<1>5. \A v \in Users : v # u => row'[v] = row[v]
  BY <1>3 DEF RoomsInv, RoomsTypeOK
<1>6. row' \in [Users -> Row \cup {None}]
  BY <1>3, <1>4, <1>5 DEF RoomsInv, RoomsTypeOK
<1>7. step' \in [Channels -> Steps] /\ \A d \in Channels \ {c} : step'[d] = step[d]
  BY DEF OnShareStart, OnPublisherGone, OnShareStop, Goes, RoomsInv, RoomsTypeOK, Steps
<1>8. UNCHANGED <<open, slots, listed, announced, hooks, right, sweep, watching, publishing,
                  tracks, alive, tokens, faults, changes>>
  BY DEF OnShareStart, OnPublisherGone, OnShareStop, elsewhere, sfu, bounds
<1>9. RoomsTypeOK'
  BY <1>6, <1>7, <1>8 DEF RoomsInv, RoomsTypeOK
<1>10. LedgerBounded'
  BY <1>8, LedgerSame
<1>11. \A d \in Channels, v \in Users : InRoom(d, v)' => InRoom(d, v)
  BY <1>1, <1>4, <1>5 DEF InRoom
<1>12. QueueInv'
  BY <1>1, <1>7, <1>8, <1>11, QueueDelivers DEF RoomsInv, QueueInv, Is
<1> QED
  BY <1>9, <1>10, <1>12 DEF RoomsInv, QueueInv

LEMMA OnNobodyStep ==
  ASSUME RoomsInv, NEW c \in Channels, OnNobody(c) PROVE RoomsInv'
<1>1. hooks[c] # << >> /\ Now(c) = hooks[c][1] /\ Now(c).kind # "left"
  BY FirstEvent DEF RoomsInv, OnNobody, Delivers, Now
<1>2. hooks' \in [Channels -> Seq(Hook)] /\ step' \in [Channels -> Steps]
  BY <1>1 DEF RoomsInv, RoomsTypeOK, OnNobody, Answered, Goes, Steps
<1>3. RoomsTypeOK'
  BY <1>2 DEF RoomsInv, RoomsTypeOK, OnNobody, database, elsewhere, sfu, bounds
<1>4. LedgerBounded'
  BY LedgerSame DEF OnNobody
<1>5. QueueInv'
  BY <1>1, QueueAnswered DEF RoomsInv, QueueInv, OnNobody, database, elsewhere, sfu, Is
<1> QED
  BY <1>3, <1>4, <1>5 DEF RoomsInv, QueueInv

LEMMA OnFinishedStep ==
  ASSUME RoomsInv, NEW c \in Channels, OnFinished(c) PROVE RoomsInv'
<1>1. hooks[c] # << >> /\ Now(c) = hooks[c][1] /\ Now(c).kind = "finished"
  BY FirstEvent DEF RoomsInv, OnFinished, Delivers, Now
<1>2. RoomsTypeOK'
  BY DEF RoomsInv, RoomsTypeOK, OnFinished, Goes, Steps, elsewhere, sfu, bounds
<1>3. LedgerBounded'
  BY LedgerSame DEF OnFinished
<1>4. \A d \in Channels, v \in Users : InRoom(d, v)' => InRoom(d, v)
  BY DEF OnFinished, InRoom
<1>5. QueueInv'
  BY <1>1, <1>4, QueueDelivers DEF RoomsInv, RoomsTypeOK, QueueInv, OnFinished, Goes, elsewhere,
     sfu, Is
<1> QED
  BY <1>2, <1>3, <1>5 DEF RoomsInv, QueueInv

\* The steps of a handler between its first statement and its last.
LEMMA HandlerStep ==
  ASSUME RoomsInv, NEW c \in Channels,
         OpenSession(c) \/ CloseSession(c) \/ ListRoom(c) \/ HandlerFails(c)
  PROVE  RoomsInv'
<1>1. step[c] # "idle" /\ hooks[c] # << >>
  BY DEF OpenSession, CloseSession, ListRoom, HandlerFails, RoomsInv, HandlersHaveEvents
<1>2. step' \in [Channels -> Steps] /\ \A d \in Channels \ {c} : step'[d] = step[d]
  BY DEF OpenSession, CloseSession, ListRoom, HandlerFails, Goes, RoomsInv, RoomsTypeOK, Steps
<1>3. UNCHANGED <<row, slots, hooks, right, sweep, watching, publishing, tracks, alive, tokens,
                  announced, changes>>
  BY DEF OpenSession, CloseSession, ListRoom, HandlerFails, database, elsewhere, sfu, bounds
<1>4. open' \subseteq Channels \X Users
  <2>1. CASE OpenSession(c)
    <3>1. Now(c).user \in Users
      BY <1>1, <2>1, FirstEvent DEF RoomsInv, HandlersHaveEvents, OpenSession
    <3> QED
      BY <2>1, <3>1 DEF RoomsInv, RoomsTypeOK, OpenSession
  <2>2. CASE ~OpenSession(c)
    BY <2>2 DEF RoomsInv, RoomsTypeOK, CloseSession, ListRoom, HandlerFails, Closed, database
  <2> QED
    BY <2>1, <2>2
<1>5. listed' \in [Channels -> SUBSET Users] /\ faults' \in Nat
  <2>1. CASE OpenSession(c) \/ CloseSession(c)
    BY <2>1 DEF RoomsInv, RoomsTypeOK, OpenSession, CloseSession, elsewhere, bounds
  <2>2. CASE ListRoom(c)
    <3>1. Publishers(c) \in SUBSET Users
      BY DEF Publishers
    <3> QED
      BY <2>2, <3>1 DEF RoomsInv, RoomsTypeOK, ListRoom, elsewhere, bounds
  <2>3. CASE HandlerFails(c)
    BY <2>3 DEF RoomsInv, RoomsTypeOK, HandlerFails
  <2> QED
    BY <2>1, <2>2, <2>3
<1>6. RoomsTypeOK'
  BY <1>2, <1>3, <1>4, <1>5 DEF RoomsInv, RoomsTypeOK
<1>7. LedgerBounded'
  BY <1>3, LedgerSame
<1>8. step'[c] # "open"
  BY DEF OpenSession, CloseSession, ListRoom, HandlerFails, Goes, RoomsInv, RoomsTypeOK
<1>9. QueueInv'
  BY <1>1, <1>2, <1>3, <1>8, QueueFrame DEF RoomsInv, QueueInv, InRoom
<1> QED
  BY <1>6, <1>7, <1>9 DEF RoomsInv, QueueInv

LEMMA ReleaseStep ==
  ASSUME RoomsInv, NEW c \in Channels, Release(c) PROVE RoomsInv'
<1>1. \A d \in Channels, s \in Sources : slots'[d][s] \subseteq slots[d][s]
  BY DEF RoomsInv, RoomsTypeOK, Release
<1>2. slots' \in [Channels -> [Sources -> SUBSET Users]] /\ step' \in [Channels -> Steps]
  BY DEF RoomsInv, RoomsTypeOK, Release, Goes, Steps
<1>3. RoomsTypeOK'
  BY <1>2 DEF RoomsInv, RoomsTypeOK, Release, database, elsewhere, sfu, bounds
<1>4. LedgerBounded'
  BY <1>1, LedgerShrinks DEF RoomsInv
<1>5. QueueInv'
  BY QueueFrame DEF RoomsInv, RoomsTypeOK, QueueInv, Release, Goes, database, elsewhere, sfu, InRoom
<1> QED
  BY <1>3, <1>4, <1>5 DEF RoomsInv, QueueInv

LEMMA LastStep ==
  ASSUME RoomsInv, NEW c \in Channels, ForgetRoom(c) \/ Tell(c) PROVE RoomsInv'
<1>1. /\ hooks[c] # << >>
      /\ \A u \in Users : Is(hooks[c][1], "left", u) => ~InRoom(c, u)
  BY DEF RoomsInv, HandlersHaveEvents, ForgetRoom, Tell
<1>2. hooks' \in [Channels -> Seq(Hook)] /\ step' \in [Channels -> Steps]
  <2>1. Answered(c)
    BY DEF ForgetRoom, Tell
  <2> QED
    BY <1>1, <2>1 DEF RoomsInv, RoomsTypeOK, Answered, Goes, Steps
<1>3. /\ \A d \in Channels, s \in Sources : slots'[d][s] \subseteq slots[d][s]
      /\ slots' \in [Channels -> [Sources -> SUBSET Users]]
  <2>1. CASE ForgetRoom(c)
    BY <2>1 DEF RoomsInv, RoomsTypeOK, ForgetRoom
  <2>2. CASE Tell(c)
    BY <2>2 DEF RoomsInv, RoomsTypeOK, Tell
  <2> QED
    BY <2>1, <2>2
<1>4. announced' \in [Channels -> SUBSET Users] /\ listed' \in [Channels -> SUBSET Users]
  BY DEF RoomsInv, RoomsTypeOK, ForgetRoom, Tell
<1>5. UNCHANGED <<row, open, right, sweep, watching, publishing, tracks, alive, tokens, faults,
                  changes>> /\ Answered(c)
  BY DEF ForgetRoom, Tell, database, elsewhere, sfu, bounds
<1>6. RoomsTypeOK'
  BY <1>2, <1>3, <1>4, <1>5 DEF RoomsInv, RoomsTypeOK
<1>7. LedgerBounded'
  BY <1>3, LedgerShrinks DEF RoomsInv
<1>8. QueueInv'
  BY <1>1, <1>5, QueueAnswered DEF RoomsInv, QueueInv
<1> QED
  BY <1>6, <1>7, <1>8 DEF RoomsInv, QueueInv

-----------------------------------------------------------------------------
(* The sweep and the restart. *)

LEMMA SweepFrame ==
  ASSUME RoomsInv, NEW c \in Channels, NEW x \in Sweep,
         sweep' = [sweep EXCEPT ![c] = x],
         right' \in [Users -> [Channels -> Rights]], changes' \in Nat, faults' \in Nat,
         UNCHANGED <<row, webhookSide, sfu, tokens, hooks>>
  PROVE  RoomsInv'
<1>1. UNCHANGED <<row, open, slots, step, listed, announced, watching, publishing, tracks, alive,
                  tokens, hooks>>
  BY DEF webhookSide, handling, sfu
<1>2. RoomsTypeOK'
  BY <1>1 DEF RoomsInv, RoomsTypeOK
<1>3. LedgerBounded'
  BY <1>1, LedgerSame
<1>4. QueueInv'
  BY <1>1, QueueFrame DEF RoomsInv, QueueInv, InRoom
<1> QED
  BY <1>2, <1>3, <1>4 DEF RoomsInv, QueueInv

LEMMA SweepStep ==
  ASSUME RoomsInv, NEW c \in Channels, SweepChannel(c) \/ SweepEnds(c)
  PROVE  RoomsInv'
<1>1. sweep \in [Channels -> Sweep] /\ sweep[c] \in Sweep
  BY DEF RoomsInv, RoomsTypeOK
<1>2. NoSweep \in Sweep
  BY DEF NoSweep, Sweep
<1>3. \E x \in Sweep : sweep' = [sweep EXCEPT ![c] = x]
  <2>1. CASE SweepChannel(c)
    BY <1>1, <1>2, <2>1 DEF SweepChannel, Sweep
  <2>2. CASE SweepEnds(c)
    BY <1>2, <2>2 DEF SweepEnds
  <2> QED
    BY <2>1, <2>2
<1>4. /\ right' \in [Users -> [Channels -> Rights]] /\ changes' \in Nat /\ faults' \in Nat
      /\ UNCHANGED <<row, webhookSide, sfu, tokens, hooks>>
  BY DEF RoomsInv, RoomsTypeOK, SweepChannel, SweepEnds, bounds
<1> QED
  BY <1>3, <1>4, SweepFrame

LEMMA RightStep ==
  ASSUME RoomsInv, NEW c \in Channels, NEW u \in Users, NEW r \in Rights,
         ChangeRight(c, u, r) \/ SweepKeeps(c, u) \/ SweepEvicts(c, u)
  PROVE  RoomsInv'
<1>1. sweep \in [Channels -> Sweep] /\ sweep[c] \in Sweep
  BY DEF RoomsInv, RoomsTypeOK
<1>2. \E x \in Sweep : sweep' = [sweep EXCEPT ![c] = x]
  <2>1. CASE ChangeRight(c, u, r)
    BY <1>1, <2>1 DEF ChangeRight, Sweep
  <2>2. CASE SweepKeeps(c, u)
    BY <1>1, <2>2 DEF SweepKeeps, Sweep
  <2>3. CASE SweepEvicts(c, u)
    BY <1>1, <2>3 DEF SweepEvicts, Sweep
  <2> QED
    BY <2>1, <2>2, <2>3
<1>3. /\ right' \in [Users -> [Channels -> Rights]] /\ changes' \in Nat /\ faults' \in Nat
      /\ UNCHANGED <<row, webhookSide, sfu, tokens, hooks>>
  <2>1. CASE ChangeRight(c, u, r)
    BY <2>1 DEF RoomsInv, RoomsTypeOK, ChangeRight
  <2>2. CASE SweepKeeps(c, u) \/ SweepEvicts(c, u)
    BY <2>2 DEF RoomsInv, RoomsTypeOK, SweepKeeps, SweepEvicts, bounds
  <2> QED
    BY <2>1, <2>2
<1> QED
  BY <1>2, <1>3, SweepFrame

LEMMA EvictStep ==
  ASSUME RoomsInv, NEW c \in Channels,
         EvictPublisher(c) \/ EvictViewer(c) \/ EvictRow(c)
  PROVE  RoomsInv'
<1> DEFINE u == sweep[c].victim
<1>1. u \in Users /\ sweep[c] \in Sweep
  BY DEF RoomsInv, RoomsTypeOK, Sweep, EvictPublisher, EvictViewer, EvictRow
<1>2. sweep' \in [Channels -> Sweep]
  <2>1. PICK x \in Sweep : sweep' = [sweep EXCEPT ![c] = x]
    <3>1. CASE EvictPublisher(c)
      BY <1>1, <3>1 DEF EvictPublisher, Sweep, RoomsInv, RoomsTypeOK
    <3>2. CASE EvictViewer(c)
      BY <1>1, <3>2 DEF EvictViewer, Sweep, RoomsInv, RoomsTypeOK
    <3>3. CASE EvictRow(c)
      BY <1>1, <3>3 DEF EvictRow, Sweep, RoomsInv, RoomsTypeOK
    <3> QED
      BY <3>1, <3>2, <3>3
  <2> QED
    BY <2>1 DEF RoomsInv, RoomsTypeOK
<1>3. /\ UNCHANGED <<open, slots, step, listed, announced, right, tokens, changes>>
      /\ faults' \in Nat
  BY DEF RoomsInv, RoomsTypeOK, EvictPublisher, EvictViewer, EvictRow, webhookSide, handling
<1>4. LedgerBounded'
  BY <1>3, LedgerSame
<1>5. "publisher_left" \in Kinds /\ "left" \in Kinds /\ AnySource \in Sources
  BY DEF Kinds, AnySource, Sources
<1>6. Event("publisher_left", u, AnySource) \in Hook /\ Event("left", u, AnySource) \in Hook
  BY <1>1, <1>5, EventType
<1>7. CASE UNCHANGED <<row, sfu, hooks>>
  <2>1. RoomsTypeOK'
    BY <1>2, <1>3, <1>7 DEF RoomsInv, RoomsTypeOK, sfu
  <2>2. QueueInv'
    BY <1>3, <1>7, QueueFrame DEF RoomsInv, QueueInv, InRoom, sfu
  <2> QED
    BY <1>4, <2>1, <2>2 DEF RoomsInv, QueueInv
<1>8. CASE DropPublisher(c, u) /\ UNCHANGED row
  <2>1. hooks' \in [Channels -> Seq(Hook)]
    BY <1>6, <1>8, ReportType DEF RoomsInv, DropPublisher
  <2>2. RoomsTypeOK'
    BY <1>2, <1>3, <1>8, <2>1 DEF RoomsInv, RoomsTypeOK, DropPublisher
  <2>3. QueueInv'
    BY <1>3, <1>6, <1>8, QueueReport DEF RoomsInv, QueueInv, DropPublisher, Report, Event
  <2> QED
    BY <1>4, <2>2, <2>3 DEF RoomsInv, QueueInv
<1>9. CASE DropViewer(c, u) /\ UNCHANGED row
  <2>1. hooks' \in [Channels -> Seq(Hook)]
    BY <1>6, <1>9, ReportType DEF RoomsInv, DropViewer
  <2>2. RoomsTypeOK'
    BY <1>2, <1>3, <1>9, <2>1 DEF RoomsInv, RoomsTypeOK, DropViewer
  <2>3. QueueInv'
    BY <1>3, <1>6, <1>9, QueueReport DEF RoomsInv, QueueInv, DropViewer, Report, Event
  <2> QED
    BY <1>4, <2>2, <2>3 DEF RoomsInv, QueueInv
<1>10. CASE row' = [row EXCEPT ![u] = None] /\ UNCHANGED <<sfu, hooks>>
  <2>1. RoomsTypeOK'
    BY <1>1, <1>2, <1>3, <1>10 DEF RoomsInv, RoomsTypeOK, sfu
  <2>2. \A d \in Channels, v \in Users : InRoom(d, v)' => InRoom(d, v)
    BY <1>1, <1>10 DEF RoomsInv, RoomsTypeOK, InRoom
  <2>3. QueueInv'
    BY <1>3, <1>10, <2>2, QueueFrame DEF RoomsInv, QueueInv, sfu
  <2> QED
    BY <1>4, <2>1, <2>3 DEF RoomsInv, QueueInv
<1> QED
  BY <1>7, <1>8, <1>9, <1>10 DEF EvictPublisher, EvictViewer, EvictRow, Left

LEMMA RestartStep ==
  ASSUME RoomsInv, Restart PROVE RoomsInv'
<1>1. RoomsTypeOK'
  BY DEF RoomsInv, RoomsTypeOK, Restart, NoSweep, Sweep, Steps, sfu
<1>2. LedgerBounded'
  BY LedgerShrinks DEF RoomsInv, Restart
<1>3. QueueInv'
  BY QueueFrame DEF RoomsInv, QueueInv, Restart, sfu, InRoom
<1> QED
  BY <1>1, <1>2, <1>3 DEF RoomsInv, QueueInv

LEMMA RoomsStep ==
  ASSUME RoomsInv, [RoomsNext]_roomsVars PROVE RoomsInv'
<1>1. CASE UNCHANGED roomsVars
  <2>1. RoomsTypeOK'
    BY <1>1 DEF RoomsInv, RoomsTypeOK, roomsVars
  <2>2. LedgerBounded'
    BY <1>1, LedgerSame DEF roomsVars
  <2>3. QueueInv'
    BY <1>1, QueueFrame DEF RoomsInv, QueueInv, roomsVars, InRoom
  <2> QED
    BY <2>1, <2>2, <2>3 DEF RoomsInv, QueueInv
<1>2. CASE \E c \in Channels, u \in Users : \E wanted \in Requests : Token(c, u, wanted)
  BY <1>2, TokenStep
<1>3. CASE \E c \in Channels, u \in Users : SfuJoin(c, u) \/ SfuLeave(c, u)
  BY <1>3, SfuViewerStep
<1>4. CASE \E c \in Channels, u \in Users :
             \/ SfuJoinPublisher(c, u) \/ SfuLeavePublisher(c, u)
             \/ \E s \in Sources : SfuPublish(c, u, s) \/ SfuUnpublish(c, u, s)
  <2>1. "screen" \in Sources
    BY DEF Sources
  <2> QED
    BY <1>4, <2>1, SfuPublisherStep
<1>5. CASE \E c \in Channels, u \in Users :
             \/ \E r \in Rights : ChangeRight(c, u, r)
             \/ SweepKeeps(c, u) \/ SweepEvicts(c, u)
  <2>1. "none" \in Rights
    BY DEF Rights
  <2> QED
    BY <1>5, <2>1, RightStep
<1>6. CASE \E c \in Channels : SweepChannel(c) \/ SweepEnds(c)
  BY <1>6, SweepStep
<1>7. CASE \E c \in Channels : EvictPublisher(c) \/ EvictViewer(c) \/ EvictRow(c)
  BY <1>7, EvictStep
<1>8. CASE \E c \in Channels :
             \/ OnJoin(c) \/ OnLeave(c) \/ OnShareStart(c) \/ OnPublisherGone(c)
             \/ OnShareStop(c) \/ OnNobody(c) \/ OnFinished(c)
  BY <1>8, OnJoinStep, OnLeaveStep, OnShareStep, OnNobodyStep, OnFinishedStep
<1>9. CASE \E c \in Channels :
             \/ OpenSession(c) \/ CloseSession(c) \/ Release(c) \/ ForgetRoom(c)
             \/ ListRoom(c) \/ Tell(c) \/ HandlerFails(c)
  BY <1>9, HandlerStep, ReleaseStep, LastStep
<1>10. CASE \E c \in Channels : SfuClose(c)
  BY <1>10, SfuCloseStep
<1>11. CASE Restart
  BY <1>11, RestartStep
<1>12. CASE RoomsNext
  BY <1>2, <1>3, <1>4, <1>5, <1>6, <1>7, <1>8, <1>9, <1>10, <1>11, <1>12 DEF RoomsNext
<1> QED
  BY <1>1, <1>12

-----------------------------------------------------------------------------
\* RoomsInv is an invariant of every room, whatever the handlers, the sweeps, the
\* token requests, LiveKit, failures and restarts do (routes/rooms.rs, livekit.rs).
THEOREM RoomsInvariant == RoomsSpec => []RoomsInv
<1>1. RoomsInit => RoomsInv
  BY RoomsInitHolds
<1>2. RoomsInv /\ [RoomsNext]_roomsVars => RoomsInv'
  BY RoomsStep
<1> QED
  BY <1>1, <1>2, PTL DEF RoomsSpec

\* The ledger never grants a source of a room to more people than its ceiling
\* (claim_publications).
THEOREM LedgerIsBounded == RoomsSpec => []LedgerBounded
<1>1. RoomsInv => LedgerBounded
  BY DEF RoomsInv
<1> QED
  BY <1>1, RoomsInvariant, PTL

\* Once LiveKit's events of a room are handled, a row there is of somebody who is
\* connected (on_join, on_leave, evict).
THEOREM RowsAreConnected == RoomsSpec => []RowIsConnected
<1>1. RoomsInv => RowIsConnected
  BY DEF RoomsInv, RowsAccounted, RowIsConnected, Quiet, LeavesAfter
<1> QED
  BY <1>1, RoomsInvariant, PTL


-----------------------------------------------------------------------------
(* EventsInv: the queue and one user in one room.                            *)

\* A leave, and the stop of a source, in a queue that grows at its end.
LEMMA AppendKeeps ==
  ASSUME NEW q \in Seq(Hook), NEW e \in Hook, NEW u, NEW s, NEW i \in Nat
  PROVE  /\ LeavesAfter(q, u, i) => LeavesAfter(Append(q, e), u, i)
         /\ StopsAfter(q, u, s, i) => StopsAfter(Append(q, e), u, s, i)
         /\ i <= Len(q) /\ Is(e, "left", u) => LeavesAfter(Append(q, e), u, i)
         /\ i <= Len(q) /\ Stops(e, u, s) => StopsAfter(Append(q, e), u, s, i)
<1> DEFINE p == Append(q, e)
<1>1. /\ Len(q) \in Nat /\ Len(p) = Len(q) + 1 /\ p[Len(q) + 1] = e
      /\ \A j \in 1..Len(q) : p[j] = q[j]
  OBVIOUS
<1> HIDE DEF p
<1>2. \A j \in 1..Len(q) : j \in 1..Len(p)
  BY <1>1
<1>3. Len(q) + 1 \in 1..Len(p) /\ (i <= Len(q) => Len(q) + 1 > i)
  BY <1>1
<1>4. LeavesAfter(q, u, i) => LeavesAfter(p, u, i)
  BY <1>1, <1>2 DEF LeavesAfter
<1>5. StopsAfter(q, u, s, i) => StopsAfter(p, u, s, i)
  BY <1>1, <1>2 DEF StopsAfter
<1>6. i <= Len(q) /\ Is(e, "left", u) => LeavesAfter(p, u, i)
  BY <1>1, <1>3 DEF LeavesAfter
<1>7. i <= Len(q) /\ Stops(e, u, s) => StopsAfter(p, u, s, i)
  BY <1>1, <1>3 DEF StopsAfter
<1> QED
  BY <1>4, <1>5, <1>6, <1>7 DEF p

\* The same in a queue whose first event is answered.
LEMMA TailKeeps ==
  ASSUME NEW q \in Seq(Hook), q # << >>, NEW u, NEW s, NEW i \in Nat
  PROVE  /\ LeavesAfter(q, u, i + 1) => LeavesAfter(Tail(q), u, i)
         /\ StopsAfter(q, u, s, i + 1) => StopsAfter(Tail(q), u, s, i)
<1> DEFINE p == Tail(q)
<1>1. /\ Len(q) \in Nat \ {0} /\ Len(p) = Len(q) - 1
      /\ \A j \in 1..Len(p) : p[j] = q[j + 1]
  OBVIOUS
<1> HIDE DEF p
<1>2. ASSUME NEW j \in 1..Len(q), j > i + 1
      PROVE  j - 1 \in 1..Len(p) /\ p[j - 1] = q[j] /\ j - 1 > i
  BY <1>1, <1>2
<1>3. LeavesAfter(q, u, i + 1) => LeavesAfter(p, u, i)
  BY <1>2 DEF LeavesAfter
<1>4. StopsAfter(q, u, s, i + 1) => StopsAfter(p, u, s, i)
  BY <1>2 DEF StopsAfter
<1> QED
  BY <1>3, <1>4 DEF p

\* Where the first event is another, a leave or a stop comes after it.
LEMMA LaterKeeps ==
  ASSUME NEW q \in Seq(Hook), NEW u, NEW s
  PROVE  /\ LeavesAfter(q, u, 0) /\ ~Is(q[1], "left", u) => LeavesAfter(q, u, 1)
         /\ StopsAfter(q, u, s, 0) /\ ~Stops(q[1], u, s) => StopsAfter(q, u, s, 1)
         /\ LeavesAfter(q, u, 1) => LeavesAfter(q, u, 0)
         /\ StopsAfter(q, u, s, 1) => StopsAfter(q, u, s, 0)
<1>1. \A j \in 1..Len(q) : j > 0 /\ (j = 1 \/ j > 1) /\ (j > 1 => j > 0)
  OBVIOUS
<1> QED
  BY <1>1 DEF LeavesAfter, StopsAfter

\* What EventsInv says of a user and the only room they were let into.
PairInv(c, u) == SourcesAccounted(c, u) /\ SessionsAccounted(c, u) /\ AnnouncementsAccounted(c, u)

\* Nothing happens to them, or their row is deleted, or the room's handler ends.
LEMMA PairFrame ==
  ASSUME RoomsInv, NEW c \in Channels, NEW u \in Users, PairInv(c, u),
         hooks'[c] = hooks[c], tracks'[c][u] = tracks[c][u],
         <<c, u>> \in watching => <<c, u>> \in watching',
         step'[c] = step[c] \/ (step'[c] = "idle" /\ u \notin listed'[c]),
         InRoom(c, u)' => InRoom(c, u) /\ row'[u] = row[u],
         <<c, u>> \in open' => <<c, u>> \in open,
         u \in announced'[c] => u \in announced[c],
         u \in listed'[c] => u \in listed[c]
  PROVE  PairInv(c, u)'
<1>1. hooks[c] \in Seq(Hook)
  BY DEF RoomsInv, RoomsTypeOK
<1>2. \A i \in Nat : Stays(c, u, i) => Stays(c, u, i)'
  BY DEF Stays
<1>3. \A s \in Sources, i \in Nat : OnAir(c, u, s, i) => OnAir(c, u, s, i)'
  BY DEF OnAir
<1>4. SourcesAccounted(c, u)'
  <2>1. ASSUME NEW s \in Sources, InRoom(c, u)', s \in row'[u].live
        PROVE  OnAir(c, u, s, 0)' /\ (step'[c] # "idle" => OnAir(c, u, s, 1)')
    BY <1>3, <2>1 DEF PairInv, SourcesAccounted
  <2>2. ASSUME NEW s \in Sources, NEW i \in 1..Len(hooks'[c]),
               Is(hooks'[c][i], "published", u), hooks'[c][i].source = s
        PROVE  OnAir(c, u, s, i)'
    <3>1. OnAir(c, u, s, i) /\ i \in Nat
      BY <1>1, <2>2 DEF PairInv, SourcesAccounted
    <3> QED
      BY <1>3, <3>1
  <2> QED
    BY <2>1, <2>2 DEF SourcesAccounted
<1>5. SessionsAccounted(c, u)'
  BY <1>2 DEF PairInv, SessionsAccounted
<1>6. AnnouncementsAccounted(c, u)'
  BY <1>2 DEF PairInv, AnnouncementsAccounted
<1> QED
  BY <1>4, <1>5, <1>6 DEF PairInv

\* LiveKit reports an event of the room: a leave when the user goes, a stop when a
\* source of theirs goes off the air.
LEMMA PairReport ==
  ASSUME RoomsInv, NEW c \in Channels, NEW u \in Users, PairInv(c, u), NEW e \in Hook,
         hooks'[c] = Append(hooks[c], e), step'[c] = step[c], row'[u] = row[u],
         <<c, u>> \in open' => <<c, u>> \in open,
         announced'[c] = announced[c], listed'[c] = listed[c],
         <<c, u>> \in watching => <<c, u>> \in watching' \/ Is(e, "left", u),
         \A s \in Sources : s \in tracks[c][u] => s \in tracks'[c][u] \/ Stops(e, u, s),
         Is(e, "published", u) => e.source \in tracks'[c][u]
  PROVE  PairInv(c, u)'
<1>1. /\ hooks[c] \in Seq(Hook) /\ Len(hooks[c]) \in Nat
      /\ Len(hooks'[c]) = Len(hooks[c]) + 1 /\ hooks'[c][Len(hooks[c]) + 1] = e
      /\ \A i \in 1..Len(hooks[c]) : hooks'[c][i] = hooks[c][i]
  BY DEF RoomsInv, RoomsTypeOK
<1>2. step[c] # "idle" => hooks[c] # << >>
  BY DEF RoomsInv, HandlersHaveEvents
<1>3. hooks[c] # << >> =>
        Len(hooks[c]) >= 1 /\ hooks'[c] # << >> /\ hooks'[c][1] = hooks[c][1]
  <2>1. hooks[c] # << >> => 1 \in 1..Len(hooks[c])
    BY <1>1
  <2>2. hooks'[c] # << >>
    BY <1>1
  <2> QED
    BY <1>1, <2>1, <2>2
<1>4. ASSUME NEW i \in Nat, i <= Len(hooks[c]), Stays(c, u, i) PROVE Stays(c, u, i)'
  <2>1. CASE LeavesAfter(hooks[c], u, i)
    <3>1. LeavesAfter(hooks'[c], u, i)
      BY <1>1, <2>1, AppendKeeps
    <3> QED
      BY <3>1 DEF Stays
  <2>2. CASE <<c, u>> \in watching
    <3>1. Is(e, "left", u) => LeavesAfter(hooks'[c], u, i)
      BY <1>1, <1>4, AppendKeeps
    <3> QED
      BY <2>2, <3>1 DEF Stays
  <2> QED
    BY <1>4, <2>1, <2>2 DEF Stays
<1>5. ASSUME NEW s \in Sources, NEW i \in Nat, i <= Len(hooks[c]), OnAir(c, u, s, i)
      PROVE  OnAir(c, u, s, i)'
  <2>1. CASE StopsAfter(hooks[c], u, s, i)
    <3>1. StopsAfter(hooks'[c], u, s, i)
      BY <1>1, <2>1, AppendKeeps
    <3> QED
      BY <3>1 DEF OnAir
  <2>2. CASE s \in tracks[c][u]
    <3>1. Stops(e, u, s) => StopsAfter(hooks'[c], u, s, i)
      BY <1>1, <1>5, AppendKeeps
    <3> QED
      BY <2>2, <3>1 DEF OnAir
  <2> QED
    BY <1>5, <2>1, <2>2 DEF OnAir
<1>6. 0 <= Len(hooks[c]) /\ (step[c] # "idle" => 1 <= Len(hooks[c]))
  BY <1>1, <1>2, <1>3
<1>7. SourcesAccounted(c, u)'
  <2>1. ASSUME NEW s \in Sources, InRoom(c, u)', s \in row'[u].live
        PROVE  OnAir(c, u, s, 0)' /\ (step'[c] # "idle" => OnAir(c, u, s, 1)')
    <3>1. InRoom(c, u) /\ s \in row[u].live
      BY <2>1 DEF InRoom
    <3>2. OnAir(c, u, s, 0) /\ (step[c] # "idle" => OnAir(c, u, s, 1))
      BY <3>1 DEF PairInv, SourcesAccounted
    <3> QED
      BY <1>5, <1>6, <3>2
  <2>2. ASSUME NEW s \in Sources, NEW i \in 1..Len(hooks'[c]),
               Is(hooks'[c][i], "published", u), hooks'[c][i].source = s
        PROVE  OnAir(c, u, s, i)'
    <3>1. CASE i = Len(hooks[c]) + 1
      <4>1. Is(e, "published", u) /\ e.source = s
        BY <1>1, <2>2, <3>1
      <4> QED
        BY <4>1 DEF OnAir
    <3>2. CASE i # Len(hooks[c]) + 1
      <4>1. i \in 1..Len(hooks[c]) /\ i \in Nat /\ i <= Len(hooks[c])
        BY <1>1, <3>2
      <4>2. OnAir(c, u, s, i)
        BY <1>1, <2>2, <4>1 DEF PairInv, SourcesAccounted
      <4> QED
        BY <1>5, <4>1, <4>2
    <3> QED
      BY <3>1, <3>2
  <2> QED
    BY <2>1, <2>2 DEF SourcesAccounted
<1>8. SessionsAccounted(c, u)'
  <2>1. <<c, u>> \in open' =>
          Stays(c, u, 0)' /\ (step'[c] \notin {"idle", "close"} => Stays(c, u, 1)')
    BY <1>4, <1>6 DEF PairInv, SessionsAccounted
  <2>2. step'[c] = "open" /\ hooks'[c][1].user = u => Stays(c, u, 1)'
    BY <1>2, <1>3, <1>4, <1>6 DEF PairInv, SessionsAccounted
  <2> QED
    BY <2>1, <2>2 DEF SessionsAccounted
<1>9. AnnouncementsAccounted(c, u)'
  <2>1. u \in announced'[c] =>
          /\ Stays(c, u, 0)'
          /\ InRoom(c, u)' /\ row'[u].live = {} => hooks'[c] # << >> /\ hooks'[c][1].user = u
    BY <1>3, <1>4, <1>6 DEF PairInv, AnnouncementsAccounted, InRoom
  <2>2. u \in listed'[c] =>
          /\ step'[c] = "tell" /\ Stays(c, u, 1)'
          /\ InRoom(c, u)' => row'[u].live # {}
    BY <1>4, <1>6 DEF PairInv, AnnouncementsAccounted, InRoom
  <2> QED
    BY <2>1, <2>2 DEF AnnouncementsAccounted
<1> QED
  BY <1>7, <1>8, <1>9 DEF PairInv

\* The room's first event is answered, and what it ended is neither shown, open nor
\* announced any more.
LEMMA PairAnswered ==
  ASSUME RoomsInv, NEW c \in Channels, NEW u \in Users, PairInv(c, u), hooks[c] # << >>,
         hooks'[c] = Tail(hooks[c]), step'[c] = "idle", row'[u] = row[u],
         tracks'[c][u] = tracks[c][u], <<c, u>> \in watching => <<c, u>> \in watching',
         <<c, u>> \in open' => <<c, u>> \in open, u \notin listed'[c],
         \A s \in Sources : InRoom(c, u) /\ s \in row[u].live => OnAir(c, u, s, 1),
         <<c, u>> \in open => Stays(c, u, 1),
         u \in announced'[c] => Stays(c, u, 1) /\ (InRoom(c, u) => row[u].live # {})
  PROVE  PairInv(c, u)'
<1>1. /\ hooks[c] \in Seq(Hook) /\ Len(hooks[c]) \in Nat
      /\ Len(hooks'[c]) = Len(hooks[c]) - 1
      /\ \A i \in 1..Len(hooks'[c]) : hooks'[c][i] = hooks[c][i + 1]
  BY DEF RoomsInv, RoomsTypeOK
<1>2. ASSUME NEW i \in Nat, Stays(c, u, i + 1) PROVE Stays(c, u, i)'
  <2>1. LeavesAfter(hooks[c], u, i + 1) => LeavesAfter(hooks'[c], u, i)
    BY <1>1, TailKeeps
  <2> QED
    BY <1>2, <2>1 DEF Stays
<1>3. ASSUME NEW s \in Sources, NEW i \in Nat, OnAir(c, u, s, i + 1) PROVE OnAir(c, u, s, i)'
  <2>1. StopsAfter(hooks[c], u, s, i + 1) => StopsAfter(hooks'[c], u, s, i)
    BY <1>1, TailKeeps
  <2> QED
    BY <1>3, <2>1 DEF OnAir
<1>4. 0 \in Nat /\ 0 + 1 = 1
  OBVIOUS
<1>5. SourcesAccounted(c, u)'
  <2>1. ASSUME NEW s \in Sources, InRoom(c, u)', s \in row'[u].live PROVE OnAir(c, u, s, 0)'
    <3>1. OnAir(c, u, s, 0 + 1)
      BY <1>4, <2>1 DEF InRoom
    <3> QED
      BY <1>3, <3>1
  <2>2. ASSUME NEW s \in Sources, NEW i \in 1..Len(hooks'[c]),
               Is(hooks'[c][i], "published", u), hooks'[c][i].source = s
        PROVE  OnAir(c, u, s, i)'
    <3>1. i + 1 \in 1..Len(hooks[c]) /\ hooks'[c][i] = hooks[c][i + 1] /\ i \in Nat
      BY <1>1
    <3>2. OnAir(c, u, s, i + 1)
      BY <2>2, <3>1 DEF PairInv, SourcesAccounted
    <3> QED
      BY <1>3, <3>1, <3>2
  <2> QED
    BY <2>1, <2>2 DEF SourcesAccounted
<1>6. Stays(c, u, 1) => Stays(c, u, 0)'
  BY <1>2, <1>4
<1>7. SessionsAccounted(c, u)'
  BY <1>6 DEF SessionsAccounted
<1>8. AnnouncementsAccounted(c, u)'
  BY <1>6 DEF AnnouncementsAccounted, InRoom
<1> QED
  BY <1>5, <1>7, <1>8 DEF PairInv

\* The handler of the room's first event starts.
LEMMA PairDelivers ==
  ASSUME RoomsInv, NEW c \in Channels, NEW u \in Users, PairInv(c, u), hooks[c] # << >>,
         step[c] = "idle", step'[c] \notin {"idle", "tell"}, hooks'[c] = hooks[c],
         UNCHANGED <<tracks, watching, open, announced, listed>>,
         \A s \in Sources : InRoom(c, u)' /\ s \in row'[u].live =>
           (InRoom(c, u) /\ s \in row[u].live /\ ~Stops(hooks[c][1], u, s)) \/ OnAir(c, u, s, 1),
         step'[c] = "close" \/ ~Is(hooks[c][1], "left", u),
         \/ hooks[c][1].user = u
         \/ InRoom(c, u)' /\ row'[u].live = {} => InRoom(c, u) /\ row[u].live = {},
         step'[c] = "open" /\ hooks[c][1].user = u => Stays(c, u, 1)
  PROVE  PairInv(c, u)'
<1>1. hooks[c] \in Seq(Hook)
  BY DEF RoomsInv, RoomsTypeOK
<1>2. \A i \in Nat : Stays(c, u, i) => Stays(c, u, i)'
  BY DEF Stays
<1>3. \A s \in Sources, i \in Nat : OnAir(c, u, s, i) => OnAir(c, u, s, i)'
  BY DEF OnAir
<1>4. \A s \in Sources : /\ OnAir(c, u, s, 0) /\ ~Stops(hooks[c][1], u, s) => OnAir(c, u, s, 1)
                         /\ OnAir(c, u, s, 1) => OnAir(c, u, s, 0)
  BY <1>1, LaterKeeps DEF OnAir
<1>5. Stays(c, u, 0) /\ ~Is(hooks[c][1], "left", u) => Stays(c, u, 1)
  BY <1>1, LaterKeeps DEF Stays
<1>6. SourcesAccounted(c, u)'
  <2>1. ASSUME NEW s \in Sources, InRoom(c, u)', s \in row'[u].live
        PROVE  OnAir(c, u, s, 0)' /\ (step'[c] # "idle" => OnAir(c, u, s, 1)')
    <3>1. OnAir(c, u, s, 1)
      BY <1>4, <2>1 DEF PairInv, SourcesAccounted
    <3> QED
      BY <1>3, <1>4, <3>1
  <2>2. ASSUME NEW s \in Sources, NEW i \in 1..Len(hooks'[c]),
               Is(hooks'[c][i], "published", u), hooks'[c][i].source = s
        PROVE  OnAir(c, u, s, i)'
    <3>1. OnAir(c, u, s, i) /\ i \in Nat
      BY <1>1, <2>2 DEF PairInv, SourcesAccounted
    <3> QED
      BY <1>3, <3>1
  <2> QED
    BY <2>1, <2>2 DEF SourcesAccounted
<1>7. SessionsAccounted(c, u)'
  BY <1>2, <1>5 DEF PairInv, SessionsAccounted
<1>8. AnnouncementsAccounted(c, u)'
  <2>1. u \notin listed'[c]
    BY DEF PairInv, AnnouncementsAccounted
  <2>2. u \in announced'[c] =>
          /\ Stays(c, u, 0)'
          /\ InRoom(c, u)' /\ row'[u].live = {} => hooks'[c] # << >> /\ hooks'[c][1].user = u
    BY <1>2 DEF PairInv, AnnouncementsAccounted
  <2> QED
    BY <2>1, <2>2 DEF AnnouncementsAccounted
<1> QED
  BY <1>6, <1>7, <1>8 DEF PairInv

\* A handler goes from one statement to the next.
LEMMA PairWorks ==
  ASSUME RoomsInv, NEW c \in Channels, NEW u \in Users, PairInv(c, u),
         step[c] # "idle", step'[c] \notin {"idle", "open", "close"},
         UNCHANGED <<row, hooks, tracks, watching, announced>>,
         <<c, u>> \in open' => Stays(c, u, 1),
         u \in listed'[c] =>
           step'[c] = "tell" /\ Stays(c, u, 1) /\ (InRoom(c, u) => row[u].live # {})
  PROVE  PairInv(c, u)'
<1>1. hooks[c] \in Seq(Hook)
  BY DEF RoomsInv, RoomsTypeOK
<1>2. /\ \A i \in Nat : Stays(c, u, i) => Stays(c, u, i)'
      /\ Stays(c, u, 1) => Stays(c, u, 0)
  BY <1>1, LaterKeeps DEF Stays
<1>3. SourcesAccounted(c, u)'
  BY DEF PairInv, SourcesAccounted, OnAir, InRoom
<1>4. SessionsAccounted(c, u)'
  BY <1>2 DEF SessionsAccounted
<1>5. AnnouncementsAccounted(c, u)'
  BY <1>2 DEF PairInv, AnnouncementsAccounted, InRoom
<1> QED
  BY <1>3, <1>4, <1>5 DEF PairInv

-----------------------------------------------------------------------------
(* EventsInv: the actions, for a user let into no other room. *)

Alone(c, u) == PairInv(c, u) /\ \A d \in Channels \ {c} : Untouched(d, u)

\* Types the steps below use.
LEMMA RoomsTypes ==
  ASSUME RoomsInv
  PROVE  /\ row \in [Users -> Row \cup {None}] /\ open \subseteq Channels \X Users
         /\ step \in [Channels -> Steps]
         /\ listed \in [Channels -> SUBSET Users] /\ announced \in [Channels -> SUBSET Users]
         /\ tracks \in [Channels -> [Users -> SUBSET Sources]]
         /\ hooks \in [Channels -> Seq(Hook)]
         /\ sweep \in [Channels -> Sweep]
         /\ \A d \in Channels : hooks[d] # << >> => hooks[d][1] \in Hook /\ 1 \in 1..Len(hooks[d])
<1>1. \A d \in Channels : hooks[d] \in Seq(Hook)
  BY DEF RoomsInv, RoomsTypeOK
<1> QED
  BY <1>1 DEF RoomsInv, RoomsTypeOK

\* LiveKit and the evictions it is asked for.
LEMMA AloneSfu ==
  ASSUME RoomsInv, NEW c \in Channels, NEW u \in Users, Alone(c, u),
         NEW d \in Channels, NEW v \in Users \cup {None}, NEW s \in Sources,
         UNCHANGED <<row, open, step, listed, announced>>,
         \/ /\ v \in Users
            /\ \/ /\ watching' = watching \cup {<<d, v>>} /\ UNCHANGED tracks
                  /\ Report(d, Event("joined", v, AnySource))
               \/ DropViewer(d, v) \/ DropPublisher(d, v)
               \/ /\ tracks' = [tracks EXCEPT ![d][v] = @ \cup {s}] /\ UNCHANGED watching
                  /\ Report(d, Event("published", v, s))
               \/ /\ tracks' = [tracks EXCEPT ![d][v] = @ \ {s}] /\ UNCHANGED watching
                  /\ Report(d, Event("unpublished", v, s))
         \/ UNCHANGED <<watching, tracks>> /\ v = None
              /\ Report(d, Event("finished", None, AnySource))
  PROVE  PairInv(c, u)'
<1>1. PairInv(c, u)
  BY DEF Alone
<1>2. /\ hooks \in [Channels -> Seq(Hook)]
      /\ tracks \in [Channels -> [Users -> SUBSET Sources]] /\ None \notin Users
  BY RoomsTypes, RoomsAssumption
<1>3. PICK e : /\ e.user = v /\ hooks' = [hooks EXCEPT ![d] = Append(@, e)] /\ e \in Hook
               /\ \/ e.kind = "joined" /\ watching \subseteq watching' /\ UNCHANGED tracks
                  \/ e.kind = "left" /\ watching' = watching \ {<<d, v>>} /\ UNCHANGED tracks
                  \/ /\ e.kind = "publisher_left" /\ UNCHANGED watching
                     /\ tracks' = [tracks EXCEPT ![d][v] = {}]
                  \/ /\ e.kind = "published" /\ e.source = s /\ UNCHANGED watching
                     /\ tracks' = [tracks EXCEPT ![d][v] = @ \cup {s}]
                  \/ /\ e.kind = "unpublished" /\ e.source = s /\ UNCHANGED watching
                     /\ tracks' = [tracks EXCEPT ![d][v] = @ \ {s}]
                  \/ e.kind = "finished" /\ UNCHANGED <<watching, tracks>>
  <2>1. /\ AnySource \in Sources
        /\ \A k, t : Event(k, v, t).kind = k /\ Event(k, v, t).user = v /\ Event(k, v, t).source = t
        /\ \A k \in Kinds, t \in Sources : v \in Users => Event(k, v, t) \in Hook
        /\ \A t \in Sources : Event("finished", None, t) \in Hook
        /\ {"joined", "left", "publisher_left", "published", "unpublished"} \subseteq Kinds
    BY DEF AnySource, Sources, Event, Hook, Kinds
  <2>2. CASE /\ watching' = watching \cup {<<d, v>>} /\ UNCHANGED tracks /\ v \in Users
             /\ Report(d, Event("joined", v, AnySource))
    <3> WITNESS Event("joined", v, AnySource)
    <3> QED
      BY <2>1, <2>2 DEF Report
  <2>3. CASE DropViewer(d, v) /\ v \in Users
    <3> WITNESS Event("left", v, AnySource)
    <3> QED
      BY <2>1, <2>3 DEF Report, DropViewer
  <2>4. CASE DropPublisher(d, v) /\ v \in Users
    <3> WITNESS Event("publisher_left", v, AnySource)
    <3> QED
      BY <2>1, <2>4 DEF Report, DropPublisher
  <2>5. CASE /\ tracks' = [tracks EXCEPT ![d][v] = @ \cup {s}] /\ UNCHANGED watching
             /\ Report(d, Event("published", v, s)) /\ v \in Users
    <3> WITNESS Event("published", v, s)
    <3> QED
      BY <2>1, <2>5 DEF Report
  <2>6. CASE /\ tracks' = [tracks EXCEPT ![d][v] = @ \ {s}] /\ UNCHANGED watching
             /\ Report(d, Event("unpublished", v, s)) /\ v \in Users
    <3> WITNESS Event("unpublished", v, s)
    <3> QED
      BY <2>1, <2>6 DEF Report
  <2>7. CASE /\ UNCHANGED <<watching, tracks>> /\ v = None
             /\ Report(d, Event("finished", None, AnySource))
    <3> WITNESS Event("finished", None, AnySource)
    <3> QED
      BY <2>1, <2>7 DEF Report
  <2> QED
    BY <2>2, <2>3, <2>4, <2>5, <2>6, <2>7
<1>4. CASE d = c
  <2>1. hooks'[c] = Append(hooks[c], e)
    BY <1>2, <1>3, <1>4
  <2>2. <<c, u>> \in watching => <<c, u>> \in watching' \/ Is(e, "left", u)
    BY <1>3, <1>4 DEF Is
  <2>3. \A t \in Sources : t \in tracks[c][u] => t \in tracks'[c][u] \/ Stops(e, u, t)
    BY <1>2, <1>3, <1>4 DEF Is, Stops
  <2>4. Is(e, "published", u) => e.source \in tracks'[c][u]
    BY <1>2, <1>3, <1>4 DEF Is
  <2> QED
    BY <1>1, <1>3, <2>1, <2>2, <2>3, <2>4, PairReport
<1>5. CASE d # c
  <2>1. hooks'[c] = hooks[c] /\ tracks'[c][u] = tracks[c][u]
    BY <1>2, <1>3, <1>5
  <2>2. <<c, u>> \in watching => <<c, u>> \in watching'
    BY <1>3, <1>5
  <2> QED
    BY <1>1, <2>1, <2>2, PairFrame DEF InRoom
<1> QED
  BY <1>4, <1>5

\* A handler starts, in this room or in one that knows nothing of the user.
LEMMA AloneDelivers ==
  ASSUME RoomsInv, NEW c \in Channels, NEW u \in Users, Alone(c, u), NEW d \in Channels,
         \/ OnJoin(d) \/ OnLeave(d) \/ OnShareStart(d) \/ OnPublisherGone(d)
         \/ OnShareStop(d) \/ OnFinished(d)
  PROVE  PairInv(c, u)'
<1>1. /\ PairInv(c, u) /\ step[d] = "idle" /\ hooks[d] # << >>
      /\ hooks[d] \in Seq(Hook) /\ hooks[d][1] \in Hook /\ 1 \in 1..Len(hooks[d])
      /\ step \in [Channels -> Steps]
  BY RoomsTypes DEF Alone, OnJoin, OnLeave, OnShareStart, OnPublisherGone, OnShareStop, OnFinished,
     Delivers
<1>2. Now(d) = hooks[d][1]
  BY <1>1, FirstEvent DEF Now
<1>3. UNCHANGED <<hooks, tracks, watching, open, announced, listed>>
  BY DEF OnJoin, OnLeave, OnShareStart, OnPublisherGone, OnShareStop, OnFinished, elsewhere, sfu
<1>4. row \in [Users -> Row \cup {None}] /\ None \notin Row \cup Users
  BY RoomsTypes, RoomsAssumption
<1>5. step' = [step EXCEPT ![d] = step'[d]] /\ step'[d] \notin {"idle", "tell"}
  BY <1>1 DEF OnJoin, OnLeave, OnShareStart, OnPublisherGone, OnShareStop, OnFinished, Goes
<1> DEFINE e == hooks[d][1]
<1>6. e.user # u => row'[u] = row[u] \/ (OnFinished(d) /\ InRoom(d, u) /\ row'[u] = None)
  BY <1>2, <1>4 DEF OnJoin, OnLeave, OnShareStart, OnPublisherGone, OnShareStop, OnFinished,
     Left, Cleared
<1>7. CASE d # c
  <2>1. Untouched(d, u)
    BY <1>7 DEF Alone
  <2>2. e.user # u /\ ~InRoom(d, u)
    BY <1>1, <2>1 DEF Untouched
  <2>3. row'[u] = row[u]
    BY <1>6, <2>2
  <2>4. step'[c] = step[c]
    BY <1>1, <1>5, <1>7
  <2> QED
    BY <1>1, <1>3, <2>3, <2>4, PairFrame DEF InRoom
<1>8. CASE d = c
  <2>1. row[u] # None => InRoom(c, u)
    <3>1. row[u] # None => row[u].channel \in Channels
      BY <1>4 DEF Row
    <3>2. \A b \in Channels \ {c} : ~InRoom(b, u)
      BY DEF Alone, Untouched
    <3> QED
      BY <3>1, <3>2 DEF InRoom
  <2>2. \A s \in Sources : InRoom(c, u) /\ s \in row[u].live => OnAir(c, u, s, 0)
    BY DEF Alone, PairInv, SourcesAccounted
  <2>3. \A s \in Sources : InRoom(c, u)' /\ s \in row'[u].live =>
          (InRoom(c, u) /\ s \in row[u].live /\ ~Stops(e, u, s)) \/ OnAir(c, u, s, 1)
    <3>1. CASE e.user # u
      <4>1. \A s \in Sources : ~Stops(e, u, s)
        BY <3>1 DEF Stops, Is
      <4> QED
        BY <1>6, <3>1, <4>1 DEF InRoom
    <3>2. CASE e.user = u /\ OnShareStart(d)
      <4>1. Is(e, "published", u) /\ row' = [row EXCEPT ![u].live = @ \cup {e.source}] /\ row[u] # None
        BY <1>2, <3>2 DEF OnShareStart, Delivers, Is, Now
      <4>2. OnAir(c, u, e.source, 1)
        <5>1. e.source \in Sources
          BY <1>1 DEF Hook
        <5> QED
          BY <1>1, <1>8, <4>1, <5>1 DEF PairInv, SourcesAccounted
      <4>3. row'[u].live = row[u].live \cup {e.source}
        BY <1>4, <4>1 DEF Row
      <4>4. \A s \in Sources : ~Stops(e, u, s)
        BY <4>1 DEF Stops, Is
      <4> QED
        BY <2>1, <4>1, <4>2, <4>3, <4>4
    <3>3. CASE e.user = u /\ OnShareStop(d)
      <4>1. /\ e.kind = "unpublished" /\ row' = [row EXCEPT ![u].live = @ \ {e.source}]
            /\ row[u] # None
        BY <1>2, <3>3 DEF OnShareStop, Delivers, Now
      <4>2. row'[u].live = row[u].live \ {e.source}
        BY <1>4, <4>1 DEF Row
      <4> QED
        BY <2>1, <4>1, <4>2 DEF Stops, Is
    <3>4. CASE e.user = u /\ (OnJoin(d) \/ OnLeave(d) \/ OnPublisherGone(d))
      <4>1. InRoom(c, u)' => row'[u].live = {}
        BY <1>2, <1>4, <3>4 DEF OnJoin, OnLeave, OnPublisherGone, Left, Cleared, InRoom, Row
      <4> QED
        BY <4>1
    <3>5. CASE e.user = u /\ OnFinished(d)
      <4>1. ~InRoom(c, u)'
        BY <1>8, <3>5 DEF OnFinished, InRoom
      <4> QED
        BY <4>1
    <3> QED
      BY <3>1, <3>2, <3>3, <3>4, <3>5
  <2>4. step'[c] = "close" \/ ~Is(e, "left", u)
    BY <1>1, <1>2, <1>8 DEF OnJoin, OnLeave, OnShareStart, OnPublisherGone, OnShareStop, OnFinished,
       Delivers, Now, Goes, Is
  <2>5. e.user = u \/ (InRoom(c, u)' /\ row'[u].live = {} => InRoom(c, u) /\ row[u].live = {})
    BY <1>6 DEF InRoom
  <2>6. step'[c] = "open" /\ e.user = u => Stays(c, u, 1)
    <3> SUFFICES ASSUME step'[c] = "open", e.user = u PROVE Stays(c, u, 1)
      OBVIOUS
    <3>1. OnShareStart(d)
      BY <1>1, <1>8 DEF OnJoin, OnLeave, OnShareStart, OnPublisherGone, OnShareStop, OnFinished, Goes
    <3>2. row[u] # None /\ e.kind = "published"
      BY <1>2, <3>1 DEF OnShareStart, Delivers, Now
    <3>3. <<c, u>> \in watching \/ LeavesAfter(hooks[c], u, 0)
      BY <2>1, <3>2 DEF RoomsInv, RowsAccounted
    <3>4. ~Is(hooks[c][1], "left", u)
      BY <1>8, <3>2 DEF Is
    <3> QED
      BY <1>1, <1>8, <3>3, <3>4, LaterKeeps DEF Stays
  <2> QED
    BY <1>1, <1>3, <1>5, <1>8, <2>3, <2>4, <2>5, <2>6, PairDelivers
<1> QED
  BY <1>7, <1>8

\* A handler goes on to its next statement.
LEMMA AloneWorks ==
  ASSUME RoomsInv, NEW c \in Channels, NEW u \in Users, Alone(c, u), NEW d \in Channels,
         OpenSession(d) \/ CloseSession(d) \/ Release(d) \/ ListRoom(d)
  PROVE  PairInv(c, u)'
<1>1. PairInv(c, u) /\ step[d] # "idle"
  BY DEF Alone, OpenSession, CloseSession, Release, ListRoom
<1>2. hooks[d] # << >> /\ (step[d] = "open" => hooks[d][1].user \in Users)
  BY <1>1 DEF RoomsInv, HandlersHaveEvents
<1>3. /\ hooks[d] \in Seq(Hook) /\ 1 \in 1..Len(hooks[d]) /\ Now(d) = hooks[d][1]
      /\ step \in [Channels -> Steps] /\ listed \in [Channels -> SUBSET Users]
  BY <1>2, RoomsTypes, FirstEvent DEF RoomsInv
<1>4. UNCHANGED <<row, hooks, tracks, watching, announced>>
  BY DEF OpenSession, CloseSession, Release, ListRoom, database, elsewhere, sfu
<1>5. step' = [step EXCEPT ![d] = step'[d]] /\ step'[d] \notin {"idle", "open", "close"}
  BY <1>3 DEF OpenSession, CloseSession, Release, ListRoom, Goes
<1> DEFINE e == hooks[d][1]
<1>6. CASE d # c
  <2>1. e.user # u
    BY <1>3, <1>6 DEF Alone, Untouched
  <2>2. <<c, u>> \in open' => <<c, u>> \in open
    BY <1>3, <1>6 DEF OpenSession, CloseSession, Release, ListRoom, Closed, database
  <2>3. step'[c] = step[c] /\ listed'[c] = listed[c]
    BY <1>3, <1>5, <1>6 DEF OpenSession, CloseSession, Release, ListRoom
  <2> QED
    BY <1>1, <1>4, <2>2, <2>3, PairFrame DEF InRoom
<1>7. CASE d = c
  <2>1. <<c, u>> \in open' => Stays(c, u, 1)
    <3>1. CASE OpenSession(d)
      BY <1>3, <1>7, <3>1 DEF OpenSession, Alone, PairInv, SessionsAccounted
    <3>2. CASE CloseSession(d)
      <4>1. <<c, u>> \in open' => <<c, u>> \in open /\ e.user # u
        BY <1>3, <1>7, <3>2 DEF CloseSession, Closed
      <4>2. <<c, u>> \in open => Stays(c, u, 0)
        BY DEF Alone, PairInv, SessionsAccounted
      <4>3. e.user # u => ~Is(hooks[c][1], "left", u)
        BY <1>7 DEF Is
      <4> QED
        BY <1>3, <1>7, <4>1, <4>2, <4>3, LaterKeeps DEF Stays
    <3>3. CASE Release(d) \/ ListRoom(d)
      BY <1>7, <3>3 DEF Release, ListRoom, database, Alone, PairInv, SessionsAccounted
    <3> QED
      BY <3>1, <3>2, <3>3
  <2>2. u \in listed'[c] =>
          step'[c] = "tell" /\ Stays(c, u, 1) /\ (InRoom(c, u) => row[u].live # {})
    <3>1. CASE ListRoom(d)
      <4>1. step'[c] = "tell" /\ listed'[c] = Publishers(c)
        BY <1>3, <1>7, <3>1 DEF ListRoom, Goes
      <4>2. u \in Publishers(c) => InRoom(c, u) /\ row[u].live # {}
        BY DEF Publishers
      <4>3. InRoom(c, u) => <<c, u>> \in watching \/ LeavesAfter(hooks[c], u, 0)
        BY DEF RoomsInv, RowsAccounted
      <4>4. InRoom(c, u) => ~Is(hooks[c][1], "left", u)
        BY <1>1, <1>7 DEF RoomsInv, HandlersHaveEvents
      <4>5. InRoom(c, u) => Stays(c, u, 1)
        BY <1>3, <1>7, <4>3, <4>4, LaterKeeps DEF Stays
      <4> QED
        BY <4>1, <4>2, <4>5
    <3>2. CASE OpenSession(d) \/ CloseSession(d) \/ Release(d)
      <4>1. listed'[c] = listed[c] /\ step[c] # "tell"
        BY <1>7, <3>2 DEF OpenSession, CloseSession, Release
      <4> QED
        BY <4>1 DEF Alone, PairInv, AnnouncementsAccounted
    <3> QED
      BY <3>1, <3>2
  <2> QED
    BY <1>1, <1>4, <1>5, <1>7, <2>1, <2>2, PairWorks
<1> QED
  BY <1>6, <1>7

\* A handler is done with its event.
LEMMA AloneAnswered ==
  ASSUME RoomsInv, NEW c \in Channels, NEW u \in Users, Alone(c, u), NEW d \in Channels,
         ForgetRoom(d) \/ Tell(d) \/ OnNobody(d)
  PROVE  PairInv(c, u)'
<1>1. PairInv(c, u)
  BY DEF Alone
<1>2. hooks[d] # << >>
  BY DEF RoomsInv, HandlersHaveEvents, ForgetRoom, Tell, OnNobody, Delivers
<1>3. /\ hooks[d] \in Seq(Hook) /\ 1 \in 1..Len(hooks[d]) /\ Now(d) = hooks[d][1]
      /\ step \in [Channels -> Steps] /\ listed \in [Channels -> SUBSET Users]
      /\ hooks \in [Channels -> Seq(Hook)] /\ announced \in [Channels -> SUBSET Users]
  BY <1>2, RoomsTypes, FirstEvent DEF RoomsInv
<1>4. UNCHANGED <<row, open, tracks, watching>> /\ Answered(d)
  BY DEF ForgetRoom, Tell, OnNobody, database, elsewhere, sfu
<1>5. /\ step' = [step EXCEPT ![d] = "idle"] /\ hooks' = [hooks EXCEPT ![d] = Tail(@)]
  BY <1>4 DEF Answered, Goes
<1> DEFINE e == hooks[d][1]
<1>6. CASE d # c
  <2>1. hooks'[c] = hooks[c] /\ step'[c] = step[c]
    BY <1>3, <1>5, <1>6
  <2>2. listed'[c] = listed[c] /\ announced'[c] = announced[c]
    BY <1>3, <1>6 DEF ForgetRoom, Tell, OnNobody
  <2> QED
    BY <1>1, <1>4, <2>1, <2>2, PairFrame DEF InRoom
<1>7. CASE d = c /\ OnNobody(d)
  <2>1. /\ step[c] = "idle" /\ row[e.user] = None /\ e.kind # "left"
        /\ listed' = listed /\ announced' = announced
    BY <1>3, <1>7 DEF OnNobody, Delivers, Now
  <2>2. InRoom(c, u) => e.user # u
    BY <2>1 DEF InRoom
  <2>3. \A s \in Sources : InRoom(c, u) /\ s \in row[u].live => OnAir(c, u, s, 1)
    <3>1. \A s \in Sources : InRoom(c, u) => ~Stops(hooks[c][1], u, s)
      BY <1>7, <2>2 DEF Stops, Is
    <3>2. \A s \in Sources : InRoom(c, u) /\ s \in row[u].live => OnAir(c, u, s, 0)
      BY <1>1 DEF PairInv, SourcesAccounted
    <3> QED
      BY <1>3, <1>7, <3>1, <3>2, LaterKeeps DEF OnAir
  <2>4. Stays(c, u, 0) => Stays(c, u, 1)
    <3>1. ~Is(hooks[c][1], "left", u)
      BY <1>7, <2>1 DEF Is
    <3> QED
      BY <1>3, <1>7, <3>1, LaterKeeps DEF Stays
  <2>5. <<c, u>> \in open => Stays(c, u, 1)
    BY <1>1, <2>4 DEF PairInv, SessionsAccounted
  <2>6. u \in announced'[c] => Stays(c, u, 1) /\ (InRoom(c, u) => row[u].live # {})
    BY <1>1, <1>7, <2>1, <2>2, <2>4 DEF PairInv, AnnouncementsAccounted
  <2>7. u \notin listed'[c]
    BY <1>1, <2>1 DEF PairInv, AnnouncementsAccounted
  <2>8. hooks'[c] = Tail(hooks[c]) /\ step'[c] = "idle"
    BY <1>3, <1>5, <1>7
  <2> QED
    BY <1>1, <1>2, <1>4, <1>7, <2>3, <2>5, <2>6, <2>7, <2>8, PairAnswered
<1>8. CASE d = c /\ (ForgetRoom(d) \/ Tell(d))
  <2>1. step[c] \in {"forget", "tell"}
    BY <1>8 DEF ForgetRoom, Tell
  <2>2. \A s \in Sources : InRoom(c, u) /\ s \in row[u].live => OnAir(c, u, s, 1)
    BY <1>1, <2>1 DEF PairInv, SourcesAccounted
  <2>3. <<c, u>> \in open => Stays(c, u, 1)
    BY <1>1, <2>1 DEF PairInv, SessionsAccounted
  <2>4. u \in announced'[c] => u \in listed[c]
    BY <1>3, <1>8 DEF ForgetRoom, Tell
  <2>5. u \in announced'[c] => Stays(c, u, 1) /\ (InRoom(c, u) => row[u].live # {})
    BY <1>1, <2>4 DEF PairInv, AnnouncementsAccounted
  <2>6. u \notin listed'[c]
    <3>1. CASE Tell(d)
      BY <1>3, <1>8, <3>1 DEF Tell
    <3>2. CASE ForgetRoom(d)
      <4>1. listed'[c] = listed[c] /\ step[c] # "tell"
        BY <1>8, <3>2 DEF ForgetRoom
      <4> QED
        BY <1>1, <4>1 DEF PairInv, AnnouncementsAccounted
    <3> QED
      BY <1>8, <3>1, <3>2
  <2>7. hooks'[c] = Tail(hooks[c]) /\ step'[c] = "idle"
    BY <1>3, <1>5, <1>8
  <2> QED
    BY <1>1, <1>2, <1>4, <1>8, <2>2, <2>3, <2>5, <2>6, <2>7, PairAnswered
<1> QED
  BY <1>6, <1>7, <1>8

\* A failed handler, a restart, a deleted row, or what concerns neither the room's
\* events nor its rows.
LEMMA AloneFrame ==
  ASSUME RoomsInv, NEW c \in Channels, NEW u \in Users, Alone(c, u),
         \/ \E d \in Channels : HandlerFails(d) \/ EvictRow(d) \/ SweepChannel(d) \/ SweepEnds(d)
         \/ \E d \in Channels : (EvictPublisher(d) \/ EvictViewer(d)) /\ UNCHANGED <<sfu, hooks>>
         \/ \E d \in Channels, v \in Users :
              \/ \E wanted \in Requests : Token(d, v, wanted)
              \/ SfuJoinPublisher(d, v) \/ SweepKeeps(d, v) \/ SweepEvicts(d, v)
              \/ \E r \in Rights : ChangeRight(d, v, r)
         \/ Restart \/ UNCHANGED roomsVars
  PROVE  PairInv(c, u)'
<1>1. PairInv(c, u)
  BY DEF Alone
<1>2. /\ row \in [Users -> Row \cup {None}] /\ step \in [Channels -> Steps]
      /\ listed \in [Channels -> SUBSET Users]
  BY RoomsTypes
<1>3. CASE \E d \in Channels : HandlerFails(d)
  <2>1. PICK d \in Channels : HandlerFails(d)
    BY <1>3
  <2>2. /\ UNCHANGED <<row, open, announced, watching, tracks, hooks>>
        /\ step' = [step EXCEPT ![d] = "idle"] /\ listed' = [listed EXCEPT ![d] = {}]
    BY <2>1 DEF HandlerFails, Goes, database, sfu
  <2>3. /\ step'[c] = step[c] \/ (step'[c] = "idle" /\ u \notin listed'[c])
        /\ u \in listed'[c] => u \in listed[c]
    BY <1>2, <2>2
  <2> QED
    BY <1>1, <2>2, <2>3, PairFrame DEF InRoom
<1>4. CASE Restart
  <2>1. /\ UNCHANGED <<row, watching, tracks, hooks>>
        /\ <<c, u>> \in open' => <<c, u>> \in open
        /\ step'[c] = "idle" /\ listed'[c] = {} /\ announced'[c] = {}
    BY <1>4 DEF Restart, sfu
  <2> QED
    BY <1>1, <2>1, PairFrame DEF InRoom
<1>5. CASE \E d \in Channels : EvictRow(d)
  <2>1. PICK d \in Channels : EvictRow(d)
    BY <1>5
  <2>2. UNCHANGED <<step, listed, announced, open, watching, tracks, hooks>>
    BY <2>1 DEF EvictRow, webhookSide, handling, sfu
  <2>3. row'[u] = None \/ row'[u] = row[u]
    BY <1>2, <2>1 DEF EvictRow, Left
  <2>4. InRoom(c, u)' => InRoom(c, u) /\ row'[u] = row[u]
    BY <2>3 DEF InRoom
  <2> QED
    BY <1>1, <2>2, <2>4, PairFrame
<1>6. CASE UNCHANGED <<row, open, step, listed, announced, watching, tracks, hooks>>
  BY <1>1, <1>6, PairFrame DEF InRoom
<1>7. ASSUME NEW d \in Channels,
             \/ SweepChannel(d) \/ SweepEnds(d)
             \/ (EvictPublisher(d) \/ EvictViewer(d)) /\ UNCHANGED <<sfu, hooks>>
      PROVE  UNCHANGED <<row, open, step, listed, announced, watching, tracks, hooks>>
  BY <1>7 DEF SweepChannel, SweepEnds, EvictPublisher, EvictViewer, webhookSide, handling, sfu
<1>8. ASSUME NEW d \in Channels, NEW v \in Users,
             \/ \E wanted \in Requests : Token(d, v, wanted)
             \/ SfuJoinPublisher(d, v) \/ SweepKeeps(d, v) \/ SweepEvicts(d, v)
             \/ \E r \in Rights : ChangeRight(d, v, r)
      PROVE  UNCHANGED <<row, open, step, listed, announced, watching, tracks, hooks>>
  BY <1>8 DEF Token, SfuJoinPublisher, SweepKeeps, SweepEvicts, ChangeRight, serverSide,
     database, webhookSide, handling, sfu
<1>9. UNCHANGED roomsVars => UNCHANGED <<row, open, step, listed, announced, watching, tracks, hooks>>
  BY DEF roomsVars
<1> QED
  BY <1>3, <1>4, <1>5, <1>6, <1>7, <1>8, <1>9

-----------------------------------------------------------------------------
(* TokensFirst: nothing is known of a user in a room they have no token for. *)

LEMMA UntouchedKeeps ==
  ASSUME RoomsInv, NEW c \in Channels, NEW u \in Users, Untouched(c, u),
         <<c, u>> \notin watching', <<c, u>> \notin publishing',
         tracks'[c][u] \subseteq tracks[c][u],
         \/ hooks'[c] = hooks[c]
         \/ hooks[c] # << >> /\ hooks'[c] = Tail(hooks[c])
         \/ \E e \in Hook : hooks'[c] = Append(hooks[c], e) /\ e.user # u,
         InRoom(c, u)' => InRoom(c, u),
         u \in sweep'[c].left => u \in sweep[c].left \/ InRoom(c, u),
         sweep'[c].victim = u => sweep[c].victim = u \/ u \in sweep[c].left
  PROVE  Untouched(c, u)'
<1>1. hooks[c] \in Seq(Hook) /\ Len(hooks[c]) \in Nat
  BY RoomsTypes
<1>2. \A i \in 1..Len(hooks[c]) : hooks[c][i].user # u
  BY DEF Untouched
<1>3. \A i \in 1..Len(hooks'[c]) : hooks'[c][i].user # u
  <2>1. CASE hooks'[c] = hooks[c]
    BY <1>2, <2>1
  <2>2. CASE hooks[c] # << >> /\ hooks'[c] = Tail(hooks[c])
    <3>1. \A i \in 1..Len(hooks'[c]) :
            i + 1 \in 1..Len(hooks[c]) /\ hooks'[c][i] = hooks[c][i + 1]
      BY <1>1, <2>2
    <3> QED
      BY <1>2, <3>1
  <2>3. CASE \E e \in Hook : hooks'[c] = Append(hooks[c], e) /\ e.user # u
    <3>1. PICK e \in Hook : hooks'[c] = Append(hooks[c], e) /\ e.user # u
      BY <2>3
    <3>2. \A i \in 1..Len(hooks'[c]) :
            (i \in 1..Len(hooks[c]) /\ hooks'[c][i] = hooks[c][i]) \/ hooks'[c][i] = e
      BY <1>1, <3>1
    <3> QED
      BY <1>2, <3>1, <3>2
  <2> QED
    BY <2>1, <2>2, <2>3
<1> QED
  BY <1>3 DEF Untouched

\* Tokens are not taken back.
LEMMA TokensStay ==
  ASSUME RoomsNext \/ UNCHANGED roomsVars PROVE tokens \subseteq tokens'
<1>1. CASE \E c \in Channels, u \in Users : \E wanted \in Requests : Token(c, u, wanted)
  BY <1>1 DEF Token
<1>2. CASE \E c \in Channels, u \in Users :
             \/ SfuJoin(c, u) \/ SfuLeave(c, u) \/ SfuJoinPublisher(c, u) \/ SfuLeavePublisher(c, u)
             \/ \E s \in Sources : SfuPublish(c, u, s) \/ SfuUnpublish(c, u, s)
  BY <1>2 DEF SfuJoin, SfuLeave, SfuJoinPublisher, SfuLeavePublisher, SfuPublish, SfuUnpublish,
     serverSide
<1>3. CASE \E c \in Channels, u \in Users :
             \/ \E r \in Rights : ChangeRight(c, u, r)
             \/ SweepKeeps(c, u) \/ SweepEvicts(c, u)
  BY <1>3 DEF ChangeRight, SweepKeeps, SweepEvicts
<1>4. CASE \E c \in Channels :
             \/ OnJoin(c) \/ OnLeave(c) \/ OnShareStart(c) \/ OnPublisherGone(c)
             \/ OnShareStop(c) \/ OnNobody(c) \/ OnFinished(c)
             \/ OpenSession(c) \/ CloseSession(c) \/ Release(c) \/ ForgetRoom(c)
             \/ ListRoom(c) \/ Tell(c)
  BY <1>4 DEF OnJoin, OnLeave, OnShareStart, OnPublisherGone, OnShareStop, OnNobody, OnFinished,
     OpenSession, CloseSession, Release, ForgetRoom, ListRoom, Tell, elsewhere
<1>5. CASE \E c \in Channels :
             \/ HandlerFails(c) \/ SfuClose(c) \/ SweepChannel(c) \/ SweepEnds(c)
             \/ EvictPublisher(c) \/ EvictViewer(c) \/ EvictRow(c)
  BY <1>5 DEF HandlerFails, SfuClose, serverSide, SweepChannel, SweepEnds, EvictPublisher,
     EvictViewer, EvictRow
<1>6. CASE Restart \/ UNCHANGED roomsVars
  BY <1>6 DEF Restart, roomsVars
<1> QED
  BY <1>1, <1>2, <1>3, <1>4, <1>5, <1>6 DEF RoomsNext

\* The server's own steps: a handler acts on an event of its room, a sweep on the
\* rows of its channel.
LEMMA UntouchedByServer ==
  ASSUME RoomsInv, NEW c \in Channels, NEW u \in Users, Untouched(c, u), NEW d \in Channels,
         \/ OnJoin(d) \/ OnLeave(d) \/ OnShareStart(d) \/ OnPublisherGone(d)
         \/ OnShareStop(d) \/ OnNobody(d) \/ OnFinished(d)
         \/ OpenSession(d) \/ CloseSession(d) \/ Release(d) \/ ForgetRoom(d)
         \/ ListRoom(d) \/ Tell(d)
  PROVE  Untouched(c, u)'
<1>1. hooks[d] # << >>
  BY DEF OnJoin, OnLeave, OnShareStart, OnPublisherGone, OnShareStop, OnNobody, OnFinished,
     OpenSession, CloseSession, Release, ForgetRoom, ListRoom, Tell, Delivers, RoomsInv,
     HandlersHaveEvents
<1>2. /\ hooks \in [Channels -> Seq(Hook)] /\ 1 \in 1..Len(hooks[d]) /\ Now(d) = hooks[d][1]
      /\ row \in [Users -> Row \cup {None}] /\ None \notin Row \cup Users
  BY <1>1, RoomsTypes, FirstEvent, RoomsAssumption DEF RoomsInv
<1>3. UNCHANGED <<watching, publishing, tracks, sweep>>
  BY DEF OnJoin, OnLeave, OnShareStart, OnPublisherGone, OnShareStop, OnNobody, OnFinished,
     OpenSession, CloseSession, Release, ForgetRoom, ListRoom, Tell, elsewhere, sfu
<1>4. hooks'[c] = hooks[c] \/ (hooks[c] # << >> /\ hooks'[c] = Tail(hooks[c]))
  BY <1>1, <1>2 DEF OnJoin, OnLeave, OnShareStart, OnPublisherGone, OnShareStop, OnNobody,
     OnFinished, OpenSession, CloseSession, Release, ForgetRoom, ListRoom, Tell, Answered, elsewhere
<1>5. InRoom(c, u)' => InRoom(c, u)
  <2>1. CASE OnJoin(d)
    <3>1. row' = [row EXCEPT ![Now(d).user] = [channel |-> d, live |-> {}]]
      BY <2>1 DEF OnJoin
    <3>2. d = c => Now(d).user # u
      BY <1>2 DEF Untouched
    <3> QED
      BY <1>2, <3>1, <3>2 DEF InRoom
  <2>2. CASE OnShareStart(d) \/ OnPublisherGone(d) \/ OnShareStop(d)
    <3>1. row'[u] # None => row[u] # None /\ row'[u].channel = row[u].channel
      BY <1>2, <2>2 DEF OnShareStart, OnPublisherGone, OnShareStop, Cleared, Row
    <3> QED
      BY <3>1 DEF InRoom
  <2>3. CASE OnLeave(d) \/ OnFinished(d)
    BY <1>2, <2>3 DEF OnLeave, OnFinished, Left, InRoom
  <2>4. CASE \/ OnNobody(d) \/ OpenSession(d) \/ CloseSession(d) \/ Release(d) \/ ForgetRoom(d)
             \/ ListRoom(d) \/ Tell(d)
    BY <2>4 DEF OnNobody, OpenSession, CloseSession, Release, ForgetRoom, ListRoom, Tell,
       database, InRoom
  <2> QED
    BY <2>1, <2>2, <2>3, <2>4
<1>6. <<c, u>> \notin watching' /\ <<c, u>> \notin publishing' /\ tracks'[c][u] \subseteq tracks[c][u]
  BY <1>3 DEF Untouched
<1> QED
  BY <1>3, <1>4, <1>5, <1>6, UntouchedKeeps

\* LiveKit's steps are of somebody who connected there before.
LEMMA UntouchedBySfu ==
  ASSUME RoomsInv, NEW c \in Channels, NEW u \in Users, Untouched(c, u), ~Invited(c, u),
         UNCHANGED row,
         \A b \in Channels : /\ sweep'[b].left = sweep[b].left
                             /\ sweep'[b].victim = sweep[b].victim,
         NEW d \in Channels, NEW v \in Users, NEW s \in Sources,
         \/ SfuJoin(d, v) \/ SfuJoinPublisher(d, v)
         \/ DropViewer(d, v) \/ DropPublisher(d, v)
         \/ SfuPublish(d, v, s) \/ SfuUnpublish(d, v, s)
  PROVE  Untouched(c, u)'
<1>1. /\ hooks \in [Channels -> Seq(Hook)] /\ tracks \in [Channels -> [Users -> SUBSET Sources]]
      /\ AnySource \in Sources
      /\ {"joined", "left", "publisher_left", "published", "unpublished"} \subseteq Kinds
  BY RoomsTypes DEF AnySource, Sources, Kinds
<1>2. ~(d = c /\ v = u)
  <2>1. ASSUME d = c, v = u PROVE FALSE
    <3>1. CASE SfuJoin(d, v) \/ SfuJoinPublisher(d, v)
      <4>1. \E wanted : <<wanted, c, u>> \in tokens
        BY <2>1, <3>1 DEF SfuJoin, SfuJoinPublisher
      <4> QED
        BY <4>1 DEF Invited
    <3>2. CASE DropViewer(d, v) \/ DropPublisher(d, v) \/ SfuPublish(d, v, s)
      BY <2>1, <3>2 DEF DropViewer, DropPublisher, SfuPublish, Untouched
    <3>3. CASE SfuUnpublish(d, v, s)
      BY <2>1, <3>3 DEF SfuUnpublish, Untouched
    <3> QED
      BY <3>1, <3>2, <3>3
  <2> QED
    BY <2>1
<1>3. <<c, u>> \notin watching' /\ <<c, u>> \notin publishing'
  BY <1>2 DEF Untouched, SfuJoin, SfuJoinPublisher, DropViewer, DropPublisher, SfuPublish, SfuUnpublish
<1>4. tracks'[c][u] \subseteq tracks[c][u]
  <2>1. UNCHANGED tracks \/ \E x : tracks' = [tracks EXCEPT ![d][v] = x]
    BY DEF SfuJoin, SfuJoinPublisher, DropViewer, DropPublisher, SfuPublish, SfuUnpublish
  <2>2. ASSUME NEW x, tracks' = [tracks EXCEPT ![d][v] = x] PROVE tracks'[c][u] = tracks[c][u]
    BY <1>1, <1>2, <2>2
  <2> QED
    BY <2>1, <2>2
<1>5. \/ hooks'[c] = hooks[c]
      \/ \E e \in Hook : hooks'[c] = Append(hooks[c], e) /\ e.user # u
  <2>1. \/ UNCHANGED hooks
        \/ \E k \in Kinds, t \in Sources : Report(d, Event(k, v, t))
    BY <1>1 DEF SfuJoin, SfuJoinPublisher, DropViewer, DropPublisher, SfuPublish, SfuUnpublish
  <2>2. CASE UNCHANGED hooks
    BY <2>2
  <2>3. CASE \E k \in Kinds, t \in Sources : Report(d, Event(k, v, t))
    <3>1. PICK k \in Kinds, t \in Sources : Report(d, Event(k, v, t))
      BY <2>3
    <3>2. Event(k, v, t) \in Hook /\ Event(k, v, t).user = v
      BY EventType DEF Event
    <3>3. hooks' = [hooks EXCEPT ![d] = Append(@, Event(k, v, t))]
      BY <3>1 DEF Report
    <3> QED
      BY <1>1, <1>2, <3>2, <3>3
  <2> QED
    BY <2>1, <2>2, <2>3
<1> QED
  BY <1>3, <1>4, <1>5, UntouchedKeeps DEF InRoom

\* The sweeps, failures and restarts, and a token for somebody else.
LEMMA UntouchedByRest ==
  ASSUME RoomsInv, NEW c \in Channels, NEW u \in Users, Untouched(c, u),
         \/ \E d \in Channels :
              \/ HandlerFails(d) \/ EvictRow(d) \/ SweepChannel(d) \/ SweepEnds(d) \/ SfuClose(d)
              \/ (EvictPublisher(d) \/ EvictViewer(d)) /\ UNCHANGED <<sfu, hooks>>
         \/ \E d \in Channels, v \in Users :
              \/ \E wanted \in Requests : Token(d, v, wanted)
              \/ SweepKeeps(d, v) \/ SweepEvicts(d, v) \/ \E r \in Rights : ChangeRight(d, v, r)
         \/ Restart \/ UNCHANGED roomsVars
  PROVE  Untouched(c, u)'
<1>1. /\ hooks \in [Channels -> Seq(Hook)] /\ sweep \in [Channels -> Sweep]
      /\ row \in [Users -> Row \cup {None}] /\ None \notin Row \cup Users
      /\ Event("finished", None, AnySource) \in Hook /\ Event("finished", None, AnySource).user = None
  BY RoomsTypes, RoomsAssumption DEF Event, Hook, AnySource, Sources
<1>2. /\ UNCHANGED <<watching, publishing, tracks>>
  BY DEF HandlerFails, EvictRow, SweepChannel, SweepEnds, SfuClose, Token, SweepKeeps, SweepEvicts,
     ChangeRight, Restart, roomsVars, sfu
<1>3. UNCHANGED hooks \/ \E d \in Channels : Report(d, Event("finished", None, AnySource))
  BY DEF HandlerFails, EvictRow, SweepChannel, SweepEnds, SfuClose, Token, SweepKeeps, SweepEvicts,
     ChangeRight, Restart, roomsVars
<1>4. \/ hooks'[c] = hooks[c]
      \/ \E e \in Hook : hooks'[c] = Append(hooks[c], e) /\ e.user # u
  BY <1>1, <1>3 DEF Report
<1>5. InRoom(c, u)' => InRoom(c, u)
  <2>1. row'[u] = row[u] \/ row'[u] = None
    <3>1. UNCHANGED row \/ \E d \in Channels : row' = Left(sweep[d].victim)
      BY DEF HandlerFails, EvictRow, SweepChannel, SweepEnds, SfuClose, Token, SweepKeeps,
         SweepEvicts, ChangeRight, EvictPublisher, EvictViewer, Restart, roomsVars, database,
         serverSide
    <3> QED
      BY <1>1, <3>1 DEF Left
  <2> QED
    BY <2>1 DEF InRoom
<1>6. /\ u \in sweep'[c].left => u \in sweep[c].left \/ InRoom(c, u)
      /\ sweep'[c].victim = u => sweep[c].victim = u \/ u \in sweep[c].left
  <2>1. CASE \E d \in Channels : HandlerFails(d) \/ SfuClose(d)
    BY <2>1 DEF HandlerFails, SfuClose, serverSide
  <2>2. CASE \E d \in Channels : EvictRow(d) \/ EvictPublisher(d) \/ EvictViewer(d)
    <3>1. PICK d \in Channels : EvictRow(d) \/ EvictPublisher(d) \/ EvictViewer(d)
      BY <2>2
    <3>2. sweep[d] \in Sweep /\ sweep' = [sweep EXCEPT ![d] = sweep'[d]]
      BY <1>1, <3>1 DEF EvictRow, EvictPublisher, EvictViewer
    <3>3. /\ u \in sweep'[d].left => u \in sweep[d].left \/ InRoom(d, u)
          /\ sweep'[d].victim = u => sweep[d].victim = u \/ u \in sweep[d].left
      <4>1. CASE EvictRow(d)
        BY <1>1, <3>2, <4>1 DEF EvictRow, NoSweep, Sweep
      <4>2. CASE EvictPublisher(d)
        BY <1>1, <3>2, <4>2 DEF EvictPublisher, NoSweep, Sweep
      <4>3. CASE EvictViewer(d)
        BY <1>1, <3>2, <4>3 DEF EvictViewer, NoSweep, Sweep
      <4> QED
        BY <3>1, <4>1, <4>2, <4>3
    <3> QED
      BY <1>1, <3>2, <3>3
  <2>3. CASE \E d \in Channels : SweepChannel(d) \/ SweepEnds(d)
    <3>1. PICK d \in Channels : SweepChannel(d) \/ SweepEnds(d)
      BY <2>3
    <3>2. sweep[d] \in Sweep /\ sweep' = [sweep EXCEPT ![d] = sweep'[d]]
      BY <1>1, <3>1 DEF SweepChannel, SweepEnds
    <3>3. /\ u \in sweep'[d].left => u \in sweep[d].left \/ InRoom(d, u)
          /\ sweep'[d].victim = u => sweep[d].victim = u \/ u \in sweep[d].left
      <4>1. CASE SweepChannel(d)
        BY <1>1, <3>2, <4>1 DEF SweepChannel, NoSweep, Sweep
      <4>2. CASE SweepEnds(d)
        BY <1>1, <3>2, <4>2 DEF SweepEnds, NoSweep, Sweep
      <4> QED
        BY <3>1, <4>1, <4>2
    <3> QED
      BY <1>1, <3>2, <3>3
  <2>4. CASE \E d \in Channels, v \in Users :
               \/ SweepKeeps(d, v) \/ SweepEvicts(d, v) \/ \E r \in Rights : ChangeRight(d, v, r)
    <3>1. PICK d \in Channels, v \in Users :
                 \/ SweepKeeps(d, v) \/ SweepEvicts(d, v) \/ \E r \in Rights : ChangeRight(d, v, r)
      BY <2>4
    <3>2. sweep[d] \in Sweep /\ sweep' = [sweep EXCEPT ![d] = sweep'[d]]
      BY <1>1, <3>1 DEF SweepKeeps, SweepEvicts, ChangeRight
    <3>3. /\ u \in sweep'[d].left => u \in sweep[d].left \/ InRoom(d, u)
          /\ sweep'[d].victim = u => sweep[d].victim = u \/ u \in sweep[d].left
      <4>1. CASE SweepKeeps(d, v)
        BY <1>1, <3>2, <4>1 DEF SweepKeeps, NoSweep, Sweep
      <4>2. CASE SweepEvicts(d, v)
        BY <1>1, <3>2, <4>2 DEF SweepEvicts, NoSweep, Sweep
      <4>3. CASE \E r \in Rights : ChangeRight(d, v, r)
        BY <1>1, <3>2, <4>3 DEF ChangeRight, NoSweep, Sweep
      <4> QED
        BY <3>1, <4>1, <4>2, <4>3
    <3> QED
      BY <1>1, <3>2, <3>3
  <2>5. CASE \E d \in Channels, v \in Users : \E wanted \in Requests : Token(d, v, wanted)
    BY <2>5 DEF Token
  <2>6. CASE Restart
    BY <1>1, <2>6 DEF Restart, NoSweep
  <2>7. CASE UNCHANGED roomsVars
    BY <2>7 DEF roomsVars
  <2> QED
    BY <2>1, <2>2, <2>3, <2>4, <2>5, <2>6, <2>7
<1>7. <<c, u>> \notin watching' /\ <<c, u>> \notin publishing' /\ tracks'[c][u] \subseteq tracks[c][u]
  BY <1>2 DEF Untouched
<1> QED
  BY <1>4, <1>5, <1>6, <1>7, UntouchedKeeps

LEMMA TokensFirstStep ==
  ASSUME RoomsInv, TokensFirst, [RoomsNext]_roomsVars PROVE TokensFirst'
<1> SUFFICES ASSUME NEW c \in Channels, NEW u \in Users, ~Invited(c, u)'
             PROVE  Untouched(c, u)'
  BY DEF TokensFirst
<1>1. ~Invited(c, u) /\ Untouched(c, u)
  <2>1. tokens \subseteq tokens'
    BY TokensStay
  <2>2. ~Invited(c, u)
    BY <2>1 DEF Invited
  <2> QED
    BY <2>2 DEF TokensFirst
<1>2. CASE \E d \in Channels :
             \/ OnJoin(d) \/ OnLeave(d) \/ OnShareStart(d) \/ OnPublisherGone(d)
             \/ OnShareStop(d) \/ OnNobody(d) \/ OnFinished(d)
             \/ OpenSession(d) \/ CloseSession(d) \/ Release(d) \/ ForgetRoom(d)
             \/ ListRoom(d) \/ Tell(d)
  BY <1>1, <1>2, UntouchedByServer
<1>3. CASE \E d \in Channels, v \in Users :
             \/ SfuJoin(d, v) \/ SfuLeave(d, v) \/ SfuJoinPublisher(d, v) \/ SfuLeavePublisher(d, v)
             \/ \E s \in Sources : SfuPublish(d, v, s) \/ SfuUnpublish(d, v, s)
  <2>1. PICK d \in Channels, v \in Users :
               \/ SfuJoin(d, v) \/ SfuLeave(d, v)
               \/ SfuJoinPublisher(d, v) \/ SfuLeavePublisher(d, v)
               \/ \E s \in Sources : SfuPublish(d, v, s) \/ SfuUnpublish(d, v, s)
    BY <1>3
  <2>2. PICK s \in Sources :
               \/ SfuJoin(d, v) \/ SfuJoinPublisher(d, v) \/ DropViewer(d, v) \/ DropPublisher(d, v)
               \/ SfuPublish(d, v, s) \/ SfuUnpublish(d, v, s)
    BY <2>1 DEF SfuLeave, SfuLeavePublisher, Sources
  <2>3. UNCHANGED <<row, sweep>>
    BY <2>1 DEF SfuJoin, SfuLeave, SfuJoinPublisher, SfuLeavePublisher, SfuPublish, SfuUnpublish,
       serverSide, database
  <2> QED
    BY <1>1, <2>2, <2>3, UntouchedBySfu
<1>4. CASE \E d \in Channels : EvictPublisher(d) \/ EvictViewer(d)
  <2>1. PICK d \in Channels : EvictPublisher(d) \/ EvictViewer(d)
    BY <1>4
  <2>2. PICK v : v = sweep[d].victim
    OBVIOUS
  <2>3. sweep[d] \in Sweep /\ sweep \in [Channels -> Sweep]
    BY RoomsTypes
  <2>4. v \in Users
    BY <2>1, <2>2, <2>3 DEF EvictPublisher, EvictViewer, Sweep
  <2>5. \A b \in Channels : sweep'[b].left = sweep[b].left /\ sweep'[b].victim = sweep[b].victim
    <3>1. \E x \in {"viewer", "row"} : sweep' = [sweep EXCEPT ![d].at = x]
      BY <2>1 DEF EvictPublisher, EvictViewer
    <3>2. PICK x \in {"viewer", "row"} : sweep' = [sweep EXCEPT ![d].at = x]
      BY <3>1
    <3> QED
      BY <2>3, <3>2 DEF Sweep
  <2>6. CASE UNCHANGED <<sfu, hooks>>
    BY <1>1, <2>1, <2>6, UntouchedByRest
  <2>7. CASE DropViewer(d, v) \/ DropPublisher(d, v)
    <3>1. UNCHANGED row /\ "screen" \in Sources
      BY <2>1 DEF EvictPublisher, EvictViewer, Sources
    <3> QED
      BY <1>1, <2>4, <2>5, <2>7, <3>1, UntouchedBySfu
  <2> QED
    BY <2>1, <2>2, <2>6, <2>7 DEF EvictPublisher, EvictViewer
<1>5. CASE \/ \E d \in Channels :
                HandlerFails(d) \/ EvictRow(d) \/ SweepChannel(d) \/ SweepEnds(d) \/ SfuClose(d)
           \/ \E d \in Channels, v \in Users :
                \/ \E wanted \in Requests : Token(d, v, wanted)
                \/ SweepKeeps(d, v) \/ SweepEvicts(d, v) \/ \E r \in Rights : ChangeRight(d, v, r)
           \/ Restart \/ UNCHANGED roomsVars
  BY <1>1, <1>5, UntouchedByRest
<1> QED
  BY <1>2, <1>3, <1>4, <1>5 DEF RoomsNext

LEMMA PairStep ==
  ASSUME RoomsInv, NEW c \in Channels, NEW u \in Users, Alone(c, u), [RoomsNext]_roomsVars
  PROVE  PairInv(c, u)'
<1>1. CASE \E d \in Channels :
             \/ OnJoin(d) \/ OnLeave(d) \/ OnShareStart(d) \/ OnPublisherGone(d)
             \/ OnShareStop(d) \/ OnFinished(d)
  BY <1>1, AloneDelivers
<1>2. CASE \E d \in Channels :
             \/ OpenSession(d) \/ CloseSession(d) \/ Release(d) \/ ListRoom(d)
             \/ ForgetRoom(d) \/ Tell(d) \/ OnNobody(d)
  BY <1>2, AloneWorks, AloneAnswered
<1>3. CASE \E d \in Channels, v \in Users :
             \/ SfuJoin(d, v) \/ SfuLeave(d, v) \/ SfuLeavePublisher(d, v)
             \/ \E s \in Sources : SfuPublish(d, v, s) \/ SfuUnpublish(d, v, s)
  <2>1. PICK d \in Channels, v \in Users :
               \/ SfuJoin(d, v) \/ SfuLeave(d, v) \/ SfuLeavePublisher(d, v)
               \/ \E s \in Sources : SfuPublish(d, v, s) \/ SfuUnpublish(d, v, s)
    BY <1>3
  <2>2. PICK s \in Sources :
               \/ SfuJoin(d, v) \/ SfuLeave(d, v) \/ SfuLeavePublisher(d, v)
               \/ SfuPublish(d, v, s) \/ SfuUnpublish(d, v, s)
    BY <2>1 DEF Sources
  <2>3. UNCHANGED <<row, open, step, listed, announced>>
    BY <2>1 DEF SfuJoin, SfuLeave, SfuLeavePublisher, SfuPublish, SfuUnpublish, serverSide,
       database, handling
  <2>4. \/ /\ watching' = watching \cup {<<d, v>>} /\ UNCHANGED tracks
           /\ Report(d, Event("joined", v, AnySource))
        \/ DropViewer(d, v) \/ DropPublisher(d, v)
        \/ /\ tracks' = [tracks EXCEPT ![d][v] = @ \cup {s}] /\ UNCHANGED watching
           /\ Report(d, Event("published", v, s))
        \/ /\ tracks' = [tracks EXCEPT ![d][v] = @ \ {s}] /\ UNCHANGED watching
           /\ Report(d, Event("unpublished", v, s))
    BY <2>2 DEF SfuJoin, SfuLeave, SfuLeavePublisher, SfuPublish, SfuUnpublish
  <2> QED
    BY <2>3, <2>4, AloneSfu
<1>4. CASE \E d \in Channels : SfuClose(d)
  <2>1. PICK d \in Channels : SfuClose(d)
    BY <1>4
  <2>2. "screen" \in Sources /\ None \in Users \cup {None}
    BY DEF Sources
  <2>3. /\ UNCHANGED <<row, open, step, listed, announced, watching, tracks>>
        /\ Report(d, Event("finished", None, AnySource))
    BY <2>1 DEF SfuClose, serverSide, database, handling
  <2> QED
    BY <2>2, <2>3, AloneSfu
<1>5. CASE \E d \in Channels : EvictPublisher(d) \/ EvictViewer(d)
  <2>1. PICK d \in Channels : EvictPublisher(d) \/ EvictViewer(d)
    BY <1>5
  <2>2. PICK v : v = sweep[d].victim
    OBVIOUS
  <2>3. sweep[d] \in Sweep
    BY RoomsTypes
  <2>4. v \in Users
    BY <2>1, <2>2, <2>3 DEF EvictPublisher, EvictViewer, Sweep
  <2>5. CASE UNCHANGED <<sfu, hooks>>
    BY <2>1, <2>5, AloneFrame
  <2>6. CASE DropViewer(d, v) \/ DropPublisher(d, v)
    <3>1. UNCHANGED <<row, open, step, listed, announced>> /\ "screen" \in Sources
      BY <2>1 DEF EvictPublisher, EvictViewer, webhookSide, handling, Sources
    <3> QED
      BY <2>4, <2>6, <3>1, AloneSfu
  <2> QED
    BY <2>1, <2>2, <2>5, <2>6 DEF EvictPublisher, EvictViewer
<1>6. CASE \/ \E d \in Channels : HandlerFails(d) \/ EvictRow(d) \/ SweepChannel(d) \/ SweepEnds(d)
           \/ \E d \in Channels, v \in Users :
                \/ \E wanted \in Requests : Token(d, v, wanted)
                \/ SfuJoinPublisher(d, v) \/ SweepKeeps(d, v) \/ SweepEvicts(d, v)
                \/ \E r \in Rights : ChangeRight(d, v, r)
           \/ Restart \/ UNCHANGED roomsVars
  BY <1>6, AloneFrame
<1> QED
  BY <1>1, <1>2, <1>3, <1>4, <1>5, <1>6 DEF RoomsNext

LEMMA EventsInitHolds == RoomsInit => EventsInv
<1> SUFFICES ASSUME RoomsInit PROVE EventsInv
  OBVIOUS
<1>1. None \notin Users /\ \A c \in Channels : Len(hooks[c]) = 0
  BY RoomsAssumption DEF RoomsInit
<1>2. TokensFirst
  BY <1>1 DEF RoomsInit, TokensFirst, Untouched, InRoom, NoSweep
<1>3. OnlyRoomsInv
  BY <1>1 DEF RoomsInit, OnlyRoomsInv, SourcesAccounted, SessionsAccounted, AnnouncementsAccounted,
     InRoom
<1> QED
  BY <1>2, <1>3 DEF EventsInv

LEMMA EventsStep ==
  ASSUME RoomsInv, EventsInv, [RoomsNext]_roomsVars PROVE EventsInv'
<1>1. TokensFirst'
  BY TokensFirstStep DEF EventsInv
<1>2. ASSUME NEW c \in Channels, NEW u \in Users, OnlyRoom(c, u)' PROVE PairInv(c, u)'
  <2>1. OnlyRoom(c, u)
    <3>1. tokens \subseteq tokens'
      BY TokensStay
    <3> QED
      BY <1>2, <3>1 DEF OnlyRoom
  <2>2. \A d \in Channels \ {c} : Untouched(d, u)
    <3>1. \A d \in Channels \ {c} : ~Invited(d, u)
      BY <2>1 DEF OnlyRoom, Invited
    <3> QED
      BY <3>1 DEF EventsInv, TokensFirst
  <2>3. Alone(c, u)
    BY <2>1, <2>2 DEF Alone, PairInv, EventsInv, OnlyRoomsInv
  <2> QED
    BY <2>3, PairStep
<1>3. OnlyRoomsInv'
  BY <1>2 DEF OnlyRoomsInv, PairInv
<1> QED
  BY <1>1, <1>3 DEF EventsInv

-----------------------------------------------------------------------------
\* EventsInv is an invariant: what the server shows, counts and announces of somebody
\* let into one room only is so, or the event that ends it is still to be handled
\* (webhook, on_share_start, on_share_stop, on_publisher_gone, on_leave, observe_room).
THEOREM EventsInvariant == RoomsSpec => []EventsInv
<1>1. RoomsInit => EventsInv
  BY EventsInitHolds
<1>2. RoomsInv /\ EventsInv /\ [RoomsNext]_roomsVars => EventsInv'
  BY EventsStep
<1> QED
  BY <1>1, <1>2, RoomsInvariant, PTL DEF RoomsSpec

\* In a quiet room nobody is shown with a source that is off the air, whatever was
\* resent, lost to a restart or ended without unpublishing (on_share_stop,
\* on_publisher_gone).
THEOREM NobodyIsShownOffTheAir == RoomsSpec => []ShownIsLive
<1>1. RoomsInv /\ EventsInv => ShownIsLive
  <2> SUFFICES ASSUME RoomsInv, EventsInv, NEW c \in Channels, NEW u \in Users,
                      OnlyRoom(c, u), Quiet(c), InRoom(c, u), NEW s \in row[u].live
               PROVE  s \in tracks[c][u]
    BY DEF ShownIsLive
  <2>1. s \in Sources /\ Len(hooks[c]) = 0
    BY RoomsTypes, RoomsAssumption DEF InRoom, Row, Quiet
  <2>2. OnAir(c, u, s, 0)
    BY <2>1 DEF EventsInv, OnlyRoomsInv, SourcesAccounted
  <2> QED
    BY <2>1, <2>2 DEF OnAir, StopsAfter
<1> QED
  BY <1>1, RoomsInvariant, EventsInvariant, PTL

\* In a quiet room a share session that is open is of somebody still connected, who
\* will close it when they leave (sessions::open, sessions::close).
THEOREM SessionsHaveViewers == RoomsSpec => []SessionHasViewer
<1>1. EventsInv => SessionHasViewer
  <2> SUFFICES ASSUME EventsInv, NEW c \in Channels, NEW u \in Users,
                      OnlyRoom(c, u), Quiet(c), <<c, u>> \in open
               PROVE  <<c, u>> \in watching
    BY DEF SessionHasViewer
  <2>1. Stays(c, u, 0) /\ Len(hooks[c]) = 0
    BY DEF EventsInv, OnlyRoomsInv, SessionsAccounted, Quiet
  <2> QED
    BY <2>1 DEF Stays, LeavesAfter
<1> QED
  BY <1>1, EventsInvariant, PTL

\* In a quiet room the bot was last told of nobody who left, or who is there and
\* publishes nothing (observe_room).
THEOREM AnnouncedAreLive == RoomsSpec => []AnnouncedIsLive
<1>1. EventsInv => AnnouncedIsLive
  <2> SUFFICES ASSUME EventsInv, NEW c \in Channels, NEW u \in Users,
                      OnlyRoom(c, u), Quiet(c), u \in announced[c]
               PROVE  <<c, u>> \in watching /\ (InRoom(c, u) => row[u].live # {})
    BY DEF AnnouncedIsLive
  <2>1. /\ Stays(c, u, 0) /\ Len(hooks[c]) = 0
        /\ ~(InRoom(c, u) /\ row[u].live = {})
    BY DEF EventsInv, OnlyRoomsInv, AnnouncementsAccounted, Quiet
  <2> QED
    BY <2>1 DEF Stays, LeavesAfter
<1> QED
  BY <1>1, EventsInvariant, PTL
=============================================================================
