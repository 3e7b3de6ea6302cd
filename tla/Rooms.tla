-------------------------------- MODULE Rooms --------------------------------
(***************************************************************************)
(* Rooms: the token route, LiveKit's webhooks (routes/rooms.rs), presence   *)
(* and share sessions in the database, the ledger of publish slots          *)
(* (livekit.rs) and the revocation sweep of the bot (revoke.rs).            *)
(*                                                                         *)
(* LiveKit is external.  A person is in a room once to watch and, while     *)
(* sharing, once more to publish (ADR-0027).  LiveKit reports a room's      *)
(* events one at a time and in order, resends one that was not answered     *)
(* with success, and reports different rooms independently.                 *)
(*                                                                         *)
(* A step is what a handler does up to one await: one SQL statement, one    *)
(* lock, one call to LiveKit.  A statement that fails ends the handler.     *)
(***************************************************************************)
EXTENDS Naturals, Sequences, FiniteSets

CONSTANTS
  Users,
  Channels,      \* Discord voice channels, each with one room
  MaxPublishers, \* RoomConfig::max_publishers
  MaxCameras,    \* RoomConfig::max_cameras
  Requests,      \* the sets of sources clients declare, {} to watch
  MaxHooks,      \* model bound: events of a room LiveKit has not delivered
  MaxFaults,     \* model bound: failed statements, failed calls and restarts
  MaxChanges,    \* model bound: changes of rights in Discord
  None

Sources == {"screen", "camera"}
Rights  == {"none", "join", "publish"}
Row     == [channel : Channels, live : SUBSET Sources]
Kinds   == {"joined", "left", "publisher_left", "published", "unpublished"}
Hook    == [kind : Kinds, user : Users, source : Sources] \cup
             [kind : {"finished"}, user : {None}, source : Sources]
Steps   == {"idle", "open", "close", "release", "forget", "list", "tell"}
Sweep   == [at : {"none", "due", "check"}, left : SUBSET Users, victim : {None}] \cup
           [at : {"publisher", "viewer", "row"}, left : SUBSET Users, victim : Users]

ASSUME RoomsAssumption ==
  /\ IsFiniteSet(Users)
  /\ Requests \subseteq SUBSET Sources
  /\ MaxPublishers \in Nat /\ MaxCameras \in Nat
  /\ MaxHooks \in Nat /\ MaxFaults \in Nat /\ MaxChanges \in Nat
  /\ None \notin Row \cup Users

VARIABLES
  row,        \* room_presence: a user's row, None if there is none
  open,       \* share_sessions that have not ended, as <<channel, user>>
  slots,      \* Rooms::publisher_grants: who holds a slot, by channel and source
  step,       \* where the handler of a room's first event is
  listed,     \* the publishers in the listing of observe_room
  announced,  \* the publishers of the last RoomBroadcast
  right,      \* what the replica of Discord allows
  sweep,      \* the revocation sweep of a channel
  watching,   \* LiveKit: viewer connections, as <<channel, user>>
  publishing, \* LiveKit: publishing connections, as <<channel, user>>
  tracks,     \* LiveKit: what each publishing connection publishes
  alive,      \* LiveKit: the rooms that exist
  tokens,     \* the tokens issued, as <<declared sources, channel, user>>
  hooks,      \* events LiveKit has to deliver, the first one until it is answered
  faults,
  changes

database == <<row, open>>
handling == <<step, listed>>
sfu      == <<watching, publishing, tracks, alive>>
bounds   == <<faults, changes>>
roomsVars == <<row, open, slots, step, listed, announced, right, sweep,
               watching, publishing, tracks, alive, tokens, hooks, faults, changes>>

Ceiling(s) == IF s = "screen" THEN MaxPublishers ELSE MaxCameras

InRoom(c, u)  == row[u] # None /\ row[u].channel = c
Publishers(c) == {u \in Users : InRoom(c, u) /\ row[u].live # {}}

NoSweep == [at |-> "none", left |-> {}, victim |-> None]
Event(k, u, s) == [kind |-> k, user |-> u, source |-> s]

RoomsInit ==
  /\ row = [u \in Users |-> None]
  /\ open = {}
  /\ slots = [c \in Channels |-> [s \in Sources |-> {}]]
  /\ step = [c \in Channels |-> "idle"]
  /\ listed = [c \in Channels |-> {}]
  /\ announced = [c \in Channels |-> {}]
  /\ right \in [Users -> [Channels -> {"publish"}]]
  /\ sweep = [c \in Channels |-> NoSweep]
  /\ watching = {} /\ publishing = {} /\ alive = {} /\ tokens = {}
  /\ tracks = [c \in Channels |-> [u \in Users |-> {}]]
  /\ hooks = [c \in Channels |-> << >>]
  /\ faults = 0 /\ changes = 0

-----------------------------------------------------------------------------
(* POST /rooms/{id}/token: claim_publications makes the ledger say what the  *)
(* request declares, or refuses before changing anything; issue_token gives  *)
(* the publishing identity to whoever declares something.  The check of      *)
(* access only reads, so it is taken together with the claim.                *)

Fits(c, u, wanted) ==
  \A s \in wanted : u \in slots[c][s] \/ Cardinality(slots[c][s]) < Ceiling(s)

ClaimPublications(c, u, wanted) ==
  /\ Fits(c, u, wanted)
  /\ slots' = [slots EXCEPT ![c] =
       [s \in Sources |-> IF s \in wanted THEN @[s] \cup {u} ELSE @[s] \ {u}]]

MayAsk(c, u, wanted) ==
  IF wanted = {} THEN right[u][c] # "none" ELSE right[u][c] = "publish"

Token(c, u, wanted) ==
  /\ MayAsk(c, u, wanted)
  /\ ClaimPublications(c, u, wanted)
  /\ tokens' = tokens \cup {<<wanted, c, u>>}
  /\ UNCHANGED <<database, handling, announced, right, sweep, sfu, hooks, bounds>>

-----------------------------------------------------------------------------
(* LiveKit (external): connections and tracks, with the event each reports. *)

Report(c, e) ==
  /\ Len(hooks[c]) < MaxHooks
  /\ hooks' = [hooks EXCEPT ![c] = Append(@, e)]

AnySource == "screen"

serverSide == <<database, slots, handling, announced, right, sweep, tokens, bounds>>

\* The client has one viewer connection: connect() ends the previous one first.
SfuJoin(c, u) ==
  /\ <<{}, c, u>> \in tokens
  /\ \A d \in Channels : <<d, u>> \notin watching
  /\ watching' = watching \cup {<<c, u>>}
  /\ alive' = alive \cup {c}
  /\ Report(c, Event("joined", u, AnySource))
  /\ UNCHANGED <<serverSide, publishing, tracks>>

DropViewer(c, u) ==
  /\ <<c, u>> \in watching
  /\ watching' = watching \ {<<c, u>>}
  /\ Report(c, Event("left", u, AnySource))
  /\ UNCHANGED <<publishing, tracks, alive>>

SfuLeave(c, u) == DropViewer(c, u) /\ UNCHANGED serverSide

\* A publishing connection that appears is no event the server acts on.
SfuJoinPublisher(c, u) ==
  /\ \E wanted \in Requests \ {{}} : <<wanted, c, u>> \in tokens
  /\ <<c, u>> \notin publishing
  /\ publishing' = publishing \cup {<<c, u>>}
  /\ alive' = alive \cup {c}
  /\ UNCHANGED <<serverSide, watching, tracks, hooks>>

\* It may go without unpublishing: then this one event stands for all its tracks.
DropPublisher(c, u) ==
  /\ <<c, u>> \in publishing
  /\ publishing' = publishing \ {<<c, u>>}
  /\ tracks' = [tracks EXCEPT ![c][u] = {}]
  /\ Report(c, Event("publisher_left", u, AnySource))
  /\ UNCHANGED <<watching, alive>>

SfuLeavePublisher(c, u) == DropPublisher(c, u) /\ UNCHANGED serverSide

\* A publish grant covers both sources; the client declares a source before it
\* publishes it (startShare, startCamera).
SfuPublish(c, u, s) ==
  /\ <<c, u>> \in publishing /\ s \notin tracks[c][u]
  /\ \E wanted \in Requests : s \in wanted /\ <<wanted, c, u>> \in tokens
  /\ tracks' = [tracks EXCEPT ![c][u] = @ \cup {s}]
  /\ Report(c, Event("published", u, s))
  /\ UNCHANGED <<serverSide, watching, publishing, alive>>

SfuUnpublish(c, u, s) ==
  /\ s \in tracks[c][u]
  /\ tracks' = [tracks EXCEPT ![c][u] = @ \ {s}]
  /\ Report(c, Event("unpublished", u, s))
  /\ UNCHANGED <<serverSide, watching, publishing, alive>>

SfuClose(c) ==
  /\ c \in alive
  /\ \A u \in Users : <<c, u>> \notin watching \cup publishing
  /\ alive' = alive \ {c}
  /\ Report(c, Event("finished", None, AnySource))
  /\ UNCHANGED <<serverSide, watching, publishing, tracks>>

-----------------------------------------------------------------------------
(* The webhook: each on_* runs its first statement on the event LiveKit is   *)
(* delivering, then the room's step goes through the rest of the handler.    *)

Delivers(c, k) == step[c] = "idle" /\ hooks[c] # << >> /\ Head(hooks[c]).kind = k
Now(c) == Head(hooks[c])

Goes(c, s) == step' = [step EXCEPT ![c] = s]
Answered(c) == Goes(c, "idle") /\ hooks' = [hooks EXCEPT ![c] = Tail(@)]

elsewhere == <<right, sweep, sfu, tokens, bounds>>

\* Mutants: the DELETE passes over those who share, or over those who do not.
LeftUnlessLive(u) == IF row[u] = None \/ row[u].live # {} THEN row ELSE [row EXCEPT ![u] = None]
LeftIfLive(u) == IF row[u] = None \/ row[u].live = {} THEN row ELSE [row EXCEPT ![u] = None]

\* presence::leave, whatever room the row names.
Left(u) == [row EXCEPT ![u] = None]

\* Mutant: only the camera is cleared.
ClearedCamera(u) == [row EXCEPT ![u].live = @ \ {"camera"}]

\* presence::clear_publications.
Cleared(u) == [row EXCEPT ![u].live = {}]

\* Mutant: a session is closed only while its publisher has a row.
ClosedIfPresent(c, u) == IF InRoom(c, u) THEN open \ {<<c, u>>} ELSE open

\* sessions::close.
Closed(c, u) == open \ {<<c, u>>}

OnJoin(c) ==
  /\ Delivers(c, "joined")
  /\ row' = [row EXCEPT ![Now(c).user] = [channel |-> c, live |-> {}]]
  /\ Goes(c, "list")
  /\ UNCHANGED <<open, slots, listed, announced, hooks, elsewhere>>

OnLeave(c) ==
  /\ Delivers(c, "left")
  /\ row' = Left(Now(c).user)
  /\ Goes(c, "close")
  /\ UNCHANGED <<open, slots, listed, announced, hooks, elsewhere>>

OnShareStart(c) ==
  LET u == Now(c).user
  IN  /\ Delivers(c, "published")
      /\ row[u] # None
      /\ row' = [row EXCEPT ![u].live = @ \cup {Now(c).source}]
      /\ Goes(c, "open")
      /\ UNCHANGED <<open, slots, listed, announced, hooks, elsewhere>>

OnPublisherGone(c) ==
  LET u == Now(c).user
  IN  /\ Delivers(c, "publisher_left")
      /\ row[u] # None
      /\ row' = Cleared(u)
      /\ Goes(c, "close")
      /\ UNCHANGED <<open, slots, listed, announced, hooks, elsewhere>>

\* still_publishing keeps the session open.
OnShareStop(c) ==
  LET u == Now(c).user
  IN  /\ Delivers(c, "unpublished")
      /\ row[u] # None
      /\ row' = [row EXCEPT ![u].live = @ \ {Now(c).source}]
      /\ Goes(c, IF row'[u].live = {} THEN "close" ELSE "release")
      /\ UNCHANGED <<open, slots, listed, announced, hooks, elsewhere>>

\* No row: the event came after the user had left, and the handler returns.
OnNobody(c) ==
  /\ \E k \in {"published", "publisher_left", "unpublished"} : Delivers(c, k)
  /\ row[Now(c).user] = None
  /\ Answered(c)
  /\ UNCHANGED <<database, slots, listed, announced, elsewhere>>

OnFinished(c) ==
  /\ Delivers(c, "finished")
  /\ row' = [u \in Users |-> IF InRoom(c, u) THEN None ELSE row[u]]
  /\ Goes(c, "forget")
  /\ UNCHANGED <<open, slots, listed, announced, hooks, elsewhere>>

OpenSession(c) ==
  /\ step[c] = "open"
  /\ open' = open \cup {<<c, Now(c).user>>}
  /\ Goes(c, "list")
  /\ UNCHANGED <<row, slots, listed, announced, hooks, elsewhere>>

CloseSession(c) ==
  /\ step[c] = "close"
  /\ open' = Closed(c, Now(c).user)
  /\ Goes(c, "release")
  /\ UNCHANGED <<row, slots, listed, announced, hooks, elsewhere>>

\* release_publication for one track, release_publisher for the rest.
Released(c) == IF Now(c).kind = "unpublished" THEN {Now(c).source} ELSE Sources

\* Mutant: the room is not observed after the release.
ReleaseUnobserved(c) ==
  /\ step[c] = "release"
  /\ slots' = [slots EXCEPT ![c] =
       [s \in Sources |-> IF s \in Released(c) THEN @[s] \ {Now(c).user} ELSE @[s]]]
  /\ Answered(c)
  /\ UNCHANGED <<database, listed, announced, elsewhere>>

Release(c) ==
  /\ step[c] = "release"
  /\ slots' = [slots EXCEPT ![c] =
       [s \in Sources |-> IF s \in Released(c) THEN @[s] \ {Now(c).user} ELSE @[s]]]
  /\ Goes(c, "list")
  /\ UNCHANGED <<database, listed, announced, hooks, elsewhere>>

ForgetRoom(c) ==
  /\ step[c] = "forget"
  /\ slots' = [slots EXCEPT ![c] = [s \in Sources |-> {}]]
  /\ announced' = [announced EXCEPT ![c] = {}]
  /\ Answered(c)
  /\ UNCHANGED <<database, listed, elsewhere>>

ListRoom(c) ==
  /\ step[c] = "list"
  /\ listed' = [listed EXCEPT ![c] = Publishers(c)]
  /\ Goes(c, "tell")
  /\ UNCHANGED <<database, slots, announced, hooks, elsewhere>>

\* The rest of observe_room, and the dispatches to the room.
Tell(c) ==
  /\ step[c] = "tell"
  /\ announced' = [announced EXCEPT ![c] = listed[c]]
  /\ listed' = [listed EXCEPT ![c] = {}]
  /\ Answered(c)
  /\ UNCHANGED <<database, slots, elsewhere>>

-----------------------------------------------------------------------------
(* The bot: a change in Discord reaches the replica, then the channel is      *)
(* swept, and whoever is listed there and lost access is evicted.            *)

webhookSide == <<slots, handling, announced, open>>

ChangeRight(c, u, r) ==
  /\ changes < MaxChanges
  /\ sweep[c].at = "none" /\ right[u][c] # r
  /\ right' = [right EXCEPT ![u][c] = r]
  /\ sweep' = [sweep EXCEPT ![c].at = "due"]
  /\ changes' = changes + 1
  /\ UNCHANGED <<webhookSide, row, sfu, tokens, hooks, faults>>

SweepChannel(c) ==
  /\ sweep[c].at = "due"
  /\ \/ /\ sweep' = [sweep EXCEPT ![c].at = "check", ![c].left = {u \in Users : InRoom(c, u)}]
        /\ UNCHANGED faults
     \/ /\ faults < MaxFaults /\ faults' = faults + 1
        /\ sweep' = [sweep EXCEPT ![c] = NoSweep]
  /\ UNCHANGED <<webhookSide, row, right, sfu, tokens, hooks, changes>>

SweepKeeps(c, u) ==
  /\ sweep[c].at = "check" /\ u \in sweep[c].left /\ right[u][c] # "none"
  /\ sweep' = [sweep EXCEPT ![c].left = @ \ {u}]
  /\ UNCHANGED <<webhookSide, row, right, sfu, tokens, hooks, bounds>>

SweepEvicts(c, u) ==
  /\ sweep[c].at = "check" /\ u \in sweep[c].left /\ right[u][c] = "none"
  /\ sweep' = [sweep EXCEPT ![c] = [at |-> "publisher", left |-> @.left \ {u}, victim |-> u]]
  /\ UNCHANGED <<webhookSide, row, right, sfu, tokens, hooks, bounds>>

SweepEnds(c) ==
  /\ sweep[c].at = "check" /\ sweep[c].left = {}
  /\ sweep' = [sweep EXCEPT ![c] = NoSweep]
  /\ UNCHANGED <<webhookSide, row, right, sfu, tokens, hooks, bounds>>

\* Rooms::remove_participant, the publishing identity first.  LiveKit may not have
\* the connection; a call or a statement that fails is logged and the sweep goes on.
EvictPublisher(c) ==
  /\ sweep[c].at = "publisher"
  /\ sweep' = [sweep EXCEPT ![c].at = "viewer"]
  /\ \/ DropPublisher(c, sweep[c].victim) /\ UNCHANGED faults
     \/ /\ <<c, sweep[c].victim>> \notin publishing
        /\ UNCHANGED <<sfu, hooks, faults>>
     \/ /\ faults < MaxFaults /\ faults' = faults + 1
        /\ UNCHANGED <<sfu, hooks>>
  /\ UNCHANGED <<webhookSide, row, right, tokens, changes>>

EvictViewer(c) ==
  /\ sweep[c].at = "viewer"
  /\ sweep' = [sweep EXCEPT ![c].at = "row"]
  /\ \/ DropViewer(c, sweep[c].victim) /\ UNCHANGED faults
     \/ /\ <<c, sweep[c].victim>> \notin watching
        /\ UNCHANGED <<sfu, hooks, faults>>
     \/ /\ faults < MaxFaults /\ faults' = faults + 1
        /\ UNCHANGED <<sfu, hooks>>
  /\ UNCHANGED <<webhookSide, row, right, tokens, changes>>

EvictRow(c) ==
  /\ sweep[c].at = "row"
  /\ \/ row' = Left(sweep[c].victim) /\ UNCHANGED faults
     \/ faults < MaxFaults /\ faults' = faults + 1 /\ UNCHANGED row
  /\ sweep' = [sweep EXCEPT ![c].at = "check", ![c].victim = None]
  /\ UNCHANGED <<webhookSide, right, sfu, tokens, hooks, changes>>

-----------------------------------------------------------------------------
(* A statement of a handler fails, or LiveKit hangs up: it sends the event    *)
(* again.  The server restarts: the ledger is gone, serve() closes every      *)
(* session unless the statement fails (logged), presence stays.               *)

HandlerFails(c) ==
  /\ faults < MaxFaults /\ step[c] # "idle"
  /\ Goes(c, "idle")
  /\ listed' = [listed EXCEPT ![c] = {}]
  /\ faults' = faults + 1
  /\ UNCHANGED <<database, slots, announced, right, sweep, sfu, tokens, hooks, changes>>

Restart ==
  /\ faults < MaxFaults
  /\ open' \in {{}, open}
  /\ slots' = [c \in Channels |-> [s \in Sources |-> {}]]
  /\ step' = [c \in Channels |-> "idle"]
  /\ listed' = [c \in Channels |-> {}]
  /\ announced' = [c \in Channels |-> {}]
  /\ sweep' = [c \in Channels |-> NoSweep]
  /\ faults' = faults + 1
  /\ UNCHANGED <<row, right, sfu, tokens, hooks, changes>>

RoomsNext ==
  \/ \E c \in Channels, u \in Users :
       \/ \E wanted \in Requests : Token(c, u, wanted)
       \/ SfuJoin(c, u) \/ SfuLeave(c, u)
       \/ SfuJoinPublisher(c, u) \/ SfuLeavePublisher(c, u)
       \/ \E s \in Sources : SfuPublish(c, u, s) \/ SfuUnpublish(c, u, s)
       \/ \E r \in Rights : ChangeRight(c, u, r)
       \/ SweepKeeps(c, u) \/ SweepEvicts(c, u)
  \/ \E c \in Channels :
       \/ SfuClose(c)
       \/ OnJoin(c) \/ OnLeave(c) \/ OnShareStart(c) \/ OnPublisherGone(c)
       \/ OnShareStop(c) \/ OnNobody(c) \/ OnFinished(c)
       \/ OpenSession(c) \/ CloseSession(c) \/ Release(c) \/ ForgetRoom(c)
       \/ ListRoom(c) \/ Tell(c) \/ HandlerFails(c)
       \/ SweepChannel(c) \/ SweepEnds(c)
       \/ EvictPublisher(c) \/ EvictViewer(c) \/ EvictRow(c)
  \/ Restart

RoomsSpec == RoomsInit /\ [][RoomsNext]_roomsVars

-----------------------------------------------------------------------------
\* Every variable has its type.
RoomsTypeOK ==
  /\ row \in [Users -> Row \cup {None}]
  /\ open \subseteq Channels \X Users
  /\ slots \in [Channels -> [Sources -> SUBSET Users]]
  /\ step \in [Channels -> Steps]
  /\ listed \in [Channels -> SUBSET Users]
  /\ announced \in [Channels -> SUBSET Users]
  /\ right \in [Users -> [Channels -> Rights]]
  /\ sweep \in [Channels -> Sweep]
  /\ watching \subseteq Channels \X Users
  /\ publishing \subseteq Channels \X Users
  /\ tracks \in [Channels -> [Users -> SUBSET Sources]]
  /\ alive \subseteq Channels
  /\ tokens \subseteq Requests \X Channels \X Users
  /\ hooks \in [Channels -> Seq(Hook)]
  /\ faults \in Nat /\ changes \in Nat

\* Admission control (RF-13): no interleaving of token requests, releases, closed
\* rooms and restarts lets more people hold a source's slots than its ceiling.
LedgerBounded ==
  \A c \in Channels, s \in Sources : Cardinality(slots[c][s]) <= Ceiling(s)

\* LiveKit has reported everything that happened in the room, and it was handled.
Quiet(c) == hooks[c] = << >>

\* Presence means "connected to our SFU room" (webhook): in a quiet room whoever has
\* a row is watching, whatever failed, was resent, evicted or restarted before.
RowIsConnected ==
  \A c \in Channels, u \in Users : Quiet(c) /\ InRoom(c, u) => <<c, u>> \in watching

\* The room is the only one the user has had a token for: a row is one per user, so
\* the events of two rooms write over one another (rooms_moved).
OnlyRoom(c, u) == \A t \in tokens : t[3] = u => t[2] = c

\* In a quiet room nobody is shown with a source that is not on the air: no stop is
\* missed, whether it came as a track's or as a lost connection's.
ShownIsLive ==
  \A c \in Channels, u \in Users :
    OnlyRoom(c, u) /\ Quiet(c) /\ InRoom(c, u) => row[u].live \subseteq tracks[c][u]

\* In a quiet room every session still open is of somebody who is there, so that it
\* is closed when they go: none is counted for ever (RNF-05).
SessionHasViewer ==
  \A c \in Channels, u \in Users :
    OnlyRoom(c, u) /\ Quiet(c) /\ <<c, u>> \in open => <<c, u>> \in watching

\* In a quiet room the last announcement names nobody who left, and nobody present
\* who publishes nothing: Discord does not go on saying that they are live.
AnnouncedIsLive ==
  \A c \in Channels, u \in Users :
    OnlyRoom(c, u) /\ Quiet(c) /\ u \in announced[c] =>
      <<c, u>> \in watching /\ (InRoom(c, u) => row[u].live # {})

\* What RowIsConnected rests on.  A row, and a join still to be delivered, are of
\* somebody who is watching or whose leave comes later in the queue; while a leave is
\* being handled its row is gone, and only a handler that is done takes an event off.
Is(e, k, u) == e.kind = k /\ e.user = u

LeavesAfter(q, u, i) == \E j \in 1..Len(q) : j > i /\ Is(q[j], "left", u)

RowsAccounted ==
  \A c \in Channels, u \in Users :
    InRoom(c, u) => <<c, u>> \in watching \/ LeavesAfter(hooks[c], u, 0)

JoinsAccounted ==
  \A c \in Channels, u \in Users : \A i \in 1..Len(hooks[c]) :
    Is(hooks[c][i], "joined", u) => <<c, u>> \in watching \/ LeavesAfter(hooks[c], u, i)

HandlersHaveEvents ==
  \A c \in Channels : step[c] # "idle" =>
    /\ hooks[c] # << >>
    /\ step[c] = "open" => hooks[c][1].user \in Users
    /\ \A u \in Users : Is(hooks[c][1], "left", u) => ~InRoom(c, u)

\* The inductive invariant: no step of a handler, a sweep, a token request, LiveKit
\* or a restart breaks the bound of the ledger or loses track of a row.
RoomsInv ==
  /\ RoomsTypeOK
  /\ LedgerBounded
  /\ RowsAccounted
  /\ JoinsAccounted
  /\ HandlersHaveEvents

(* What the three properties of a user's only room rest on.                  *)

\* Whatever the server or LiveKit knows of a user in a room began with a token.
Invited(c, u) == \E t \in tokens : t[2] = c /\ t[3] = u

Untouched(c, u) ==
  /\ <<c, u>> \notin watching /\ <<c, u>> \notin publishing
  /\ tracks[c][u] = {}
  /\ \A i \in 1..Len(hooks[c]) : hooks[c][i].user # u
  /\ ~InRoom(c, u)
  /\ u \notin sweep[c].left /\ sweep[c].victim # u

TokensFirst == \A c \in Channels, u \in Users : Invited(c, u) \/ Untouched(c, u)

Stays(c, u, i) == <<c, u>> \in watching \/ LeavesAfter(hooks[c], u, i)

Stops(e, u, s) == Is(e, "publisher_left", u) \/ (Is(e, "unpublished", u) /\ e.source = s)

StopsAfter(q, u, s, i) == \E j \in 1..Len(q) : j > i /\ Stops(q[j], u, s)

OnAir(c, u, s, i) == s \in tracks[c][u] \/ StopsAfter(hooks[c], u, s, i)

\* A source shown, or reported and not handled, is on the air or its stop comes
\* later; the first event counts until its handler starts.
SourcesAccounted(c, u) ==
  \A s \in Sources :
    /\ InRoom(c, u) /\ s \in row[u].live =>
         OnAir(c, u, s, 0) /\ (step[c] # "idle" => OnAir(c, u, s, 1))
    /\ \A i \in 1..Len(hooks[c]) :
         Is(hooks[c][i], "published", u) /\ hooks[c][i].source = s => OnAir(c, u, s, i)

\* A session that is open, or being opened, is of somebody who stays or whose leave
\* comes later; the first event counts until its handler has closed the session.
SessionsAccounted(c, u) ==
  /\ <<c, u>> \in open =>
       Stays(c, u, 0) /\ (step[c] \notin {"idle", "close"} => Stays(c, u, 1))
  /\ step[c] = "open" /\ hooks[c][1].user = u => Stays(c, u, 1)

\* Who is announced stays or has a leave to come, and is announced again before the
\* event that ended what they published is answered.
AnnouncementsAccounted(c, u) ==
  /\ u \in announced[c] =>
       /\ Stays(c, u, 0)
       /\ InRoom(c, u) /\ row[u].live = {} => hooks[c] # << >> /\ hooks[c][1].user = u
  /\ u \in listed[c] =>
       /\ step[c] = "tell" /\ Stays(c, u, 1)
       /\ InRoom(c, u) => row[u].live # {}

OnlyRoomsInv ==
  \A c \in Channels, u \in Users : OnlyRoom(c, u) =>
    SourcesAccounted(c, u) /\ SessionsAccounted(c, u) /\ AnnouncementsAccounted(c, u)

EventsInv == TokensFirst /\ OnlyRoomsInv

\* The converse of RowIsConnected, what webhook's comment says of room_presence: in
\* quiet rooms without eviction, whoever watches has a row, and it names that room.
PresenceIsConnection ==
  (\A c \in Channels : Quiet(c) /\ sweep[c].at = "none") =>
    \A c \in Channels, u \in Users : <<c, u>> \in watching => InRoom(c, u)

=============================================================================
