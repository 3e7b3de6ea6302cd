---------------------------- MODULE GatewayServer ----------------------------
(***************************************************************************)
(* The server side of the WebSocket gateway (crates/api/src/gateway): the   *)
(* session registry (hub.rs), the session objects (session.rs) and the      *)
(* connection tasks (mod.rs).                                              *)
(*                                                                         *)
(* A session outlives the connection that created it.  It is named here by *)
(* that connection: IDENTIFY creates at most one session per connection.   *)
(* Connection tasks and publishers are the processes.  A step is what one  *)
(* of them does under one lock or with one atomic operation.  Larger steps *)
(* (Identify, Attach) say why no other task can tell.  The registry's      *)
(* RwLock is modelled by NoReader: a publisher holds it shared for as long  *)
(* as it iterates, attach/forget/sweep need it alone.                      *)
(***************************************************************************)
EXTENDS Naturals, Sequences, FiniteSets

CONSTANTS
  Conns,           \* connection tasks; also the names of the sessions
  Users,
  UserOf,          \* [Conns -> Users]: whom the connection's access token names
  Publishers,      \* tasks that publish events: webhook handlers, the bot, routes
  BufferCapacity,  \* resume_buffer_size
  MaxConnections,  \* max_connections_per_user
  MaxSeq,          \* model bound: no event is published past this sequence
  MaxRestarts,     \* model bound on process restarts
  EndReasons,      \* the close codes a serve loop may end with in this model
  Positions,       \* the last_seq values a client may present
  None

ASSUME ConnsAssumption ==
  /\ UserOf \in [Conns -> Users]
  /\ None \notin Conns
  /\ Conns \cap Publishers = {}
  /\ IsFiniteSet(Conns) /\ IsFiniteSet(Publishers)

ASSUME LimitsAssumption ==
  /\ BufferCapacity \in Nat \ {0}
  /\ MaxConnections \in Nat \ {0}
  /\ MaxSeq \in Nat
  /\ MaxRestarts \in Nat
  /\ EndReasons \subseteq {0, 4000, 4001, 4002, 4003, 4008, 4010}
  /\ Positions \subseteq Nat

VARIABLES
  sessions,         \* Registry.sessions: the registered session ids
  by_user,          \* Registry.by_user: the ids of a user's sessions
  arrival,          \* and their order in it: when attach pushed each
  attached,         \* how many attach has pushed
  seq,              \* Session.seq
  buffer,           \* Session.buffer
  evicted_through,  \* Session.evicted_through
  outbox,           \* Session.outbox: the connection it feeds, or None
  connected,        \* Session.connected
  disconnected_at,  \* Session.disconnected_at: none, within or past the TTL
  pc,               \* where each connection task and each publisher is
  sess,             \* the session a connection task or a publisher holds
  num,              \* the number taken by a dispatch in progress
  todo,             \* sessions a publisher has still to visit
  last,             \* Resume.last_seq
  missed,           \* the frames replay_after returned, not yet sent
  close_reason,     \* the code the serve loop ended with, 0 for none
  sent,             \* the frames the last step queued: <<connection, frame>>
  stopping,         \* the shutdown signal has been handled
  restarts

registry == <<sessions, by_user, arrival, attached>>
session  == <<seq, buffer, evicted_through, outbox, connected, disconnected_at>>
task     == <<pc, sess, num, todo, last, missed, close_reason>>
process  == <<stopping, restarts>>
serverVars == <<sessions, by_user, arrival, attached, seq, buffer, evicted_through, outbox,
                connected, disconnected_at, pc, sess, num, todo, last, missed,
                close_reason, sent, stopping, restarts>>

Procs == Conns \cup Publishers

(***************************************************************************)
(* Frames.  n is the sequence number of a dispatch, the code of a CLOSE.   *)
(***************************************************************************)
DispatchOps == {"READY", "RESUMED", "EVENT"}
ControlOps  == {"HELLO", "HEARTBEAT_ACK", "INVALID_SESSION", "RECONNECT", "CLOSE"}

Dispatch(op, s, n) == [op |-> op, sess |-> s, n |-> n]
Control(op)        == [op |-> op, sess |-> None, n |-> 0]
Close(code)        == [op |-> "CLOSE", sess |-> None, n |-> code]

Frames == [op : DispatchOps \cup ControlOps, sess : Conns \cup {None}, n : Nat]

UNKNOWN == 4000
AUTHENTICATION_FAILED == 4001
DECODE_ERROR == 4002
NOT_AUTHENTICATED == 4003
RATE_LIMITED == 4008
VERSION_TOO_OLD == 4010
CloseCodes == {0, UNKNOWN, AUTHENTICATION_FAILED, DECODE_ERROR,
               NOT_AUTHENTICATED, RATE_LIMITED, VERSION_TOO_OLD}

\* Program counters of a connection task.  store and send are shared with the
\* publishers: they are the inside of Session::dispatch.
Resuming   == {"check", "forget", "collect", "rc_outbox", "rc_time", "rc_flag",
               "replay", "number", "store", "send"}
Closing    == {"d_flag", "d_outbox", "d_time", "drain"}
ConnStates == {"off", "hello", "attach", "open", "closed"} \cup Resuming \cup Closing
PubStates  == {"idle", "number", "store", "send"}

Goto(p, l) == pc' = [pc EXCEPT ![p] = l]

\* Session::send_text: to whichever connection the session feeds now.
SendText(s, f) == sent' = IF outbox[s] = None THEN {} ELSE {<<outbox[s], f>>}

\* To a connection's own end of its outbox, as its handlers do.
Send(c, f) == sent' = {<<c, f>>}
Silent     == sent' = {}

\* No publisher is inside publish_to_users, so the registry can be written.
NoReader == \A p \in Publishers : pc[p] = "idle"

Without(S) == [u \in Users |-> by_user[u] \ S]

\* The session of S that is first in its user's list.
IsOldest(s, S) == s \in S /\ \A t \in S : arrival[s] <= arrival[t]

-----------------------------------------------------------------------------
ServerInit ==
  /\ sessions = {}
  /\ by_user = [u \in Users |-> {}]
  /\ arrival = [s \in Conns |-> 0]
  /\ attached = 0
  /\ seq = [s \in Conns |-> 0]
  /\ buffer = [s \in Conns |-> <<>>]
  /\ evicted_through = [s \in Conns |-> 0]
  /\ outbox = [s \in Conns |-> None]
  /\ connected = [s \in Conns |-> FALSE]
  /\ disconnected_at = [s \in Conns |-> "none"]
  /\ pc = [p \in Procs |-> IF p \in Conns THEN "off" ELSE "idle"]
  /\ sess = [p \in Procs |-> None]
  /\ num = [p \in Procs |-> 0]
  /\ todo = [p \in Publishers |-> {}]
  /\ last = [c \in Conns |-> 0]
  /\ missed = [c \in Conns |-> <<>>]
  /\ close_reason = [c \in Conns |-> 0]
  /\ sent = {}
  /\ stopping = FALSE
  /\ restarts = 0

-----------------------------------------------------------------------------
(***************************************************************************)
(* Opening a connection and IDENTIFY.                                      *)
(***************************************************************************)
\* serve: an unsupported protocol version is refused before HELLO, with its code.
Accept(c) ==
  /\ pc[c] = "off"
  /\ \/ /\ Goto(c, "hello")
        /\ Send(c, Control("HELLO"))
        /\ UNCHANGED close_reason
     \/ /\ Goto(c, "closed")
        /\ close_reason' = [close_reason EXCEPT ![c] = VERSION_TOO_OLD]
        /\ Send(c, Close(VERSION_TOO_OLD))
  /\ UNCHANGED <<registry, session, sess, num, todo, last, missed, process>>

\* identify, up to and including the dispatch of READY: create_session makes a
\* session nobody else can reach, so numbering, buffering and sending READY
\* cannot be interleaved with another dispatch of that session.
Identify(c) ==
  /\ pc[c] = "hello"
  /\ seq' = [seq EXCEPT ![c] = 1]
  /\ buffer' = [buffer EXCEPT ![c] = <<Dispatch("READY", c, 1)>>]
  /\ evicted_through' = [evicted_through EXCEPT ![c] = 0]
  /\ outbox' = [outbox EXCEPT ![c] = c]
  /\ connected' = [connected EXCEPT ![c] = TRUE]
  /\ disconnected_at' = [disconnected_at EXCEPT ![c] = "none"]
  /\ sess' = [sess EXCEPT ![c] = c]
  /\ Send(c, Dispatch("READY", c, 1))
  /\ Goto(c, "attach")
  /\ UNCHANGED <<registry, num, todo, last, missed, close_reason, process>>

Owned(c) == by_user[UserOf[c]] \cup {c}

\* The user's sessions pushed after s; c is the one being pushed.
Newer(c, s) == {x \in Owned(c) : x # s /\ (x = c \/ arrival[x] > arrival[s])}

\* Mutant: the limit is compared before the new session is counted.
ExcessOffByOne(c) == {s \in Owned(c) : s # c /\ Cardinality(Newer(c, s)) > MaxConnections}

\* The oldest sessions of c's user, down to the limit.
Excess(c) == {s \in Owned(c) : s # c /\ Cardinality(Newer(c, s)) >= MaxConnections}

\* Hub::attach, under the registry's write lock: the sessions beyond the limit
\* are told to reconnect, disconnected and dropped.  A resume that holds one of
\* them may interleave its writes with this disconnect, but only the order of the
\* two writes to outbox can be told: the sweep looks at registered sessions only.
Attach(c) ==
  LET evicted == Excess(c) \cap sessions
      told    == {outbox[s] : s \in evicted} \ {None}
  IN
  /\ pc[c] = "attach"
  /\ NoReader
  /\ by_user' = [by_user EXCEPT ![UserOf[c]] = Owned(c) \ Excess(c)]
  /\ arrival' = [arrival EXCEPT ![c] = attached + 1]
  /\ attached' = attached + 1
  /\ sessions' = (sessions \ evicted) \cup {c}
  /\ sent' = told \X {Control("RECONNECT")}
  /\ connected' = [s \in Conns |-> IF s \in evicted THEN FALSE ELSE connected[s]]
  /\ outbox' = [s \in Conns |-> IF s \in evicted THEN None ELSE outbox[s]]
  /\ disconnected_at' = [s \in Conns |-> IF s \in evicted THEN "fresh"
                                         ELSE disconnected_at[s]]
  /\ Goto(c, "open")
  /\ UNCHANGED <<seq, buffer, evicted_through, sess, num, todo, last, missed,
                 close_reason, process>>

-----------------------------------------------------------------------------
(***************************************************************************)
(* RESUME.                                                                 *)
(***************************************************************************)
\* Mutant: the session id alone is enough.
ResumableByAnyone(s, c) == s \in sessions

\* Hub::resumable: registered, and of the same user.
Resumable(s, c) == s \in sessions /\ UserOf[s] = UserOf[c]

\* resume, the lookup.
Resume(c, s, n) ==
  /\ pc[c] = "hello"
  /\ IF Resumable(s, c)
     THEN /\ sess' = [sess EXCEPT ![c] = s]
          /\ last' = [last EXCEPT ![c] = n]
          /\ Goto(c, "check")
          /\ Silent
     ELSE /\ Send(c, Control("INVALID_SESSION"))
          /\ UNCHANGED <<pc, sess, last>>
  /\ UNCHANGED <<registry, session, num, todo, missed, close_reason, process>>

\* Mutant: what the buffer has dropped is not looked at.
UnreplayableAheadOnly(s, n) == n > seq[s]

\* replay_after: a position ahead of the session, or behind what the buffer has
\* dropped, cannot be resumed.
Unreplayable(s, n) == n > seq[s] \/ n < evicted_through[s]

ReplayCheck(c) ==
  /\ pc[c] = "check"
  /\ Goto(c, IF Unreplayable(sess[c], last[c]) THEN "forget" ELSE "collect")
  /\ Silent
  /\ UNCHANGED <<registry, session, sess, num, todo, last, missed,
                 close_reason, process>>

\* replay_after, under the buffer lock, which is taken after the check above.  The
\* frames at or below last_seq are skipped as the copy is replayed.
ReplayCollect(c) ==
  /\ pc[c] = "collect"
  /\ missed' = [missed EXCEPT ![c] = buffer[sess[c]]]
  /\ Goto(c, "rc_outbox")
  /\ Silent
  /\ UNCHANGED <<registry, session, sess, num, todo, last, close_reason, process>>

\* Hub::forget and INVALID_SESSION.  The connection may identify afterwards.
Forget(c) ==
  /\ pc[c] = "forget"
  /\ NoReader
  /\ sessions' = sessions \ {sess[c]}
  /\ by_user' = IF sess[c] \in sessions THEN Without({sess[c]}) ELSE by_user
  /\ Send(c, Control("INVALID_SESSION"))
  /\ sess' = [sess EXCEPT ![c] = None]
  /\ Goto(c, "hello")
  /\ UNCHANGED <<arrival, attached, session, num, todo, last, missed, close_reason,
                 process>>

\* Session::reconnect: three writes, each under its own lock.
Reconnect(c) ==
  LET s == sess[c] IN
  /\ \/ /\ pc[c] = "rc_outbox"
        /\ outbox' = [outbox EXCEPT ![s] = c]
        /\ Goto(c, "rc_time")
        /\ UNCHANGED <<disconnected_at, connected>>
     \/ /\ pc[c] = "rc_time"
        /\ disconnected_at' = [disconnected_at EXCEPT ![s] = "none"]
        /\ Goto(c, "rc_flag")
        /\ UNCHANGED <<outbox, connected>>
     \/ /\ pc[c] = "rc_flag"
        /\ connected' = [connected EXCEPT ![s] = TRUE]
        /\ Goto(c, "replay")
        /\ UNCHANGED <<outbox, disconnected_at>>
  /\ Silent
  /\ UNCHANGED <<registry, seq, buffer, evicted_through, sess, num, todo, last,
                 missed, close_reason, process>>

IsMissed(c, f) == f.n > last[c]

\* The replay loop: one send_text per missed frame, to the session's current
\* outbox, then the dispatch of RESUMED.
Replay(c) ==
  /\ pc[c] = "replay"
  /\ IF missed[c] = <<>>
     THEN /\ Goto(c, "number")
          /\ Silent
          /\ UNCHANGED missed
     ELSE /\ IF IsMissed(c, Head(missed[c]))
             THEN SendText(sess[c], Head(missed[c])) ELSE Silent
          /\ missed' = [missed EXCEPT ![c] = Tail(@)]
          /\ UNCHANGED pc
  /\ UNCHANGED <<registry, session, sess, num, todo, last, close_reason, process>>

-----------------------------------------------------------------------------
(***************************************************************************)
(* Session::dispatch, by a publisher or, for RESUMED, by a connection.     *)
(***************************************************************************)
EventOf(p) == IF p \in Conns THEN "RESUMED" ELSE "EVENT"

\* Mutant: fetch_add's result is used as it is.
DispatchNumberStale(p) ==
  LET s == sess[p] IN
  /\ pc[p] = "number"
  /\ seq' = [seq EXCEPT ![s] = @ + 1]
  /\ num' = [num EXCEPT ![p] = seq[s]]
  /\ Goto(p, "store")
  /\ Silent
  /\ UNCHANGED <<registry, buffer, evicted_through, outbox, connected,
                 disconnected_at, sess, todo, last, missed, close_reason, process>>

DispatchNumber(p) ==
  LET s == sess[p] IN
  /\ pc[p] = "number"
  /\ seq' = [seq EXCEPT ![s] = @ + 1]
  /\ num' = [num EXCEPT ![p] = seq[s] + 1]
  /\ Goto(p, "store")
  /\ Silent
  /\ UNCHANGED <<registry, buffer, evicted_through, outbox, connected,
                 disconnected_at, sess, todo, last, missed, close_reason, process>>

\* Mutant: a full buffer takes no more.
PushUntilFull(b, f) == IF Len(b) = BufferCapacity THEN b ELSE Append(b, f)

\* The ring: a full buffer drops its front before it takes the new frame.
Push(b, f) == IF Len(b) = BufferCapacity THEN Append(Tail(b), f) ELSE Append(b, f)
EvictedBy(b, e) == IF Len(b) = BufferCapacity THEN Head(b).n ELSE e

DispatchStore(p) ==
  LET s == sess[p] IN
  /\ pc[p] = "store"
  /\ buffer' = [buffer EXCEPT ![s] = Push(@, Dispatch(EventOf(p), s, num[p]))]
  /\ evicted_through' = [evicted_through EXCEPT ![s] = EvictedBy(buffer[s], @)]
  /\ Goto(p, "send")
  /\ Silent
  /\ UNCHANGED <<registry, seq, outbox, connected, disconnected_at, sess, num, todo,
                 last, missed, close_reason, process>>

\* A connection is open once RESUMED is out; a publisher goes on to the next
\* session of the user, or lets go of the registry.
DispatchSend(p) ==
  /\ pc[p] = "send"
  /\ SendText(sess[p], Dispatch(EventOf(p), sess[p], num[p]))
  /\ \/ /\ p \in Conns
        /\ Goto(p, "open")
        /\ UNCHANGED <<sess, todo>>
     \/ /\ p \in Publishers /\ todo[p] = {}
        /\ Goto(p, "idle")
        /\ sess' = [sess EXCEPT ![p] = None]
        /\ UNCHANGED todo
     \/ /\ p \in Publishers
        /\ \E s \in todo[p] :
             /\ IsOldest(s, todo[p])
             /\ sess' = [sess EXCEPT ![p] = s]
             /\ todo' = [todo EXCEPT ![p] = @ \ {s}]
        /\ Goto(p, "number")
  /\ num' = [num EXCEPT ![p] = 0]
  /\ UNCHANGED <<registry, session, last, missed, close_reason, process>>

\* Hub::publish_to_users for one user: every registered session, oldest first.
Publish(p, u) ==
  LET ids == by_user[u] \cap sessions IN
  /\ pc[p] = "idle"
  /\ \A s \in ids : seq[s] < MaxSeq
  /\ \E s \in ids :
       /\ IsOldest(s, ids)
       /\ sess' = [sess EXCEPT ![p] = s]
       /\ todo' = [todo EXCEPT ![p] = ids \ {s}]
  /\ Goto(p, "number")
  /\ Silent
  /\ UNCHANGED <<registry, session, num, last, missed, close_reason, process>>

-----------------------------------------------------------------------------
(***************************************************************************)
(* Heartbeats, and the end of a connection.                                *)
(***************************************************************************)
Heartbeat(c) ==
  /\ pc[c] \in {"hello", "open"}
  /\ Send(c, Control("HEARTBEAT_ACK"))
  /\ UNCHANGED <<registry, session, task, process>>

\* The codes the serve loop can end with before and after the handshake: the
\* identify deadline runs while there is no session, the heartbeat check while
\* there is one; 0 is a close by the peer.
EndCodes(c) ==
  IF sess[c] = None
  THEN {0, NOT_AUTHENTICATED, AUTHENTICATION_FAILED, VERSION_TOO_OLD, DECODE_ERROR, RATE_LIMITED}
  ELSE {0, UNKNOWN, DECODE_ERROR, RATE_LIMITED}

\* Mutant: the session is not disconnected.
EndLoopKeepsSession(c, code) ==
  /\ pc[c] \in {"hello", "open"}
  /\ code \in EndCodes(c)
  /\ close_reason' = [close_reason EXCEPT ![c] = code]
  /\ Goto(c, "drain")
  /\ Silent
  /\ UNCHANGED <<registry, session, sess, num, todo, last, missed, process>>

EndLoop(c, code) ==
  /\ pc[c] \in {"hello", "open"}
  /\ code \in EndCodes(c)
  /\ close_reason' = [close_reason EXCEPT ![c] = code]
  /\ Goto(c, IF sess[c] = None THEN "drain" ELSE "d_flag")
  /\ Silent
  /\ UNCHANGED <<registry, session, sess, num, todo, last, missed, process>>

\* Mutant: disconnected_at is not stamped.
DisconnectUnstamped(c) ==
  LET s == sess[c] IN
  /\ \/ /\ pc[c] = "d_flag"
        /\ connected' = [connected EXCEPT ![s] = FALSE]
        /\ Goto(c, "d_outbox")
        /\ UNCHANGED outbox
     \/ /\ pc[c] = "d_outbox"
        /\ outbox' = [outbox EXCEPT ![s] = None]
        /\ Goto(c, "drain")
        /\ UNCHANGED connected
  /\ Silent
  /\ UNCHANGED <<registry, seq, buffer, evicted_through, disconnected_at, sess, num,
                 todo, last, missed, close_reason, process>>

\* Session::disconnect: three writes, whatever connection feeds the session now.
Disconnect(c) ==
  LET s == sess[c] IN
  /\ \/ /\ pc[c] = "d_flag"
        /\ connected' = [connected EXCEPT ![s] = FALSE]
        /\ Goto(c, "d_outbox")
        /\ UNCHANGED <<outbox, disconnected_at>>
     \/ /\ pc[c] = "d_outbox"
        /\ outbox' = [outbox EXCEPT ![s] = None]
        /\ Goto(c, "d_time")
        /\ UNCHANGED <<connected, disconnected_at>>
     \/ /\ pc[c] = "d_time"
        /\ disconnected_at' = [disconnected_at EXCEPT ![s] = "fresh"]
        /\ Goto(c, "drain")
        /\ UNCHANGED <<connected, outbox>>
  /\ Silent
  /\ UNCHANGED <<registry, seq, buffer, evicted_through, sess, num, todo, last,
                 missed, close_reason, process>>

\* drop(outbox_tx); writer.await: the writer ends once every sender is gone, and
\* closes the sink, which carries no code.
Drain(c) ==
  /\ pc[c] = "drain"
  /\ \A s \in Conns : outbox[s] # c
  /\ Send(c, Close(0))
  /\ Goto(c, "closed")
  /\ UNCHANGED <<registry, session, sess, num, todo, last, missed, close_reason, process>>

-----------------------------------------------------------------------------
(***************************************************************************)
(* The TTL sweep, and the process.                                         *)
(***************************************************************************)
\* session_ttl_ms passes after a disconnect.
Age(s) ==
  /\ disconnected_at[s] = "fresh"
  /\ disconnected_at' = [disconnected_at EXCEPT ![s] = "stale"]
  /\ Silent
  /\ UNCHANGED <<registry, seq, buffer, evicted_through, outbox, connected, task, process>>

Expired == {s \in sessions : ~connected[s] /\ disconnected_at[s] = "stale"}

\* Mutant: the user's list keeps the ids.
SweepSessionsOnly ==
  /\ NoReader
  /\ Expired # {}
  /\ sessions' = sessions \ Expired
  /\ Silent
  /\ UNCHANGED <<by_user, arrival, attached, session, task, process>>

\* Hub::sweep_expired, on the ticks that find something to drop.
Sweep ==
  /\ NoReader
  /\ Expired # {}
  /\ sessions' = sessions \ Expired
  /\ by_user' = Without(Expired)
  /\ Silent
  /\ UNCHANGED <<arrival, attached, session, task, process>>

\* Hub::broadcast_reconnect, on the shutdown signal.
BroadcastReconnect ==
  /\ ~stopping
  /\ restarts < MaxRestarts
  /\ stopping' = TRUE
  /\ sent' = ({outbox[s] : s \in sessions} \ {None}) \X {Control("RECONNECT")}
  /\ UNCHANGED <<registry, session, task, restarts>>

\* The process ends, by a deploy or a crash, and comes back with an empty
\* registry: sessions live in memory only.  Every socket is closed.
Restart ==
  /\ restarts < MaxRestarts
  /\ restarts' = restarts + 1
  /\ stopping' = FALSE
  /\ sessions' = {}
  /\ by_user' = [u \in Users |-> {}]
  /\ pc' = [p \in Procs |-> IF p \in Publishers THEN "idle"
                            ELSE IF pc[p] = "off" THEN "off" ELSE "closed"]
  /\ sess' = [p \in Procs |-> None]
  /\ num' = [p \in Procs |-> 0]
  /\ todo' = [p \in Publishers |-> {}]
  /\ missed' = [c \in Conns |-> <<>>]
  /\ outbox' = [s \in Conns |-> None]
  /\ connected' = [s \in Conns |-> FALSE]
  /\ disconnected_at' = [s \in Conns |-> "none"]
  /\ sent' = {c \in Conns : pc[c] \notin {"off", "closed"}} \X {Close(0)}
  /\ UNCHANGED <<arrival, attached, seq, buffer, evicted_through, last, close_reason>>

-----------------------------------------------------------------------------
(***************************************************************************)
(* The server among clients that may send any well-formed frame at any     *)
(* time.                                                                   *)
(***************************************************************************)
ConnNext(c) ==
  \/ Accept(c) \/ Identify(c) \/ Attach(c)
  \/ \E s \in Conns, n \in Positions : Resume(c, s, n)
  \/ ReplayCheck(c) \/ ReplayCollect(c) \/ Forget(c) \/ Reconnect(c) \/ Replay(c)
  \/ Heartbeat(c)
  \/ \E code \in EndReasons : EndLoop(c, code)
  \/ Disconnect(c) \/ Drain(c)

DispatchNext(p) == DispatchNumber(p) \/ DispatchStore(p) \/ DispatchSend(p)

ServerNext ==
  \/ \E c \in Conns : ConnNext(c)
  \/ \E p \in Procs : DispatchNext(p)
  \/ \E p \in Publishers, u \in Users : Publish(p, u)
  \/ \E s \in Conns : Age(s)
  \/ Sweep \/ BroadcastReconnect \/ Restart

ServerSpec == ServerInit /\ [][ServerNext]_serverVars

\* tokio keeps polling a task that can run, the sweeper's interval keeps ticking
\* and time passes: nothing here assumes that a client sends anything.
\* The write lock is strongly fair because tokio's RwLock queues waiters in order.
Handler(c) ==
  \/ ReplayCheck(c) \/ ReplayCollect(c) \/ Reconnect(c) \/ Replay(c)
  \/ Disconnect(c) \/ Drain(c)

ServerFairness ==
  /\ \A c \in Conns : WF_serverVars(Handler(c)) /\ SF_serverVars(Attach(c) \/ Forget(c))
  /\ \A p \in Procs : WF_serverVars(DispatchNext(p))
  /\ \A s \in Conns : WF_serverVars(Age(s))
  /\ SF_serverVars(Sweep)

FairServerSpec == ServerSpec /\ ServerFairness

-----------------------------------------------------------------------------
RegistryTypeOK ==
  /\ sessions \subseteq Conns
  /\ by_user \in [Users -> SUBSET Conns]
  /\ arrival \in [Conns -> Nat]
  /\ attached \in Nat

SessionTypeOK ==
  /\ seq \in [Conns -> Nat]
  /\ buffer \in [Conns -> Seq(Frames)]
  /\ evicted_through \in [Conns -> Nat]
  /\ outbox \in [Conns -> Conns \cup {None}]
  /\ connected \in [Conns -> BOOLEAN]
  /\ disconnected_at \in [Conns -> {"none", "fresh", "stale"}]

PcTypeOK ==
  /\ pc \in [Procs -> ConnStates \cup PubStates]
  /\ \A c \in Conns : pc[c] \in ConnStates
  /\ \A p \in Publishers : pc[p] \in PubStates

TaskTypeOK ==
  /\ sess \in [Procs -> Conns \cup {None}]
  /\ num \in [Procs -> Nat]
  /\ todo \in [Publishers -> SUBSET Conns]
  /\ last \in [Conns -> Nat]
  /\ missed \in [Conns -> Seq(Frames)]
  /\ close_reason \in [Conns -> CloseCodes]

ServerTypeOK ==
  /\ RegistryTypeOK /\ SessionTypeOK /\ PcTypeOK /\ TaskTypeOK
  /\ sent \subseteq Conns \X Frames
  /\ stopping \in BOOLEAN
  /\ restarts \in Nat

-----------------------------------------------------------------------------
(***************************************************************************)
(* Properties.                                                             *)
(***************************************************************************)
Numbers(s) == {buffer[s][i].n : i \in DOMAIN buffer[s]}

\* A number taken from Session.seq whose frame is not in the buffer yet.
Storing(s, n) == \E p \in Procs : pc[p] = "store" /\ sess[p] = s /\ num[p] = n

\* Session::dispatch never gives one sequence number to two frames of a session,
\* however dispatches interleave, and never buffers one it has not handed out
\* (session.rs, "Monotonic per session, starting at 1").
SequenceNeverRepeats ==
  \A s \in Conns :
    /\ \A i, j \in DOMAIN buffer[s] : buffer[s][i].n = buffer[s][j].n => i = j
    /\ \A n \in Numbers(s) : n \in 1..seq[s] /\ ~Storing(s, n)
    /\ \A p, q \in Procs :
         /\ pc[p] = "store" /\ pc[q] = "store"
         /\ sess[p] = s /\ sess[q] = s /\ num[p] = num[q]
         => p = q
    /\ \A p \in Procs : pc[p] = "store" /\ sess[p] = s => num[p] \in 1..seq[s]

\* The ring of Session::dispatch never holds more than resume_buffer_size frames.
BufferBounded == \A s \in Conns : Len(buffer[s]) <= BufferCapacity

\* Whatever the order in which concurrent dispatches reach the buffer lock, the
\* newest frames of a registered session are there for a RESUME: only as many of the resume_buffer_size
\* most recent numbers can be missing as there are other dispatches under way.
RecentFramesKept ==
  \A s \in sessions : \A n \in 1..seq[s] :
    n + BufferCapacity >= seq[s] + Cardinality(Procs)
      => n \in Numbers(s) \/ Storing(s, n)

\* The two halves of the hub's Registry describe the same sessions: an id is
\* listed under its own user exactly while it is registered, and no user is over
\* max_connections_per_user (attach, forget, sweep_expired).
RegistryAgrees ==
  \A u \in Users :
    /\ by_user[u] = {s \in sessions : UserOf[s] = u}
    /\ Cardinality(by_user[u]) <= MaxConnections

\* Whatever resumes, sweeps, evictions and restarts do, the hub is the registry
\* SessionRegistry describes: in particular a session that was dropped while a
\* resume held it does not come back, and an IDENTIFY costs its user no more
\* sessions than the limit asks for (hub.rs, attach).
Hub == INSTANCE SessionRegistry WITH
  Ids <- Conns, Owner <- UserOf, Limit <- MaxConnections,
  live <- sessions, used <- {s \in Conns : arrival[s] > 0}

HubIsRegistry == Hub!Spec

\* No dispatch of a session ever reaches a connection authenticated as someone
\* else (hub.rs: "a session id is a bearer capability otherwise").
OnlyOwnFrames ==
  \A x \in sent : x[2].op \in DispatchOps => UserOf[x[2].sess] = UserOf[x[1]]

\* A session feeds a connection only while that connection's task still holds it:
\* no sender outlives the task that owns the socket (mod.rs, disconnect before
\* writer.await).
Feedable == {"attach", "rc_time", "rc_flag", "replay", "number", "store", "send",
             "open", "d_flag", "d_outbox"}

OutboxIsLive ==
  \A s \in Conns : outbox[s] # None =>
    outbox[s] \in Conns /\ sess[outbox[s]] = s /\ pc[outbox[s]] \in Feedable

\* A connection that has left its serve loop finishes: disconnect has let go of
\* every sender of its outbox, so the writer ends (mod.rs, writer.await).
ClosingEnds ==
  \A c \in Conns : pc[c] \in Closing ~> pc[c] = "closed"

\* A registered session that no open connection holds does not stay registered:
\* the TTL sweep or a restart takes it (mod.rs, run_session_sweeper), whatever
\* resumes and disconnects raced on it.
SessionsAreCollected ==
  \A s \in Conns :
    s \in sessions ~> \/ s \notin sessions
                      \/ \E c \in Conns : pc[c] = "open" /\ sess[c] = s

-----------------------------------------------------------------------------
(***************************************************************************)
(* The inductive invariant behind the safety properties.                   *)
(***************************************************************************)
\* Where a connection has not created its session, and where it holds one.
Fresh   == {"off", "hello"} \cup Resuming
Holding == {"attach", "open", "d_flag", "d_outbox", "d_time"} \cup Resuming

\* A session nobody has created is nowhere.
Untouched(s) ==
  /\ seq[s] = 0 /\ arrival[s] = 0
  /\ buffer[s] = <<>> /\ outbox[s] = None
  /\ s \notin sessions
  /\ \A p \in Procs : sess[p] # s
  /\ \A p \in Publishers : s \notin todo[p]

\* What a connection task holds is its own user's, a session of its own before
\* attach.
TaskOK(c) ==
  /\ pc[c] \in {"off", "hello"} => sess[c] = None
  /\ pc[c] \in Holding => sess[c] \in Conns
  /\ pc[c] = "attach" => sess[c] = c /\ arrival[c] = 0
  /\ sess[c] # None => UserOf[sess[c]] = UserOf[c]
  /\ pc[c] \notin {"rc_outbox", "rc_time", "rc_flag", "replay"} => missed[c] = <<>>

\* A publisher at work holds a session.
TaskInv ==
  /\ \A c \in Conns : TaskOK(c)
  /\ \A p \in Publishers : pc[p] # "idle" => sess[p] \in Conns

\* Sessions come into being with IDENTIFY.
SessionInv ==
  \A s \in Conns :
    /\ pc[s] \in Fresh => seq[s] = 0
    /\ seq[s] = 0 => Untouched(s)

\* A frame stays with its session.
FrameInv ==
  /\ \A s \in Conns : \A i \in DOMAIN buffer[s] : buffer[s][i].sess = s
  /\ \A c \in Conns : \A i \in DOMAIN missed[c] : missed[c][i].sess = sess[c]

\* The order of by_user: attach's pushes, numbered.
ArrivalInv ==
  /\ \A s \in sessions : arrival[s] \in 1..attached
  /\ \A s, t \in sessions : arrival[s] = arrival[t] => s = t
  /\ \A s \in Conns : arrival[s] <= attached
  /\ IsFiniteSet(sessions)

\* What every task may rely on, however the others are interleaved with it: who
\* holds which session, what exists before IDENTIFY, whose frames are where and
\* in which order the registry was filled (session.rs, hub.rs, mod.rs).
ServerInv ==
  /\ TaskInv /\ SessionInv /\ FrameInv /\ ArrivalInv
  /\ SequenceNeverRepeats /\ BufferBounded /\ OutboxIsLive /\ OnlyOwnFrames
  /\ RegistryAgrees

=============================================================================
