------------------------------- MODULE Gateway -------------------------------
(***************************************************************************)
(* One desktop client (GatewayClient) and the gateway server               *)
(* (GatewayServer), joined by WebSockets.  A socket delivers in order in    *)
(* both directions while its link is up; a dead link delivers nothing, and  *)
(* neither end is told.                                                    *)
(*                                                                         *)
(* The client opens its connections one after the other, so the server may *)
(* still be serving an old one, not yet known to be dead, while the client *)
(* resumes its session on a new one.                                       *)
(***************************************************************************)
EXTENDS GatewayServer, GatewayClient

CONSTANTS
  MaxFailures,   \* model bound: links that may die
  Heartbeats,    \* whether heartbeats are part of this run
  TokensExpire   \* whether the access token may expire during the run

ASSUME GatewayAssumption ==
  /\ Sockets = Conns
  /\ Nothing = None
  /\ MaxFailures \in Nat
  /\ Heartbeats \in BOOLEAN
  /\ TokensExpire \in BOOLEAN

VARIABLES
  down,       \* frames on their way to the client, per connection
  up,         \* frames on their way to the server, per connection
  link,       \* whether the network still carries the connection
  failures,
  applied,    \* history: the numbers the client handled of its current session
  overlapped  \* history: sessions on which two dispatches, or a dispatch and a
              \* resume, were ever under way together

netVars  == <<down, up, link, failures>>
histVars == <<applied, overlapped>>
vars == <<serverVars, clientVars, netVars, histVars>>

Init ==
  /\ ServerInit
  /\ ClientInit
  /\ down = [c \in Conns |-> <<>>]
  /\ up = [c \in Conns |-> <<>>]
  /\ link = [c \in Conns |-> "up"]
  /\ failures = 0
  /\ applied = <<>>
  /\ overlapped = {}

-----------------------------------------------------------------------------
\* The frames of a server step reach the wire.  What is sent over a dead link,
\* or to a socket the client has let go of, is never seen.
Listening(c) == socket = c /\ link[c] = "up"

Forward ==
  down' = [c \in Conns |->
            LET to == {x \in sent' : x[1] = c} IN
            IF Listening(c) /\ to # {} THEN Append(down[c], (CHOOSE x \in to : TRUE)[2])
            ELSE down[c]]

InDispatch == {"check", "collect", "rc_outbox", "rc_time", "rc_flag", "replay",
               "number", "store", "send"}

Record ==
  overlapped' = overlapped \cup
    {s \in Conns : \E p, q \in Procs :
       p # q /\ sess'[p] = s /\ sess'[q] = s /\ pc'[p] \in InDispatch /\ pc'[q] \in InDispatch}

\* A server step that no client frame triggers.
ServerSide(A) ==
  /\ A
  /\ Forward
  /\ Record
  /\ UNCHANGED <<clientVars, up, link, failures, applied>>

\* The serve loop takes the next frame the client sent.
Receive(c) ==
  /\ up[c] # <<>>
  /\ link[c] = "up"
  /\ LET f == Head(up[c]) IN
     \/ f.op = "HEARTBEAT" /\ Heartbeat(c)
     \/ f.op = "IDENTIFY" /\ f.token = "valid" /\ Identify(c)
     \/ f.op = "RESUME" /\ f.token = "valid" /\ Resume(c, f.sess, f.n)
     \/ f.op # "HEARTBEAT" /\ f.token # "valid" /\ EndLoop(c, AUTHENTICATION_FAILED)
  /\ up' = [up EXCEPT ![c] = Tail(@)]
  /\ Forward
  /\ Record
  /\ UNCHANGED <<clientVars, link, failures, applied>>

\* The peer closed its end, and the network says so.
PeerClosed(c) ==
  /\ link[c] = "up"
  /\ c \in opened
  /\ socket # c \/ closing
  /\ up[c] = <<>>
  /\ ServerSide(EndLoop(c, 0))

\* The identify deadline and the heartbeat check.  The client has gone silent,
\* or its link is alive and a heartbeat that is due is late: where heartbeats
\* are modelled any may be.
TimesOut(c) ==
  /\ c \in opened
  /\ link[c] = "dead" \/ Heartbeats
  /\ ServerSide(EndLoop(c, IF sess[c] = None THEN NOT_AUTHENTICATED ELSE UNKNOWN))

AcceptClient(c) ==
  /\ c \in opened
  /\ link[c] = "up"
  /\ ServerSide(Accept(c))

ServerStep ==
  \/ \E c \in Conns :
       \/ AcceptClient(c) \/ Receive(c) \/ PeerClosed(c) \/ TimesOut(c)
       \/ ServerSide(Attach(c) \/ Forget(c) \/ Handler(c))
  \/ \E p \in Procs : ServerSide(DispatchNext(p))
  \/ \E p \in Publishers, u \in Users : ServerSide(Publish(p, u))
  \/ \E s \in Conns : ServerSide(Age(s))
  \/ ServerSide(Sweep \/ BroadcastReconnect \/ Restart)

-----------------------------------------------------------------------------
\* What a client step sends goes out on the socket it had when it sent it.
Uplink ==
  up' = IF said' = Nothing \/ link[socket] # "up" THEN up
        ELSE [up EXCEPT ![socket] = Append(@, said')]

ClientSide(A) ==
  /\ A
  /\ UNCHANGED <<serverVars, down, link, failures, overlapped>>

\* onmessage.  A CLOSE is the end of the stream: it fires onclose instead.
DeliverFrame ==
  /\ socket # Nothing
  /\ link[socket] = "up"
  /\ down[socket] # <<>>
  /\ LET f == Head(down[socket]) IN
     /\ f.op # "CLOSE"
     /\ HandleFrame(f)
     /\ applied' = CASE f.op = "READY" -> <<f.n>>
                     [] f.op \in {"RESUMED", "EVENT"} -> Append(applied, f.n)
                     [] OTHER -> applied
  /\ down' = [down EXCEPT ![socket] = Tail(@)]
  /\ Uplink
  /\ UNCHANGED <<serverVars, link, failures, overlapped>>

\* onclose: the server's CLOSE, the client's own close(), or a network error.
DeliverClose ==
  /\ socket # Nothing
  /\ \/ /\ ~closing /\ link[socket] = "up" /\ down[socket] # <<>>
        /\ Head(down[socket]).op = "CLOSE"
        /\ HandleClose(Head(down[socket]).n)
     \/ closing /\ HandleClose(1000)
     \/ ~closing /\ link[socket] = "dead" /\ HandleClose(1006)
  /\ down' = [down EXCEPT ![socket] = <<>>]
  /\ UNCHANGED <<serverVars, up, link, failures, applied, overlapped>>

\* A heartbeat interval is longer than a round trip over a live link, so
\* heartbeats and their answers do not pile up behind each other.
BeatDue ==
  Heartbeats /\ socket # Nothing /\ up[socket] = <<>> /\ down[socket] = <<>>

ClientStep ==
  \/ ClientSide((Start \/ Retry) /\ UNCHANGED <<up, applied>>)
  \/ ClientSide(Stop /\ UNCHANGED <<up, applied>>)
  \/ BeatDue /\ ClientSide(Beat /\ Uplink /\ UNCHANGED applied)
  \/ DeliverFrame
  \/ DeliverClose
  \/ TokensExpire /\ ClientSide(TokenExpires /\ UNCHANGED <<up, applied>>)
  \/ ClientSide(TokenRenewed /\ UNCHANGED <<up, applied>>)

\* A link dies silently: what was in flight is gone.
LinkDies(c) ==
  /\ c \in opened
  /\ link[c] = "up"
  /\ failures < MaxFailures
  /\ failures' = failures + 1
  /\ link' = [link EXCEPT ![c] = "dead"]
  /\ down' = [down EXCEPT ![c] = <<>>]
  /\ up' = [up EXCEPT ![c] = <<>>]
  /\ UNCHANGED <<serverVars, clientVars, histVars>>

Next == ServerStep \/ ClientStep \/ \E c \in Conns : LinkDies(c)

Spec == Init /\ [][Next]_vars

TypeOK ==
  /\ ServerTypeOK
  /\ ClientTypeOK
  /\ down \in [Conns -> Seq(Frames)]
  /\ up \in [Conns -> Seq(Asked)]
  /\ failures \in Nat
  /\ link \in [Conns -> {"up", "dead"}]
  /\ applied \in Seq(Nat)
  /\ overlapped \subseteq Conns

-----------------------------------------------------------------------------
\* Across any number of lost links, resumes and restarts, the client handles the
\* dispatches of its session exactly once, in order and without a gap, as long
\* as no two dispatches of that session, nor a dispatch and a resume of it, ever
\* ran at the same time (session.rs, replay_after; mod.rs, resume).
StreamInOrder ==
  /\ TypeOK
  /\ sessionId # Nothing /\ sessionId \notin overlapped
       => applied = [i \in 1..Len(applied) |-> i]

-----------------------------------------------------------------------------
(***************************************************************************)
(* Progress.  Tasks that can run are run, frames on a live link arrive, the *)
(* client's timers fire; a link need not fail visibly, tokens need not be   *)
(* renewed and nobody need publish.                                        *)
(***************************************************************************)
Fairness ==
  /\ \A c \in Conns :
       /\ WF_vars(AcceptClient(c))
       /\ WF_vars(Receive(c))
       /\ WF_vars(ServerSide(Handler(c)))
       /\ SF_vars(ServerSide(Attach(c) \/ Forget(c)))
  /\ \A p \in Procs : WF_vars(ServerSide(DispatchNext(p)))
  /\ WF_vars(DeliverFrame)
  /\ WF_vars(DeliverClose /\ (closing \/ link[socket] = "up"))
  /\ WF_vars(ClientSide(Retry /\ UNCHANGED <<up, applied>>))
  /\ WF_vars(BeatDue /\ ClientSide(Beat /\ Uplink /\ UNCHANGED applied))

FairSpec == Spec /\ Fairness

\* Once HELLO has set the heartbeat timer, a client whose link died without a word
\* finds out and lets go of the socket: two unanswered heartbeats, then close
\* (client.ts, beat).  A link that dies before HELLO is not noticed by any timer.
DeadLinkAbandoned ==
  \A c \in Conns : socket = c /\ beating /\ link[c] = "dead" ~> socket # c

=============================================================================
