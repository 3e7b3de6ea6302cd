---------------------------- MODULE GatewayClient ----------------------------
(***************************************************************************)
(* The gateway client of the desktop application                           *)
(* (desktop/src/gateway/client.ts): one GatewayClient object, whose socket  *)
(* callbacks and timers are the actions.  JavaScript runs each of them to   *)
(* completion, so each is one step.                                        *)
(*                                                                         *)
(* A socket is named by the server connection it belongs to.  Delays       *)
(* (backoff, jitter, the stable-session reset of the attempt counter) only  *)
(* decide when the retry timer fires, so the timer here may fire at any     *)
(* time and attempt, readyAt and reconnectNow are left out.                *)
(***************************************************************************)
EXTENDS Naturals

CONSTANTS
  Sockets,   \* every socket the client may ever open, each at most once
  InitialTokens,  \* "none" when the application starts without reaching the server
  Nothing    \* null

ASSUME SocketsAssumption ==
  /\ Nothing \notin Sockets
  /\ InitialTokens \subseteq {"none", "valid"}

VARIABLES
  socket,      \* GatewayClient.socket
  opened,      \* sockets opened so far
  closing,     \* close() was called on the socket; onclose has not fired
  status,      \* GatewayClient.status
  sessionId,   \* GatewayClient.sessionId
  lastSeq,     \* GatewayClient.lastSeq
  stopped,     \* GatewayClient.stopped
  missedAcks,  \* GatewayClient.missedAcks
  beating,     \* heartbeatTimer is set
  token,       \* what getAccessToken() returns: none, valid or expired
  fatal,       \* the last reason passed to onFatal
  said         \* the frame the last step sent, or Nothing

clientVars == <<socket, opened, closing, status, sessionId, lastSeq, stopped,
                missedAcks, beating, token, fatal, said>>

Statuses == {"idle", "connecting", "identifying", "resuming", "ready",
             "reconnecting", "closed"}

MAX_MISSED_ACKS == 2

CLOSE_AUTH_FAILED     == 4001
CLOSE_MALFORMED       == 4002
CLOSE_IDENTIFY_TIMEOUT == 4003
CLOSE_SESSION_TAKEN   == 4004
CLOSE_OUTDATED_CLIENT == 4010

Tokens == {"none", "valid", "expired"}

\* What the client sends.  Only a RESUME names a session.
Asked == [op : {"IDENTIFY", "HEARTBEAT"}, token : Tokens, sess : {Nothing}, n : {0}]
         \cup [op : {"RESUME"}, token : Tokens, sess : Sockets, n : Nat]

Ask(op, s, n) == [op |-> op, token |-> token, sess |-> s, n |-> n]

ClientInit ==
  /\ socket = Nothing
  /\ opened = {}
  /\ closing = FALSE
  /\ status = "idle"
  /\ sessionId = Nothing
  /\ lastSeq = 0
  /\ stopped = TRUE
  /\ missedAcks = 0
  /\ beating = FALSE
  /\ token \in InitialTokens
  /\ fatal = "none"
  /\ said = Nothing

-----------------------------------------------------------------------------
\* open(): without a token the client gives up instead of connecting.
Open ==
  IF token = "none"
  THEN /\ stopped' = TRUE
       /\ status' = "closed"
       /\ fatal' = "auth"
       /\ UNCHANGED <<socket, opened, missedAcks>>
  ELSE /\ missedAcks' = 0
       /\ status' = "connecting"
       /\ stopped' = FALSE
       /\ \E c \in Sockets \ opened :
            /\ socket' = c
            /\ opened' = opened \cup {c}
       /\ UNCHANGED fatal

Start ==
  /\ stopped
  /\ Open
  /\ said' = Nothing
  /\ UNCHANGED <<closing, sessionId, lastSeq, beating, token>>

\* The retry timer handleClose sets.
Retry ==
  /\ ~stopped
  /\ status = "reconnecting"
  /\ Open
  /\ said' = Nothing
  /\ UNCHANGED <<closing, sessionId, lastSeq, beating, token>>

Stop ==
  /\ ~stopped
  /\ stopped' = TRUE
  /\ beating' = FALSE
  /\ sessionId' = Nothing
  /\ lastSeq' = 0
  /\ socket' = Nothing
  /\ closing' = FALSE
  /\ status' = "closed"
  /\ said' = Nothing
  /\ UNCHANGED <<opened, missedAcks, token, fatal>>

-----------------------------------------------------------------------------
\* sendIdentify.
SendIdentify ==
  IF token = "none"
  THEN closing' = TRUE /\ said' = Nothing /\ UNCHANGED status
  ELSE said' = Ask("IDENTIFY", Nothing, 0) /\ status' = "identifying" /\ UNCHANGED closing

\* handleHello.  With a session but no token nothing is sent.
HandleHello ==
  /\ missedAcks' = 0
  /\ beating' = TRUE
  /\ IF sessionId = Nothing THEN SendIdentify
     ELSE IF token = "none" THEN said' = Nothing /\ UNCHANGED <<status, closing>>
     ELSE /\ said' = Ask("RESUME", sessionId, lastSeq)
          /\ status' = "resuming"
          /\ UNCHANGED closing
  /\ UNCHANGED <<socket, opened, sessionId, lastSeq, stopped, token, fatal>>

\* handleDispatch: the frame's number becomes the position, unconditionally.
HandleDispatch(f) ==
  /\ lastSeq' = f.n
  /\ sessionId' = IF f.op = "READY" THEN f.sess ELSE sessionId
  /\ status' = IF f.op \in {"READY", "RESUMED"} THEN "ready" ELSE status
  /\ said' = Nothing
  /\ UNCHANGED <<socket, opened, closing, stopped, missedAcks, beating, token, fatal>>

HandleAck ==
  /\ missedAcks' = 0
  /\ said' = Nothing
  /\ UNCHANGED <<socket, opened, closing, status, sessionId, lastSeq, stopped,
                 beating, token, fatal>>

HandleInvalidSession ==
  /\ sessionId' = Nothing
  /\ lastSeq' = 0
  /\ SendIdentify
  /\ UNCHANGED <<socket, opened, stopped, missedAcks, beating, token, fatal>>

HandleReconnect ==
  /\ closing' = TRUE
  /\ said' = Nothing
  /\ UNCHANGED <<socket, opened, status, sessionId, lastSeq, stopped, missedAcks,
                 beating, token, fatal>>

\* onmessage, while the socket is open.
HandleFrame(f) ==
  /\ socket # Nothing /\ ~closing
  /\ CASE f.op = "HELLO"           -> HandleHello
       [] f.op = "HEARTBEAT_ACK"   -> HandleAck
       [] f.op = "INVALID_SESSION" -> HandleInvalidSession
       [] f.op = "RECONNECT"       -> HandleReconnect
       [] OTHER                    -> HandleDispatch(f)

\* onclose.  The codes after which the client does not resume.
HandleClose(code) ==
  /\ socket # Nothing
  /\ socket' = Nothing
  /\ closing' = FALSE
  /\ beating' = FALSE
  /\ said' = Nothing
  /\ stopped' = (code \in {CLOSE_OUTDATED_CLIENT, CLOSE_AUTH_FAILED})
  /\ status' = IF stopped' THEN "closed" ELSE "reconnecting"
  /\ fatal' = CASE code = CLOSE_OUTDATED_CLIENT -> "outdated_client"
                [] code = CLOSE_AUTH_FAILED     -> "auth"
                [] OTHER                        -> fatal
  /\ IF code \in {CLOSE_AUTH_FAILED, CLOSE_MALFORMED, CLOSE_IDENTIFY_TIMEOUT,
                  CLOSE_SESSION_TAKEN}
     THEN sessionId' = Nothing /\ lastSeq' = 0
     ELSE UNCHANGED <<sessionId, lastSeq>>
  /\ UNCHANGED <<opened, missedAcks, token>>

\* Mutant: an unanswered heartbeat is not counted.
BeatUncounted ==
  /\ beating /\ socket # Nothing /\ ~closing
  /\ said' = Ask("HEARTBEAT", Nothing, 0)
  /\ UNCHANGED <<socket, opened, closing, status, sessionId, lastSeq, stopped,
                 missedAcks, beating, token, fatal>>

\* beat(), from the heartbeat timer.  After a zombie close the timer is not set
\* again.
Beat ==
  /\ beating /\ socket # Nothing /\ ~closing
  /\ IF missedAcks >= MAX_MISSED_ACKS
     THEN closing' = TRUE /\ beating' = FALSE /\ said' = Nothing /\ UNCHANGED missedAcks
     ELSE /\ missedAcks' = missedAcks + 1
          /\ said' = Ask("HEARTBEAT", Nothing, 0)
          /\ UNCHANGED <<closing, beating>>
  /\ UNCHANGED <<socket, opened, status, sessionId, lastSeq, stopped, token, fatal>>

-----------------------------------------------------------------------------
\* The access token expires after 15 minutes; the REST client renews it when a
\* request is refused, and after a fatal auth failure.
TokenExpires ==
  /\ token = "valid"
  /\ token' = "expired"
  /\ said' = Nothing
  /\ UNCHANGED <<socket, opened, closing, status, sessionId, lastSeq, stopped,
                 missedAcks, beating, fatal>>

TokenRenewed ==
  /\ token # "valid"
  /\ token' = "valid"
  /\ said' = Nothing
  /\ UNCHANGED <<socket, opened, closing, status, sessionId, lastSeq, stopped,
                 missedAcks, beating, fatal>>

ClientTypeOK ==
  /\ socket \in Sockets \cup {Nothing}
  /\ opened \subseteq Sockets
  /\ closing \in BOOLEAN
  /\ status \in Statuses
  /\ sessionId \in Sockets \cup {Nothing}
  /\ lastSeq \in Nat
  /\ stopped \in BOOLEAN
  /\ missedAcks \in 0..MAX_MISSED_ACKS
  /\ beating \in BOOLEAN
  /\ token \in Tokens
  /\ fatal \in {"none", "auth", "outdated_client"}
  /\ said \in Asked \cup {Nothing}

=============================================================================
