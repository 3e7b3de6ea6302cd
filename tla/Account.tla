------------------------------- MODULE Account -------------------------------
(***************************************************************************)
(* The desktop client's account: ApiClient (desktop/src/api/client.ts), the *)
(* flows of runtime.ts and the credential vault, against the server's       *)
(* RefreshTokens, over HTTP that may lose a request or a response.          *)
(*                                                                         *)
(* A task is one asynchronous flow of the client, a step what it does       *)
(* between two awaits.  An exchange in progress holds the handler that      *)
(* serves it; a task that gives up leaves the handler running.             *)
(***************************************************************************)
EXTENDS RefreshTokens

CONSTANTS
  Tasks,
  Troubles,    \* the kinds of trouble that may happen in this model
  MaxTroubles, \* model bound: how often, all kinds together
  MaxDue,      \* model bound: no call is made while so many sign-outs wait
  None

\* An exchange fails in the network; the server answers 500; the user asks to sign
\* out; the application is started again; somebody refreshes with a copy of a token;
\* a refresh token expires.
Kinds == {"fault", "failure", "signOut", "life", "theft", "lapse"}

ASSUME AccountAssumption ==
  /\ None \notin Handlers \cup Tasks
  /\ Troubles \subseteq Kinds
  /\ MaxTroubles \in Nat /\ MaxDue \in Nat

VARIABLES
  at,            \* the await each task is at
  goal,          \* what it refreshes or keeps a token for
  hand,          \* the handler that serves its exchange, None if it was lost
  held,          \* the token it writes to the vault
  fresh,         \* whether its request carries a valid access token
  access,        \* ApiClient.accessToken: none, valid or expired
  refresh,       \* ApiClient.refreshToken, 0 for null
  refreshing,    \* ApiClient.refreshing: the task whose refresh the others await
  vault,         \* the token in the credential vault, 0 for none
  phase,         \* AuthPhase
  online,        \* the gateway client is started
  inRoom,        \* READY has come: there is a room to ask tokens for
  authRetryUsed,
  due,           \* sign-outs that have stopped the gateway and leave the room
  troubles,      \* how much trouble there was, and of which kinds
  happened,
  told,          \* history: since the last pairing the user asked to sign out or the
                 \* server refused a token
  overtaken      \* history: a sign-out and a refresh or a pairing were ever under
                 \* way together

tasks  == <<at, goal, hand, held, fresh>>
memory == <<access, refresh, refreshing, authRetryUsed>>
app    == <<phase, online, inRoom, due>>
notes  == <<troubles, happened, told>>
accountVars == <<issued, rows, family, consumed, revoked, age, pc, presented, found,
                 answer, parent, crossed, at, goal, hand, held, fresh, access, refresh,
                 refreshing, vault, phase, online, inRoom, authRetryUsed, due, troubles, happened,
                 told, overtaken>>

AccountInit ==
  /\ TokensInit
  /\ at = [t \in Tasks |-> "idle"]
  /\ goal = [t \in Tasks |-> "none"]
  /\ hand = [t \in Tasks |-> None]
  /\ held = [t \in Tasks |-> 0]
  /\ fresh = [t \in Tasks |-> FALSE]
  /\ access = "none" /\ refresh = 0 /\ refreshing = None /\ vault = 0
  /\ phase = "booting" /\ online = FALSE /\ inRoom = FALSE
  /\ authRetryUsed = FALSE /\ due = 0
  /\ troubles = 0 /\ happened = {}
  /\ told = TRUE /\ overtaken = FALSE

Possible(k) == k \in Troubles /\ troubles < MaxTroubles

Spend(k) ==
  /\ Possible(k)
  /\ troubles' = troubles + 1
  /\ happened' = happened \cup {k}

-----------------------------------------------------------------------------
(***************************************************************************)
(* Requests.                                                               *)
(***************************************************************************)
\* The next await of t; g is what it does it for.
Await(t, l, g, h) ==
  /\ at' = [at EXCEPT ![t] = l]
  /\ goal' = [goal EXCEPT ![t] = g]
  /\ hand' = [hand EXCEPT ![t] = h]

Finish(t) ==
  /\ Await(t, "idle", "none", None)
  /\ held' = [held EXCEPT ![t] = 0]
  /\ fresh' = [fresh EXCEPT ![t] = FALSE]

\* fetch: the request reaches a handler, or is lost on the way.
PostRefresh(t, g, tok) ==
  \/ \E h \in Handlers : Refresh(h, tok) /\ Await(t, "refresh", g, h)
  \/ Possible("fault") /\ Await(t, "refresh", g, None) /\ UNCHANGED tokenVars

PostLogout(t, tok) ==
  \/ \E h \in Handlers : Logout(h, tok) /\ Await(t, "logout", "none", h)
  \/ Possible("fault") /\ Await(t, "logout", "none", None) /\ UNCHANGED tokenVars

PostPair(t) ==
  \/ \E h \in Handlers : Pair(h) /\ Await(t, "pair", "pair", h)
  \/ Possible("fault") /\ Await(t, "pair", "pair", None) /\ UNCHANGED tokenVars

\* send, for a route that takes the access token.
PostCall(t, l) ==
  /\ Await(t, l, "call", None)
  /\ fresh' = [fresh EXCEPT ![t] = access = "valid"]

\* The response of t's exchange is here.
Answered(t) == hand[t] # None /\ pc[hand[t]] = "done"
Reply(t)    == answer[hand[t]]

Forget == access' = "none" /\ refresh' = 0

\* signOut, called n times, up to its first await: it may be called again while one
\* is under way.
SignOuts(n) ==
  /\ due' = due + n
  /\ online' = FALSE

-----------------------------------------------------------------------------
(***************************************************************************)
(* ApiClient.                                                              *)
(***************************************************************************)
\* A call for the room: roomToken, room, currentUser.
Call(t) ==
  /\ at[t] = "idle"
  /\ phase = "authenticated" /\ inRoom
  /\ due < MaxDue
  /\ PostCall(t, "call")
  /\ UNCHANGED <<tokenVars, held, memory, vault, app, notes>>

CallSucceeds(t) ==
  /\ at[t] \in {"call", "again"}
  /\ fresh[t]
  /\ Finish(t)
  /\ UNCHANGED <<tokenVars, memory, vault, app, notes>>

\* Mutant: every 401 starts a rotation of its own.
MustRefreshAlways == TRUE

\* ensureRefreshed starts a refresh only when none is in flight.
MustRefresh == refreshing = None

\* request, the first 401: one refresh for all who need it.
CallRefused(t) ==
  /\ at[t] = "call"
  /\ ~fresh[t]
  /\ held' = held /\ fresh' = fresh
  /\ \/ /\ ~MustRefresh
        /\ Await(t, "join", "call", None)
        /\ UNCHANGED <<tokenVars, memory, vault, app, notes>>
     \/ /\ MustRefresh /\ refresh # 0
        /\ PostRefresh(t, "call", refresh)
        /\ refreshing' = t
        /\ UNCHANGED <<access, refresh, authRetryUsed, vault, app, notes>>
     \/ /\ MustRefresh /\ refresh = 0
        /\ Forget
        /\ SignOuts(1)
        /\ Await(t, "idle", "none", None)
        /\ UNCHANGED <<tokenVars, refreshing, authRetryUsed, vault, phase, inRoom, troubles, happened, told>>

\* request, the second 401.
CallLost(t) ==
  /\ at[t] = "again"
  /\ ~fresh[t]
  /\ Forget
  /\ SignOuts(1)
  /\ told' = TRUE
  /\ Finish(t)
  /\ UNCHANGED <<tokenVars, refreshing, authRetryUsed, vault, phase, inRoom, troubles, happened>>

\* adopt, up to the write to the vault.
Adopt(t) ==
  /\ access' = "valid"
  /\ refresh' = Reply(t).token
  /\ held' = [held EXCEPT ![t] = Reply(t).token]

RefreshAdopted(t) ==
  /\ at[t] = "refresh" /\ Answered(t) /\ Reply(t).is = "ok"
  /\ Adopt(t)
  /\ Await(t, "keep", goal[t], None)
  /\ Respond(hand[t])
  /\ UNCHANGED <<fresh, refreshing, vault, authRetryUsed, app, notes>>

\* Mutant: without finally.
SettledOnSuccess(t, l) ==
  IF goal[t] = "call" /\ l = "again" THEN None ELSE refreshing

\* ensureRefreshed, finally.
Settled(t, l) == IF goal[t] = "call" THEN None ELSE refreshing

\* The end of ensureRefreshed for t and all who joined it, who go on to l.
Settle(t, l) ==
  LET all == {u \in Tasks : u = t \/ at[u] = "join"} IN
  /\ refreshing' = Settled(t, l)
  /\ at' = [u \in Tasks |-> IF u \in all THEN l ELSE at[u]]
  /\ goal' = [u \in Tasks |-> IF u \in all /\ l = "idle" THEN "none" ELSE goal[u]]
  /\ hand' = [hand EXCEPT ![t] = None]
  /\ held' = [held EXCEPT ![t] = 0]
  /\ fresh' = [u \in Tasks |-> IF u \in all THEN l = "again" /\ access = "valid" ELSE fresh[u]]

-----------------------------------------------------------------------------
(***************************************************************************)
(* runtime.ts.                                                             *)
(***************************************************************************)
\* start, when the vault is empty and when it is not.
Start(t) ==
  /\ phase = "booting" /\ at = [u \in Tasks |-> "idle"] /\ due = 0
  /\ \/ /\ vault = 0
        /\ phase' = "pairing"
        /\ UNCHANGED <<tokenVars, tasks, memory, online, inRoom, due, vault, notes>>
     \/ /\ vault # 0
        /\ refresh' = vault
        /\ PostRefresh(t, "start", vault)
        /\ UNCHANGED <<held, fresh, access, refreshing, authRetryUsed, vault, app, notes>>

UserPairs(t) ==
  /\ phase = "pairing"
  /\ at[t] = "idle"
  /\ \A u \in Tasks : goal[u] # "pair"
  /\ PostPair(t)
  /\ UNCHANGED <<held, fresh, memory, vault, app, notes>>

PairAnswered(t) ==
  /\ at[t] = "pair" /\ Answered(t)
  /\ \/ /\ Reply(t).is = "ok"
        /\ Adopt(t)
        /\ Await(t, "keep", "pair", None)
        /\ UNCHANGED fresh
     \/ Reply(t).is # "ok" /\ Finish(t) /\ UNCHANGED <<access, refresh>>
  /\ Respond(hand[t])
  /\ UNCHANGED <<refreshing, authRetryUsed, vault, app, notes>>

\* recoverFromAuthFailure, called from within t.
Recover(t) ==
  IF authRetryUsed \/ refresh = 0
  THEN /\ SignOuts(1) /\ Finish(t)
       /\ UNCHANGED <<tokenVars, authRetryUsed>>
  ELSE /\ PostRefresh(t, "recover", refresh)
       /\ authRetryUsed' = TRUE
       /\ held' = [held EXCEPT ![t] = 0]
       /\ UNCHANGED <<fresh, due, online>>

\* gateway.start: without an access token it ends in onFatal('auth').
StartGateway(t) ==
  IF online \/ access # "none"
  THEN online' = TRUE /\ Finish(t) /\ UNCHANGED <<tokenVars, authRetryUsed, due>>
  ELSE Recover(t)

\* The vault has the token: what the await in adopt was for goes on.
Kept(t) ==
  /\ at[t] = "keep"
  /\ vault' = held[t]
  /\ \/ /\ goal[t] = "call"
        /\ Settle(t, "again")
        /\ UNCHANGED <<tokenVars, authRetryUsed, app, told>>
     \/ /\ goal[t] \in {"start", "recover"}
        /\ phase' = IF goal[t] = "start" THEN "authenticated" ELSE phase
        /\ StartGateway(t)
        /\ UNCHANGED <<refreshing, inRoom, told>>
     \/ /\ goal[t] = "pair"
        /\ phase' = "authenticated"
        /\ told' = FALSE
        /\ IF online \/ access # "none"
           THEN online' = TRUE /\ authRetryUsed' = FALSE /\ UNCHANGED <<due>>
           ELSE authRetryUsed' = FALSE /\ SignOuts(1)
        /\ Finish(t)
        /\ UNCHANGED <<tokenVars, refreshing, inRoom>>
  /\ UNCHANGED <<access, refresh, troubles, happened>>

\* refreshSession throws.  A 401 has already called onSessionLost: the flow's own
\* catch signs out a second time.
RefreshRefused(t) ==
  /\ at[t] = "refresh" /\ Answered(t) /\ Reply(t).is # "ok"
  /\ Respond(hand[t])
  /\ LET rejected == Reply(t).is \in Refusals
         outs == (IF rejected THEN 1 ELSE 0) + (IF goal[t] = "call" THEN 0 ELSE 1)
     IN /\ IF rejected THEN Forget ELSE UNCHANGED <<access, refresh>>
        /\ IF outs > 0 THEN SignOuts(outs) ELSE UNCHANGED <<due, online>>
        /\ told' = (told \/ rejected)
  /\ IF goal[t] = "call" THEN Settle(t, "idle") ELSE Finish(t) /\ UNCHANGED refreshing
  /\ UNCHANGED <<authRetryUsed, vault, phase, inRoom, troubles, happened>>

\* A fetch fails: NetworkError.  Whatever handler it had reached goes on.
NetworkError(t) ==
  /\ at[t] \in {"call", "again", "pair", "logout", "refresh"}
  /\ Spend("fault")
  /\ \/ /\ at[t] \in {"call", "again", "pair"}
        /\ Finish(t)
        /\ UNCHANGED <<tokenVars, memory, app>>
     \/ /\ at[t] = "logout"
        /\ Forget
        /\ inRoom' = FALSE
        /\ Await(t, "clear", "none", None)
        /\ UNCHANGED <<tokenVars, held, fresh, refreshing, authRetryUsed, phase, online, due>>
     \/ /\ at[t] = "refresh" /\ goal[t] = "call"
        /\ Settle(t, "idle")
        /\ UNCHANGED <<tokenVars, access, refresh, authRetryUsed, app>>
     \/ /\ at[t] = "refresh" /\ goal[t] = "start"
        /\ phase' = "authenticated"
        /\ StartGateway(t)
        /\ UNCHANGED <<access, refresh, refreshing, inRoom>>
     \/ /\ at[t] = "refresh" /\ goal[t] = "recover"
        /\ SignOuts(1)
        /\ Finish(t)
        /\ UNCHANGED <<tokenVars, memory, phase, inRoom>>
  /\ UNCHANGED <<vault, told>>

\* "Trocar de conta", in the tray.
UserSignsOut ==
  /\ Spend("signOut")
  /\ SignOuts(1)
  /\ told' = TRUE
  /\ UNCHANGED <<tokenVars, tasks, memory, vault, phase, inRoom>>

\* Mutant: the local session goes first.
LogoutTokenForgotten == 0

\* logout takes the token it holds when the room has been left.
LogoutToken == refresh

\* signOut, after media.leave.
SignOut(t) ==
  /\ due > 0
  /\ at[t] = "idle"
  /\ due' = due - 1
  /\ IF LogoutToken # 0
     THEN PostLogout(t, LogoutToken) /\ UNCHANGED <<access, refresh, inRoom>>
     ELSE Forget /\ inRoom' = FALSE /\ Await(t, "clear", "none", None) /\ UNCHANGED tokenVars
  /\ UNCHANGED <<held, fresh, refreshing, authRetryUsed, vault, phase, online, troubles, happened, told>>

\* Whatever the answer to the logout was.
LoggedOut(t) ==
  /\ at[t] = "logout" /\ Answered(t)
  /\ Respond(hand[t])
  /\ Forget
  /\ inRoom' = FALSE
  /\ Await(t, "clear", "none", None)
  /\ UNCHANGED <<held, fresh, refreshing, authRetryUsed, vault, phase, online, due, notes>>

\* The vault is cleared; signedOut.
Cleared(t) ==
  /\ at[t] = "clear"
  /\ vault' = 0
  /\ phase' = "pairing"
  /\ Finish(t)
  /\ UNCHANGED <<tokenVars, memory, online, inRoom, due, notes>>

\* READY.
GatewayReady ==
  /\ online /\ access = "valid" /\ ~(inRoom /\ ~authRetryUsed /\ phase = "authenticated")
  /\ inRoom' = TRUE /\ authRetryUsed' = FALSE /\ phase' = "authenticated"
  /\ UNCHANGED <<tokenVars, tasks, access, refresh, refreshing, vault, online, due, notes>>

\* access_token_ttl_seconds pass, which is longer than a write to the vault takes.
AccessExpires ==
  /\ access = "valid"
  /\ \A t \in Tasks : at[t] # "keep"
  /\ access' = "expired"
  /\ UNCHANGED <<tokenVars, tasks, refresh, refreshing, authRetryUsed, vault, app, notes>>

\* The application ends, at any moment, and is started again.
Relaunch ==
  /\ Spend("life")
  /\ phase # "booting"
  /\ at' = [t \in Tasks |-> "idle"] /\ goal' = [t \in Tasks |-> "none"]
  /\ hand' = [t \in Tasks |-> None] /\ held' = [t \in Tasks |-> 0]
  /\ fresh' = [t \in Tasks |-> FALSE]
  /\ access' = "none" /\ refresh' = 0 /\ refreshing' = None /\ authRetryUsed' = FALSE
  /\ phase' = "booting" /\ online' = FALSE /\ inRoom' = FALSE /\ due' = 0
  /\ UNCHANGED <<tokenVars, vault, told>>

-----------------------------------------------------------------------------
\* The server's side, and somebody else who holds a copy of a token.
ServerAction(A) == A /\ UNCHANGED <<tasks, memory, vault, app, told>>

Server ==
  \/ \E h \in Handlers : ServerAction(HandlerStep(h) /\ UNCHANGED <<troubles, happened>>)
  \/ \E h \in Handlers : ServerAction(Fail(h) /\ Spend("failure"))
  \/ \E h \in Handlers, t \in 1..issued : ServerAction(Refresh(h, t) /\ Spend("theft"))
  \/ \E h \in Handlers : /\ \A t \in Tasks : hand[t] # h
                         /\ ServerAction(Respond(h) /\ UNCHANGED <<troubles, happened>>)
  \/ \E t \in Tokens : ServerAction(Expire(t) /\ IF age[t] = "valid" THEN Spend("lapse")
                                                 ELSE UNCHANGED <<troubles, happened>>)
  \/ ServerAction(DeleteExpired /\ UNCHANGED <<troubles, happened>>)

Task(t) ==
  \/ Call(t) \/ CallSucceeds(t) \/ CallRefused(t) \/ CallLost(t)
  \/ RefreshAdopted(t) \/ RefreshRefused(t) \/ Kept(t)
  \/ Start(t) \/ UserPairs(t) \/ PairAnswered(t)
  \/ SignOut(t) \/ LoggedOut(t) \/ Cleared(t) \/ NetworkError(t)

\* A sign-out is under way, and a task that gets or keeps a token.
Overlap ==
  /\ due > 0 \/ \E t \in Tasks : at[t] \in {"logout", "clear"}
  /\ \E t \in Tasks : at[t] \in {"pair", "refresh", "keep"}

Noted(A) == A /\ overtaken' = (overtaken \/ Overlap')

AccountNext ==
  \/ \E t \in Tasks : Noted(Task(t))
  \/ Noted(UserSignsOut) \/ Noted(Relaunch)
  \/ Noted(GatewayReady) \/ Noted(AccessExpires) \/ Noted(Server)

AccountSpec == AccountInit /\ [][AccountNext]_accountVars

-----------------------------------------------------------------------------
AccountTypeOK ==
  /\ TokensTypeOK
  /\ at \in [Tasks -> {"idle", "call", "join", "again", "refresh", "keep", "pair",
                       "logout", "clear"}]
  /\ goal \in [Tasks -> {"none", "call", "start", "recover", "pair"}]
  /\ hand \in [Tasks -> Handlers \cup {None}]
  /\ held \in [Tasks -> 0..issued]
  /\ fresh \in [Tasks -> BOOLEAN]
  /\ access \in {"none", "valid", "expired"}
  /\ refresh \in 0..issued /\ vault \in 0..issued
  /\ refreshing \in Tasks \cup {None}
  /\ phase \in {"booting", "pairing", "authenticated"}
  /\ {online, inRoom, authRetryUsed, told, overtaken} \subseteq BOOLEAN
  /\ due \in Nat

\* Nothing that could disturb the client has happened.
Calm == happened = {}

\* No sign-out and no flow is under way.
Quiet == due = 0 /\ \A t \in Tasks : at[t] = "idle"

\* The client alone never trips reuse detection: without lost exchanges, server
\* errors, expiry, restarts, copies and sign-outs, no interleaving of its calls, its start
\* and its pairing presents a token twice (client.ts, "One refresh in flight at a
\* time, so a burst of 401s produces a single rotation").  And it comes to ask for
\* a new code only when the user signed out, the server refused its token or an
\* exchange failed (runtime.ts, start).
NoFalseReuse ==
  /\ Calm => \A h \in Handlers : answer[h].is # "reused"
  /\ Quiet /\ phase = "pairing" =>
       told \/ overtaken \/ happened \cap {"fault", "failure"} # {}

\* Nobody waits on a refresh that is over (client.ts, ensureRefreshed).
JoinersServed ==
  /\ AccountTypeOK
  /\ \A t \in Tasks : at[t] = "join" =>
       /\ refreshing # None /\ at[refreshing] \in {"refresh", "keep"}
       /\ goal[refreshing] = "call"

\* When the sign-outs are done and nothing else is under way, neither memory nor
\* vault holds a token, the gateway is stopped, and - unless an exchange failed, the
\* application ended or a copy was used - the server holds no usable one either,
\* provided no sign-out overtook a refresh or a pairing (SRS-v2.0, RF-05: "Logout
\* revoga a família de refresh e limpa o cofre").
SignedOutIsClean ==
  Quiet /\ phase = "pairing" /\ ~overtaken =>
    /\ vault = 0 /\ refresh = 0 /\ ~online
    /\ happened \subseteq {"signOut"} => \A t \in Usable : age[t] # "valid"

-----------------------------------------------------------------------------
(***************************************************************************)
(* The inductive invariant of the account.                                 *)
(***************************************************************************)
\* What each await is for; a refresh that calls share is the one in refreshing.
GoalInv ==
  /\ \A t \in Tasks :
       /\ at[t] \in {"idle", "logout", "clear"} => goal[t] = "none"
       /\ at[t] \in {"call", "join", "again"} => goal[t] = "call"
       /\ at[t] = "pair" => goal[t] = "pair"
       /\ at[t] = "refresh" => goal[t] \in {"call", "start", "recover"}
       /\ at[t] = "keep" => goal[t] # "none" /\ held[t] # 0
       /\ refreshing = t <=> at[t] \in {"refresh", "keep"} /\ goal[t] = "call"
       /\ at[t] = "join" => refreshing # None
  /\ \A t, u \in Tasks : goal[t] = "pair" /\ goal[u] = "pair" => t = u

\* Where the handler of each kind of request may be.
Stages == [refresh |-> {"find", "consume", "insert", "revoke", "done"},
           pair    |-> {"insert", "done"},
           logout  |-> {"logout", "end", "done"}]

\* An exchange has a handler of its own, and a handler that says "ok" to a refresh or
\* a pairing says it with a token.
HandInv ==
  /\ \A t \in Tasks : hand[t] # None =>
       /\ at[t] \in DOMAIN Stages
       /\ pc[hand[t]] \in Stages[at[t]]
       /\ at[t] # "logout" /\ answer[hand[t]].is = "ok" => answer[hand[t]].token # 0
       /\ \A u \in Tasks : hand[u] = hand[t] => u = t
  /\ \A h \in Handlers :
       /\ pc[h] = "done" <=> answer[h].is # "none"
       /\ answer[h].is = "error" => "failure" \in happened

Leaving == due > 0 \/ \E t \in Tasks : at[t] \in {"logout", "clear"}

\* Nothing of a session is left, and none is being opened.
Clean ==
  /\ vault = 0 /\ refresh = 0
  /\ \A t \in Tasks : at[t] \notin {"refresh", "keep"}

\* A token kept is the client's, and was not forgotten meanwhile.
FlowOrder ==
  \A t \in Tasks :
    /\ at[t] = "keep" => refresh # 0 /\ access = "valid"
    /\ at[t] = "again" => fresh[t]
    /\ at[t] = "clear" => refresh = 0
    /\ goal[t] = "pair" => phase = "pairing"

LeaveOrder == Leaving => ~online

BootOrder ==
  phase = "booting" =>
    /\ ~online
    /\ vault = 0 => refresh = 0
    /\ \A t \in Tasks : goal[t] \in {"none", "start"} /\ (goal[t] = "start" => vault # 0)

PairOrder ==
  phase = "pairing" =>
    /\ ~online
    /\ \A t \in Tasks : goal[t] \notin {"start", "recover"}
    /\ Clean \/ \E t \in Tasks : at[t] = "keep" /\ goal[t] = "pair"

\* As long as no sign-out has met a refresh or a pairing.
OrderlyInv ==
  /\ Overlap => overtaken
  /\ ~overtaken => FlowOrder /\ LeaveOrder /\ BootOrder /\ PairOrder

\* What a paired client has, while nobody has refused it anything.
Paired ==
  /\ ~Leaving
  /\ vault # 0
  /\ phase # "pairing"
  /\ refresh # 0 \/ (phase = "booting" /\ access = "none" /\ \A t \in Tasks : at[t] = "idle")

\* A client that was neither signed out nor refused, and whose exchanges succeed,
\* stays paired.
PairedInv ==
  ~told /\ ~overtaken /\ happened \cap {"fault", "failure"} = {} => Paired

\* The exchange of t has consumed its token; that of t has issued one.
Exchanged(t) == at[t] = "refresh" /\ hand[t] # None /\ pc[hand[t]] \in {"insert", "done"}
Issuing(t)   == at[t] \in {"refresh", "pair"} /\ hand[t] # None /\ pc[hand[t]] = "done"

\* No token has expired, nothing was restarted, and no handler but those that tasks
\* wait for was started, failed or has refused a token.
NothingElse ==
  /\ \A u \in Tokens : age[u] = "valid"
  /\ rows = 1..issued
  /\ phase = "booting" => vault = 0
  /\ \A t \in Tasks : goal[t] \notin {"start", "recover"}
  /\ \A h \in Handlers :
       /\ pc[h] # "revoke" /\ answer[h].is \in {"none", "ok"}
       /\ pc[h] # "idle" => \E t \in Tasks : hand[t] = h

\* The server knows no usable token but the one the client holds or is about to.
UsableIsHeld ==
  \A u \in Usable : u = refresh \/ \E t \in Tasks : Issuing(t) /\ answer[hand[t]].token = u

\* And the client holds no other, unless it is exchanging or giving up its token.
HeldIsUsable ==
  /\ \A t \in Tasks : Issuing(t) => answer[hand[t]].token \in Usable
  /\ refresh \in Usable \cup {0} \/ \E t \in Tasks : Exchanged(t) \/ at[t] = "logout"

\* A refresh presents the token the client holds, usable until it is consumed.
RefreshPresentsHeld ==
  \A t \in Tasks : at[t] = "refresh" /\ hand[t] # None =>
    /\ pc[hand[t]] \in {"find", "consume"} => refresh \in Usable
    /\ pc[hand[t]] # "done" => presented[hand[t]] = refresh
    /\ Exchanged(t) => refresh \notin Usable

\* A logout too, unless another has done its work.
LogoutPresentsHeld ==
  \A t \in Tasks : at[t] = "logout" /\ hand[t] # None =>
    Usable = {} \/ (pc[hand[t]] # "done" /\ presented[hand[t]] = refresh)

\* Where nothing has happened but sign-outs that met nothing.
Undisturbed == happened \subseteq {"signOut"} /\ ~overtaken
Loyal ==
  NothingElse /\ UsableIsHeld /\ HeldIsUsable /\ RefreshPresentsHeld /\ LogoutPresentsHeld
LoyalInv == Undisturbed => Loyal

\* And where nothing has happened at all, there is no sign-out.
Untroubled ==
  /\ ~overtaken /\ ~Leaving
  /\ phase = "authenticated" => refresh # 0
  /\ phase # "authenticated" => \A t \in Tasks : at[t] = "idle" \/ goal[t] = "pair"
CalmInv == Calm => Untroubled

AccountInv ==
  /\ AccountTypeOK /\ TokensInv
  /\ GoalInv /\ HandInv /\ OrderlyInv /\ PairedInv /\ LoyalInv /\ CalmInv
=============================================================================
