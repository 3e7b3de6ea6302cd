---------------------------- MODULE RefreshTokens ----------------------------
(***************************************************************************)
(* The server's sessions (crates/api/src/auth/session.rs): refresh tokens   *)
(* in families, rotation with reuse detection, logout and the daily         *)
(* clean-up.  The table is Postgres's; a step of a handler is one SQL       *)
(* statement, and no transaction spans two of them.  Tokens are numbered in *)
(* the order of their insertion, a family by its first token.              *)
(***************************************************************************)
EXTENDS Naturals, FiniteSets

CONSTANTS
  Handlers,   \* requests under way at once
  MaxTokens   \* model bound: no token is inserted past this one

ASSUME TokensAssumption == MaxTokens \in Nat

Tokens == 1..MaxTokens

VARIABLES
  issued,     \* how many rows were ever inserted
  rows,       \* the rows in the table
  family,     \* family_id
  consumed,   \* consumed_at IS NOT NULL
  revoked,    \* revoked_at IS NOT NULL
  age,        \* expires_at: to come, past, or past the grace of the clean-up
  pc,         \* where each handler is
  presented,  \* the token its request presented, 0 for none
  found,      \* the family of the row it read, 0 for none
  answer,     \* what it answered
  parent,     \* history: the token a rotation exchanged for this one, 0 for none
  crossed     \* history: families revoked while a rotation was about to insert

table     == <<issued, rows, family, consumed, revoked, age, parent, crossed>>
handler   == <<pc, presented, found, answer>>
tokenVars == <<issued, rows, family, consumed, revoked, age, pc, presented, found,
               answer, parent, crossed>>

\* Answers other than a token: 401 UNAUTHENTICATED, 401 TOKEN_REUSED, 204, 500.
Refusals == {"unauthorized", "reused"}
Answers  == Refusals \cup {"none", "ok", "error"}
NoAnswer == [is |-> "none", token |-> 0]

TokensInit ==
  /\ issued = 0
  /\ rows = {} /\ consumed = {} /\ revoked = {} /\ crossed = {}
  /\ family = [t \in Tokens |-> 0]
  /\ parent = [t \in Tokens |-> 0]
  /\ age = [t \in Tokens |-> "valid"]
  /\ pc = [h \in Handlers |-> "idle"]
  /\ presented = [h \in Handlers |-> 0]
  /\ found = [h \in Handlers |-> 0]
  /\ answer = [h \in Handlers |-> NoAnswer]

-----------------------------------------------------------------------------
Begin(h, l, t) ==
  /\ pc[h] = "idle"
  /\ pc' = [pc EXCEPT ![h] = l]
  /\ presented' = [presented EXCEPT ![h] = t]
  /\ UNCHANGED <<table, found, answer>>

\* POST /auth/refresh, /auth/logout, and /auth/pair with a code it has consumed.
Refresh(h, t) == Begin(h, "find", t)
Logout(h, t)  == Begin(h, "logout", t)
Pair(h)       == Begin(h, "insert", 0)

\* The handler returns: its locals are gone, its answer is on its way.
Return(h, a, t) ==
  /\ pc' = [pc EXCEPT ![h] = "done"]
  /\ presented' = [presented EXCEPT ![h] = 0]
  /\ found' = [found EXCEPT ![h] = 0]
  /\ answer' = [answer EXCEPT ![h] = [is |-> a, token |-> t]]

\* And goes on, having found a row of family f.
Proceed(h, l, f) ==
  /\ pc' = [pc EXCEPT ![h] = l]
  /\ found' = [found EXCEPT ![h] = f]
  /\ UNCHANGED <<presented, answer>>

\* What rotate_refresh makes of the row it read.
Verdict(t) ==
  IF t \notin rows THEN "unauthorized"
  ELSE IF t \in consumed THEN "revoke"
  ELSE IF t \in revoked \/ age[t] # "valid" THEN "unauthorized"
  ELSE "consume"

\* rotate_refresh, find_by_hash.
Find(h) ==
  LET t == presented[h] IN
  /\ pc[h] = "find"
  /\ \/ Verdict(t) = "unauthorized" /\ Return(h, "unauthorized", 0)
     \/ Verdict(t) # "unauthorized" /\ Proceed(h, Verdict(t), family[t])
  /\ UNCHANGED table

\* Mutant: the UPDATE has no guard.
ConsumableOnce(t) == t \in rows

\* The guard of refresh_tokens::consume.
Consumable(t) == t \in rows /\ t \notin consumed /\ t \notin revoked

\* rotate_refresh, consume: the loser of the race revokes the family.
Consume(h) ==
  LET t == presented[h] IN
  /\ pc[h] = "consume"
  /\ consumed' = IF Consumable(t) THEN consumed \cup {t} ELSE consumed
  /\ Proceed(h, IF Consumable(t) THEN "insert" ELSE "revoke", found[h])
  /\ UNCHANGED <<issued, rows, family, revoked, age, parent, crossed>>

Inserting(f) == {h \in Handlers : pc[h] = "insert" /\ found[h] = f}

\* Mutant: only the presented token.
FamilyOfOne(h) == {presented[h]}

\* The rows revoke_family updates.
FamilyOf(h) == {t \in rows : family[t] = found[h]}

\* refresh_tokens::revoke_family, for a reused token or a logout.
RevokeFamily(h) ==
  /\ pc[h] \in {"revoke", "end"}
  /\ revoked' = revoked \cup FamilyOf(h)
  /\ crossed' = IF Inserting(found[h]) = {} THEN crossed ELSE crossed \cup {found[h]}
  /\ Return(h, IF pc[h] = "revoke" THEN "reused" ELSE "ok", 0)
  /\ UNCHANGED <<issued, rows, family, consumed, age, parent>>

\* issue_pair: a new token in the family, or the first one of a new family.
Insert(h) ==
  LET t == issued + 1 IN
  /\ pc[h] = "insert"
  /\ issued < MaxTokens
  /\ issued' = t
  /\ rows' = rows \cup {t}
  /\ family' = [family EXCEPT ![t] = IF found[h] = 0 THEN t ELSE found[h]]
  /\ parent' = [parent EXCEPT ![t] = presented[h]]
  /\ Return(h, "ok", t)
  /\ UNCHANGED <<consumed, revoked, age, crossed>>

\* revoke_session, find_by_hash: an unknown token is no error.
FindToEnd(h) ==
  LET t == presented[h] IN
  /\ pc[h] = "logout"
  /\ \/ t \notin rows /\ Return(h, "ok", 0)
     \/ t \in rows /\ Proceed(h, "end", family[t])
  /\ UNCHANGED table

\* A statement fails, or the process ends: what was done before stays done.
Fail(h) ==
  /\ pc[h] \notin {"idle", "done"}
  /\ Return(h, "error", 0)
  /\ UNCHANGED table

\* The response leaves.
Respond(h) ==
  /\ pc[h] = "done"
  /\ pc' = [pc EXCEPT ![h] = "idle"]
  /\ answer' = [answer EXCEPT ![h] = NoAnswer]
  /\ UNCHANGED <<table, presented, found>>

\* refresh_token_ttl_days pass, and then the seven days of the clean-up, which no
\* request lasts.
Expire(t) ==
  /\ t \in rows
  /\ age[t] # "old"
  /\ age[t] = "expired" => \A h \in Handlers : presented[h] # t
  /\ age' = [age EXCEPT ![t] = IF @ = "valid" THEN "expired" ELSE "old"]
  /\ UNCHANGED <<issued, rows, family, consumed, revoked, parent, crossed, handler>>

Old == {t \in rows : age[t] = "old"}

\* run_token_cleanup.
DeleteExpired ==
  /\ Old # {}
  /\ rows' = rows \ Old
  /\ UNCHANGED <<issued, family, consumed, revoked, age, parent, crossed, handler>>

HandlerStep(h) ==
  \/ Find(h) \/ Consume(h) \/ RevokeFamily(h) \/ Insert(h) \/ FindToEnd(h)

TokensNext ==
  \/ \E h \in Handlers :
       \/ \E t \in 1..issued : Refresh(h, t) \/ Logout(h, t)
       \/ Pair(h) \/ HandlerStep(h) \/ Fail(h) \/ Respond(h)
  \/ \E t \in Tokens : Expire(t)
  \/ DeleteExpired

TokensSpec == TokensInit /\ [][TokensNext]_tokenVars

-----------------------------------------------------------------------------
Labels == {"idle", "find", "consume", "insert", "revoke", "logout", "end", "done"}

TokensTypeOK ==
  /\ issued \in 0..MaxTokens
  /\ rows \subseteq 1..issued
  /\ consumed \subseteq 1..issued
  /\ revoked \subseteq 1..issued
  /\ family \in [Tokens -> Nat]
  /\ parent \in [Tokens -> Nat]
  /\ age \in [Tokens -> {"valid", "expired", "old"}]
  /\ pc \in [Handlers -> Labels]
  /\ presented \in [Handlers -> 0..issued]
  /\ found \in [Handlers -> Nat]
  /\ answer \in [Handlers -> [is : Answers, token : 0..issued]]

\* RefreshTokenRow::is_usable, but for the time.
Usable == {t \in rows : t \notin consumed /\ t \notin revoked}

\* A family is never worth more than one session: it has one usable token, or one
\* rotation about to insert one, never two of these, whoever presents which token
\* how often and at what moment (session.rs: "exactly one caller wins the race").
OneSessionPerFamily ==
  /\ \A t, u \in Usable : family[t] = family[u] => t = u
  /\ \A g, h \in Handlers :
       pc[g] = "insert" /\ pc[h] = "insert" /\ found[g] = found[h] /\ found[g] # 0 => g = h
  /\ \A t \in Usable, h \in Handlers : pc[h] = "insert" => family[t] # found[h]

\* Every token is exchanged at most once, and only for one of its own family.
ExchangedOnce ==
  /\ \A t, u \in 1..issued : parent[t] = parent[u] /\ parent[t] # 0 => t = u
  /\ \A t \in 1..issued : parent[t] # 0 =>
       parent[t] \in consumed /\ parent[t] < t /\ family[parent[t]] = family[t]

\* Once a family has been revoked, for reuse or by a logout, none of its tokens
\* opens a session again, unless a rotation had consumed its token and was about
\* to insert the next one (session.rs: "the entire family is revoked").
RevokedFamilyIsDead ==
  \A f \in 1..issued :
    f \notin crossed /\ (\E t \in revoked : family[t] = f)
      => /\ \A t \in Usable : family[t] # f
         /\ Inserting(f) = {}

-----------------------------------------------------------------------------
(***************************************************************************)
(* The inductive invariant.                                                *)
(***************************************************************************)
\* Where a handler has found the row of the token it was presented.
Found == {"consume", "insert", "revoke", "end"}

\* Families are named by their first token, and a handler works on the family of
\* the token it was presented.
FamilyInv ==
  /\ \A t \in 1..issued : family[t] \in 1..issued
  /\ \A h \in Handlers :
       /\ pc[h] \notin Found => found[h] = 0
       /\ pc[h] \in Found => \/ presented[h] = 0 /\ found[h] = 0 /\ pc[h] = "insert"
                             \/ presented[h] \in 1..issued /\ found[h] = family[presented[h]]

\* A rotation about to insert has consumed its token, alone, and not yet exchanged it.
RotationInv ==
  \A h \in Handlers : pc[h] = "insert" /\ presented[h] # 0 =>
    /\ presented[h] \in consumed
    /\ \A t \in 1..issued : parent[t] # presented[h]

TokensInv ==
  /\ FamilyInv /\ RotationInv
  /\ OneSessionPerFamily /\ ExchangedOnce /\ RevokedFamilyIsDead

=============================================================================
