---------------------------- MODULE Account_proofs ----------------------------
(***************************************************************************)
(* Proofs about RefreshTokens, for any number of handlers and tokens, and   *)
(* about Account, for any number of flows and troubles.  Of the table, one  *)
(* lemma per action shows that it keeps the inductive invariant; of the     *)
(* account, one lemma per part of the invariant, with a step per action.    *)
(***************************************************************************)
EXTENDS Account, TLAPS

\* What the induction carries: the types, and TokensInv.
Inductive == TokensTypeOK /\ TokensInv

USE TokensAssumption

\* The empty table.
LEMMA InitHolds == TokensInit => Inductive
<1> SUFFICES ASSUME TokensInit PROVE Inductive
  OBVIOUS
<1>1. TokensTypeOK
  BY DEF TokensInit, TokensTypeOK, Tokens, Labels, NoAnswer, Answers
<1>2. FamilyInv /\ RotationInv
  BY DEF TokensInit, FamilyInv, RotationInv, Found
<1>3. OneSessionPerFamily /\ ExchangedOnce /\ RevokedFamilyIsDead
  BY DEF TokensInit, OneSessionPerFamily, ExchangedOnce, RevokedFamilyIsDead, Usable, Inserting
<1> QED
  BY <1>1, <1>2, <1>3 DEF Inductive, TokensInv

\* Return leaves a handler well typed, and its token within any bound n.
LEMMA ReturnTypes ==
  ASSUME TokensTypeOK, NEW h \in Handlers, NEW a \in Answers, NEW n \in Nat, issued <= n,
         NEW t \in 0..n, Return(h, a, t)
  PROVE  /\ pc' \in [Handlers -> Labels]
         /\ presented' \in [Handlers -> 0..n]
         /\ found' \in [Handlers -> Nat]
         /\ answer' \in [Handlers -> [is : Answers, token : 0..n]]
<1>1. pc' \in [Handlers -> Labels]
  BY DEF Return, TokensTypeOK, Labels
<1>2. 0..issued \subseteq 0..n /\ 0 \in 0..n
  BY DEF TokensTypeOK
<1>3. presented' \in [Handlers -> 0..n] /\ found' \in [Handlers -> Nat]
  BY <1>2 DEF Return, TokensTypeOK
<1>4. [is |-> a, token |-> t] \in [is : Answers, token : 0..n]
  OBVIOUS
<1>5. answer \in [Handlers -> [is : Answers, token : 0..n]]
  BY <1>2 DEF TokensTypeOK
<1> QED
  BY <1>1, <1>3, <1>4, <1>5 DEF Return

\* And leaves the other handlers alone.
LEMMA ReturnFrame ==
  ASSUME TokensTypeOK, NEW h \in Handlers, NEW a, NEW t, Return(h, a, t)
  PROVE  /\ pc'[h] = "done" /\ presented'[h] = 0 /\ found'[h] = 0
         /\ \A g \in Handlers : g # h => pc'[g] = pc[g] /\ presented'[g] = presented[g]
                                       /\ found'[g] = found[g]
BY DEF Return, TokensTypeOK

\* A request begins: it has found nothing yet.
LEMMA BeginKeeps ==
  ASSUME Inductive, NEW h \in Handlers, NEW l \in {"find", "logout", "insert"}, NEW t \in 0..issued,
         l = "insert" => t = 0, Begin(h, l, t)
  PROVE  Inductive'
<1> USE DEF Inductive, TokensInv
<1>1. TokensTypeOK'
  BY DEF TokensTypeOK, Tokens, Labels, Begin, table
<1>2. FamilyInv'
  BY DEF TokensTypeOK, FamilyInv, Found, Begin, table
<1>3. RotationInv'
  BY DEF TokensTypeOK, FamilyInv, Found, RotationInv, OneSessionPerFamily, Usable, ExchangedOnce, Begin, table
<1>4. OneSessionPerFamily'
  BY DEF TokensTypeOK, FamilyInv, Found, OneSessionPerFamily, Usable, Begin, table
<1>5. ExchangedOnce'
  BY DEF TokensTypeOK, FamilyInv, Found, RotationInv, ExchangedOnce, Begin, table
<1>6. RevokedFamilyIsDead'
  BY DEF TokensTypeOK, FamilyInv, Found, RevokedFamilyIsDead, Usable, Inserting, Begin, table
<1> QED
  BY <1>1, <1>2, <1>3, <1>4, <1>5, <1>6

\* find_by_hash reads the row: the handler works on the family of the token it was presented.
LEMMA FindKeeps ==
  ASSUME Inductive, NEW h \in Handlers, Find(h)
  PROVE  Inductive'
<1> USE DEF Inductive, TokensInv
<1> DEFINE t == presented[h]
<1>1. CASE Verdict(t) = "unauthorized" /\ Return(h, "unauthorized", 0)
  <2>1. TokensTypeOK'
    BY <1>1, ReturnTypes DEF Find, TokensTypeOK, Answers, Refusals, table
  <2>2. FamilyInv' /\ RotationInv' /\ ExchangedOnce'
    BY <1>1 DEF Find, Return, TokensTypeOK, FamilyInv, Found, RotationInv, ExchangedOnce, table
  <2>3. OneSessionPerFamily'
    BY <1>1, ReturnFrame DEF Find, OneSessionPerFamily, Usable, table
  <2>4. RevokedFamilyIsDead'
    BY <1>1 DEF Find, Return, TokensTypeOK, RevokedFamilyIsDead, Usable, Inserting, table
  <2> QED
    BY <2>1, <2>2, <2>3, <2>4
<1>2. CASE Verdict(t) # "unauthorized" /\ Proceed(h, Verdict(t), family[t])
  <2>1. t \in rows /\ t \in 1..issued /\ family[t] \in 1..issued
    BY <1>2 DEF Verdict, TokensTypeOK, FamilyInv
  <2>2. Verdict(t) \in {"revoke", "consume"}
    BY <1>2 DEF Verdict
  <2> HIDE DEF t
  <2>3. TokensTypeOK'
    BY <1>2, <2>1, <2>2 DEF Find, Proceed, TokensTypeOK, Labels, table
  <2>4. FamilyInv' /\ RotationInv' /\ ExchangedOnce'
    BY <1>2, <2>1, <2>2 DEF Find, Proceed, TokensTypeOK, FamilyInv, Found, RotationInv,
      ExchangedOnce, table, t
  <2>5. OneSessionPerFamily'
    BY <1>2, <2>1, <2>2 DEF Find, Proceed, TokensTypeOK, OneSessionPerFamily, Usable, table
  <2>6. RevokedFamilyIsDead'
    BY <1>2, <2>1, <2>2 DEF Find, Proceed, TokensTypeOK, RevokedFamilyIsDead, Usable, Inserting, table
  <2> QED
    BY <2>3, <2>4, <2>5, <2>6
<1> QED
  BY <1>1, <1>2 DEF Find

\* The UPDATE of consume: the one usable token of the family becomes the one rotation
\* about to insert.
LEMMA ConsumeKeeps ==
  ASSUME Inductive, NEW h \in Handlers, Consume(h)
  PROVE  Inductive'
<1> USE DEF Inductive, TokensInv
<1>1. TokensTypeOK'
  BY DEF TokensTypeOK, Tokens, Labels, Consume, Consumable, Proceed
<1>2. FamilyInv'
  BY DEF TokensTypeOK, FamilyInv, Found, Consume, Consumable, Proceed
<1>3. RotationInv'
  BY DEF TokensTypeOK, FamilyInv, Found, RotationInv, OneSessionPerFamily, Usable, ExchangedOnce, Consume, Consumable, Proceed
<1>4. OneSessionPerFamily'
  BY DEF TokensTypeOK, FamilyInv, Found, OneSessionPerFamily, Usable, Consume, Consumable, Proceed
<1>5. ExchangedOnce'
  BY DEF TokensTypeOK, FamilyInv, Found, RotationInv, ExchangedOnce, Consume, Consumable, Proceed
<1>6. RevokedFamilyIsDead'
  BY DEF TokensTypeOK, FamilyInv, Found, RevokedFamilyIsDead, Usable, Inserting, Consume, Consumable, Proceed
<1> QED
  BY <1>1, <1>2, <1>3, <1>4, <1>5, <1>6

\* revoke_family: every row of the family, and no insertion under way but for crossed.
LEMMA RevokeKeeps ==
  ASSUME Inductive, NEW h \in Handlers, RevokeFamily(h)
  PROVE  Inductive'
<1> USE DEF Inductive, TokensInv
<1> DEFINE f == found[h]
<1>1. PICK a \in Answers : Return(h, a, 0)
  BY DEF RevokeFamily, Answers, Refusals
<1>2. /\ UNCHANGED <<issued, rows, family, consumed, age, parent>>
      /\ revoked' = revoked \cup {t \in rows : family[t] = f}
      /\ crossed' = IF Inserting(f) = {} THEN crossed ELSE crossed \cup {f}
      /\ pc[h] \in {"revoke", "end"}
  BY DEF RevokeFamily, FamilyOf
<1>3. Usable' = {t \in Usable : family[t] # f}
  BY <1>2 DEF Usable
<1>4. TokensTypeOK'
  <2>1. revoked' \subseteq 1..issued
    BY <1>2 DEF TokensTypeOK
  <2>2. issued \in Nat /\ 0 \in 0..issued
    BY DEF TokensTypeOK
  <2> QED
    BY <1>1, <1>2, <2>1, <2>2, ReturnTypes DEF TokensTypeOK
<1>5. FamilyInv' /\ RotationInv' /\ ExchangedOnce'
  BY <1>1, <1>2, ReturnFrame DEF FamilyInv, Found, RotationInv, ExchangedOnce
<1>6. OneSessionPerFamily'
  BY <1>1, <1>2, <1>3, ReturnFrame DEF OneSessionPerFamily
<1>7. RevokedFamilyIsDead'
  <2> SUFFICES ASSUME NEW g \in 1..issued, g \notin crossed', NEW r \in revoked', family[r] = g
               PROVE  (\A u \in Usable' : family[u] # g) /\ Inserting(g)' = {}
    BY <1>2 DEF RevokedFamilyIsDead
  <2>1. \A k : Inserting(k)' = Inserting(k)
    BY <1>1, <1>2, ReturnFrame DEF Inserting
  <2>2. CASE g = f
    BY <1>2, <1>3, <2>1, <2>2
  <2>3. CASE g # f
    <3>1. r \in revoked /\ g \notin crossed
      BY <1>2, <2>3
    <3> QED
      BY <1>3, <2>1, <3>1 DEF RevokedFamilyIsDead
  <2> QED
    BY <2>2, <2>3
<1> QED
  BY <1>4, <1>5, <1>6, <1>7

\* issue_pair: the token is new, and it is the only usable one of its family.
LEMMA InsertKeeps ==
  ASSUME Inductive, NEW h \in Handlers, Insert(h)
  PROVE  Inductive'
<1> USE DEF Inductive, TokensInv
<1> DEFINE t == issued + 1
           f == IF found[h] = 0 THEN t ELSE found[h]
<1>1. /\ t \in Tokens /\ t \in Nat /\ issued \in Nat /\ 1..issued \subseteq Tokens
      /\ t \notin rows /\ t \notin consumed /\ t \notin revoked
  BY DEF Insert, TokensTypeOK, Tokens
<1>2. /\ issued' = t /\ rows' = rows \cup {t}
      /\ family' = [family EXCEPT ![t] = f] /\ parent' = [parent EXCEPT ![t] = presented[h]]
      /\ UNCHANGED <<consumed, revoked, age, crossed>>
      /\ pc[h] = "insert" /\ Return(h, "ok", t)
  BY DEF Insert
<1>3. \/ presented[h] = 0 /\ found[h] = 0 /\ f = t
      \/ presented[h] \in 1..issued /\ found[h] = family[presented[h]]
         /\ found[h] \in 1..issued /\ f = found[h]
  BY <1>1, <1>2 DEF FamilyInv, Found
<1>4. /\ \A u \in 1..issued : family'[u] = family[u] /\ parent'[u] = parent[u] /\ u # t
      /\ family'[t] = f /\ parent'[t] = presented[h]
      /\ 1..t = (1..issued) \cup {t}
  <2>1. 1..t = (1..issued) \cup {t} /\ t \notin 1..issued
    BY <1>1
  <2> QED
    BY <1>1, <1>2, <2>1 DEF TokensTypeOK
<1>5. /\ \A g \in Handlers : g # h => pc'[g] = pc[g] /\ presented'[g] = presented[g]
                                      /\ found'[g] = found[g]
      /\ pc'[h] = "done" /\ presented'[h] = 0 /\ found'[h] = 0
  BY <1>2, ReturnFrame
<1>6. Usable' = Usable \cup {t} /\ Usable \subseteq 1..issued
  BY <1>1, <1>2 DEF Usable, TokensTypeOK
<1> HIDE DEF t, f
<1>7. TokensTypeOK'
  <2>1. t \in 0..MaxTokens /\ 0..issued \subseteq 0..t /\ 1..issued \subseteq 1..t /\ t \in 1..t
        /\ issued <= t /\ t \in 0..t /\ t \in 1..MaxTokens
    BY <1>1 DEF TokensTypeOK, Tokens, t
  <2>2. f \in Nat /\ presented[h] \in Nat
    BY <1>1, <1>3 DEF TokensTypeOK
  <2>3. /\ pc' \in [Handlers -> Labels] /\ presented' \in [Handlers -> 0..t]
        /\ found' \in [Handlers -> Nat] /\ answer' \in [Handlers -> [is : Answers, token : 0..t]]
    BY <1>1, <1>2, <2>1, ReturnTypes DEF Answers
  <2>4. rows' \subseteq 1..t /\ consumed' \subseteq 1..t /\ revoked' \subseteq 1..t
    BY <1>2, <2>1 DEF TokensTypeOK
  <2>5. family' \in [Tokens -> Nat] /\ parent' \in [Tokens -> Nat]
    BY <1>2, <2>2 DEF TokensTypeOK
  <2> QED
    BY <1>2, <2>1, <2>3, <2>4, <2>5 DEF TokensTypeOK
<1>8. FamilyInv'
  <2>1. \A u \in 1..t : family'[u] \in 1..t
    BY <1>1, <1>3, <1>4 DEF FamilyInv, t
  <2>2. ASSUME NEW g \in Handlers
        PROVE  /\ pc'[g] \notin Found => found'[g] = 0
               /\ pc'[g] \in Found => \/ presented'[g] = 0 /\ found'[g] = 0 /\ pc'[g] = "insert"
                                      \/ presented'[g] \in 1..t /\ found'[g] = family'[presented'[g]]
    BY <1>4, <1>5 DEF FamilyInv, Found
  <2> QED
    BY <1>2, <2>1, <2>2 DEF FamilyInv
<1>9. RotationInv'
  <2> SUFFICES ASSUME NEW g \in Handlers, pc'[g] = "insert", presented'[g] # 0
               PROVE  presented'[g] \in consumed' /\ \A u \in 1..t : parent'[u] # presented'[g]
    BY <1>2 DEF RotationInv
  <2>1. g # h /\ pc[g] = "insert" /\ presented[g] # 0 /\ presented'[g] = presented[g]
    BY <1>5
  <2>2. presented[g] \in consumed /\ \A u \in 1..issued : parent[u] # presented[g]
    BY <2>1 DEF RotationInv
  <2>3. presented[h] # presented[g]
    <3> SUFFICES ASSUME presented[h] = presented[g] PROVE FALSE
      OBVIOUS
    <3>1. found[g] = family[presented[g]] /\ found[h] = family[presented[h]] /\ found[h] # 0
      BY <1>1, <1>3, <2>1 DEF FamilyInv, Found
    <3> QED
      BY <1>2, <2>1, <3>1 DEF OneSessionPerFamily
  <2> QED
    BY <1>2, <1>4, <2>1, <2>2, <2>3
<1>10. OneSessionPerFamily'
  <2>1. \A u \in Usable : family[u] # f /\ family'[u] = family[u] /\ family[u] \in 1..issued
    BY <1>1, <1>2, <1>3, <1>4, <1>6 DEF OneSessionPerFamily, FamilyInv, t
  <2>2. \A g \in Handlers : g # h /\ pc[g] = "insert" => found[g] # f
    <3> SUFFICES ASSUME NEW g \in Handlers, g # h, pc[g] = "insert" PROVE found[g] # f
      OBVIOUS
    <3>1. found[g] = 0 \/ found[g] \in 1..issued
      BY DEF FamilyInv, Found
    <3>2. CASE f = t
      BY <1>1, <3>1, <3>2 DEF t
    <3>3. CASE f = found[h] /\ found[h] \in 1..issued
      BY <1>1, <1>2, <3>3 DEF OneSessionPerFamily
    <3> QED
      BY <1>3, <3>2, <3>3
  <2>3. \A u, v \in Usable' : family'[u] = family'[v] => u = v
    BY <1>4, <1>6, <2>1 DEF OneSessionPerFamily
  <2>4. \A g, k \in Handlers :
          pc'[g] = "insert" /\ pc'[k] = "insert" /\ found'[g] = found'[k] /\ found'[g] # 0 => g = k
    BY <1>5 DEF OneSessionPerFamily
  <2>5. \A u \in Usable', g \in Handlers : pc'[g] = "insert" => family'[u] # found'[g]
    <3> SUFFICES ASSUME NEW u \in Usable', NEW g \in Handlers, pc'[g] = "insert"
                 PROVE  family'[u] # found'[g]
      OBVIOUS
    <3>1. g # h /\ pc[g] = "insert" /\ found'[g] = found[g]
      BY <1>5
    <3>2. CASE u = t
      BY <1>4, <2>2, <3>1, <3>2
    <3>3. CASE u \in Usable
      BY <2>1, <3>1, <3>3 DEF OneSessionPerFamily
    <3> QED
      BY <1>6, <3>2, <3>3
  <2> QED
    BY <2>3, <2>4, <2>5 DEF OneSessionPerFamily
<1>11. ExchangedOnce'
  <2>1. \A u \in 1..issued : parent[u] # presented[h] \/ presented[h] = 0
    BY <1>2 DEF RotationInv
  <2>2. \A u, v \in 1..t : parent'[u] = parent'[v] /\ parent'[u] # 0 => u = v
    BY <1>4, <2>1 DEF ExchangedOnce
  <2>3. ASSUME NEW u \in 1..t, parent'[u] # 0
        PROVE  parent'[u] \in consumed /\ parent'[u] < u /\ family'[parent'[u]] = family'[u]
    <3>1. CASE u = t
      <4>1. presented[h] \in 1..issued /\ found[h] = family[presented[h]] /\ f = found[h]
        BY <1>3, <1>4, <2>3, <3>1
      <4>2. presented[h] \in consumed
        BY <1>2, <4>1 DEF RotationInv
      <4> QED
        BY <1>1, <1>4, <3>1, <4>1, <4>2 DEF t
    <3>2. CASE u \in 1..issued
      <4>1. parent[u] # 0 /\ parent[u] \in consumed /\ parent[u] < u /\ family[parent[u]] = family[u]
        BY <1>4, <2>3, <3>2 DEF ExchangedOnce
      <4>2. parent[u] \in 1..issued
        BY <4>1 DEF TokensTypeOK
      <4> QED
        BY <1>4, <3>2, <4>1, <4>2
    <3> QED
      BY <1>4, <3>1, <3>2
  <2> QED
    BY <1>2, <2>2, <2>3 DEF ExchangedOnce
<1>12. RevokedFamilyIsDead'
  <2> SUFFICES ASSUME NEW g \in 1..t, g \notin crossed, NEW r \in revoked, family'[r] = g
               PROVE  (\A u \in Usable' : family'[u] # g) /\ Inserting(g)' = {}
    BY <1>2 DEF RevokedFamilyIsDead
  <2>1. r \in 1..issued /\ family[r] = g /\ g \in 1..issued
    BY <1>4 DEF TokensTypeOK, FamilyInv
  <2>2. (\A u \in Usable : family[u] # g) /\ Inserting(g) = {}
    BY <2>1 DEF RevokedFamilyIsDead
  <2>3. f # g
    BY <1>1, <1>2, <1>3, <2>1, <2>2 DEF Inserting, t
  <2>4. Inserting(g)' = {}
    BY <1>5, <2>2 DEF Inserting
  <2> QED
    BY <1>4, <1>6, <2>2, <2>3, <2>4
<1> QED
  BY <1>7, <1>8, <1>9, <1>10, <1>11, <1>12

\* revoke_session reads the row.
LEMMA FindToEndKeeps ==
  ASSUME Inductive, NEW h \in Handlers, FindToEnd(h)
  PROVE  Inductive'
<1> USE DEF Inductive, TokensInv
<1> DEFINE t == presented[h]
<1>1. CASE Return(h, "ok", 0)
  <2>1. TokensTypeOK'
    <3>1. issued \in Nat /\ 0 \in 0..issued /\ "ok" \in Answers
      BY DEF TokensTypeOK, Answers
    <3> QED
      BY <1>1, <3>1, ReturnTypes DEF FindToEnd, TokensTypeOK, table
  <2>2. FamilyInv' /\ RotationInv' /\ ExchangedOnce'
    BY <1>1, ReturnFrame DEF FindToEnd, FamilyInv, Found, RotationInv, ExchangedOnce, table
  <2>3. OneSessionPerFamily' /\ RevokedFamilyIsDead'
    BY <1>1, ReturnFrame DEF FindToEnd, OneSessionPerFamily, RevokedFamilyIsDead, Usable,
      Inserting, table
  <2> QED
    BY <2>1, <2>2, <2>3
<1>2. CASE t \in rows /\ Proceed(h, "end", family[t])
  <2>1. t \in 1..issued /\ family[t] \in 1..issued
    BY <1>2 DEF TokensTypeOK, FamilyInv
  <2>2. TokensTypeOK'
    BY <1>2, <2>1 DEF FindToEnd, Proceed, TokensTypeOK, Labels, table
  <2>3. FamilyInv' /\ RotationInv' /\ ExchangedOnce'
    BY <1>2, <2>1 DEF FindToEnd, Proceed, TokensTypeOK, FamilyInv, Found, RotationInv,
      ExchangedOnce, table
  <2> HIDE DEF t
  <2>4. OneSessionPerFamily' /\ RevokedFamilyIsDead'
    BY <1>2, <2>1 DEF FindToEnd, Proceed, TokensTypeOK, OneSessionPerFamily,
      RevokedFamilyIsDead, Usable, Inserting, table
  <2> QED
    BY <2>2, <2>3, <2>4
<1> QED
  BY <1>1, <1>2 DEF FindToEnd

\* A failed statement changes nothing.
LEMMA FailKeeps ==
  ASSUME Inductive, NEW h \in Handlers, Fail(h)
  PROVE  Inductive'
<1> USE DEF Inductive, TokensInv
<1>1. TokensTypeOK'
  BY DEF TokensTypeOK, Tokens, Labels, Fail, Return, table, Answers
<1>2. FamilyInv'
  BY DEF TokensTypeOK, FamilyInv, Found, Fail, Return, table, Answers
<1>3. RotationInv'
  BY DEF TokensTypeOK, FamilyInv, Found, RotationInv, OneSessionPerFamily, Usable, ExchangedOnce, Fail, Return, table, Answers
<1>4. OneSessionPerFamily'
  BY DEF TokensTypeOK, FamilyInv, Found, OneSessionPerFamily, Usable, Fail, Return, table, Answers
<1>5. ExchangedOnce'
  BY DEF TokensTypeOK, FamilyInv, Found, RotationInv, ExchangedOnce, Fail, Return, table, Answers
<1>6. RevokedFamilyIsDead'
  BY DEF TokensTypeOK, FamilyInv, Found, RevokedFamilyIsDead, Usable, Inserting, Fail, Return, table, Answers
<1> QED
  BY <1>1, <1>2, <1>3, <1>4, <1>5, <1>6

\* The response leaves.
LEMMA RespondKeeps ==
  ASSUME Inductive, NEW h \in Handlers, Respond(h)
  PROVE  Inductive'
<1> USE DEF Inductive, TokensInv
<1>1. TokensTypeOK'
  BY DEF TokensTypeOK, Tokens, Labels, Respond, NoAnswer, table, Answers
<1>2. FamilyInv'
  BY DEF TokensTypeOK, FamilyInv, Found, Respond, NoAnswer, table, Answers
<1>3. RotationInv'
  BY DEF TokensTypeOK, FamilyInv, Found, RotationInv, OneSessionPerFamily, Usable, ExchangedOnce, Respond, NoAnswer, table, Answers
<1>4. OneSessionPerFamily'
  BY DEF TokensTypeOK, FamilyInv, Found, OneSessionPerFamily, Usable, Respond, NoAnswer, table, Answers
<1>5. ExchangedOnce'
  BY DEF TokensTypeOK, FamilyInv, Found, RotationInv, ExchangedOnce, Respond, NoAnswer, table, Answers
<1>6. RevokedFamilyIsDead'
  BY DEF TokensTypeOK, FamilyInv, Found, RevokedFamilyIsDead, Usable, Inserting, Respond, NoAnswer, table, Answers
<1> QED
  BY <1>1, <1>2, <1>3, <1>4, <1>5, <1>6

\* Time passes.
LEMMA ExpireKeeps ==
  ASSUME Inductive, NEW t \in Tokens, Expire(t)
  PROVE  Inductive'
<1> USE DEF Inductive, TokensInv
<1>1. TokensTypeOK'
  BY DEF TokensTypeOK, Tokens, Labels, Expire, handler
<1>2. FamilyInv'
  BY DEF TokensTypeOK, FamilyInv, Found, Expire, handler
<1>3. RotationInv'
  BY DEF TokensTypeOK, FamilyInv, Found, RotationInv, OneSessionPerFamily, Usable, ExchangedOnce, Expire, handler
<1>4. OneSessionPerFamily'
  BY DEF TokensTypeOK, FamilyInv, Found, OneSessionPerFamily, Usable, Expire, handler
<1>5. ExchangedOnce'
  BY DEF TokensTypeOK, FamilyInv, Found, RotationInv, ExchangedOnce, Expire, handler
<1>6. RevokedFamilyIsDead'
  BY DEF TokensTypeOK, FamilyInv, Found, RevokedFamilyIsDead, Usable, Inserting, Expire, handler
<1> QED
  BY <1>1, <1>2, <1>3, <1>4, <1>5, <1>6

\* The clean-up only takes rows away.
LEMMA DeleteKeeps ==
  ASSUME Inductive, DeleteExpired
  PROVE  Inductive'
<1> USE DEF Inductive, TokensInv
<1>1. TokensTypeOK'
  BY DEF TokensTypeOK, Tokens, Labels, DeleteExpired, Old, handler
<1>2. FamilyInv'
  BY DEF TokensTypeOK, FamilyInv, Found, DeleteExpired, Old, handler
<1>3. RotationInv'
  BY DEF TokensTypeOK, FamilyInv, Found, RotationInv, OneSessionPerFamily, Usable, ExchangedOnce, DeleteExpired, Old, handler
<1>4. OneSessionPerFamily'
  BY DEF TokensTypeOK, FamilyInv, Found, OneSessionPerFamily, Usable, DeleteExpired, Old, handler
<1>5. ExchangedOnce'
  BY DEF TokensTypeOK, FamilyInv, Found, RotationInv, ExchangedOnce, DeleteExpired, Old, handler
<1>6. RevokedFamilyIsDead'
  BY DEF TokensTypeOK, FamilyInv, Found, RevokedFamilyIsDead, Usable, Inserting, DeleteExpired, Old, handler
<1> QED
  BY <1>1, <1>2, <1>3, <1>4, <1>5, <1>6

\* Nothing changes.
LEMMA StutterKeeps ==
  ASSUME Inductive, UNCHANGED tokenVars
  PROVE  Inductive'
<1> USE DEF Inductive, TokensInv
<1>1. TokensTypeOK'
  BY DEF TokensTypeOK, Tokens, Labels, tokenVars
<1>2. FamilyInv'
  BY DEF TokensTypeOK, FamilyInv, Found, tokenVars
<1>3. RotationInv'
  BY DEF TokensTypeOK, FamilyInv, Found, RotationInv, OneSessionPerFamily, Usable, ExchangedOnce, tokenVars
<1>4. OneSessionPerFamily'
  BY DEF TokensTypeOK, FamilyInv, Found, OneSessionPerFamily, Usable, tokenVars
<1>5. ExchangedOnce'
  BY DEF TokensTypeOK, FamilyInv, Found, RotationInv, ExchangedOnce, tokenVars
<1>6. RevokedFamilyIsDead'
  BY DEF TokensTypeOK, FamilyInv, Found, RevokedFamilyIsDead, Usable, Inserting, tokenVars
<1> QED
  BY <1>1, <1>2, <1>3, <1>4, <1>5, <1>6

\* Every step keeps the inductive invariant.
LEMMA NextKeeps == Inductive /\ [TokensNext]_tokenVars => Inductive'
<1> SUFFICES ASSUME Inductive, [TokensNext]_tokenVars PROVE Inductive'
  OBVIOUS
<1>1. ASSUME NEW h \in Handlers, NEW t \in 1..issued, Refresh(h, t) \/ Logout(h, t) PROVE Inductive'
  BY <1>1, BeginKeeps DEF Refresh, Logout, Inductive, TokensTypeOK
<1>2. ASSUME NEW h \in Handlers, Pair(h) PROVE Inductive'
  <2>1. 0 \in 0..issued
    BY DEF Inductive, TokensTypeOK
  <2> QED
    BY <1>2, <2>1, BeginKeeps DEF Pair
<1>3. ASSUME NEW h \in Handlers, HandlerStep(h) PROVE Inductive'
  BY <1>3, FindKeeps, ConsumeKeeps, RevokeKeeps, InsertKeeps, FindToEndKeeps DEF HandlerStep
<1>4. ASSUME NEW h \in Handlers, Fail(h) \/ Respond(h) PROVE Inductive'
  BY <1>4, FailKeeps, RespondKeeps
<1>5. ASSUME NEW t \in Tokens, Expire(t) PROVE Inductive'
  BY <1>5, ExpireKeeps
<1> QED
  BY <1>1, <1>2, <1>3, <1>4, <1>5, DeleteKeeps, StutterKeeps DEF TokensNext

\* Whatever tokens are presented, however often and at whatever moment: the types,
\* and what every handler may rely on between two of its statements.
THEOREM TokensInvariant == TokensSpec => [](TokensTypeOK /\ TokensInv)
<1>1. Inductive => TokensTypeOK /\ TokensInv
  BY DEF Inductive
<1> QED
  BY <1>1, InitHolds, NextKeeps, PTL DEF TokensSpec

\* A refresh token family never carries two sessions (rotate_refresh, consume).
THEOREM OneSession == TokensSpec => []OneSessionPerFamily
<1>1. TokensTypeOK /\ TokensInv => OneSessionPerFamily
  BY DEF TokensInv
<1> QED
  BY <1>1, TokensInvariant, PTL

\* A revoked family opens no session again, unless a rotation was between consuming
\* its token and inserting the next (revoke_family, issue_pair).
THEOREM RevocationIsFinal == TokensSpec => []RevokedFamilyIsDead
<1>1. TokensTypeOK /\ TokensInv => RevokedFamilyIsDead
  BY DEF TokensInv
<1> QED
  BY <1>1, TokensInvariant, PTL


-----------------------------------------------------------------------------
(***************************************************************************)
(* The account: its steps are steps of the table, so what holds of the      *)
(* table whatever is presented holds beside this client.                   *)
(***************************************************************************)
USE AccountAssumption

\* An exchange reaches an idle handler, or is lost.
LEMMA PostIsToken ==
  ASSUME NEW t, NEW g, NEW tok \in 1..issued, PostRefresh(t, g, tok) \/ PostLogout(t, tok)
  PROVE  [TokensNext]_tokenVars
BY DEF PostRefresh, PostLogout, TokensNext

\* The response of t's exchange is taken.
LEMMA RespondIsToken ==
  ASSUME AccountTypeOK, NEW t \in Tasks, Answered(t), Respond(hand[t])
  PROVE  [TokensNext]_tokenVars
BY DEF AccountTypeOK, Answered, TokensNext

LEMMA RecoverIsToken ==
  ASSUME AccountTypeOK, NEW t \in Tasks, Recover(t) \/ StartGateway(t)
  PROVE  [TokensNext]_tokenVars
<1>1. ASSUME Recover(t) PROVE [TokensNext]_tokenVars
  <2>1. CASE authRetryUsed \/ refresh = 0
    BY <1>1, <2>1 DEF Recover
  <2>2. CASE ~(authRetryUsed \/ refresh = 0)
    <3>1. PostRefresh(t, "recover", refresh) /\ refresh \in 1..issued
      BY <1>1, <2>2 DEF Recover, AccountTypeOK, TokensTypeOK
    <3> QED
      BY <3>1, PostIsToken
  <2> QED
    BY <2>1, <2>2
<1> QED
  BY <1>1 DEF StartGateway

\* Every step of a task.
LEMMA TaskIsToken ==
  ASSUME AccountTypeOK, NEW t \in Tasks, Task(t)
  PROVE  [TokensNext]_tokenVars
<1>1. ASSUME Call(t) \/ CallSucceeds(t) \/ CallLost(t) \/ Cleared(t) PROVE [TokensNext]_tokenVars
  BY <1>1 DEF Call, CallSucceeds, CallLost, Cleared
<1>2. ASSUME CallRefused(t) PROVE [TokensNext]_tokenVars
  <2>1. ASSUME refresh # 0, PostRefresh(t, "call", refresh) PROVE [TokensNext]_tokenVars
    <3>1. refresh \in 1..issued
      BY <2>1 DEF AccountTypeOK, TokensTypeOK
    <3> QED
      BY <2>1, <3>1, PostIsToken
  <2> QED
    BY <1>2, <2>1 DEF CallRefused
<1>3. ASSUME RefreshAdopted(t) \/ RefreshRefused(t) \/ PairAnswered(t) \/ LoggedOut(t)
      PROVE  [TokensNext]_tokenVars
  BY <1>3, RespondIsToken DEF RefreshAdopted, RefreshRefused, PairAnswered, LoggedOut
<1>4. ASSUME Kept(t) PROVE [TokensNext]_tokenVars
  BY <1>4, RecoverIsToken DEF Kept
<1>5. ASSUME Start(t) PROVE [TokensNext]_tokenVars
  <2>1. ASSUME vault # 0, PostRefresh(t, "start", vault) PROVE [TokensNext]_tokenVars
    <3>1. vault \in 1..issued
      BY <2>1 DEF AccountTypeOK, TokensTypeOK
    <3> QED
      BY <2>1, <3>1, PostIsToken
  <2> QED
    BY <1>5, <2>1 DEF Start
<1>6. ASSUME UserPairs(t) PROVE [TokensNext]_tokenVars
  BY <1>6 DEF UserPairs, PostPair, TokensNext
<1>7. ASSUME SignOut(t) PROVE [TokensNext]_tokenVars
  <2>1. ASSUME LogoutToken # 0, PostLogout(t, LogoutToken) PROVE [TokensNext]_tokenVars
    <3>1. LogoutToken \in 1..issued
      BY <2>1 DEF LogoutToken, AccountTypeOK, TokensTypeOK
    <3> QED
      BY <2>1, <3>1, PostIsToken
  <2> QED
    BY <1>7, <2>1 DEF SignOut
<1>8. ASSUME NetworkError(t) PROVE [TokensNext]_tokenVars
  BY <1>8, RecoverIsToken DEF NetworkError
<1> QED
  BY <1>1, <1>2, <1>3, <1>4, <1>5, <1>6, <1>7, <1>8 DEF Task

\* Every step.
LEMMA AccountIsToken ==
  ASSUME AccountTypeOK, [AccountNext]_accountVars
  PROVE  [TokensNext]_tokenVars
<1>1. ASSUME NEW t \in Tasks, Noted(Task(t)) PROVE [TokensNext]_tokenVars
  BY <1>1, TaskIsToken DEF Noted
<1>2. ASSUME UserSignsOut \/ Relaunch \/ GatewayReady \/ AccessExpires PROVE [TokensNext]_tokenVars
  BY <1>2 DEF UserSignsOut, Relaunch, GatewayReady, AccessExpires
<1>3. ASSUME Server PROVE [TokensNext]_tokenVars
  BY <1>3 DEF Server, ServerAction, TokensNext
<1>4. ASSUME UNCHANGED accountVars PROVE [TokensNext]_tokenVars
  BY <1>4 DEF accountVars, tokenVars
<1> QED
  BY <1>1, <1>2, <1>3, <1>4 DEF AccountNext, Noted

\* The table only grows.
LEMMA IssuedGrows ==
  ASSUME TokensTypeOK, [TokensNext]_tokenVars
  PROVE  issued \in Nat /\ issued' \in Nat /\ issued <= issued' /\ 0..issued \subseteq 0..issued'
<1>1. issued \in Nat
  BY DEF TokensTypeOK
<1>2. issued' = issued \/ issued' = issued + 1
  BY DEF TokensNext, tokenVars, table, handler, HandlerStep, Refresh, Logout, Pair, Begin, Find,
    Consume, RevokeFamily, Insert, FindToEnd, Fail, Respond, Expire, DeleteExpired
<1> QED
  BY <1>1, <1>2

\* What a task may wait for, and what the client keeps of it, is of its type.
LEMMA AwaitTypes ==
  ASSUME AccountTypeOK, NEW t \in Tasks, NEW l, NEW g, NEW k, Await(t, l, g, k),
         l \in {"idle", "call", "join", "again", "refresh", "keep", "pair", "logout", "clear"},
         g \in {"none", "call", "start", "recover", "pair"}, k \in Handlers \cup {None}
  PROVE  /\ at' \in [Tasks -> {"idle", "call", "join", "again", "refresh", "keep", "pair",
                               "logout", "clear"}]
         /\ goal' \in [Tasks -> {"none", "call", "start", "recover", "pair"}]
         /\ hand' \in [Tasks -> Handlers \cup {None}]
BY DEF Await, AccountTypeOK

\* The client's part of the type invariant, over a table of n tokens.
FlowTypes ==
  /\ at \in [Tasks -> {"idle", "call", "join", "again", "refresh", "keep", "pair",
                       "logout", "clear"}]
  /\ goal \in [Tasks -> {"none", "call", "start", "recover", "pair"}]
  /\ hand \in [Tasks -> Handlers \cup {None}]

FreshTypes == fresh \in [Tasks -> BOOLEAN]

TokenTypes(n) == held \in [Tasks -> 0..n] /\ refresh \in 0..n /\ vault \in 0..n

PhaseTypes ==
  /\ access \in {"none", "valid", "expired"}
  /\ refreshing \in Tasks \cup {None}
  /\ phase \in {"booting", "pairing", "authenticated"}
  /\ due \in Nat

FlagTypes == /\ online \in BOOLEAN /\ inRoom \in BOOLEAN
             /\ authRetryUsed \in BOOLEAN /\ told \in BOOLEAN

ClientTypes(n) == FlowTypes /\ FreshTypes /\ TokenTypes(n) /\ PhaseTypes /\ FlagTypes

\* The table may have grown since.
LEMMA TypesGrow ==
  ASSUME AccountTypeOK, NEW n \in Nat, 0..issued \subseteq 0..n
  PROVE  ClientTypes(n)
<1>1. TokenTypes(n)
  BY DEF AccountTypeOK, TokenTypes
<1>2. FlowTypes /\ FreshTypes /\ PhaseTypes /\ FlagTypes
  BY DEF AccountTypeOK, FlowTypes, FreshTypes, PhaseTypes, FlagTypes
<1> QED
  BY <1>1, <1>2 DEF ClientTypes

\* The answer that t waited for.
LEMMA ReplyTypes ==
  ASSUME AccountTypeOK, NEW t \in Tasks, Answered(t)
  PROVE  /\ hand[t] \in Handlers /\ pc[hand[t]] = "done"
         /\ Reply(t).is \in Answers /\ Reply(t).token \in 0..issued
BY DEF AccountTypeOK, Answered, Reply, TokensTypeOK

\* A step of a task.
LEMMA TaskTypes ==
  ASSUME AccountTypeOK, NEW t \in Tasks, Task(t), NEW n \in Nat, 0..issued \subseteq 0..n
  PROVE  ClientTypes(n)'
<1>0. ClientTypes(n) /\ FlowTypes /\ FreshTypes /\ TokenTypes(n) /\ PhaseTypes /\ FlagTypes
  BY TypesGrow DEF ClientTypes
<1> USE DEF tasks, memory, app, notes, Await, Finish, SignOuts
<1>1. CASE Call(t)
  <2>1. FlowTypes'
    BY <1>0, <1>1 DEF FlowTypes, Call, PostCall
  <2>2. FreshTypes'
    BY <1>0, <1>1 DEF FreshTypes, Call, PostCall
  <2>3. TokenTypes(n)'
    BY <1>0, <1>1 DEF TokenTypes, Call, PostCall
  <2>4. PhaseTypes'
    BY <1>0, <1>1 DEF PhaseTypes, Call, PostCall
  <2>5. FlagTypes'
    BY <1>0, <1>1 DEF FlagTypes, Call, PostCall
  <2> QED
    BY <2>1, <2>2, <2>3, <2>4, <2>5 DEF ClientTypes
<1>2. CASE CallSucceeds(t) \/ CallLost(t) \/ Cleared(t)
  <2>1. FlowTypes'
    BY <1>0, <1>2 DEF FlowTypes, CallSucceeds, CallLost, Cleared, Forget
  <2>2. FreshTypes'
    BY <1>0, <1>2 DEF FreshTypes, CallSucceeds, CallLost, Cleared, Forget
  <2>3. TokenTypes(n)'
    BY <1>0, <1>2 DEF TokenTypes, CallSucceeds, CallLost, Cleared, Forget
  <2>4. PhaseTypes'
    BY <1>0, <1>2 DEF PhaseTypes, CallSucceeds, CallLost, Cleared, Forget
  <2>5. FlagTypes'
    BY <1>0, <1>2 DEF FlagTypes, CallSucceeds, CallLost, Cleared, Forget
  <2> QED
    BY <2>1, <2>2, <2>3, <2>4, <2>5 DEF ClientTypes
<1>3. CASE CallRefused(t)
  <2>1. FlowTypes'
    BY <1>0, <1>3 DEF FlowTypes, CallRefused, PostRefresh, Forget
  <2>2. FreshTypes'
    BY <1>0, <1>3 DEF FreshTypes, CallRefused, PostRefresh, Forget
  <2>3. TokenTypes(n)'
    BY <1>0, <1>3 DEF TokenTypes, CallRefused, PostRefresh, Forget
  <2>4. PhaseTypes'
    BY <1>0, <1>3 DEF PhaseTypes, CallRefused, PostRefresh, Forget
  <2>5. FlagTypes'
    BY <1>0, <1>3 DEF FlagTypes, CallRefused, PostRefresh, Forget
  <2> QED
    BY <2>1, <2>2, <2>3, <2>4, <2>5 DEF ClientTypes
<1>4. CASE RefreshAdopted(t) \/ PairAnswered(t)
  <2>0. Reply(t).token \in 0..n
    BY <1>4, ReplyTypes DEF RefreshAdopted, PairAnswered
  <2>1. FlowTypes'
    BY <1>0, <1>4, <2>0 DEF FlowTypes, RefreshAdopted, PairAnswered, Adopt
  <2>2. FreshTypes'
    BY <1>0, <1>4, <2>0 DEF FreshTypes, RefreshAdopted, PairAnswered, Adopt
  <2>3. TokenTypes(n)'
    BY <1>0, <1>4, <2>0 DEF TokenTypes, RefreshAdopted, PairAnswered, Adopt
  <2>4. PhaseTypes'
    BY <1>0, <1>4, <2>0 DEF PhaseTypes, RefreshAdopted, PairAnswered, Adopt
  <2>5. FlagTypes'
    BY <1>0, <1>4, <2>0 DEF FlagTypes, RefreshAdopted, PairAnswered, Adopt
  <2> QED
    BY <2>1, <2>2, <2>3, <2>4, <2>5 DEF ClientTypes
<1>5. CASE RefreshRefused(t)
  <2>1. FlowTypes'
    BY <1>0, <1>5 DEF FlowTypes, RefreshRefused, Forget, Settle, Settled
  <2>2. FreshTypes'
    BY <1>0, <1>5 DEF FreshTypes, RefreshRefused, Forget, Settle, Settled
  <2>3. TokenTypes(n)'
    BY <1>0, <1>5 DEF TokenTypes, RefreshRefused, Forget, Settle, Settled
  <2>4. PhaseTypes'
    BY <1>0, <1>5 DEF PhaseTypes, RefreshRefused, Forget, Settle, Settled
  <2>5. FlagTypes'
    BY <1>0, <1>5 DEF FlagTypes, RefreshRefused, Forget, Settle, Settled
  <2> QED
    BY <2>1, <2>2, <2>3, <2>4, <2>5 DEF ClientTypes
<1>6. CASE Kept(t)
  <2>1. FlowTypes'
    BY <1>0, <1>6 DEF FlowTypes, Kept, Settle, Settled, StartGateway, Recover, PostRefresh
  <2>2. FreshTypes'
    BY <1>0, <1>6 DEF FreshTypes, Kept, Settle, Settled, StartGateway, Recover, PostRefresh
  <2>3. TokenTypes(n)'
    BY <1>0, <1>6 DEF TokenTypes, Kept, Settle, Settled, StartGateway, Recover, PostRefresh
  <2>4. PhaseTypes'
    BY <1>0, <1>6 DEF PhaseTypes, Kept, Settle, Settled, StartGateway, Recover, PostRefresh
  <2>5. FlagTypes'
    BY <1>0, <1>6 DEF FlagTypes, Kept, Settle, Settled, StartGateway, Recover, PostRefresh
  <2> QED
    BY <2>1, <2>2, <2>3, <2>4, <2>5 DEF ClientTypes
<1>7. CASE Start(t) \/ UserPairs(t)
  <2>1. FlowTypes'
    BY <1>0, <1>7 DEF FlowTypes, Start, UserPairs, PostRefresh, PostPair
  <2>2. FreshTypes'
    BY <1>0, <1>7 DEF FreshTypes, Start, UserPairs, PostRefresh, PostPair
  <2>3. TokenTypes(n)'
    BY <1>0, <1>7 DEF TokenTypes, Start, UserPairs, PostRefresh, PostPair
  <2>4. PhaseTypes'
    BY <1>0, <1>7 DEF PhaseTypes, Start, UserPairs, PostRefresh, PostPair
  <2>5. FlagTypes'
    BY <1>0, <1>7 DEF FlagTypes, Start, UserPairs, PostRefresh, PostPair
  <2> QED
    BY <2>1, <2>2, <2>3, <2>4, <2>5 DEF ClientTypes
<1>8. CASE SignOut(t) \/ LoggedOut(t)
  <2>1. FlowTypes'
    BY <1>0, <1>8 DEF FlowTypes, SignOut, LoggedOut, PostLogout, Forget
  <2>2. FreshTypes'
    BY <1>0, <1>8 DEF FreshTypes, SignOut, LoggedOut, PostLogout, Forget
  <2>3. TokenTypes(n)'
    BY <1>0, <1>8 DEF TokenTypes, SignOut, LoggedOut, PostLogout, Forget
  <2>4. PhaseTypes'
    BY <1>0, <1>8 DEF PhaseTypes, SignOut, LoggedOut, PostLogout, Forget
  <2>5. FlagTypes'
    BY <1>0, <1>8 DEF FlagTypes, SignOut, LoggedOut, PostLogout, Forget
  <2> QED
    BY <2>1, <2>2, <2>3, <2>4, <2>5 DEF ClientTypes
<1>9. CASE NetworkError(t)
  <2>1. FlowTypes'
    BY <1>0, <1>9 DEF FlowTypes, NetworkError, Settle, Settled, StartGateway, Recover, PostRefresh, Forget
  <2>2. FreshTypes'
    BY <1>0, <1>9 DEF FreshTypes, NetworkError, Settle, Settled, StartGateway, Recover, PostRefresh, Forget
  <2>3. TokenTypes(n)'
    BY <1>0, <1>9 DEF TokenTypes, NetworkError, Settle, Settled, StartGateway, Recover, PostRefresh, Forget
  <2>4. PhaseTypes'
    BY <1>0, <1>9 DEF PhaseTypes, NetworkError, Settle, Settled, StartGateway, Recover, PostRefresh, Forget
  <2>5. FlagTypes'
    BY <1>0, <1>9 DEF FlagTypes, NetworkError, Settle, Settled, StartGateway, Recover, PostRefresh, Forget
  <2> QED
    BY <2>1, <2>2, <2>3, <2>4, <2>5 DEF ClientTypes
<1> QED
  BY <1>1, <1>2, <1>3, <1>4, <1>5, <1>6, <1>7, <1>8, <1>9 DEF Task

\* The steps that are no task's.
LEMMA OtherTypes ==
  ASSUME AccountTypeOK, UserSignsOut \/ Relaunch \/ GatewayReady \/ AccessExpires \/ Server,
         NEW n \in Nat, 0..issued \subseteq 0..n
  PROVE  ClientTypes(n)'
<1>0. ClientTypes(n) /\ FlowTypes /\ FreshTypes /\ TokenTypes(n) /\ PhaseTypes /\ FlagTypes
  BY TypesGrow DEF ClientTypes
<1> USE DEF tasks, memory, app, notes, SignOuts
<1>1. CASE UserSignsOut \/ GatewayReady \/ AccessExpires
  <2>1. FlowTypes' /\ FreshTypes' /\ TokenTypes(n)'
    BY <1>0, <1>1 DEF FlowTypes, FreshTypes, TokenTypes, UserSignsOut, GatewayReady, AccessExpires
  <2>2. PhaseTypes'
    BY <1>0, <1>1 DEF PhaseTypes, UserSignsOut, GatewayReady, AccessExpires
  <2>3. FlagTypes'
    BY <1>0, <1>1 DEF FlagTypes, UserSignsOut, GatewayReady, AccessExpires
  <2> QED
    BY <2>1, <2>2, <2>3 DEF ClientTypes
<1>2. CASE Relaunch
  <2>1. FlowTypes' /\ FreshTypes' /\ TokenTypes(n)'
    BY <1>0, <1>2 DEF FlowTypes, FreshTypes, TokenTypes, Relaunch
  <2>2. PhaseTypes'
    BY <1>0, <1>2 DEF PhaseTypes, Relaunch
  <2>3. FlagTypes'
    BY <1>0, <1>2 DEF FlagTypes, Relaunch
  <2> QED
    BY <2>1, <2>2, <2>3 DEF ClientTypes
<1>3. CASE Server
  <2>1. UNCHANGED <<tasks, memory, vault, app, told>>
    BY <1>3 DEF Server, ServerAction
  <2>2. FlowTypes' /\ FreshTypes' /\ TokenTypes(n)'
    BY <1>0, <2>1 DEF FlowTypes, FreshTypes, TokenTypes
  <2>3. PhaseTypes' /\ FlagTypes'
    BY <1>0, <2>1 DEF PhaseTypes, FlagTypes
  <2> QED
    BY <2>2, <2>3 DEF ClientTypes
<1> QED
  BY <1>1, <1>2, <1>3

\* The types, and the table's invariant.
LEMMA AccountTypesKept ==
  ASSUME AccountTypeOK, TokensInv, [AccountNext]_accountVars
  PROVE  AccountTypeOK' /\ TokensInv'
<1>1. [TokensNext]_tokenVars
  BY AccountIsToken
<1>2. TokensTypeOK' /\ TokensInv'
  BY <1>1, NextKeeps DEF Inductive, AccountTypeOK
<1>3. issued' \in Nat /\ 0..issued \subseteq 0..issued'
  BY <1>1, IssuedGrows DEF AccountTypeOK
<1>4. PICK n \in Nat : n = issued'
  BY <1>3
<1>5. 0..issued \subseteq 0..n
  BY <1>3, <1>4
<1>6. ClientTypes(n)' /\ overtaken' \in BOOLEAN
  <2>1. CASE UNCHANGED accountVars
    <3>1. ClientTypes(n)
      BY <1>5, TypesGrow
    <3>2. ClientTypes(n)'
      BY <2>1, <3>1 DEF accountVars, ClientTypes, FlowTypes, FreshTypes, TokenTypes, PhaseTypes, FlagTypes
    <3> QED
      BY <2>1, <3>2 DEF accountVars, AccountTypeOK
  <2>2. CASE AccountNext
    <3>1. overtaken' \in BOOLEAN
      BY <2>2 DEF AccountNext, Noted
    <3>2. ASSUME NEW t \in Tasks, Task(t) PROVE ClientTypes(n)'
      BY <1>5, <3>2, TaskTypes
    <3> QED
      BY <1>5, <2>2, <3>1, <3>2, OtherTypes DEF AccountNext, Noted
  <2> QED
    BY <2>1, <2>2
<1>7. AccountTypeOK'
  <2>1. FlowTypes' /\ FreshTypes' /\ TokenTypes(n)'
    BY <1>6 DEF ClientTypes
  <2>2. PhaseTypes' /\ FlagTypes'
    BY <1>6 DEF ClientTypes
  <2> QED
    BY <1>2, <1>4, <1>6, <2>1, <2>2 DEF AccountTypeOK, FlowTypes, FreshTypes, TokenTypes, PhaseTypes,
      FlagTypes
<1> QED
  BY <1>2, <1>7

-----------------------------------------------------------------------------
(***************************************************************************)
(* What each await is for: GoalInv.                                        *)
(***************************************************************************)
\* What the steps know of the flows' types.
LEMMA FlowsTyped == AccountTypeOK => FlowTypes /\ held \in [Tasks -> 0..issued]
BY DEF AccountTypeOK, FlowTypes

\* A refresh or a pairing that is answered "ok" is answered with a token.
LEMMA ReplyHasToken ==
  ASSUME AccountTypeOK, HandInv, NEW t \in Tasks, at[t] \in {"refresh", "pair"}, Answered(t),
         Reply(t).is = "ok"
  PROVE  Reply(t).token # 0
BY DEF HandInv, Answered, Reply

LEMMA GoalKept ==
  ASSUME AccountTypeOK, GoalInv, HandInv, NEW t \in Tasks, Task(t)
  PROVE  GoalInv'
<1>0. FlowTypes /\ held \in [Tasks -> 0..issued]
  BY FlowsTyped
<1> USE DEF tasks, memory, app, notes, Await, Finish, SignOuts, FlowTypes, GoalInv
<1>1. CASE Call(t)
  BY <1>0, <1>1 DEF Call, PostCall
<1>2. CASE CallSucceeds(t)
  BY <1>0, <1>2 DEF CallSucceeds
<1>3. CASE CallLost(t)
  BY <1>0, <1>3 DEF CallLost, Forget
<1>4. CASE CallRefused(t)
  BY <1>0, <1>4 DEF CallRefused, MustRefresh, PostRefresh, Forget
<1>5. CASE RefreshAdopted(t)
  <2>1. Reply(t).token # 0
    BY <1>5, ReplyHasToken DEF RefreshAdopted
  <2> QED
    BY <1>0, <1>5, <2>1 DEF RefreshAdopted, Adopt
<1>6. CASE PairAnswered(t)
  <2>1. Reply(t).is = "ok" => Reply(t).token # 0
    BY <1>6, ReplyHasToken DEF PairAnswered
  <2> QED
    BY <1>0, <1>6, <2>1 DEF PairAnswered, Adopt
<1>7. CASE RefreshRefused(t)
  BY <1>0, <1>7 DEF RefreshRefused, Forget, Settle, Settled
<1>8. CASE Kept(t)
  BY <1>0, <1>8 DEF Kept, Settle, Settled, StartGateway, Recover, PostRefresh
<1>9. CASE Start(t) 
  BY <1>0, <1>9 DEF Start, PostRefresh
<1>10. CASE UserPairs(t)
  BY <1>0, <1>10 DEF UserPairs, PostPair
<1>11. CASE SignOut(t)
  BY <1>0, <1>11 DEF SignOut, PostLogout, Forget
<1>12. CASE LoggedOut(t)
  BY <1>0, <1>12 DEF LoggedOut, Forget
<1>13. CASE Cleared(t)
  BY <1>0, <1>13 DEF Cleared
<1>14. CASE NetworkError(t)
  BY <1>0, <1>14 DEF NetworkError, Settle, Settled, StartGateway, Recover, PostRefresh, Forget
<1> QED
  BY <1>1, <1>2, <1>3, <1>4, <1>5, <1>6, <1>7, <1>8, <1>9, <1>10, <1>11, <1>12, <1>13, <1>14 DEF Task

-----------------------------------------------------------------------------
(***************************************************************************)
(* Each exchange has a handler of its own: HandInv.                        *)
(***************************************************************************)
LEMMA HandlersTyped ==
  ASSUME AccountTypeOK
  PROVE  /\ pc \in [Handlers -> Labels]
         /\ presented \in [Handlers -> 0..issued]
         /\ answer \in [Handlers -> [is : Answers, token : 0..issued]]
BY DEF AccountTypeOK, TokensTypeOK

\* An exchange begins, at an idle handler.
LEMMA BeginHand ==
  ASSUME AccountTypeOK, HandInv, NEW t \in Tasks, NEW h \in Handlers, NEW l, NEW g, NEW s, NEW tok,
         Begin(h, s, tok), Await(t, l, g, h), happened \subseteq happened',
         \/ l = "refresh" /\ s = "find"
         \/ l = "pair" /\ s = "insert"
         \/ l = "logout" /\ s = "logout"
  PROVE  HandInv'
<1>0. FlowTypes /\ pc \in [Handlers -> Labels]
  BY FlowsTyped, HandlersTyped
<1>1. pc[h] = "idle" /\ pc' = [pc EXCEPT ![h] = s] /\ answer' = answer
  BY DEF Begin
<1>2. at' = [at EXCEPT ![t] = l] /\ hand' = [hand EXCEPT ![t] = h]
  BY DEF Await
<1>3. \A u \in Tasks : hand[u] # h
  BY <1>1 DEF HandInv, Stages
<1>4. ASSUME NEW u \in Tasks, hand'[u] # None
      PROVE  /\ at'[u] \in DOMAIN Stages
             /\ pc'[hand'[u]] \in Stages[at'[u]]
             /\ at'[u] # "logout" /\ answer'[hand'[u]].is = "ok" => answer'[hand'[u]].token # 0
             /\ \A v \in Tasks : hand'[v] = hand'[u] => v = u
  <2>1. CASE u = t
    <3>1. at'[u] = l /\ hand'[u] = h /\ pc'[h] = s
      BY <1>0, <1>1, <1>2, <2>1 DEF FlowTypes
    <3>2. answer'[h].is # "ok"
      BY <1>1 DEF HandInv
    <3>3. \A v \in Tasks : hand'[v] = h => v = t
      BY <1>0, <1>2, <1>3 DEF FlowTypes
    <3> QED
      BY <2>1, <3>1, <3>2, <3>3 DEF Stages
  <2>2. CASE u # t
    <3>1. at'[u] = at[u] /\ hand'[u] = hand[u] /\ pc'[hand[u]] = pc[hand[u]]
      BY <1>0, <1>1, <1>2, <1>3, <1>4, <2>2 DEF FlowTypes
    <3>2. \A v \in Tasks : hand'[v] = hand[u] => v = u
      BY <1>0, <1>2, <1>3, <1>4, <3>1 DEF FlowTypes, HandInv
    <3> QED
      BY <1>1, <1>4, <3>1, <3>2 DEF HandInv
  <2> QED
    BY <2>1, <2>2
<1>5. \A k \in Handlers : /\ pc'[k] = "done" <=> answer'[k].is # "none"
                          /\ answer'[k].is = "error" => "failure" \in happened'
  BY <1>0, <1>1 DEF HandInv
<1> QED
  BY <1>4, <1>5 DEF HandInv

\* A request that never reaches a handler, or a wait for anything else.
LEMMA AloneHand ==
  ASSUME AccountTypeOK, HandInv, NEW t \in Tasks, NEW l, NEW g, UNCHANGED tokenVars,
         Await(t, l, g, None), happened \subseteq happened'
  PROVE  HandInv'
BY FlowsTyped DEF FlowTypes, HandInv, Await, tokenVars

LEMMA PostRefreshHand ==
  ASSUME AccountTypeOK, HandInv, NEW t \in Tasks, NEW g, NEW tok, PostRefresh(t, g, tok),
         happened \subseteq happened'
  PROVE  HandInv'
BY BeginHand, AloneHand DEF PostRefresh, Refresh

LEMMA PostPairHand ==
  ASSUME AccountTypeOK, HandInv, NEW t \in Tasks, PostPair(t), happened \subseteq happened'
  PROVE  HandInv'
BY BeginHand, AloneHand DEF PostPair, Pair

LEMMA PostLogoutHand ==
  ASSUME AccountTypeOK, HandInv, NEW t \in Tasks, NEW tok, PostLogout(t, tok),
         happened \subseteq happened'
  PROVE  HandInv'
BY BeginHand, AloneHand DEF PostLogout, Logout

LEMMA StartGatewayHand ==
  ASSUME AccountTypeOK, HandInv, NEW t \in Tasks, StartGateway(t), happened \subseteq happened'
  PROVE  HandInv'
<1>1. CASE Finish(t) /\ UNCHANGED tokenVars
  BY <1>1, AloneHand DEF Finish
<1>2. CASE PostRefresh(t, "recover", refresh)
  BY <1>2, PostRefreshHand
<1> QED
  BY <1>1, <1>2 DEF StartGateway, Recover

LEMMA HandKept ==
  ASSUME AccountTypeOK, GoalInv, HandInv, NEW t \in Tasks, Task(t)
  PROVE  HandInv'
<1>0. /\ FlowTypes
      /\ pc \in [Handlers -> Labels] /\ answer \in [Handlers -> [is : Answers, token : 0..issued]]
  BY FlowsTyped, HandlersTyped
<1> USE DEF tasks, memory, app, notes, Await, Finish, SignOuts, FlowTypes, HandInv, Stages,
      tokenVars, table, handler
<1>1. CASE Call(t)
  BY <1>0, <1>1 DEF Call, PostCall
<1>2. CASE CallSucceeds(t)
  BY <1>0, <1>2 DEF CallSucceeds
<1>3. CASE CallLost(t)
  BY <1>0, <1>3 DEF CallLost, Forget
<1>4. CASE CallRefused(t)
  <2>1. CASE UNCHANGED tokenVars /\ \E l, g : Await(t, l, g, None)
    BY <1>4, <2>1, AloneHand DEF CallRefused
  <2>2. CASE PostRefresh(t, "call", refresh)
    BY <1>4, <2>2, PostRefreshHand DEF CallRefused
  <2> HIDE DEF Await, HandInv
  <2> QED
    BY <1>4, <2>1, <2>2 DEF CallRefused
<1>5. CASE RefreshAdopted(t)
  BY <1>0, <1>5 DEF RefreshAdopted, Adopt, Respond, NoAnswer, Answered
<1>6. CASE PairAnswered(t)
  BY <1>0, <1>6 DEF PairAnswered, Adopt, Respond, NoAnswer, Answered
<1>7. CASE RefreshRefused(t)
  BY <1>0, <1>7 DEF RefreshRefused, Forget, Settle, Settled, Respond, NoAnswer, Answered
<1>8. CASE Kept(t)
  <2>0. happened' = happened
    BY <1>8 DEF Kept
  <2>1. CASE goal[t] = "call"
    BY <1>0, <1>8, <2>1 DEF Kept, Settle
  <2>2. CASE goal[t] = "pair"
    BY <1>0, <1>8, <2>2 DEF Kept
  <2>3. CASE goal[t] \in {"start", "recover"}
    <3>1. StartGateway(t)
      BY <1>8, <2>3 DEF Kept
    <3> QED
      BY <2>0, <3>1, StartGatewayHand
  <2> QED
    BY <1>8, <2>1, <2>2, <2>3 DEF Kept
<1>9. CASE Start(t) 
  BY <1>0, <1>9 DEF Start, PostRefresh, Refresh, Begin
<1>10. CASE UserPairs(t)
  <2>1. PostPair(t) /\ happened' = happened
    BY <1>10 DEF UserPairs
  <2> QED
    BY <2>1, PostPairHand
<1>11. CASE SignOut(t)
  <2>1. happened' = happened
    BY <1>11 DEF SignOut
  <2>2. CASE PostLogout(t, LogoutToken)
    BY <2>1, <2>2, PostLogoutHand
  <2>3. CASE UNCHANGED tokenVars /\ Await(t, "clear", "none", None)
    BY <2>1, <2>3, AloneHand
  <2> QED
    BY <1>11, <2>2, <2>3 DEF SignOut
<1>12. CASE LoggedOut(t)
  BY <1>0, <1>12 DEF LoggedOut, Forget, Respond, NoAnswer, Answered
<1>13. CASE Cleared(t)
  BY <1>0, <1>13 DEF Cleared
<1>14. CASE NetworkError(t)
  <2>0. happened \subseteq happened'
    BY <1>14 DEF NetworkError, Spend
  <2>1. CASE at[t] # "refresh"
    BY <1>0, <1>14, <2>0, <2>1 DEF NetworkError
  <2>2. CASE at[t] = "refresh" /\ goal[t] = "call"
    BY <1>0, <1>14, <2>0, <2>2 DEF NetworkError, Settle
  <2>3. CASE at[t] = "refresh" /\ goal[t] = "recover"
    BY <1>0, <1>14, <2>0, <2>3 DEF NetworkError
  <2>4. CASE at[t] = "refresh" /\ goal[t] = "start"
    <3>1. StartGateway(t)
      BY <1>14, <2>4 DEF NetworkError
    <3> QED
      BY <2>0, <3>1, StartGatewayHand
  <2> QED
    BY <1>14, <2>1, <2>2, <2>3, <2>4 DEF NetworkError
<1> QED
  BY <1>1, <1>2, <1>3, <1>4, <1>5, <1>6, <1>7, <1>8, <1>9, <1>10, <1>11, <1>12, <1>13, <1>14 DEF Task

\* The server's side: a handler goes on, fails or returns, whoever waits for it.
LEMMA ServerHand ==
  ASSUME AccountTypeOK, HandInv, Server
  PROVE  HandInv'
<1>0. /\ FlowTypes /\ issued \in Nat /\ presented \in [Handlers -> 0..issued]
      /\ pc \in [Handlers -> Labels] /\ answer \in [Handlers -> [is : Answers, token : 0..issued]]
  BY FlowsTyped, HandlersTyped DEF AccountTypeOK, TokensTypeOK
<1>1. at' = at /\ hand' = hand
  BY DEF Server, ServerAction, tasks
<1>2. happened \subseteq happened'
  BY DEF Server, ServerAction, Spend
<1>4. ASSUME NEW h \in Handlers, HandlerStep(h) \/ (Fail(h) /\ Spend("failure")) PROVE HandInv'
  <2>2. CASE Find(h)
    <3>1. pc[h] = "find" /\ Verdict(presented[h]) \in {"unauthorized", "revoke", "consume"}
      BY <2>2 DEF Find, Verdict
    <3>2. CASE Return(h, "unauthorized", 0)
      BY <1>0, <1>1, <1>2, <3>1, <3>2 DEF Return, HandInv, FlowTypes, Stages
    <3>3. CASE /\ Verdict(presented[h]) # "unauthorized"
               /\ Proceed(h, Verdict(presented[h]), family[presented[h]])
      BY <1>0, <1>1, <1>2, <3>1, <3>3 DEF Proceed, HandInv, FlowTypes, Stages
    <3> QED
      BY <2>2, <3>2, <3>3 DEF Find
  <2>3. CASE Consume(h)
    BY <1>0, <1>1, <1>2, <2>3 DEF Consume, Proceed, HandInv, FlowTypes, Stages
  <2>4. CASE RevokeFamily(h)
    <3>1. CASE pc[h] = "revoke" /\ Return(h, "reused", 0)
      BY <1>0, <1>1, <1>2, <3>1 DEF Return, HandInv, FlowTypes, Stages
    <3>2. CASE pc[h] = "end" /\ Return(h, "ok", 0)
      <4>1. \A u \in Tasks : hand[u] = h => at[u] = "logout"
        BY <3>2 DEF HandInv, Stages
      <4> QED
        BY <1>0, <1>1, <1>2, <3>2, <4>1 DEF Return, HandInv, FlowTypes, Stages
    <3> QED
      BY <2>4, <3>1, <3>2 DEF RevokeFamily
  <2>5. CASE Insert(h)
    BY <1>0, <1>1, <1>2, <2>5 DEF Insert, Return, HandInv, FlowTypes, Stages
  <2>6. CASE FindToEnd(h)
    <3>1. CASE Return(h, "ok", 0)
      <4>1. \A u \in Tasks : hand[u] = h => at[u] = "logout"
        BY <2>6 DEF FindToEnd, HandInv, Stages
      <4> QED
        BY <1>0, <1>1, <1>2, <3>1, <4>1 DEF Return, HandInv, FlowTypes, Stages
    <3>2. CASE Proceed(h, "end", family[presented[h]])
      BY <1>0, <1>1, <1>2, <2>6, <3>2 DEF FindToEnd, Proceed, HandInv, FlowTypes, Stages
    <3> QED
      BY <2>6, <3>1, <3>2 DEF FindToEnd
  <2>7. CASE Fail(h) /\ Spend("failure")
    BY <1>0, <1>1, <1>2, <2>7 DEF Fail, Return, Spend, HandInv, FlowTypes, Stages
  <2> QED
    BY <1>4, <2>2, <2>3, <2>4, <2>5, <2>6, <2>7 DEF HandlerStep
<1>5. ASSUME NEW h \in Handlers, NEW t, Refresh(h, t) PROVE HandInv'
  BY <1>0, <1>1, <1>2, <1>5 DEF Refresh, Begin, HandInv, FlowTypes, Stages
<1>6. ASSUME NEW h \in Handlers, \A t \in Tasks : hand[t] # h, Respond(h) PROVE HandInv'
  BY <1>0, <1>1, <1>2, <1>6 DEF Respond, NoAnswer, HandInv, FlowTypes, Stages
<1>7. ASSUME UNCHANGED handler PROVE HandInv'
  BY <1>0, <1>1, <1>2, <1>7 DEF handler, HandInv, FlowTypes
<1> QED
  BY <1>4, <1>5, <1>6, <1>7 DEF Server, ServerAction, Expire, DeleteExpired

\* The other steps.
LEMMA OtherGoalHand ==
  ASSUME AccountTypeOK, GoalInv, HandInv, UserSignsOut \/ Relaunch \/ GatewayReady \/ AccessExpires
  PROVE  GoalInv' /\ HandInv'
<1>0. FlowTypes
  BY FlowsTyped
<1> USE DEF tasks, memory, app, notes, tokenVars, FlowTypes
<1>1. CASE UserSignsOut \/ GatewayReady \/ AccessExpires
  <2>1. /\ at' = at /\ goal' = goal /\ hand' = hand /\ held' = held /\ refreshing' = refreshing
        /\ pc' = pc /\ answer' = answer /\ happened \subseteq happened'
    BY <1>1 DEF UserSignsOut, GatewayReady, AccessExpires, Spend
  <2> QED
    BY <2>1 DEF GoalInv, HandInv
<1>2. CASE Relaunch
  BY <1>0, <1>2 DEF Relaunch, Spend, GoalInv, HandInv
<1> QED
  BY <1>1, <1>2

-----------------------------------------------------------------------------
(***************************************************************************)
(* Where no sign-out has met a refresh or a pairing: OrderlyInv.           *)
(***************************************************************************)
LEMMA OrderKept ==
  ASSUME AccountTypeOK, GoalInv, HandInv, NEW t \in Tasks, Task(t),
         FlowOrder, LeaveOrder, BootOrder, PairOrder, ~Overlap, ~Overlap'
  PROVE  FlowOrder' /\ LeaveOrder' /\ BootOrder' /\ PairOrder'
<1>0. FlowTypes /\ fresh \in [Tasks -> BOOLEAN] /\ held \in [Tasks -> 0..issued] /\ due \in Nat
  BY FlowsTyped DEF AccountTypeOK
<1> USE DEF tasks, memory, app, notes, Await, Finish, SignOuts, FlowTypes, GoalInv,
      FlowOrder, LeaveOrder, BootOrder, PairOrder, Overlap, Leaving, Clean
<1>1. CASE Call(t)
  <2>1. FlowOrder'
    BY <1>0, <1>1 DEF Call, PostCall
  <2>2. LeaveOrder'
    BY <1>0, <1>1 DEF Call, PostCall
  <2>3. BootOrder'
    BY <1>0, <1>1 DEF Call, PostCall
  <2>4. PairOrder'
    BY <1>0, <1>1 DEF Call, PostCall
  <2> QED
    BY <2>1, <2>2, <2>3, <2>4
<1>2. CASE CallSucceeds(t)
  <2>1. FlowOrder'
    BY <1>0, <1>2 DEF CallSucceeds
  <2>2. LeaveOrder'
    BY <1>0, <1>2 DEF CallSucceeds
  <2>3. BootOrder'
    BY <1>0, <1>2 DEF CallSucceeds
  <2>4. PairOrder'
    BY <1>0, <1>2 DEF CallSucceeds
  <2> QED
    BY <2>1, <2>2, <2>3, <2>4
<1>3. CASE CallLost(t)
  <2>1. FlowOrder'
    BY <1>0, <1>3 DEF CallLost, Forget
  <2>2. LeaveOrder'
    BY <1>0, <1>3 DEF CallLost, Forget
  <2>3. BootOrder'
    BY <1>0, <1>3 DEF CallLost, Forget
  <2>4. PairOrder'
    BY <1>0, <1>3 DEF CallLost, Forget
  <2> QED
    BY <2>1, <2>2, <2>3, <2>4
<1>4. CASE CallRefused(t)
  <2>1. FlowOrder'
    BY <1>0, <1>4 DEF CallRefused, MustRefresh, PostRefresh, Forget
  <2>2. LeaveOrder'
    BY <1>0, <1>4 DEF CallRefused, MustRefresh, PostRefresh, Forget
  <2>3. BootOrder'
    BY <1>0, <1>4 DEF CallRefused, MustRefresh, PostRefresh, Forget
  <2>4. PairOrder'
    BY <1>0, <1>4 DEF CallRefused, MustRefresh, PostRefresh, Forget
  <2> QED
    BY <2>1, <2>2, <2>3, <2>4
<1>5. CASE RefreshAdopted(t)
  <2>0. Reply(t).is = "ok" => Reply(t).token # 0
    BY <1>5, ReplyHasToken DEF RefreshAdopted
  <2>1. FlowOrder'
    BY <1>0, <1>5, <2>0 DEF RefreshAdopted, Adopt
  <2>2. LeaveOrder'
    BY <1>0, <1>5, <2>0 DEF RefreshAdopted, Adopt
  <2>3. BootOrder'
    BY <1>0, <1>5, <2>0 DEF RefreshAdopted, Adopt
  <2>4. PairOrder'
    BY <1>0, <1>5, <2>0 DEF RefreshAdopted, Adopt
  <2> QED
    BY <2>1, <2>2, <2>3, <2>4
<1>6. CASE PairAnswered(t)
  <2>0. Reply(t).is = "ok" => Reply(t).token # 0
    BY <1>6, ReplyHasToken DEF PairAnswered
  <2>1. FlowOrder'
    BY <1>0, <1>6, <2>0 DEF PairAnswered, Adopt
  <2>2. LeaveOrder'
    BY <1>0, <1>6, <2>0 DEF PairAnswered, Adopt
  <2>3. BootOrder'
    BY <1>0, <1>6, <2>0 DEF PairAnswered, Adopt
  <2>4. PairOrder'
    BY <1>0, <1>6, <2>0 DEF PairAnswered, Adopt
  <2> QED
    BY <2>1, <2>2, <2>3, <2>4
<1>7. CASE RefreshRefused(t)
  <2>1. FlowOrder'
    BY <1>0, <1>7 DEF RefreshRefused, Forget, Settle, Settled
  <2>2. LeaveOrder'
    BY <1>0, <1>7 DEF RefreshRefused, Forget, Settle, Settled
  <2>3. BootOrder'
    BY <1>0, <1>7 DEF RefreshRefused, Forget, Settle, Settled
  <2>4. PairOrder'
    BY <1>0, <1>7 DEF RefreshRefused, Forget, Settle, Settled
  <2> QED
    BY <2>1, <2>2, <2>3, <2>4
<1>8. CASE Kept(t)
  <2>1. FlowOrder'
    <3>1. access = "valid" /\ refresh # 0 /\ access' = access /\ refresh' = refresh /\ at[t] = "keep"
      BY <1>8 DEF Kept
    <3>2. CASE goal[t] = "call"
      <4>1. Settle(t, "again") /\ phase' = phase
        BY <1>8, <3>2 DEF Kept
      <4>2. \A u \in Tasks : at'[u] = "again" => fresh'[u]
        BY <1>0, <3>1, <4>1 DEF Settle
      <4> QED
        BY <1>0, <3>1, <4>1, <4>2 DEF Settle
    <3>3. CASE goal[t] \in {"start", "recover"}
      BY <1>0, <1>8, <3>1, <3>3 DEF Kept, StartGateway
    <3>4. CASE goal[t] = "pair"
      BY <1>0, <1>8, <3>1, <3>4 DEF Kept
    <3> QED
      BY <1>8, <3>2, <3>3, <3>4 DEF Kept
  <2>2. LeaveOrder'
    BY <1>0, <1>8 DEF Kept, Settle, Settled, StartGateway, Recover, PostRefresh
  <2>3. BootOrder'
    BY <1>0, <1>8 DEF Kept, Settle, Settled, StartGateway, Recover, PostRefresh
  <2>4. PairOrder'
    BY <1>0, <1>8 DEF Kept, Settle, Settled, StartGateway, Recover, PostRefresh
  <2> QED
    BY <2>1, <2>2, <2>3, <2>4
<1>9. CASE Start(t)
  <2>1. FlowOrder'
    BY <1>0, <1>9 DEF Start, PostRefresh
  <2>2. LeaveOrder'
    BY <1>0, <1>9 DEF Start, PostRefresh
  <2>3. BootOrder'
    BY <1>0, <1>9 DEF Start, PostRefresh
  <2>4. PairOrder'
    BY <1>0, <1>9 DEF Start, PostRefresh
  <2> QED
    BY <2>1, <2>2, <2>3, <2>4
<1>10. CASE UserPairs(t)
  <2>1. FlowOrder'
    BY <1>0, <1>10 DEF UserPairs, PostPair
  <2>2. LeaveOrder'
    BY <1>0, <1>10 DEF UserPairs, PostPair
  <2>3. BootOrder'
    BY <1>0, <1>10 DEF UserPairs, PostPair
  <2>4. PairOrder'
    BY <1>0, <1>10 DEF UserPairs, PostPair
  <2> QED
    BY <2>1, <2>2, <2>3, <2>4
<1>11. CASE SignOut(t)
  <2>1. FlowOrder'
    BY <1>0, <1>11 DEF SignOut, PostLogout, LogoutToken, Forget
  <2>2. LeaveOrder'
    BY <1>0, <1>11 DEF SignOut, PostLogout, LogoutToken, Forget
  <2>3. BootOrder'
    BY <1>0, <1>11 DEF SignOut, PostLogout, LogoutToken, Forget
  <2>4. PairOrder'
    BY <1>0, <1>11 DEF SignOut, PostLogout, LogoutToken, Forget
  <2> QED
    BY <2>1, <2>2, <2>3, <2>4
<1>12. CASE LoggedOut(t)
  <2>1. FlowOrder'
    BY <1>0, <1>12 DEF LoggedOut, Forget
  <2>2. LeaveOrder'
    BY <1>0, <1>12 DEF LoggedOut, Forget
  <2>3. BootOrder'
    BY <1>0, <1>12 DEF LoggedOut, Forget
  <2>4. PairOrder'
    BY <1>0, <1>12 DEF LoggedOut, Forget
  <2> QED
    BY <2>1, <2>2, <2>3, <2>4
<1>13. CASE Cleared(t)
  <2>1. FlowOrder'
    BY <1>0, <1>13 DEF Cleared
  <2>2. LeaveOrder'
    BY <1>0, <1>13 DEF Cleared
  <2>3. BootOrder'
    BY <1>0, <1>13 DEF Cleared
  <2>4. PairOrder'
    BY <1>0, <1>13 DEF Cleared
  <2> QED
    BY <2>1, <2>2, <2>3, <2>4
<1>14. CASE NetworkError(t)
  <2>1. FlowOrder'
    BY <1>0, <1>14 DEF NetworkError, Settle, Settled, StartGateway, Recover, PostRefresh, Forget
  <2>2. LeaveOrder'
    BY <1>0, <1>14 DEF NetworkError, Settle, Settled, StartGateway, Recover, PostRefresh, Forget
  <2>3. BootOrder'
    BY <1>0, <1>14 DEF NetworkError, Settle, Settled, StartGateway, Recover, PostRefresh, Forget
  <2>4. PairOrder'
    BY <1>0, <1>14 DEF NetworkError, Settle, Settled, StartGateway, Recover, PostRefresh, Forget
  <2> QED
    BY <2>1, <2>2, <2>3, <2>4
<1> QED
  BY <1>1, <1>2, <1>3, <1>4, <1>5, <1>6, <1>7, <1>8, <1>9, <1>10, <1>11, <1>12, <1>13, <1>14 DEF Task

\* The steps that are no task's.
LEMMA OrderOther ==
  ASSUME AccountTypeOK, GoalInv, FlowOrder, LeaveOrder, BootOrder, PairOrder, ~Overlap, ~Overlap',
         UserSignsOut \/ Relaunch \/ GatewayReady \/ AccessExpires \/ Server
  PROVE  FlowOrder' /\ LeaveOrder' /\ BootOrder' /\ PairOrder'
<1>0. FlowTypes /\ due \in Nat
  BY FlowsTyped DEF AccountTypeOK
<1> USE DEF tasks, memory, app, notes, SignOuts, FlowTypes, GoalInv,
      FlowOrder, LeaveOrder, BootOrder, PairOrder, Overlap, Leaving, Clean
<1>1. CASE UserSignsOut
  BY <1>0, <1>1 DEF UserSignsOut
<1>2. CASE Relaunch
  BY <1>0, <1>2 DEF Relaunch
<1>3. CASE GatewayReady
  BY <1>0, <1>3 DEF GatewayReady
<1>4. CASE AccessExpires
  BY <1>0, <1>4 DEF AccessExpires
<1>5. CASE Server
  BY <1>0, <1>5 DEF Server, ServerAction
<1> QED
  BY <1>1, <1>2, <1>3, <1>4, <1>5

-----------------------------------------------------------------------------
(***************************************************************************)
(* A paired client stays paired: PairedInv.                                *)
(***************************************************************************)
\* Only a failed exchange and a refusal are no token.
LEMMA ReplyIsFailure ==
  ASSUME AccountTypeOK, HandInv, NEW t \in Tasks, Answered(t), Reply(t).is # "ok"
  PROVE  Reply(t).is \in Refusals \/ "failure" \in happened
BY ReplyTypes DEF HandInv, Reply, Answers

LEMMA PairedKept ==
  ASSUME AccountTypeOK, GoalInv, HandInv, NEW t \in Tasks, Task(t),
         FlowOrder, LeaveOrder, BootOrder, PairOrder, ~Overlap, ~Overlap',
         told \/ happened \cap {"fault", "failure"} # {} \/ Paired,
         ~told', happened' \cap {"fault", "failure"} = {}
  PROVE  Paired'
<1>0. FlowTypes /\ held \in [Tasks -> 0..issued] /\ due \in Nat
  BY FlowsTyped DEF AccountTypeOK
<1>a. happened \cap {"fault", "failure"} = {}
  BY DEF Task, Call, CallSucceeds, CallRefused, CallLost, RefreshAdopted, RefreshRefused, Kept, Start,
    UserPairs, PairAnswered, SignOut, LoggedOut, Cleared, NetworkError, Spend, notes
<1> USE DEF tasks, memory, app, notes, Await, Finish, SignOuts, FlowTypes, Paired, Leaving
<1>1. CASE Call(t)
  BY <1>0, <1>a, <1>1 DEF Call, PostCall, FlowOrder, PairOrder, Overlap, GoalInv
<1>2. CASE CallSucceeds(t)
  BY <1>0, <1>a, <1>2 DEF CallSucceeds, FlowOrder, PairOrder, Overlap, GoalInv
<1>3. CASE CallLost(t)
  BY <1>0, <1>a, <1>3 DEF CallLost, Forget, FlowOrder, PairOrder, Overlap, GoalInv
<1>4. CASE CallRefused(t)
  BY <1>0, <1>a, <1>4 DEF CallRefused, MustRefresh, PostRefresh, Forget, FlowOrder, PairOrder, Overlap, GoalInv
<1>5. CASE RefreshAdopted(t)
  <2>0. Reply(t).is = "ok" => Reply(t).token # 0
    BY <1>5, ReplyHasToken DEF RefreshAdopted
  <2> QED
    BY <1>0, <1>a, <1>5, <2>0 DEF RefreshAdopted, Adopt, FlowOrder, PairOrder, Overlap, GoalInv
<1>6. CASE PairAnswered(t)
  <2>0. Reply(t).is = "ok" => Reply(t).token # 0
    BY <1>6, ReplyHasToken DEF PairAnswered
  <2> QED
    BY <1>0, <1>a, <1>6, <2>0 DEF PairAnswered, Adopt, FlowOrder, PairOrder, Overlap, GoalInv
<1>7. CASE RefreshRefused(t)
  <2>0. Reply(t).is \in Refusals \/ "failure" \in happened
    BY <1>7, ReplyIsFailure DEF RefreshRefused
  <2> QED
    BY <1>0, <1>a, <1>7, <2>0 DEF RefreshRefused, Forget, Settle, Settled, FlowOrder, PairOrder, Overlap, GoalInv
<1>8. CASE Kept(t)
  BY <1>0, <1>a, <1>8 DEF Kept, Settle, Settled, StartGateway, Recover, PostRefresh, FlowOrder, PairOrder, Overlap, GoalInv
<1>9. CASE Start(t)
  BY <1>0, <1>a, <1>9 DEF Start, PostRefresh, FlowOrder, PairOrder, Overlap, GoalInv
<1>10. CASE UserPairs(t)
  BY <1>0, <1>a, <1>10 DEF UserPairs, PostPair, FlowOrder, PairOrder, Overlap, GoalInv
<1>11. CASE SignOut(t)
  BY <1>0, <1>a, <1>11 DEF SignOut, PostLogout, LogoutToken, Forget, FlowOrder, PairOrder, Overlap, GoalInv
<1>12. CASE LoggedOut(t)
  BY <1>0, <1>a, <1>12 DEF LoggedOut, Forget, FlowOrder, PairOrder, Overlap, GoalInv
<1>13. CASE Cleared(t)
  BY <1>0, <1>a, <1>13 DEF Cleared, FlowOrder, PairOrder, Overlap, GoalInv
<1>14. CASE NetworkError(t)
  BY <1>0, <1>a, <1>14 DEF NetworkError, Spend, Settle, Settled, StartGateway, Recover, PostRefresh, Forget, FlowOrder, PairOrder, Overlap, GoalInv
<1> QED
  BY <1>1, <1>2, <1>3, <1>4, <1>5, <1>6, <1>7, <1>8, <1>9, <1>10, <1>11, <1>12, <1>13, <1>14 DEF Task

LEMMA PairedOther ==
  ASSUME AccountTypeOK, FlowOrder, ~Overlap,
         told \/ happened \cap {"fault", "failure"} # {} \/ Paired,
         ~told', happened' \cap {"fault", "failure"} = {},
         UserSignsOut \/ Relaunch \/ GatewayReady \/ AccessExpires \/ Server
  PROVE  Paired'
<1>0. FlowTypes /\ due \in Nat
  BY FlowsTyped DEF AccountTypeOK
<1> USE DEF tasks, memory, app, notes, SignOuts, FlowTypes, Paired, Leaving, Spend
<1>1. CASE UserSignsOut
  BY <1>0, <1>1 DEF UserSignsOut
<1>2. CASE Relaunch
  BY <1>0, <1>2 DEF Relaunch
<1>3. CASE GatewayReady
  BY <1>0, <1>3 DEF GatewayReady
<1>4. CASE AccessExpires
  BY <1>0, <1>4 DEF AccessExpires
<1>5. CASE Server
  BY <1>0, <1>5 DEF Server, ServerAction
<1> QED
  BY <1>1, <1>2, <1>3, <1>4, <1>5

-----------------------------------------------------------------------------
(***************************************************************************)
(* Where nothing has happened but sign-outs: LoyalInv.                     *)
(***************************************************************************)
\* Only calls refresh, one at a time, and no refresh meets a pairing.
LEMMA OneExchange ==
  ASSUME AccountTypeOK, GoalInv, NothingElse, FlowOrder, PairOrder
  PROVE  /\ \A t \in Tasks : at[t] = "refresh" => goal[t] = "call" /\ refreshing = t
         /\ \A t, u \in Tasks : at[t] \in {"refresh", "pair"} /\ at[u] \in {"refresh", "pair"} => t = u
         /\ \A t \in Tasks : at[t] = "pair" => Clean
<1>1. \A t \in Tasks : at[t] = "refresh" => goal[t] = "call" /\ refreshing = t
  BY DEF GoalInv, NothingElse
<1>2. \A t \in Tasks : at[t] = "pair" => Clean
  BY DEF GoalInv, FlowOrder, PairOrder
<1> QED
  BY <1>1, <1>2 DEF Clean, GoalInv

\* A sign-out that has met nothing: no exchange is under way.
LEMMA LeavingAlone ==
  ASSUME ~Overlap, Leaving
  PROVE  \A t \in Tasks : at[t] \notin {"pair", "refresh", "keep"}
BY DEF Overlap, Leaving

\* No refresh is refused.
LEMMA NoneRefused ==
  ASSUME AccountTypeOK, HandInv, NothingElse, NEW t \in Tasks, Answered(t)
  PROVE  Reply(t).is = "ok"
BY ReplyTypes DEF HandInv, NothingElse, Reply

\* A task itself changes nothing in the table.
LEMMA TaskTable ==
  ASSUME NEW t, Task(t)
  PROVE  UNCHANGED table
<1>1. \A g, tok : PostRefresh(t, g, tok) \/ PostLogout(t, tok) \/ PostPair(t) => UNCHANGED table
  BY DEF PostRefresh, PostLogout, PostPair, Refresh, Logout, Pair, Begin, tokenVars, table
<1>2. Answered(t) /\ Respond(hand[t]) => UNCHANGED table
  BY DEF Respond
<1>3. UNCHANGED tokenVars => UNCHANGED table
  BY DEF tokenVars, table
<1>4. StartGateway(t) => UNCHANGED table
  BY <1>1, <1>3 DEF StartGateway, Recover
<1> QED
  BY <1>1, <1>2, <1>3, <1>4 DEF Task, Call, CallSucceeds, CallRefused, CallLost, RefreshAdopted,
    RefreshRefused, Kept, Start, UserPairs, PairAnswered, SignOut, LoggedOut, Cleared, NetworkError

\* A step of a task.
LEMMA LoyalKept ==
  ASSUME AccountTypeOK, TokensInv, GoalInv, HandInv, NEW t \in Tasks, Task(t),
         FlowOrder, LeaveOrder, BootOrder, PairOrder, ~Overlap, ~Overlap',
         Loyal, happened' \subseteq {"signOut"}
  PROVE  Loyal'
<1>0. /\ FlowTypes /\ due \in Nat
      /\ pc \in [Handlers -> Labels] /\ answer \in [Handlers -> [is : Answers, token : 0..issued]]
      /\ presented \in [Handlers -> 0..issued]
  BY FlowsTyped, HandlersTyped DEF AccountTypeOK
<1>a. /\ \A u \in Tasks : at[u] = "refresh" => goal[u] = "call" /\ refreshing = u
      /\ \A u, v \in Tasks : at[u] \in {"refresh", "pair"} /\ at[v] \in {"refresh", "pair"} => u = v
      /\ \A u \in Tasks : at[u] = "pair" => Clean
  BY OneExchange DEF Loyal
<1>b. Leaving => \A u \in Tasks : at[u] \notin {"pair", "refresh", "keep"}
  BY LeavingAlone
<1>c. Usable' = Usable /\ rows' = rows /\ age' = age /\ issued' = issued
  BY TaskTable DEF table, Usable
<1>d. 0 \notin Usable
  BY DEF AccountTypeOK, TokensTypeOK, Usable
<1> USE DEF tasks, memory, app, notes, tokenVars, table, handler, Await, Finish, SignOuts, FlowTypes,
      Loyal, HandInv, Stages, Exchanged, Issuing, Leaving, Clean, FlowOrder
<1>1. CASE Call(t)
  <2>1. NothingElse'
    BY <1>0, <1>a, <1>b, <1>c, <1>1 DEF NothingElse, GoalInv, Call, PostCall
  <2>2. UsableIsHeld'
    BY <1>0, <1>a, <1>b, <1>c, <1>1 DEF UsableIsHeld, GoalInv, Call, PostCall
  <2>3. HeldIsUsable'
    BY <1>0, <1>a, <1>b, <1>c, <1>1 DEF HeldIsUsable, GoalInv, Call, PostCall
  <2>4. RefreshPresentsHeld'
    BY <1>0, <1>a, <1>b, <1>c, <1>1 DEF RefreshPresentsHeld, GoalInv, Call, PostCall
  <2>5. LogoutPresentsHeld'
    BY <1>0, <1>a, <1>b, <1>c, <1>1 DEF LogoutPresentsHeld, GoalInv, Call, PostCall
  <2> QED
    BY <2>1, <2>2, <2>3, <2>4, <2>5
<1>2. CASE CallSucceeds(t)
  <2>1. NothingElse'
    BY <1>0, <1>a, <1>b, <1>c, <1>2 DEF NothingElse, GoalInv, CallSucceeds
  <2>2. UsableIsHeld'
    BY <1>0, <1>a, <1>b, <1>c, <1>2 DEF UsableIsHeld, GoalInv, CallSucceeds
  <2>3. HeldIsUsable'
    BY <1>0, <1>a, <1>b, <1>c, <1>2 DEF HeldIsUsable, GoalInv, CallSucceeds
  <2>4. RefreshPresentsHeld'
    BY <1>0, <1>a, <1>b, <1>c, <1>2 DEF RefreshPresentsHeld, GoalInv, CallSucceeds
  <2>5. LogoutPresentsHeld'
    BY <1>0, <1>a, <1>b, <1>c, <1>2 DEF LogoutPresentsHeld, GoalInv, CallSucceeds
  <2> QED
    BY <2>1, <2>2, <2>3, <2>4, <2>5
<1>3. CASE CallRefused(t)
  <2>1. NothingElse'
    BY <1>0, <1>a, <1>b, <1>c, <1>3 DEF NothingElse, GoalInv, CallRefused, MustRefresh, PostRefresh, Forget, Refresh, Begin
  <2>2. UsableIsHeld'
    BY <1>0, <1>a, <1>b, <1>c, <1>3 DEF UsableIsHeld, GoalInv, CallRefused, MustRefresh, PostRefresh, Forget, Refresh, Begin
  <2>3. HeldIsUsable'
    BY <1>0, <1>a, <1>b, <1>c, <1>3 DEF HeldIsUsable, GoalInv, CallRefused, MustRefresh, PostRefresh, Forget, Refresh, Begin
  <2>4. RefreshPresentsHeld'
    <3>1. refresh # 0 /\ at'[t] = "refresh" => refresh \in Usable
      <4>1. ASSUME at'[t] = "refresh" PROVE \A u \in Tasks : at[u] \notin {"logout", "refresh"}
        BY <1>0, <1>a, <1>3, <4>1 DEF CallRefused, MustRefresh, PostRefresh, Overlap
      <4> QED
        BY <4>1 DEF HeldIsUsable
    <3> QED
      BY <1>0, <1>a, <1>b, <1>c, <1>3, <3>1 DEF RefreshPresentsHeld, GoalInv, CallRefused, MustRefresh, PostRefresh, Forget, Refresh, Begin
  <2>5. LogoutPresentsHeld'
    BY <1>0, <1>a, <1>b, <1>c, <1>3 DEF LogoutPresentsHeld, GoalInv, CallRefused, MustRefresh, PostRefresh, Forget, Refresh, Begin
  <2> QED
    BY <2>1, <2>2, <2>3, <2>4, <2>5
<1>4. CASE RefreshAdopted(t)
  <2>0. Reply(t).is = "ok" /\ Reply(t).token # 0
    BY <1>4, NoneRefused, ReplyHasToken DEF RefreshAdopted
  <2>1. NothingElse'
    BY <1>0, <1>a, <1>b, <1>c, <1>4, <2>0 DEF NothingElse, GoalInv, RefreshAdopted, Adopt, Answered, Reply, Respond, NoAnswer
  <2>2. UsableIsHeld'
    BY <1>0, <1>a, <1>b, <1>c, <1>4, <2>0 DEF UsableIsHeld, RefreshPresentsHeld, GoalInv, RefreshAdopted, Adopt, Answered, Reply, Respond, NoAnswer
  <2>3. HeldIsUsable'
    BY <1>0, <1>a, <1>b, <1>c, <1>4, <2>0 DEF HeldIsUsable, GoalInv, RefreshAdopted, Adopt, Answered, Reply, Respond, NoAnswer
  <2>4. RefreshPresentsHeld'
    BY <1>0, <1>a, <1>b, <1>c, <1>4, <2>0 DEF RefreshPresentsHeld, GoalInv, RefreshAdopted, Adopt, Answered, Reply, Respond, NoAnswer
  <2>5. LogoutPresentsHeld'
    BY <1>0, <1>a, <1>b, <1>c, <1>4, <2>0 DEF LogoutPresentsHeld, GoalInv, RefreshAdopted, Adopt, Answered, Reply, Respond, NoAnswer
  <2> QED
    BY <2>1, <2>2, <2>3, <2>4, <2>5
<1>5. CASE PairAnswered(t)
  <2>0. Reply(t).is = "ok" /\ Reply(t).token # 0
    BY <1>5, NoneRefused, ReplyHasToken DEF PairAnswered
  <2>1. NothingElse'
    BY <1>0, <1>a, <1>b, <1>c, <1>5, <2>0 DEF NothingElse, GoalInv, PairAnswered, Adopt, Answered, Reply, Respond, NoAnswer
  <2>2. UsableIsHeld'
    BY <1>0, <1>a, <1>b, <1>c, <1>5, <1>d, <2>0 DEF UsableIsHeld, GoalInv, PairAnswered, Adopt, Answered, Reply, Respond, NoAnswer
  <2>3. HeldIsUsable'
    BY <1>0, <1>a, <1>b, <1>c, <1>5, <2>0 DEF HeldIsUsable, GoalInv, PairAnswered, Adopt, Answered, Reply, Respond, NoAnswer
  <2>4. RefreshPresentsHeld'
    BY <1>0, <1>a, <1>b, <1>c, <1>5, <2>0 DEF RefreshPresentsHeld, GoalInv, PairAnswered, Adopt, Answered, Reply, Respond, NoAnswer
  <2>5. LogoutPresentsHeld'
    BY <1>0, <1>a, <1>b, <1>c, <1>5, <2>0 DEF LogoutPresentsHeld, GoalInv, PairAnswered, Adopt, Answered, Reply, Respond, NoAnswer
  <2> QED
    BY <2>1, <2>2, <2>3, <2>4, <2>5
<1>6. CASE Kept(t)
  <2>1. NothingElse'
    <3>1. phase' = "booting" => phase = "booting" /\ goal[t] = "call"
      BY <1>6 DEF NothingElse, Kept
    <3>2. phase' # "booting"
      BY <3>1 DEF BootOrder
    <3> QED
      BY <1>0, <1>a, <1>b, <1>c, <1>6, <3>2 DEF NothingElse, GoalInv, Kept, Settle
  <2>2. UsableIsHeld'
    BY <1>0, <1>a, <1>b, <1>c, <1>6 DEF UsableIsHeld, GoalInv, Kept, Settle, StartGateway
  <2>3. HeldIsUsable'
    BY <1>0, <1>a, <1>b, <1>c, <1>6 DEF HeldIsUsable, GoalInv, Kept, Settle, StartGateway
  <2>4. RefreshPresentsHeld'
    BY <1>0, <1>a, <1>b, <1>c, <1>6 DEF RefreshPresentsHeld, GoalInv, Kept, Settle, StartGateway
  <2>5. LogoutPresentsHeld'
    BY <1>0, <1>a, <1>b, <1>c, <1>6 DEF LogoutPresentsHeld, GoalInv, Kept, Settle, StartGateway
  <2> QED
    BY <2>1, <2>2, <2>3, <2>4, <2>5
<1>7. CASE Start(t)
  <2>0. vault = 0
    BY <1>7 DEF Start, NothingElse
  <2>1. NothingElse'
    BY <1>0, <1>a, <1>b, <1>c, <1>7, <2>0 DEF NothingElse, GoalInv, Start
  <2>2. UsableIsHeld'
    BY <1>0, <1>a, <1>b, <1>c, <1>7, <2>0 DEF UsableIsHeld, GoalInv, Start
  <2>3. HeldIsUsable'
    BY <1>0, <1>a, <1>b, <1>c, <1>7, <2>0 DEF HeldIsUsable, GoalInv, Start
  <2>4. RefreshPresentsHeld'
    BY <1>0, <1>a, <1>b, <1>c, <1>7, <2>0 DEF RefreshPresentsHeld, GoalInv, Start
  <2>5. LogoutPresentsHeld'
    BY <1>0, <1>a, <1>b, <1>c, <1>7, <2>0 DEF LogoutPresentsHeld, GoalInv, Start
  <2> QED
    BY <2>1, <2>2, <2>3, <2>4, <2>5
<1>8. CASE UserPairs(t)
  <2>1. NothingElse'
    BY <1>0, <1>a, <1>b, <1>c, <1>8 DEF NothingElse, GoalInv, UserPairs, PostPair, Pair, Begin
  <2>2. UsableIsHeld'
    BY <1>0, <1>a, <1>b, <1>c, <1>8 DEF UsableIsHeld, GoalInv, UserPairs, PostPair, Pair, Begin
  <2>3. HeldIsUsable'
    BY <1>0, <1>a, <1>b, <1>c, <1>8 DEF HeldIsUsable, GoalInv, UserPairs, PostPair, Pair, Begin
  <2>4. RefreshPresentsHeld'
    BY <1>0, <1>a, <1>b, <1>c, <1>8 DEF RefreshPresentsHeld, GoalInv, UserPairs, PostPair, Pair, Begin
  <2>5. LogoutPresentsHeld'
    BY <1>0, <1>a, <1>b, <1>c, <1>8 DEF LogoutPresentsHeld, GoalInv, UserPairs, PostPair, Pair, Begin
  <2> QED
    BY <2>1, <2>2, <2>3, <2>4, <2>5
<1>9. CASE SignOut(t)
  <2>1. NothingElse'
    BY <1>0, <1>a, <1>b, <1>c, <1>9 DEF NothingElse, GoalInv, SignOut, PostLogout, LogoutToken, Forget, Logout, Begin
  <2>2. UsableIsHeld'
    BY <1>0, <1>a, <1>b, <1>c, <1>9 DEF UsableIsHeld, GoalInv, SignOut, PostLogout, LogoutToken, Forget, Logout, Begin
  <2>3. HeldIsUsable'
    BY <1>0, <1>a, <1>b, <1>c, <1>9 DEF HeldIsUsable, GoalInv, SignOut, PostLogout, LogoutToken, Forget, Logout, Begin
  <2>4. RefreshPresentsHeld'
    BY <1>0, <1>a, <1>b, <1>c, <1>9 DEF RefreshPresentsHeld, GoalInv, SignOut, PostLogout, LogoutToken, Forget, Logout, Begin
  <2>5. LogoutPresentsHeld'
    BY <1>0, <1>a, <1>b, <1>c, <1>9 DEF LogoutPresentsHeld, GoalInv, SignOut, PostLogout, LogoutToken, Forget, Logout, Begin
  <2> QED
    BY <2>1, <2>2, <2>3, <2>4, <2>5
<1>10. CASE LoggedOut(t)
  <2>1. NothingElse'
    BY <1>0, <1>a, <1>b, <1>c, <1>10 DEF NothingElse, GoalInv, LoggedOut, Forget, Answered, Respond, NoAnswer
  <2>2. UsableIsHeld'
    BY <1>0, <1>a, <1>b, <1>c, <1>10 DEF UsableIsHeld, LogoutPresentsHeld, GoalInv, LoggedOut, Forget, Answered, Respond, NoAnswer
  <2>3. HeldIsUsable'
    BY <1>0, <1>a, <1>b, <1>c, <1>10 DEF HeldIsUsable, GoalInv, LoggedOut, Forget, Answered, Respond, NoAnswer
  <2>4. RefreshPresentsHeld'
    BY <1>0, <1>a, <1>b, <1>c, <1>10 DEF RefreshPresentsHeld, GoalInv, LoggedOut, Forget, Answered, Respond, NoAnswer
  <2>5. LogoutPresentsHeld'
    BY <1>0, <1>a, <1>b, <1>c, <1>10 DEF LogoutPresentsHeld, GoalInv, LoggedOut, Forget, Answered, Respond, NoAnswer
  <2> QED
    BY <2>1, <2>2, <2>3, <2>4, <2>5
<1>11. CASE Cleared(t)
  <2>1. NothingElse'
    BY <1>0, <1>a, <1>b, <1>c, <1>11 DEF NothingElse, GoalInv, Cleared
  <2>2. UsableIsHeld'
    BY <1>0, <1>a, <1>b, <1>c, <1>11 DEF UsableIsHeld, GoalInv, Cleared
  <2>3. HeldIsUsable'
    BY <1>0, <1>a, <1>b, <1>c, <1>11 DEF HeldIsUsable, GoalInv, Cleared
  <2>4. RefreshPresentsHeld'
    BY <1>0, <1>a, <1>b, <1>c, <1>11 DEF RefreshPresentsHeld, GoalInv, Cleared
  <2>5. LogoutPresentsHeld'
    BY <1>0, <1>a, <1>b, <1>c, <1>11 DEF LogoutPresentsHeld, GoalInv, Cleared
  <2> QED
    BY <2>1, <2>2, <2>3, <2>4, <2>5
<1>12. ~CallLost(t)
  BY DEF CallLost
<1>13. ~NetworkError(t)
  BY DEF NetworkError, Spend
<1>14. ~RefreshRefused(t)
  BY NoneRefused DEF RefreshRefused
<1> QED
  BY <1>1, <1>2, <1>3, <1>4, <1>5, <1>6, <1>7, <1>8, <1>9, <1>10, <1>11, <1>12, <1>13, <1>14 DEF Task

\* The steps that are no task's and not the server's.
LEMMA LoyalOther ==
  ASSUME Loyal, UserSignsOut \/ Relaunch \/ GatewayReady \/ AccessExpires,
         happened' \subseteq {"signOut"}
  PROVE  Loyal'
<1>1. ~Relaunch
  BY DEF Relaunch, Spend
<1>2. /\ UNCHANGED <<tokenVars, at, goal, hand, refresh, vault>>
      /\ phase' = "booting" => phase = "booting"
  BY <1>1 DEF UserSignsOut, GatewayReady, AccessExpires, tasks, memory, app, notes
<1>3. UNCHANGED <<rows, issued, age, Usable, pc, presented, answer>>
  BY <1>2 DEF tokenVars, Usable
<1>4. \A t : Exchanged(t)' = Exchanged(t) /\ Issuing(t)' = Issuing(t)
  BY <1>2, <1>3 DEF Exchanged, Issuing
<1>5. NothingElse'
  BY <1>2, <1>3 DEF Loyal, NothingElse
<1>6. UsableIsHeld' /\ HeldIsUsable' /\ RefreshPresentsHeld' /\ LogoutPresentsHeld'
  BY <1>2, <1>3 DEF Loyal, UsableIsHeld, HeldIsUsable, RefreshPresentsHeld, LogoutPresentsHeld,
    Exchanged, Issuing
<1> QED
  BY <1>5, <1>6 DEF Loyal

\* The handler of one exchange goes on.
LEMMA LoyalHandler ==
  ASSUME AccountTypeOK, TokensInv, GoalInv, HandInv, FlowOrder, PairOrder, ~Overlap, Loyal,
         NEW h \in Handlers, HandlerStep(h), UNCHANGED <<tasks, memory, vault, app>>
  PROVE  Loyal'
<1>0. /\ FlowTypes /\ issued \in Nat /\ refresh \in 0..issued
      /\ rows \subseteq 1..issued /\ consumed \subseteq 1..issued /\ revoked \subseteq 1..issued
      /\ pc \in [Handlers -> Labels] /\ answer \in [Handlers -> [is : Answers, token : 0..issued]]
      /\ presented \in [Handlers -> 0..issued]
  BY FlowsTyped, HandlersTyped DEF AccountTypeOK, TokensTypeOK
<1>1. PICK t \in Tasks : hand[t] = h /\ at[t] \in DOMAIN Stages /\ pc[h] \in Stages[at[t]] /\ pc[h] # "done"
  <2>1. pc[h] # "idle" /\ pc[h] # "done"
    BY DEF HandlerStep, Find, Consume, RevokeFamily, Insert, FindToEnd
  <2> QED
    BY <2>1 DEF Loyal, NothingElse, HandInv
<1>2. /\ \A u \in Tasks : hand[u] = h => u = t
      /\ \A u \in Tasks : hand[u] # None => at[u] \in {"refresh", "pair", "logout"} /\ pc[hand[u]] \in Stages[at[u]]
  BY <1>1 DEF HandInv, Stages
<1>3. \A u, v \in Tasks : at[u] \in {"refresh", "pair"} /\ at[v] \in {"refresh", "pair"} => u = v
  BY OneExchange DEF Loyal
<1>4. /\ at' = at /\ goal' = goal /\ hand' = hand /\ refresh' = refresh /\ vault' = vault /\ phase' = phase
  BY DEF tasks, memory, app
<1>5. Leaving => \A u \in Tasks : at[u] \notin {"pair", "refresh", "keep"}
  BY LeavingAlone
<1> USE DEF Loyal, Exchanged, Issuing, Stages, FlowTypes, Leaving
<1>6. CASE Find(h)
  <2>1. at[t] = "refresh" /\ presented[h] = refresh /\ refresh \in Usable /\ age[refresh] = "valid"
    <3>1. at[t] = "refresh" /\ presented[h] = refresh /\ refresh \in Usable
      BY <1>1, <1>6 DEF Find, RefreshPresentsHeld
    <3>2. refresh \in Tokens
      BY <1>0, <3>1 DEF Usable, AccountTypeOK, TokensTypeOK, Tokens
    <3> QED
      BY <3>1, <3>2 DEF NothingElse
  <2>2. Proceed(h, "consume", family[refresh]) /\ UNCHANGED table
    BY <1>6, <2>1 DEF Find, Verdict, Usable
  <2>3. Usable' = Usable /\ rows' = rows /\ issued' = issued /\ age' = age
    BY <2>2 DEF table, Usable
  <2>4. NothingElse'
    BY <1>0, <1>1, <1>4, <2>2, <2>3 DEF NothingElse, Proceed
  <2>5. UsableIsHeld' /\ HeldIsUsable'
    BY <1>0, <1>1, <1>2, <1>4, <1>6, <2>2, <2>3 DEF UsableIsHeld, HeldIsUsable, Proceed, Find
  <2>6. RefreshPresentsHeld' /\ LogoutPresentsHeld'
    BY <1>0, <1>1, <1>2, <1>4, <1>6, <2>1, <2>2, <2>3 DEF RefreshPresentsHeld, LogoutPresentsHeld, Proceed, Find
  <2> QED
    BY <2>4, <2>5, <2>6
<1>7. CASE Consume(h)
  <2>1. at[t] = "refresh" /\ presented[h] = refresh /\ refresh \in Usable
    BY <1>1, <1>7 DEF Consume, RefreshPresentsHeld
  <2>2. Proceed(h, "insert", found[h]) /\ consumed' = consumed \cup {refresh}
    BY <1>7, <2>1 DEF Consume, Consumable, Usable
  <2>3. Usable' = Usable \ {refresh} /\ rows' = rows /\ issued' = issued /\ age' = age
    BY <1>7, <2>2 DEF Consume, Usable
  <2>4. NothingElse'
    BY <1>0, <1>1, <1>4, <2>2, <2>3 DEF NothingElse, Proceed
  <2>5. \A u \in Tasks : ~Issuing(u) /\ ~Issuing(u)' /\ at[u] # "logout"
    BY <1>0, <1>1, <1>2, <1>3, <1>4, <1>5, <2>1, <2>2 DEF Proceed
  <2>6. UsableIsHeld' /\ HeldIsUsable'
    <3>1. Exchanged(t)'
      BY <1>0, <1>1, <1>4, <2>1, <2>2 DEF Proceed
    <3> QED
      BY <1>4, <2>3, <2>5, <3>1 DEF UsableIsHeld, HeldIsUsable
  <2>7. RefreshPresentsHeld' /\ LogoutPresentsHeld'
    BY <1>0, <1>1, <1>2, <1>3, <1>4, <2>1, <2>2, <2>3, <2>5 DEF RefreshPresentsHeld, LogoutPresentsHeld, Proceed
  <2> QED
    BY <2>4, <2>6, <2>7
<1>8. CASE RevokeFamily(h)
  <2>1. pc[h] = "end" /\ at[t] = "logout"
    BY <1>1, <1>8 DEF RevokeFamily, NothingElse
  <2>2. \A u \in Tasks : ~Issuing(u) /\ ~Issuing(u)' /\ at[u] # "refresh"
    BY <1>4, <1>5, <2>1
  <2>3. Usable \subseteq {refresh}
    BY <2>2 DEF UsableIsHeld
  <2>4. Usable' = {}
    <3>1. presented[h] = refresh \/ Usable = {}
      BY <1>1, <2>1 DEF LogoutPresentsHeld
    <3>2. Usable' = {u \in Usable : family[u] # found[h]}
      BY <1>8 DEF RevokeFamily, FamilyOf, Usable
    <3>3. found[h] = family[presented[h]]
      BY <2>1 DEF TokensInv, FamilyInv, Found
    <3> QED
      BY <2>3, <3>1, <3>2, <3>3
  <2>5. Return(h, "ok", 0) /\ rows' = rows /\ issued' = issued /\ age' = age
    BY <1>8, <2>1 DEF RevokeFamily
  <2>6. NothingElse'
    BY <1>0, <1>1, <1>4, <2>5 DEF NothingElse, Return
  <2>7. UsableIsHeld' /\ HeldIsUsable' /\ RefreshPresentsHeld' /\ LogoutPresentsHeld'
    BY <1>4, <2>1, <2>2, <2>4 DEF UsableIsHeld, HeldIsUsable, RefreshPresentsHeld, LogoutPresentsHeld
  <2> QED
    BY <2>6, <2>7
<1>9. CASE Insert(h)
  <2> DEFINE n == issued + 1
  <2>1. /\ at[t] \in {"refresh", "pair"} /\ pc[h] = "insert" /\ Return(h, "ok", n)
        /\ rows' = rows \cup {n} /\ issued' = n /\ age' = age
    BY <1>1, <1>9 DEF Insert
  <2>2. n \notin 1..issued /\ 1..n = (1..issued) \cup {n} /\ n # refresh
    BY <1>0
  <2>3. Usable' = Usable \cup {n}
    BY <1>0, <1>9, <2>1, <2>2 DEF Insert, Usable
  <2> HIDE DEF n
  <2>4. /\ \A u \in Tasks : ~Issuing(u) /\ at[u] # "logout"
        /\ \A u \in Tasks : Issuing(u)' => u = t
        /\ Issuing(t)' /\ answer'[h].token = n /\ hand'[t] = h
    BY <1>0, <1>1, <1>2, <1>3, <1>4, <1>5, <2>1 DEF Return
  <2>5. NothingElse'
    BY <1>0, <1>1, <1>4, <2>1, <2>2 DEF NothingElse, Return
  <2>6. UsableIsHeld'
    BY <1>4, <2>3, <2>4 DEF UsableIsHeld
  <2>7. HeldIsUsable'
    <3>1. \A u \in Tasks : Issuing(u)' => answer'[hand'[u]].token \in Usable'
      BY <2>3, <2>4
    <3>2. \A u \in Tasks : Exchanged(u) => Exchanged(u)'
      BY <1>0, <1>1, <1>2, <1>4, <2>1 DEF Return
    <3> QED
      BY <1>4, <2>3, <3>1, <3>2 DEF HeldIsUsable
  <2>8. RefreshPresentsHeld' /\ LogoutPresentsHeld'
    BY <1>0, <1>1, <1>2, <1>3, <1>4, <2>1, <2>2, <2>3, <2>4 DEF RefreshPresentsHeld, LogoutPresentsHeld, Return
  <2> QED
    BY <2>5, <2>6, <2>7, <2>8
<1>10. CASE FindToEnd(h)
  <2>1. pc[h] = "logout" /\ at[t] = "logout"
    BY <1>1, <1>10 DEF FindToEnd
  <2>2. \A u \in Tasks : ~Issuing(u) /\ ~Issuing(u)' /\ at[u] # "refresh"
    BY <1>4, <1>5, <2>1
  <2>3. Usable \subseteq {refresh} /\ Usable \subseteq rows
    BY <2>2 DEF UsableIsHeld, Usable
  <2>4. Usable' = Usable /\ rows' = rows /\ issued' = issued /\ age' = age
    BY <1>10 DEF FindToEnd, table, Usable
  <2>5. presented[h] = refresh \/ Usable = {}
    BY <1>1, <2>1 DEF LogoutPresentsHeld
  <2>6. NothingElse'
    <3>1. CASE Return(h, "ok", 0)
      BY <1>0, <1>1, <1>4, <2>4, <3>1 DEF NothingElse, Return
    <3>2. CASE Proceed(h, "end", family[presented[h]])
      BY <1>0, <1>1, <1>4, <2>4, <3>2 DEF NothingElse, Proceed
    <3> QED
      BY <1>10, <3>1, <3>2 DEF FindToEnd
  <2>7. UsableIsHeld' /\ HeldIsUsable' /\ RefreshPresentsHeld'
    BY <1>4, <2>1, <2>2, <2>3, <2>4 DEF UsableIsHeld, HeldIsUsable, RefreshPresentsHeld
  <2>8. LogoutPresentsHeld'
    <3>1. CASE presented[h] \notin rows /\ Return(h, "ok", 0)
      <4>1. Usable = {}
        BY <2>3, <2>5, <3>1
      <4> QED
        BY <2>4, <4>1 DEF LogoutPresentsHeld
    <3>2. CASE Proceed(h, "end", family[presented[h]])
      BY <1>0, <1>1, <1>2, <1>4, <2>1, <2>4, <3>2 DEF LogoutPresentsHeld, Proceed
    <3> QED
      BY <1>10, <3>1, <3>2 DEF FindToEnd
  <2> QED
    BY <2>6, <2>7, <2>8
<1> QED
  BY <1>6, <1>7, <1>8, <1>9, <1>10 DEF HandlerStep

\* Nothing else happens on the server.
LEMMA LoyalServer ==
  ASSUME AccountTypeOK, TokensInv, GoalInv, HandInv, FlowOrder, PairOrder, ~Overlap, Loyal, Server,
         happened' \subseteq {"signOut"}
  PROVE  Loyal'
<1>0. UNCHANGED <<tasks, memory, vault, app>>
  BY DEF Server, ServerAction
<1>1. ASSUME NEW h \in Handlers, HandlerStep(h) PROVE Loyal'
  BY <1>0, <1>1, LoyalHandler
<1>2. ~Spend("failure") /\ ~Spend("theft") /\ ~Spend("lapse")
  BY DEF Spend
<1>3. ASSUME NEW h \in Handlers, \A t \in Tasks : hand[t] # h, Respond(h) PROVE FALSE
  BY <1>3 DEF Respond, Loyal, NothingElse
<1>4. ASSUME NEW t \in Tokens, Expire(t), age[t] # "valid" PROVE FALSE
  BY <1>4 DEF Loyal, NothingElse
<1>5. ~DeleteExpired
  BY DEF DeleteExpired, Old, Loyal, NothingElse, AccountTypeOK, TokensTypeOK, Tokens
<1> QED
  BY <1>1, <1>2, <1>3, <1>4, <1>5 DEF Server, ServerAction

-----------------------------------------------------------------------------
(***************************************************************************)
(* Where nothing has happened: CalmInv.                                    *)
(***************************************************************************)
LEMMA CalmKept ==
  ASSUME AccountTypeOK, GoalInv, HandInv, NEW t \in Tasks, Task(t),
         FlowOrder, BootOrder, PairOrder, Loyal, Untroubled,
         overtaken' = (overtaken \/ Overlap'), happened' = {}
  PROVE  Untroubled'
<1>0. FlowTypes /\ due \in Nat
  BY FlowsTyped DEF AccountTypeOK
<1> SUFFICES /\ ~Leaving'
             /\ phase' = "authenticated" => refresh' # 0
             /\ phase' # "authenticated" => \A u \in Tasks : at'[u] = "idle" \/ goal'[u] = "pair"
  BY DEF Untroubled, Overlap, Leaving
<1> USE DEF tasks, memory, app, notes, Await, Finish, SignOuts, FlowTypes, Untroubled, Leaving, GoalInv
<1>1. CASE Call(t) \/ CallSucceeds(t)
  BY <1>0, <1>1 DEF Call, PostCall, CallSucceeds
<1>2. CASE CallRefused(t)
  BY <1>0, <1>2 DEF CallRefused, PostRefresh
<1>3. CASE RefreshAdopted(t) \/ PairAnswered(t)
  <2>1. Reply(t).is = "ok" /\ Reply(t).token # 0
    BY <1>3, NoneRefused, ReplyHasToken DEF RefreshAdopted, PairAnswered, Loyal
  <2> QED
    BY <1>0, <1>3, <2>1 DEF RefreshAdopted, PairAnswered, Adopt
<1>4. CASE Kept(t)
  <2>1. access = "valid" /\ refresh # 0 /\ refresh' = refresh
    BY <1>4 DEF Kept, FlowOrder
  <2>2. CASE goal[t] = "call"
    <3>1. phase = "authenticated"
      BY <1>4, <2>2 DEF Kept
    <3> QED
      BY <1>0, <1>4, <2>1, <2>2, <3>1 DEF Kept, Settle, AccountTypeOK
  <2>3. CASE goal[t] = "pair"
    BY <1>0, <1>4, <2>1, <2>3 DEF Kept
  <2>4. goal[t] \notin {"start", "recover"}
    BY DEF Loyal, NothingElse
  <2> QED
    BY <1>4, <2>2, <2>3, <2>4 DEF Kept
<1>5. CASE Start(t)
  <2>1. vault = 0
    BY <1>5 DEF Start, Loyal, NothingElse
  <2> QED
    BY <1>0, <1>5, <2>1 DEF Start
<1>6. CASE UserPairs(t)
  BY <1>0, <1>6 DEF UserPairs, PostPair
<1>7. ~SignOut(t) /\ ~LoggedOut(t) /\ ~Cleared(t)
  BY <1>0 DEF SignOut, LoggedOut, Cleared
<1>8. ~CallLost(t)
  BY DEF CallLost, FlowOrder
<1>9. ~NetworkError(t)
  BY DEF NetworkError, Spend
<1>10. ~RefreshRefused(t)
  BY NoneRefused DEF RefreshRefused, Loyal
<1> QED
  BY <1>1, <1>2, <1>3, <1>4, <1>5, <1>6, <1>7, <1>8, <1>9, <1>10 DEF Task

LEMMA CalmOther ==
  ASSUME AccountTypeOK, BootOrder, PairOrder, Untroubled,
         UserSignsOut \/ Relaunch \/ GatewayReady \/ AccessExpires \/ Server,
         overtaken' = (overtaken \/ Overlap'), happened' = {}
  PROVE  Untroubled'
<1>1. ~UserSignsOut /\ ~Relaunch
  BY DEF UserSignsOut, Relaunch, Spend
<1>2. UNCHANGED <<tasks, refresh, due>> /\ (phase' = phase \/ (phase' = "authenticated" /\ online))
  <2>1. CASE GatewayReady
    BY <2>1 DEF GatewayReady
  <2>2. CASE AccessExpires
    BY <2>2 DEF AccessExpires, app
  <2>3. CASE Server
    BY <2>3 DEF Server, ServerAction, memory, app
  <2> QED
    BY <1>1, <2>1, <2>2, <2>3
<1>3. phase' = phase
  BY <1>2 DEF AccountTypeOK, BootOrder, PairOrder
<1> QED
  BY <1>2, <1>3 DEF tasks, Untroubled, Overlap, Leaving

-----------------------------------------------------------------------------
(***************************************************************************)
(* All together.                                                           *)
(***************************************************************************)
\* An application just installed, and an empty table.
LEMMA AccountInitHolds == AccountInit => AccountInv
<1> SUFFICES ASSUME AccountInit PROVE AccountInv
  OBVIOUS
<1>1. TokensTypeOK /\ TokensInv
  BY InitHolds DEF AccountInit, Inductive
<1>2. AccountTypeOK
  <2>1. issued = 0 /\ 0 \in 0..issued
    BY DEF AccountInit, TokensInit
  <2>2. FlowTypes /\ TokenTypes(issued)
    BY <2>1 DEF AccountInit, FlowTypes, TokenTypes
  <2>3. FreshTypes /\ PhaseTypes /\ FlagTypes /\ overtaken \in BOOLEAN
    BY DEF AccountInit, FreshTypes, PhaseTypes, FlagTypes
  <2> QED
    BY <1>1, <2>2, <2>3 DEF AccountTypeOK, FlowTypes, TokenTypes, FreshTypes, PhaseTypes, FlagTypes
<1>3. GoalInv /\ HandInv
  BY DEF AccountInit, GoalInv, HandInv, TokensInit, NoAnswer
<1>4. OrderlyInv
  BY DEF AccountInit, OrderlyInv, FlowOrder, LeaveOrder, BootOrder, PairOrder, Overlap, Leaving
<1>5. PairedInv /\ CalmInv
  BY DEF AccountInit, PairedInv, CalmInv, Untroubled, Leaving
<1>6. LoyalInv
  <2>1. Usable = {} /\ rows = 1..issued
    BY DEF AccountInit, TokensInit, Usable
  <2>2. NothingElse
    BY <2>1 DEF AccountInit, TokensInit, NothingElse, NoAnswer, Tokens
  <2>3. UsableIsHeld /\ HeldIsUsable /\ RefreshPresentsHeld /\ LogoutPresentsHeld
    BY <2>1 DEF AccountInit, UsableIsHeld, HeldIsUsable, RefreshPresentsHeld, LogoutPresentsHeld, Issuing
  <2> QED
    BY <2>2, <2>3 DEF LoyalInv, Loyal
<1> QED
  BY <1>1, <1>2, <1>3, <1>4, <1>5, <1>6 DEF AccountInv

\* The four kinds of trouble only add up.
LEMMA HappenedGrows == AccountNext => happened \subseteq happened'
BY DEF AccountNext, Noted, Task, Call, CallSucceeds, CallRefused, CallLost, RefreshAdopted,
  RefreshRefused, Kept, Start, UserPairs, PairAnswered, SignOut, LoggedOut, Cleared, NetworkError,
  UserSignsOut, Relaunch, GatewayReady, AccessExpires, Server, ServerAction, Spend, notes

Other == UserSignsOut \/ Relaunch \/ GatewayReady \/ AccessExpires \/ Server

\* Every step keeps the inductive invariant.
LEMMA AccountNextKeeps == AccountInv /\ [AccountNext]_accountVars => AccountInv'
<1> SUFFICES ASSUME AccountInv, [AccountNext]_accountVars PROVE AccountInv'
  OBVIOUS
<1>1. AccountTypeOK' /\ TokensInv'
  BY AccountTypesKept DEF AccountInv
<1>2. CASE UNCHANGED accountVars
  <2>1. GoalInv' /\ HandInv'
    BY <1>2 DEF AccountInv, GoalInv, HandInv, accountVars
  <2>2. OrderlyInv'
    BY <1>2 DEF AccountInv, OrderlyInv, FlowOrder, LeaveOrder, BootOrder, PairOrder, Overlap, Leaving, Clean,
      accountVars
  <2>3. PairedInv' /\ CalmInv'
    BY <1>2 DEF AccountInv, PairedInv, Paired, CalmInv, Calm, Untroubled, Leaving, accountVars
  <2>4. LoyalInv'
    <3>1. Undisturbed' = Undisturbed
      BY <1>2 DEF Undisturbed, accountVars
    <3>2. NothingElse' = NothingElse
      BY <1>2 DEF NothingElse, accountVars
    <3>3. /\ UsableIsHeld' = UsableIsHeld /\ HeldIsUsable' = HeldIsUsable
          /\ RefreshPresentsHeld' = RefreshPresentsHeld /\ LogoutPresentsHeld' = LogoutPresentsHeld
      BY <1>2 DEF UsableIsHeld, HeldIsUsable, RefreshPresentsHeld, LogoutPresentsHeld, Usable, Issuing,
        Exchanged, accountVars
    <3> QED
      BY <3>1, <3>2, <3>3 DEF AccountInv, LoyalInv, Loyal
  <2> QED
    BY <1>1, <2>1, <2>2, <2>3, <2>4 DEF AccountInv
<1>3. CASE AccountNext
  <2>1. overtaken' = (overtaken \/ Overlap') /\ ((\E t \in Tasks : Task(t)) \/ Other)
    BY <1>3 DEF AccountNext, Noted, Other
  <2>2. GoalInv' /\ HandInv'
    <3>1. CASE Server
      <4>1. GoalInv'
        BY <3>1 DEF AccountInv, GoalInv, Server, ServerAction, tasks, memory
      <4> QED
        BY <3>1, <4>1, ServerHand DEF AccountInv
    <3> QED
      BY <2>1, <3>1, GoalKept, HandKept, OtherGoalHand DEF AccountInv, Other
  <2>3. ~overtaken' => ~overtaken /\ ~Overlap /\ ~Overlap' /\ FlowOrder /\ LeaveOrder /\ BootOrder /\ PairOrder
    BY <2>1 DEF AccountInv, OrderlyInv
  <2>4. OrderlyInv'
    <3>1. ASSUME ~overtaken' PROVE FlowOrder' /\ LeaveOrder' /\ BootOrder' /\ PairOrder'
      BY <2>1, <2>3, <3>1, OrderKept, OrderOther DEF AccountInv, Other
    <3> QED
      BY <2>1, <3>1 DEF OrderlyInv
  <2>5. PairedInv'
    <3>1. ASSUME ~told', ~overtaken', happened' \cap {"fault", "failure"} = {} PROVE Paired'
      <4>1. told \/ happened \cap {"fault", "failure"} # {} \/ Paired
        BY <2>3, <3>1 DEF AccountInv, PairedInv
      <4> QED
        BY <2>1, <2>3, <3>1, <4>1, PairedKept, PairedOther DEF AccountInv, Other
    <3> QED
      BY <3>1 DEF PairedInv
  <2>6. LoyalInv'
    <3>1. ASSUME happened' \subseteq {"signOut"}, ~overtaken' PROVE Loyal'
      <4>1. Loyal
        BY <1>3, <2>3, <3>1, HappenedGrows DEF AccountInv, LoyalInv, Undisturbed
      <4>2. ASSUME NEW t \in Tasks, Task(t) PROVE Loyal'
        BY <2>3, <3>1, <4>1, <4>2, LoyalKept DEF AccountInv
      <4>3. ASSUME Server PROVE Loyal'
        BY <2>3, <3>1, <4>1, <4>3, LoyalServer DEF AccountInv
      <4> QED
        BY <2>1, <3>1, <4>1, <4>2, <4>3, LoyalOther DEF Other
    <3> QED
      BY <3>1 DEF LoyalInv, Undisturbed
  <2>7. CalmInv'
    <3>1. ASSUME happened' = {} PROVE Untroubled'
      <4>1. happened = {}
        BY <1>3, <3>1, HappenedGrows
      <4>2. Untroubled /\ ~overtaken
        BY <4>1 DEF AccountInv, CalmInv, Calm, Untroubled
      <4>3. Loyal /\ FlowOrder /\ BootOrder /\ PairOrder
        BY <4>1, <4>2 DEF AccountInv, LoyalInv, Undisturbed, OrderlyInv
      <4> QED
        BY <2>1, <3>1, <4>2, <4>3, CalmKept, CalmOther DEF AccountInv, Other
    <3> QED
      BY <3>1 DEF CalmInv, Calm
  <2> QED
    BY <1>1, <2>2, <2>4, <2>5, <2>6, <2>7 DEF AccountInv
<1> QED
  BY <1>2, <1>3

\* The inductive invariant of the client's account and the table behind it.
THEOREM AccountInvariant == AccountSpec => []AccountInv
BY AccountInitHolds, AccountNextKeeps, PTL DEF AccountSpec

\* Whatever the client, the network and the user do, what the server's handlers do
\* is what RefreshTokens says (routes/auth.rs): every theorem about the table holds
\* beside this client.
THEOREM AccountUsesTokens == AccountSpec => TokensSpec
<1>1. AccountInit => TokensInit
  BY DEF AccountInit
<1>2. AccountInv /\ [AccountNext]_accountVars => [TokensNext]_tokenVars
  BY AccountIsToken DEF AccountInv
<1> QED
  BY <1>1, <1>2, AccountInvariant, PTL DEF AccountSpec, TokensSpec

\* Nobody waits on a refresh that is over (ensureRefreshed, finally).
THEOREM NobodyIsLeftWaiting == AccountSpec => []JoinersServed
<1>1. AccountInv => JoinersServed
  BY DEF AccountInv, AccountTypeOK, GoalInv, JoinersServed
<1> QED
  BY <1>1, AccountInvariant, PTL

\* The client alone never presents a token twice, and asks for a new code only when
\* told to (ensureRefreshed, "One refresh in flight at a time"; start).
THEOREM ReuseIsNeverFalse == AccountSpec => []NoFalseReuse
<1>1. AccountInv => NoFalseReuse
  <2> SUFFICES ASSUME AccountInv PROVE NoFalseReuse
    OBVIOUS
  <2>1. ASSUME Calm, NEW h \in Handlers PROVE answer[h].is # "reused"
    <3>1. Undisturbed
      BY <2>1 DEF AccountInv, CalmInv, Untroubled, Undisturbed, Calm
    <3> QED
      BY <3>1 DEF AccountInv, LoyalInv, Loyal, NothingElse
  <2>2. phase = "pairing" => told \/ overtaken \/ happened \cap {"fault", "failure"} # {}
    BY DEF AccountInv, PairedInv, Paired
  <2> QED
    BY <2>1, <2>2 DEF NoFalseReuse
<1> QED
  BY <1>1, AccountInvariant, PTL

\* A sign-out that met no refresh and no pairing leaves no token in memory or vault,
\* and none the server would take (signOut, logout).
THEOREM SignOutCleans == AccountSpec => []SignedOutIsClean
<1>1. AccountInv => SignedOutIsClean
  <2> SUFFICES ASSUME AccountInv, Quiet, phase = "pairing", ~overtaken
               PROVE  /\ vault = 0 /\ refresh = 0 /\ ~online
                      /\ happened \subseteq {"signOut"} => \A t \in Usable : age[t] # "valid"
    BY DEF SignedOutIsClean
  <2>1. ~online /\ Clean
    BY DEF AccountInv, OrderlyInv, PairOrder, Quiet
  <2>2. ASSUME happened \subseteq {"signOut"} PROVE Usable = {}
    <3>1. UsableIsHeld
      BY <2>2 DEF AccountInv, LoyalInv, Undisturbed, Loyal
    <3>2. 0 \notin Usable
      BY DEF AccountInv, AccountTypeOK, TokensTypeOK, Usable
    <3> QED
      BY <2>1, <3>1, <3>2 DEF UsableIsHeld, Issuing, Quiet, Clean
  <2> QED
    BY <2>1, <2>2 DEF Clean
<1> QED
  BY <1>1, AccountInvariant, PTL
=============================================================================
