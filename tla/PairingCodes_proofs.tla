------------------------- MODULE PairingCodes_proofs -------------------------
(***************************************************************************)
(* A code opens one session at most, and a person can use no more codes     *)
(* than the hourly limit and the commands that overlap, for any number of   *)
(* users, codes, commands and exchanges, whatever the clock and the limits. *)
(*                                                                         *)
(* SpentOnce is inductive: a code under exchange is consumed and has opened *)
(* nothing, so the guard of consume keeps every other exchange from it, and *)
(* a row that was cleaned up keeps the mark, which no statement removes.    *)
(* UsableAreLimited is not: LimitInv also counts the commands that are past *)
(* the check of the limit and have not inserted their code.                 *)
(***************************************************************************)
EXTENDS PairingCodes, FiniteSetTheorems, TLAPS

CommandRecord ==
  [at : {"account", "insert"}, user : Users, guild : Guilds, since : Nat]

ExchangeRecord == [code : Codes, user : Users]

\* Nothing is issued in the initial state.
LEMMA SpentOnceInit == Init => SpentOnce
<1> SUFFICES ASSUME Init PROVE SpentOnce
  OBVIOUS
<1>1. PairingTypeOK
  BY DEF Init, PairingTypeOK
<1>2. AccountsFirst /\ Alone /\ Marked /\ Once
  BY DEF Init, AccountsFirst, Alone, Marked, Once
<1> QED
  BY <1>1, <1>2 DEF SpentOnce

\* What the command of a step may rely on.
LEMMA CommandIsRecord ==
  ASSUME PairingTypeOK, NEW k \in Commands, command[k] # None
  PROVE  command[k] \in CommandRecord
BY DEF PairingTypeOK, CommandRecord

LEMMA ExchangeIsRecord ==
  ASSUME PairingTypeOK, NEW x \in Exchanges, exchange[x] # None
  PROVE  exchange[x] \in ExchangeRecord
BY DEF PairingTypeOK, ExchangeRecord

\* A step that writes neither tables, exchanges nor sessions keeps all that does
\* not mention commands (Tick, Ask, CommandFails).
LEMMA QuietStep ==
  ASSUME SpentOnce, UNCHANGED <<tables, exchange, opened>>
  PROVE  Alone' /\ Marked' /\ Once' /\ (\A c \in issued' : rows'[c].user \in accounts')
BY DEF SpentOnce, tables, Alone, Marked, Once, AccountsFirst

\* The /tela command, up to its insert (bot/src/pairing.rs, build_reply).
LEMMA AskStep ==
  ASSUME SpentOnce, NEW k \in Commands, NEW u \in Users, NEW g \in Guilds, Ask(k, u, g)
  PROVE  SpentOnce'
<1> USE DEF SpentOnce
<1> DEFINE new == [at |-> "account", user |-> u, guild |-> g, since |-> now]
<1>1. new \in CommandRecord
  BY DEF PairingTypeOK, CommandRecord
<1>2. PairingTypeOK'
  BY <1>1 DEF Ask, PairingTypeOK, CommandRecord, tables
<1>3. \A j \in Commands :
        command'[j] # None /\ command'[j].at = "insert" => command'[j].user \in accounts'
  BY DEF Ask, PairingTypeOK, AccountsFirst, tables
<1>4. Alone' /\ Marked' /\ Once' /\ (\A c \in issued' : rows'[c].user \in accounts')
  BY QuietStep DEF Ask
<1> QED
  BY <1>2, <1>3, <1>4 DEF AccountsFirst

LEMMA UpsertStep ==
  ASSUME SpentOnce, NEW k \in Commands, UpsertAccount(k)
  PROVE  SpentOnce'
<1> USE DEF SpentOnce
<1>1. command[k] \in CommandRecord
  BY CommandIsRecord DEF UpsertAccount
<1>2. command' = [command EXCEPT ![k] = [command[k] EXCEPT !.at = "insert"]]
  BY DEF UpsertAccount
<1>3. [command[k] EXCEPT !.at = "insert"] \in CommandRecord
  BY <1>1 DEF CommandRecord
<1>4. PairingTypeOK'
  BY <1>1, <1>2, <1>3 DEF UpsertAccount, PairingTypeOK, CommandRecord
<1>5. AccountsFirst'
  BY <1>1, <1>2 DEF UpsertAccount, PairingTypeOK, AccountsFirst, CommandRecord
<1>6. Alone' /\ Marked' /\ Once'
  BY DEF UpsertAccount, Alone, Marked, Once
<1> QED
  BY <1>4, <1>5, <1>6

LEMMA CommandFailsStep ==
  ASSUME SpentOnce, NEW k \in Commands, CommandFails(k)
  PROVE  SpentOnce'
<1> USE DEF SpentOnce
<1>1. PairingTypeOK'
  BY DEF CommandFails, Fault, PairingTypeOK, tables
<1>2. \A j \in Commands :
        command'[j] # None /\ command'[j].at = "insert" => command'[j].user \in accounts'
  BY DEF CommandFails, PairingTypeOK, AccountsFirst, tables
<1>3. Alone' /\ Marked' /\ Once' /\ (\A c \in issued' : rows'[c].user \in accounts')
  BY QuietStep DEF CommandFails
<1> QED
  BY <1>1, <1>2, <1>3 DEF AccountsFirst

\* The code is new: no exchange and no session can be of it (repo/pairing.rs, insert).
LEMMA InsertStep ==
  ASSUME SpentOnce, NEW k \in Commands, NEW c \in Codes, Insert(k, c)
  PROVE  SpentOnce'
<1> USE DEF SpentOnce
<1> DEFINE new == [user |-> command[k].user, guild |-> command[k].guild, created |-> now,
                   expires |-> command[k].since + Ttl, consumed |-> FALSE]
<1>1. command[k] \in CommandRecord
  BY CommandIsRecord DEF Insert
<1>2. new \in Row
  BY <1>1, PairingAssumption DEF CommandRecord, Row, PairingTypeOK
<1>3. /\ rows' = [rows EXCEPT ![c] = new] /\ rows'[c] = new
      /\ issued' = issued \cup {c} /\ c \notin issued /\ accounts' = accounts
  BY DEF Insert, PairingTypeOK
<1>4. \A d \in Codes : d # c => rows'[d] = rows[d]
  BY <1>3 DEF PairingTypeOK
<1>5. PairingTypeOK'
  BY <1>2, <1>3, <1>4 DEF Insert, PairingTypeOK
<1>6. AccountsFirst'
  <2>1. \A j \in Commands :
          command'[j] # None /\ command'[j].at = "insert" => command'[j].user \in accounts'
    BY DEF Insert, PairingTypeOK, AccountsFirst
  <2>2. new.user \in accounts
    BY DEF Insert, AccountsFirst
  <2>3. \A d \in issued' : rows'[d].user \in accounts'
    BY <1>3, <1>4, <2>2 DEF AccountsFirst, PairingTypeOK
  <2> QED
    BY <2>1, <2>3 DEF AccountsFirst
<1>7. Alone' /\ Marked' /\ Once'
  <2>1. \A x \in Exchanges : exchange[x] # None => exchange[x].code # c /\ exchange[x].code \in Codes
    BY <1>3 DEF Marked, PairingTypeOK
  <2>2. exchange' = exchange /\ opened' = opened
    BY DEF Insert
  <2>3. opened[c] # 1
    BY <1>3 DEF Once
  <2> QED
    BY <1>3, <1>4, <2>1, <2>2, <2>3 DEF Alone, Marked, Once, PairingTypeOK
<1> QED
  BY <1>5, <1>6, <1>7

\* The guard of consume keeps every code that is or was exchanged from it.
LEMMA ConsumeStep ==
  ASSUME SpentOnce, NEW x \in Exchanges, NEW c \in Codes, Consume(x, c)
  PROVE  SpentOnce'
<1> USE DEF SpentOnce
<1> DEFINE new == [code |-> c, user |-> rows[c].user]
           spent == [rows[c] EXCEPT !.consumed = TRUE]
<1>1. c \in issued /\ ~rows[c].consumed /\ rows[c] \in Row
  BY DEF Consume, Usable, PairingTypeOK
<1>2. /\ rows' = [rows EXCEPT ![c] = spent] /\ exchange' = [exchange EXCEPT ![x] = new]
      /\ exchange[x] = None
      /\ UNCHANGED <<now, accounts, issued, table, command, opened, faults>>
  BY DEF Consume
<1>3. new \in ExchangeRecord /\ spent \in Row /\ spent.consumed /\ spent.user = rows[c].user
  BY <1>1 DEF ExchangeRecord, Row
<1>4. /\ rows'[c] = spent /\ \A d \in Codes : d # c => rows'[d] = rows[d]
      /\ exchange'[x] = new /\ \A y \in Exchanges : y # x => exchange'[y] = exchange[y]
  BY <1>2 DEF PairingTypeOK
<1>5. PairingTypeOK'
  BY <1>2, <1>3, <1>4 DEF PairingTypeOK, ExchangeRecord
<1>6. AccountsFirst'
  BY <1>1, <1>2, <1>3, <1>4 DEF AccountsFirst, PairingTypeOK
<1>7. \A y \in Exchanges : exchange[y] # None => exchange[y].code # c /\ exchange[y].code \in Codes
  BY <1>1 DEF Marked, PairingTypeOK
<1>8. opened[c] = 0
  <2>1. opened[c] \in Nat /\ opened[c] <= 1 /\ opened[c] # 1
    BY <1>1 DEF Once, PairingTypeOK
  <2> QED
    BY <2>1
<1>9. Alone'
  BY <1>4, <1>7 DEF Alone
<1>10. Marked'
  <2> SUFFICES ASSUME NEW y \in Exchanges, exchange'[y] # None
               PROVE  /\ exchange'[y].code \in issued'
                      /\ exchange'[y].user = rows'[exchange'[y].code].user
                      /\ rows'[exchange'[y].code].consumed /\ opened'[exchange'[y].code] = 0
    BY DEF Marked
  <2>1. CASE y = x
    <3>1. exchange'[y].code = c /\ exchange'[y].user = rows[c].user
      BY <1>4, <2>1
    <3>2. rows'[c].consumed /\ rows'[c].user = rows[c].user
      BY <1>3, <1>4
    <3> QED
      BY <1>1, <1>2, <1>8, <3>1, <3>2
  <2>2. CASE y # x
    <3>1. exchange'[y] = exchange[y] /\ exchange[y] # None
      BY <1>4, <2>2
    <3>2. rows'[exchange[y].code] = rows[exchange[y].code]
      BY <1>4, <1>7, <3>1
    <3> QED
      BY <1>2, <3>1, <3>2 DEF Marked
  <2> QED
    BY <2>1, <2>2
<1>11. Once'
  BY <1>1, <1>2, <1>3, <1>4 DEF Once
<1> QED
  BY <1>5, <1>6, <1>9, <1>10, <1>11

\* One session more, of a code that had opened none (routes/auth.rs, pair).
LEMMA OpenSessionStep ==
  ASSUME SpentOnce, NEW x \in Exchanges, OpenSession(x)
  PROVE  SpentOnce'
<1> USE DEF SpentOnce
<1> DEFINE c == exchange[x].code
<1>1. exchange[x] \in ExchangeRecord /\ exchange[x] # None
  BY ExchangeIsRecord DEF OpenSession
<1>2. c \in Codes /\ opened[c] = 0 /\ c \in issued /\ rows[c].consumed
  BY <1>1 DEF Marked, ExchangeRecord
<1>3. /\ opened' = [opened EXCEPT ![c] = opened[c] + 1]
      /\ exchange' = [exchange EXCEPT ![x] = None]
      /\ UNCHANGED <<now, accounts, issued, table, rows, command, faults>>
  BY DEF OpenSession, tables
<1>4. /\ opened'[c] = 1 /\ \A d \in Codes : d # c => opened'[d] = opened[d]
      /\ exchange'[x] = None /\ \A y \in Exchanges : y # x => exchange'[y] = exchange[y]
  BY <1>2, <1>3 DEF PairingTypeOK
<1>5. PairingTypeOK'
  BY <1>2, <1>3 DEF PairingTypeOK
<1>6. AccountsFirst'
  BY <1>3 DEF AccountsFirst
<1>7. Alone'
  BY <1>4 DEF Alone
<1>8. Marked'
  <2> SUFFICES ASSUME NEW y \in Exchanges, exchange'[y] # None
               PROVE  /\ exchange'[y].code \in issued'
                      /\ exchange'[y].user = rows'[exchange'[y].code].user
                      /\ rows'[exchange'[y].code].consumed /\ opened'[exchange'[y].code] = 0
    BY DEF Marked
  <2>1. y # x /\ exchange'[y] = exchange[y] /\ exchange[y] # None
    BY <1>4
  <2>2. exchange[y].code # c
    BY <1>1, <2>1 DEF Alone
  <2>3. exchange[y].code \in Codes
    BY <2>1, ExchangeIsRecord DEF ExchangeRecord
  <2> QED
    BY <1>3, <1>4, <2>1, <2>2, <2>3 DEF Marked
<1>9. Once'
  BY <1>2, <1>3, <1>4 DEF Once
<1> QED
  BY <1>5, <1>6, <1>7, <1>8, <1>9

LEMMA ExchangeFailsStep ==
  ASSUME SpentOnce, NEW x \in Exchanges, ExchangeFails(x)
  PROVE  SpentOnce'
<1> USE DEF SpentOnce
<1>1. /\ exchange' = [exchange EXCEPT ![x] = None] /\ faults' = faults + 1
      /\ UNCHANGED <<now, accounts, issued, table, rows, command, opened>>
  BY DEF ExchangeFails, Fault, tables
<1>2. exchange'[x] = None /\ \A y \in Exchanges : y # x => exchange'[y] = exchange[y]
  BY <1>1 DEF PairingTypeOK
<1>3. PairingTypeOK'
  BY <1>1 DEF PairingTypeOK
<1>4. AccountsFirst' /\ Once'
  BY <1>1 DEF AccountsFirst, Once
<1>5. Alone' /\ Marked'
  BY <1>1, <1>2 DEF Alone, Marked
<1> QED
  BY <1>3, <1>4, <1>5

\* The clock, and the clean-up: a row that goes keeps its mark (jobs.rs:32).
LEMMA OtherStep ==
  ASSUME SpentOnce, Tick \/ CleanUp \/ UNCHANGED vars
  PROVE  SpentOnce'
<1> USE DEF SpentOnce
<1>1. /\ UNCHANGED <<accounts, issued, rows, command, exchange, opened, faults>>
      /\ now' \in Nat /\ table' \subseteq table
  BY DEF Tick, CleanUp, vars, tables, PairingTypeOK
<1>2. PairingTypeOK'
  BY <1>1 DEF PairingTypeOK
<1>3. AccountsFirst' /\ Alone' /\ Marked' /\ Once'
  BY <1>1 DEF AccountsFirst, Alone, Marked, Once
<1> QED
  BY <1>2, <1>3

\* Every step keeps SpentOnce.
LEMMA SpentOnceStep == SpentOnce /\ [Next]_vars => SpentOnce'
<1> SUFFICES ASSUME SpentOnce, [Next]_vars PROVE SpentOnce'
  OBVIOUS
<1>1. CASE Tick \/ CleanUp \/ UNCHANGED vars
  BY <1>1, OtherStep
<1>2. ASSUME NEW k \in Commands,
             \/ \E u \in Users, g \in Guilds : Ask(k, u, g)
             \/ UpsertAccount(k) \/ CommandFails(k)
             \/ \E c \in Codes : Insert(k, c)
      PROVE SpentOnce'
  BY <1>2, AskStep, UpsertStep, CommandFailsStep, InsertStep
<1>3. ASSUME NEW x \in Exchanges,
             \/ \E c \in Codes : Consume(x, c)
             \/ OpenSession(x) \/ ExchangeFails(x)
      PROVE SpentOnce'
  BY <1>3, ConsumeStep, OpenSessionStep, ExchangeFailsStep
<1> QED
  BY <1>1, <1>2, <1>3 DEF Next

\* However commands, exchanges, failures and clean-ups interleave, a code opens
\* one session at most, of the account it was issued for (POST /auth/pair,
\* repo/pairing.rs).
THEOREM CodesAreSpentOnce == PairingSpec => []SpentOnce
BY SpentOnceInit, SpentOnceStep, PTL DEF PairingSpec

-----------------------------------------------------------------------------
(* The hourly limit.                                                        *)

UsableOf(u) == {c \in Codes : Usable(c) /\ rows[c].user = u}
UnderWay(u) == {k \in Commands : command[k] # None /\ command[k].user = u}

\* A code is created no earlier than it was asked for, so it lives no longer
\* than its row counts; and a command that is past the limit holds a place.
LimitInv ==
  /\ IsFiniteSet(issued)
  /\ \A k \in Commands : command[k] # None => command[k].since <= now
  /\ \A c \in issued : rows[c].expires <= rows[c].created + Ttl
  /\ \A u \in Users :
       Cardinality(UsableOf(u)) + Cardinality(UnderWay(u)) < MaxPerHour + Cardinality(Commands)

\* Usable codes are rows of the table, and commands are finitely many.
LEMMA BothFinite ==
  PairingTypeOK /\ IsFiniteSet(issued) =>
    \A u : /\ IsFiniteSet(UsableOf(u)) /\ IsFiniteSet(UnderWay(u))
           /\ Cardinality(UsableOf(u)) \in Nat /\ Cardinality(UnderWay(u)) \in Nat
<1> SUFFICES ASSUME PairingTypeOK, IsFiniteSet(issued), NEW u
             PROVE  /\ IsFiniteSet(UsableOf(u)) /\ IsFiniteSet(UnderWay(u))
                    /\ Cardinality(UsableOf(u)) \in Nat /\ Cardinality(UnderWay(u)) \in Nat
  OBVIOUS
<1>1. UsableOf(u) \in SUBSET issued
  BY DEF UsableOf, Usable, PairingTypeOK
<1>2. UnderWay(u) \in SUBSET Commands /\ IsFiniteSet(Commands)
  BY PairingAssumption DEF UnderWay
<1>3. IsFiniteSet(UsableOf(u)) /\ IsFiniteSet(UnderWay(u))
  BY <1>1, <1>2, FS_Subset
<1> QED
  BY <1>3, FS_CardinalityType

LEMMA BothFiniteNext ==
  PairingTypeOK' /\ IsFiniteSet(issued)' =>
    (\A u : /\ IsFiniteSet(UsableOf(u)) /\ IsFiniteSet(UnderWay(u))
            /\ Cardinality(UsableOf(u)) \in Nat /\ Cardinality(UnderWay(u)) \in Nat)'
BY BothFinite, PTL

\* A step after which a person has no more of either.
LEMMA NoMore ==
  ASSUME PairingTypeOK, PairingTypeOK', LimitInv, NEW u \in Users,
         UsableOf(u)' \subseteq UsableOf(u), UnderWay(u)' \subseteq UnderWay(u)
  PROVE  Cardinality(UsableOf(u)') + Cardinality(UnderWay(u)')
           < MaxPerHour + Cardinality(Commands)
<1>1. /\ IsFiniteSet(UsableOf(u)) /\ IsFiniteSet(UnderWay(u))
      /\ Cardinality(UsableOf(u)) \in Nat /\ Cardinality(UnderWay(u)) \in Nat
  BY BothFinite DEF LimitInv
<1>2. /\ Cardinality(UsableOf(u)') <= Cardinality(UsableOf(u))
      /\ Cardinality(UnderWay(u)') <= Cardinality(UnderWay(u))
      /\ IsFiniteSet(UsableOf(u)') /\ IsFiniteSet(UnderWay(u)')
  BY <1>1, FS_Subset
<1>3. Cardinality(UsableOf(u)') \in Nat /\ Cardinality(UnderWay(u)') \in Nat
  BY <1>2, FS_CardinalityType
<1>4. /\ Cardinality(UsableOf(u)) + Cardinality(UnderWay(u))
           < MaxPerHour + Cardinality(Commands)
      /\ MaxPerHour \in Nat /\ Cardinality(Commands) \in Nat
  BY PairingAssumption, FS_CardinalityType DEF LimitInv
<1> QED
  BY <1>1, <1>2, <1>3, <1>4

\* What can be used counts towards the limit (recent_request_count).
LEMMA UsableIsRecent ==
  ASSUME PairingTypeOK, LimitInv, NEW u
  PROVE  UsableOf(u) \subseteq Recent(u)
<1> SUFFICES ASSUME NEW c \in UsableOf(u) PROVE c \in Recent(u)
  OBVIOUS
<1>1. c \in table /\ c \in issued /\ rows[c].user = u /\ rows[c].expires > now
  BY DEF UsableOf, Usable, PairingTypeOK
<1>2. rows[c].created \in Nat /\ rows[c].expires \in Nat /\ now \in Nat
  BY <1>1 DEF PairingTypeOK, Row
<1>3. rows[c].expires <= rows[c].created + Ttl
  BY <1>1 DEF LimitInv
<1>4. rows[c].created + Hour > now
  BY <1>1, <1>2, <1>3, PairingAssumption
<1> QED
  BY <1>1, <1>4 DEF Recent

\* A command that passes the limit finds fewer usable codes than it.
LEMMA AskLimit ==
  ASSUME PairingTypeOK, PairingTypeOK', LimitInv, NEW k \in Commands, NEW u \in Users,
         NEW g \in Guilds, Ask(k, u, g)
  PROVE  LimitInv'
<1> DEFINE new == [at |-> "account", user |-> u, guild |-> g, since |-> now]
<1>1. /\ UNCHANGED <<now, accounts, issued, table, rows>>
      /\ command' = [command EXCEPT ![k] = new]
  BY DEF Ask, tables
<1>2. command'[k] = new /\ \A j \in Commands : j # k => command'[j] = command[j]
  BY <1>1 DEF PairingTypeOK
<1>3. \A v : UsableOf(v)' = UsableOf(v)
  BY <1>1 DEF UsableOf, Usable
<1>4. Cardinality(UsableOf(u)) < MaxPerHour
  <2>1. IsFiniteSet(Recent(u))
    <3>1. Recent(u) \in SUBSET issued /\ IsFiniteSet(issued)
      BY DEF Recent, PairingTypeOK, LimitInv
    <3> QED
      BY <3>1, FS_Subset
  <2>2. Cardinality(Recent(u)) \in Nat /\ Cardinality(UsableOf(u)) <= Cardinality(Recent(u))
    BY <2>1, UsableIsRecent, FS_Subset, FS_CardinalityType
  <2>3. Cardinality(UsableOf(u)) \in Nat
    BY BothFinite DEF LimitInv
  <2>4. ~(Cardinality(Recent(u)) >= MaxPerHour)
    BY DEF Ask, Refused
  <2> QED
    BY <2>2, <2>3, <2>4, PairingAssumption
<1>5. Cardinality(UnderWay(u)') <= Cardinality(Commands)
  <2>1. UnderWay(u)' \in SUBSET Commands /\ IsFiniteSet(Commands)
    BY PairingAssumption DEF UnderWay
  <2> QED
    BY <2>1, FS_Subset
<1>6. /\ Cardinality(UsableOf(u)) \in Nat /\ Cardinality(UnderWay(u)') \in Nat
      /\ Cardinality(Commands) \in Nat /\ MaxPerHour \in Nat
  BY <1>1, BothFinite, BothFiniteNext, PairingAssumption, FS_CardinalityType DEF LimitInv
<1>7. Cardinality(UsableOf(u)') + Cardinality(UnderWay(u)') < MaxPerHour + Cardinality(Commands)
  BY <1>3, <1>4, <1>5, <1>6
<1>8. ASSUME NEW v \in Users, v # u
      PROVE  Cardinality(UsableOf(v)') + Cardinality(UnderWay(v)')
               < MaxPerHour + Cardinality(Commands)
  <2>1. UnderWay(v)' \subseteq UnderWay(v)
    BY <1>2, <1>8 DEF UnderWay
  <2> QED
    BY <1>3, <2>1, NoMore
<1>9. \A j \in Commands : command'[j] # None => command'[j].since <= now'
  BY <1>1, <1>2 DEF LimitInv, PairingTypeOK
<1> QED
  BY <1>1, <1>7, <1>8, <1>9 DEF LimitInv

\* The place a command held is the code's.
LEMMA InsertLimit ==
  ASSUME PairingTypeOK, PairingTypeOK', LimitInv, NEW k \in Commands, NEW c \in Codes,
         Insert(k, c)
  PROVE  LimitInv'
<1> DEFINE u   == command[k].user
           new == [user |-> u, guild |-> command[k].guild, created |-> now,
                   expires |-> command[k].since + Ttl, consumed |-> FALSE]
<1>1. /\ UNCHANGED <<now, accounts>> /\ command[k] # None /\ c \notin issued
      /\ issued' = issued \cup {c} /\ table' = table \cup {c}
      /\ rows' = [rows EXCEPT ![c] = new] /\ command' = [command EXCEPT ![k] = None]
  BY DEF Insert
<1>2. /\ command'[k] = None /\ \A j \in Commands : j # k => command'[j] = command[j]
      /\ rows'[c] = new /\ \A d \in Codes : d # c => rows'[d] = rows[d]
      /\ table \subseteq issued /\ issued \subseteq Codes
  BY <1>1 DEF PairingTypeOK
<1>3. command[k] \in CommandRecord
  BY <1>1, CommandIsRecord
<1>4. IsFiniteSet(issued')
  BY <1>1, FS_AddElement DEF LimitInv
<1>5. \A j \in Commands : command'[j] # None => command'[j].since <= now'
  BY <1>1, <1>2 DEF LimitInv
<1>6. \A d \in issued' : rows'[d].expires <= rows'[d].created + Ttl
  <2>1. command[k].since <= now /\ command[k].since \in Nat /\ now \in Nat /\ Ttl \in Nat
    BY <1>1, <1>3, PairingAssumption DEF LimitInv, CommandRecord, PairingTypeOK
  <2>2. new.expires <= new.created + Ttl
    BY <2>1
  <2> HIDE DEF new
  <2> QED
    BY <1>1, <1>2, <2>2 DEF LimitInv
<1>7. ASSUME NEW v \in Users
      PROVE  Cardinality(UsableOf(v)') + Cardinality(UnderWay(v)')
               < MaxPerHour + Cardinality(Commands)
  <2>1. CASE v # u
    <3>1. UnderWay(v)' \subseteq UnderWay(v)
      BY <1>2 DEF UnderWay
    <3>2. UsableOf(v)' \subseteq UsableOf(v)
      BY <1>1, <1>2, <2>1 DEF UsableOf, Usable
    <3> QED
      BY <3>1, <3>2, NoMore
  <2>2. CASE v = u
    <3>1. UnderWay(v)' = UnderWay(v) \ {k} /\ k \in UnderWay(v)
      BY <1>1, <1>2, <2>2 DEF UnderWay
    <3>2. UsableOf(v)' \in SUBSET (UsableOf(v) \cup {c})
      BY <1>1, <1>2, <2>2 DEF UsableOf, Usable
    <3>3. c \notin UsableOf(v)
      BY <1>1, <1>2 DEF UsableOf, Usable
    <3>4. /\ IsFiniteSet(UsableOf(v)) /\ IsFiniteSet(UnderWay(v))
          /\ Cardinality(UsableOf(v)) \in Nat /\ Cardinality(UnderWay(v)) \in Nat
      BY BothFinite DEF LimitInv
    <3>5. Cardinality(UnderWay(v)') = Cardinality(UnderWay(v)) - 1
      BY <3>1, <3>4, FS_RemoveElement
    <3>6. /\ IsFiniteSet(UsableOf(v) \cup {c})
          /\ Cardinality(UsableOf(v) \cup {c}) = Cardinality(UsableOf(v)) + 1
      BY <3>3, <3>4, FS_AddElement
    <3>7. Cardinality(UsableOf(v)') <= Cardinality(UsableOf(v)) + 1
      BY <3>2, <3>6, FS_Subset
    <3>8. Cardinality(UsableOf(v)') \in Nat
      BY <1>4, BothFiniteNext
    <3>9. Cardinality(UsableOf(v)) + Cardinality(UnderWay(v)) < MaxPerHour + Cardinality(Commands)
      BY DEF LimitInv
    <3>10. MaxPerHour \in Nat /\ Cardinality(Commands) \in Nat
      BY PairingAssumption, FS_CardinalityType
    <3> QED
      BY <3>4, <3>5, <3>7, <3>8, <3>9, <3>10
  <2> QED
    BY <2>1, <2>2
<1> QED
  BY <1>4, <1>5, <1>6, <1>7 DEF LimitInv

\* Every other step takes codes and commands away, or neither.
LEMMA OtherLimit ==
  ASSUME PairingTypeOK, PairingTypeOK', LimitInv,
         UNCHANGED issued, now <= now', table' \subseteq table,
         \A c \in issued : /\ rows'[c].user = rows[c].user /\ rows'[c].created = rows[c].created
                           /\ rows'[c].expires = rows[c].expires
                           /\ rows[c].consumed => rows'[c].consumed,
         \A k \in Commands : command'[k] # None =>
           /\ command[k] # None
           /\ command'[k].user = command[k].user /\ command'[k].since = command[k].since
  PROVE  LimitInv'
<1>1. now \in Nat /\ now' \in Nat /\ table \subseteq issued
  BY DEF PairingTypeOK
<1>2. \A k \in Commands : command'[k] # None => command'[k].since <= now'
  <2> SUFFICES ASSUME NEW k \in Commands, command'[k] # None PROVE command'[k].since <= now'
    OBVIOUS
  <2>1. command[k] \in CommandRecord /\ command'[k].since = command[k].since
        /\ command[k].since <= now
    BY CommandIsRecord DEF LimitInv
  <2> QED
    BY <1>1, <2>1 DEF CommandRecord
<1>3. ASSUME NEW u PROVE UsableOf(u)' \subseteq UsableOf(u)
  <2> SUFFICES ASSUME NEW c \in Codes, c \in table', ~rows'[c].consumed, rows'[c].expires > now',
                      rows'[c].user = u
               PROVE  c \in table /\ ~rows[c].consumed /\ rows[c].expires > now /\ rows[c].user = u
    BY DEF UsableOf, Usable
  <2>1. c \in issued /\ rows[c].expires \in Nat
    BY <1>1 DEF PairingTypeOK, Row
  <2> QED
    BY <1>1, <2>1
<1>4. ASSUME NEW u PROVE UnderWay(u)' \subseteq UnderWay(u)
  BY DEF UnderWay
<1>5. \A u \in Users : Cardinality(UsableOf(u)') + Cardinality(UnderWay(u)')
                         < MaxPerHour + Cardinality(Commands)
  BY <1>3, <1>4, NoMore
<1> QED
  BY <1>2, <1>5 DEF LimitInv

LEMMA LimitStep ==
  ASSUME PairingTypeOK, PairingTypeOK', LimitInv, [Next]_vars
  PROVE  LimitInv'
<1>0. now \in Nat
  BY DEF PairingTypeOK
<1>1. CASE Tick \/ CleanUp \/ UNCHANGED vars
  <2>1. /\ UNCHANGED <<issued, rows, command>> /\ now <= now' /\ table' \subseteq table
    BY <1>0, <1>1 DEF Tick, CleanUp, vars, tables
  <2> QED
    BY <2>1, OtherLimit
<1>2. ASSUME NEW k \in Commands, UpsertAccount(k)
      PROVE  LimitInv'
  <2>1. command[k] \in CommandRecord
    BY <1>2, CommandIsRecord DEF UpsertAccount
  <2>2. /\ UNCHANGED <<now, issued, table, rows>> /\ command[k] # None
        /\ command' = [command EXCEPT ![k] = [command[k] EXCEPT !.at = "insert"]]
    BY <1>2 DEF UpsertAccount
  <2>3. /\ command'[k].user = command[k].user /\ command'[k].since = command[k].since
        /\ \A j \in Commands : j # k => command'[j] = command[j]
    BY <2>1, <2>2 DEF PairingTypeOK, CommandRecord
  <2> QED
    BY <1>0, <2>2, <2>3, OtherLimit
<1>3. ASSUME NEW k \in Commands, CommandFails(k)
      PROVE  LimitInv'
  <2>1. UNCHANGED <<now, issued, table, rows>> /\ command' = [command EXCEPT ![k] = None]
    BY <1>3 DEF CommandFails, tables
  <2>2. command'[k] = None /\ \A j \in Commands : j # k => command'[j] = command[j]
    BY <2>1 DEF PairingTypeOK
  <2> QED
    BY <1>0, <2>1, <2>2, OtherLimit
<1>4. ASSUME NEW x \in Exchanges, NEW c \in Codes, Consume(x, c)
      PROVE  LimitInv'
  <2>1. c \in issued /\ rows[c] \in Row
    BY <1>4 DEF Consume, Usable, PairingTypeOK
  <2>2. /\ UNCHANGED <<now, issued, table, command>>
        /\ rows' = [rows EXCEPT ![c] = [rows[c] EXCEPT !.consumed = TRUE]]
    BY <1>4 DEF Consume
  <2>3. /\ rows'[c].user = rows[c].user /\ rows'[c].created = rows[c].created
        /\ rows'[c].expires = rows[c].expires /\ rows'[c].consumed
        /\ \A d \in issued : d # c => rows'[d] = rows[d]
    BY <2>1, <2>2 DEF PairingTypeOK, Row
  <2> QED
    BY <1>0, <2>2, <2>3, OtherLimit
<1>5. ASSUME NEW x \in Exchanges, OpenSession(x) \/ ExchangeFails(x)
      PROVE  LimitInv'
  <2>1. UNCHANGED <<now, issued, table, rows, command>>
    BY <1>5 DEF OpenSession, ExchangeFails, tables
  <2> QED
    BY <1>0, <2>1, OtherLimit
<1> QED
  BY <1>1, <1>2, <1>3, <1>4, <1>5, AskLimit, InsertLimit DEF Next

\* However commands overlap and the clean-up forgets, a person never holds more
\* usable codes than the hourly limit and the commands that ran beside each
\* other (bot/src/pairing.rs, repo/pairing.rs, jobs.rs).
THEOREM UsableCodesAreLimited == PairingSpec => []UsableAreLimited
<1>1. Init => LimitInv
  <2> SUFFICES ASSUME Init PROVE LimitInv
    OBVIOUS
  <2>1. \A u : UsableOf(u) = {} /\ UnderWay(u) = {}
    BY DEF Init, UsableOf, Usable, UnderWay
  <2>2. Cardinality(Commands) \in Nat /\ MaxPerHour \in Nat \ {0}
    BY PairingAssumption, FS_CardinalityType
  <2>3. Cardinality({}) = 0 /\ IsFiniteSet({})
    BY FS_EmptySet
  <2>4. \A u : Cardinality(UsableOf(u)) = 0 /\ Cardinality(UnderWay(u)) = 0
    BY <2>1, <2>3
  <2>5. 0 + 0 < MaxPerHour + Cardinality(Commands)
    BY <2>2
  <2> QED
    BY <2>3, <2>4, <2>5 DEF Init, LimitInv
<1>2. SpentOnce /\ SpentOnce' /\ LimitInv /\ [Next]_vars => LimitInv'
  BY LimitStep DEF SpentOnce
<1>3. SpentOnce /\ LimitInv => UsableAreLimited
  <2> SUFFICES ASSUME SpentOnce, LimitInv, NEW u \in Users
               PROVE  Cardinality(UsableOf(u)) < MaxPerHour + Cardinality(Commands)
    BY DEF UsableAreLimited, UsableOf
  <2>1. Cardinality(UsableOf(u)) \in Nat /\ Cardinality(UnderWay(u)) \in Nat
    BY BothFinite DEF SpentOnce, LimitInv
  <2>2. MaxPerHour \in Nat /\ Cardinality(Commands) \in Nat
    BY PairingAssumption, FS_CardinalityType
  <2> QED
    BY <2>1, <2>2 DEF LimitInv
<1> QED
  BY <1>1, <1>2, <1>3, CodesAreSpentOnce, PTL DEF PairingSpec
=============================================================================
