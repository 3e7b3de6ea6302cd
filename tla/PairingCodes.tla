---------------------------- MODULE PairingCodes ----------------------------
(***************************************************************************)
(* Pairing codes: the /tela command that issues one (bot/src/pairing.rs),   *)
(* the table (db/src/repo/pairing.rs), POST /auth/pair that exchanges one   *)
(* for a session (api/src/routes/auth.rs) and the hourly clean-up           *)
(* (api/src/jobs.rs).                                                       *)
(*                                                                         *)
(* Commands and exchanges are tasks that run side by side; every statement  *)
(* is a step.  A code is drawn from 31^8 and stands for its hash: the codes *)
(* drawn are taken to be distinct.                                          *)
(***************************************************************************)
EXTENDS Naturals, FiniteSets

CONSTANTS
  Users, Guilds, Served, Codes, Commands, Exchanges, None,
  Ttl,          \* pairing_code_ttl
  Hour,         \* the window of the limit
  MaxPerHour,   \* pairing_max_per_hour
  MaxTime,      \* model bound on the clock
  MaxFaults     \* model bound on failed statements

ASSUME PairingAssumption ==
  /\ Served \subseteq Guilds /\ IsFiniteSet(Commands)
  /\ Ttl \in Nat /\ Hour \in Nat /\ Ttl <= Hour
  /\ MaxPerHour \in Nat \ {0} /\ MaxTime \in Nat /\ MaxFaults \in Nat

VARIABLES
  now,
  accounts,    \* table users
  issued,      \* codes that have been inserted
  table,       \* rows of pairing_codes that are there
  rows,        \* what each row says
  command,     \* the /tela commands under way, None
  exchange,    \* the /auth/pair requests past consume, None
  opened,      \* the sessions each code has opened
  faults

tables == <<accounts, issued, table, rows>>
vars   == <<now, accounts, issued, table, rows, command, exchange, opened, faults>>

Row == [user : Users, guild : Guilds, created : Nat, expires : Nat, consumed : BOOLEAN]

PairingTypeOK ==
  /\ now \in Nat
  /\ accounts \subseteq Users
  /\ table \subseteq issued /\ issued \subseteq Codes
  /\ rows \in [Codes -> Row \cup {None}] /\ \A c \in issued : rows[c] \in Row
  /\ command \in [Commands -> [at : {"account", "insert"}, user : Users, guild : Guilds,
                               since : Nat] \cup {None}]
  /\ exchange \in [Exchanges -> [code : Codes, user : Users] \cup {None}]
  /\ opened \in [Codes -> Nat]
  /\ faults \in Nat

Init ==
  /\ now = 0 /\ accounts = {} /\ issued = {} /\ table = {}
  /\ rows = [c \in Codes |-> None]
  /\ command = [k \in Commands |-> None]
  /\ exchange = [x \in Exchanges |-> None]
  /\ opened = [c \in Codes |-> 0]
  /\ faults = 0

Tick == now < MaxTime /\ now' = now + 1 /\ UNCHANGED <<tables, command, exchange, opened, faults>>

Fault == faults < MaxFaults /\ faults' = faults + 1

-----------------------------------------------------------------------------
(* /tela.                                                                   *)

\* recent_request_count: the rows that are still there.
Recent(u) == {c \in table : rows[c].user = u /\ rows[c].created + Hour > now}

\* Mutant: one code more than the limit.
RefusedAbove(u) == Cardinality(Recent(u)) > MaxPerHour

Refused(u) == Cardinality(Recent(u)) >= MaxPerHour

\* build_reply up to the limit.  A guild that is not served, or a limit that is
\* reached, is answered with words.
Ask(k, u, g) ==
  /\ command[k] = None /\ g \in Served /\ ~Refused(u)
  /\ command' = [command EXCEPT ![k] = [at |-> "account", user |-> u, guild |-> g, since |-> now]]
  /\ UNCHANGED <<now, tables, exchange, opened, faults>>

\* upsert_from_discord: the account is there before the code.
UpsertAccount(k) ==
  /\ command[k] # None /\ command[k].at = "account"
  /\ accounts' = accounts \cup {command[k].user}
  /\ command' = [command EXCEPT ![k].at = "insert"]
  /\ UNCHANGED <<now, issued, table, rows, exchange, opened, faults>>

\* insert: the life of the code runs from when it was asked for.
Insert(k, c) ==
  /\ command[k] # None /\ command[k].at = "insert" /\ c \notin issued
  /\ issued' = issued \cup {c} /\ table' = table \cup {c}
  /\ rows' = [rows EXCEPT ![c] = [user |-> command[k].user, guild |-> command[k].guild,
                                  created |-> now, expires |-> command[k].since + Ttl,
                                  consumed |-> FALSE]]
  /\ command' = [command EXCEPT ![k] = None]
  /\ UNCHANGED <<now, accounts, exchange, opened, faults>>

CommandFails(k) ==
  /\ command[k] # None /\ Fault
  /\ command' = [command EXCEPT ![k] = None]
  /\ UNCHANGED <<now, tables, exchange, opened>>

-----------------------------------------------------------------------------
(* POST /auth/pair.                                                         *)

Usable(c) == c \in table /\ ~rows[c].consumed /\ rows[c].expires > now

\* Mutant: the statement does not look at consumed_at.
ConsumeAgain(x, c) ==
  /\ exchange[x] = None /\ c \in table /\ rows[c].expires > now
  /\ rows' = [rows EXCEPT ![c].consumed = TRUE]
  /\ exchange' = [exchange EXCEPT ![x] = [code |-> c, user |-> rows[c].user]]
  /\ UNCHANGED <<now, accounts, issued, table, command, opened, faults>>

\* consume, one statement.  Every other code is answered 401.
Consume(x, c) ==
  /\ exchange[x] = None /\ Usable(c)
  /\ rows' = [rows EXCEPT ![c].consumed = TRUE]
  /\ exchange' = [exchange EXCEPT ![x] = [code |-> c, user |-> rows[c].user]]
  /\ UNCHANGED <<now, accounts, issued, table, command, opened, faults>>

\* find_by_discord_id and issue_session.
OpenSession(x) ==
  /\ exchange[x] # None /\ exchange[x].user \in accounts
  /\ opened' = [opened EXCEPT ![exchange[x].code] = @ + 1]
  /\ exchange' = [exchange EXCEPT ![x] = None]
  /\ UNCHANGED <<now, tables, command, faults>>

\* The code is spent and no session is opened.
ExchangeFails(x) ==
  /\ exchange[x] # None /\ Fault
  /\ exchange' = [exchange EXCEPT ![x] = None]
  /\ UNCHANGED <<now, tables, command, opened>>

-----------------------------------------------------------------------------
\* delete_expired: what is past its life, and what is spent.
CleanUp ==
  /\ table' = {c \in table : rows[c].expires >= now /\ ~rows[c].consumed}
  /\ table' # table
  /\ UNCHANGED <<now, accounts, issued, rows, command, exchange, opened, faults>>

Next ==
  \/ Tick \/ CleanUp
  \/ \E k \in Commands :
       \/ \E u \in Users, g \in Guilds : Ask(k, u, g)
       \/ UpsertAccount(k) \/ CommandFails(k)
       \/ \E c \in Codes : Insert(k, c)
  \/ \E x \in Exchanges :
       \/ \E c \in Codes : Consume(x, c)
       \/ OpenSession(x) \/ ExchangeFails(x)

PairingSpec == Init /\ [][Next]_vars

-----------------------------------------------------------------------------
(* Properties.                                                              *)

\* The account is written before the code, and is never deleted (bot/src/pairing.rs:77).
AccountsFirst ==
  /\ \A k \in Commands :
       command[k] # None /\ command[k].at = "insert" => command[k].user \in accounts
  /\ \A c \in issued : rows[c].user \in accounts

\* Two exchanges under way are of two codes.
Alone ==
  \A x, y \in Exchanges :
    exchange[x] # None /\ exchange[y] # None /\ exchange[x].code = exchange[y].code => x = y

\* The code of an exchange under way is spent and has opened nothing.
Marked ==
  \A x \in Exchanges :
    exchange[x] # None =>
      /\ exchange[x].code \in issued /\ exchange[x].user = rows[exchange[x].code].user
      /\ rows[exchange[x].code].consumed /\ opened[exchange[x].code] = 0

\* A code that has opened a session is spent.
Once == \A c \in Codes : opened[c] <= 1 /\ (opened[c] = 1 => c \in issued /\ rows[c].consumed)

\* However many clients race on a code, one of them at most gets a session of
\* it, for the account it was issued for, which is there; and a code that is
\* being exchanged, or has been, can not be exchanged again, also once its row
\* has been cleaned up (pairing.rs:3).
SpentOnce == PairingTypeOK /\ AccountsFirst /\ Alone /\ Marked /\ Once

\* The codes a person can use at a time exceed the hourly limit by no more than
\* the commands that overlap: the clean-up forgets what counts towards it, but
\* never a code that can still be used (jobs.rs:32).
UsableAreLimited ==
  \A u \in Users :
    Cardinality({c \in Codes : Usable(c) /\ rows[c].user = u})
      < MaxPerHour + Cardinality(Commands)
=============================================================================
