--------------------------- MODULE SessionRegistry ---------------------------
(***************************************************************************)
(* What the gateway's hub promises about the sessions it knows: an id is   *)
(* admitted once and, once dropped, never comes back; admitting a session  *)
(* keeps its user within the limit by dropping sessions of that user only, *)
(* and no more of them than the limit asks for.                            *)
(***************************************************************************)
EXTENDS Naturals, FiniteSets

CONSTANTS
  Ids,
  Owner,   \* [Ids -> Users]
  Limit    \* how many sessions a user may have

VARIABLES
  live,    \* the sessions the hub knows
  used     \* every session it has ever known

OwnedBy(u, S) == {s \in S : Owner[s] = u}

Init == live = {} /\ used = {}

Admit(s) ==
  /\ s \in Ids \ used
  /\ used' = used \cup {s}
  /\ \E dropped \in SUBSET OwnedBy(Owner[s], live) :
       /\ live' = (live \ dropped) \cup {s}
       /\ dropped # {} => Cardinality(OwnedBy(Owner[s], live')) = Limit
  /\ Cardinality(OwnedBy(Owner[s], live')) <= Limit

\* A client gave the session up, its TTL passed, or the process ended.
Drop ==
  /\ live' \in SUBSET live
  /\ UNCHANGED used

Next == Drop \/ \E s \in Ids : Admit(s)

Spec == Init /\ [][Next]_<<live, used>>

=============================================================================
