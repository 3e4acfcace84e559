------------------------------- MODULE Outbox -------------------------------
(***************************************************************************)
(* What a notifier promises about the records it is given: each of them is *)
(* posted at most once, none is dropped before it was posted, and in the   *)
(* end every one is settled, posted or its post failed.  Records settle in *)
(* batches, in any order.                                                  *)
(***************************************************************************)
EXTENDS Naturals

CONSTANT Records

VARIABLES pending, posted, failed

vars == <<pending, posted, failed>>

Init == pending = {} /\ posted = {} /\ failed = {}

Enqueue(r) ==
  /\ r \notin pending \cup posted \cup failed
  /\ pending' = pending \cup {r}
  /\ UNCHANGED <<posted, failed>>

Settle(part) ==
  /\ part # {} /\ part \subseteq pending
  /\ pending' = pending \ part
  /\ \/ posted' = posted \cup part /\ UNCHANGED failed
     \/ failed' = failed \cup part /\ UNCHANGED posted

Next == (\E r \in Records : Enqueue(r)) \/ (\E part \in SUBSET pending : Settle(part))

Spec == Init /\ [][Next]_vars

FairSpec == Spec /\ \A r \in Records : WF_vars(\E part \in SUBSET pending : r \in part /\ Settle(part))
=============================================================================
