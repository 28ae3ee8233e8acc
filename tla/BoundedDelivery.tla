--------------------------- MODULE BoundedDelivery ---------------------------
(***************************************************************************)
(* What the alert dispatcher promises about each (delivery key,            *)
(* destination), in the words of tidal/alerts/dispatcher.py: "persisted    *)
(* at-most-once-after-success".  An attempt is counted before anything     *)
(* leaves, so no key is ever delivered more often than it was counted, and *)
(* nothing leaves once a success is on record.                             *)
(***************************************************************************)
EXTENDS Naturals

CONSTANTS Keys, Limit

VARIABLES attempts, received, sent

vars == <<attempts, received, sent>>

Init ==
    /\ attempts = [k \in Keys |-> 0]
    /\ received = [k \in Keys |-> 0]
    /\ sent = [k \in Keys |-> FALSE]

Count(k) ==
    /\ ~sent[k] /\ attempts[k] < Limit
    /\ attempts' = [attempts EXCEPT ![k] = @ + 1]
    /\ UNCHANGED <<received, sent>>

Deliver(k) ==
    /\ ~sent[k] /\ received[k] < attempts[k]
    /\ received' = [received EXCEPT ![k] = @ + 1]
    /\ UNCHANGED <<attempts, sent>>

Record(k) ==
    /\ received[k] > 0
    /\ sent' = [sent EXCEPT ![k] = TRUE]
    /\ UNCHANGED <<attempts, received>>

Next == \E k \in Keys : Count(k) \/ Deliver(k) \/ Record(k)
Spec == Init /\ [][Next]_vars
=============================================================================
