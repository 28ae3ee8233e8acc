----------------------------- MODULE MCScanAlerts -----------------------------
(***************************************************************************)
(* ScanAlerts on two families of behaviours: four scans of any outcome     *)
(* with no round to announce, and four clean scans with one.               *)
(***************************************************************************)
EXTENDS ScanAlerts

NoRounds   == \A p \in Pairs : round[p] = [id |-> 1, verdict |-> "quiet"] /\ \A k \in DOMAIN rows : k.key.what # p
CleanScans == \A r \in DOMAIN runs : runs[r].status # "FAILED" /\ runs[r].errors = {}

MCSpec == Init /\ [][Next /\ (NoRounds \/ CleanScans)']_vars
=============================================================================
