---------------------------- MODULE MCRoundLedger ----------------------------
(***************************************************************************)
(* RoundLedger on small instances, and six families of behaviours for its  *)
(* safety run: all the evidence there is for two transactions, three       *)
(* transactions without a scanner, two scanners that repair at once,       *)
(* baselines set by a repair or by clearing a suspension, and a sweep in   *)
(* the second of two rounds.                                               *)
(***************************************************************************)
EXTENDS RoundLedger, TLC

Repairing   == {s \in Scanners : phase[s] # "idle"}
Settlements == {p \in DOMAIN chain : chain[p].op = "settled"}
Sales(p)    == \A q \in DOMAIN sold : sold[q] <= p
Only(ops)   == \A t \in DOMAIN txs : txs[t].op \in ops
NoReverts   == \A t \in DOMAIN txs : txs[t].state # "reverted"
Plain       == donated = 0 /\ NoReverts /\ Only({"kick", "resolve"})

Evidence    == /\ reviews = 0 /\ Len(txs) <= 2
               /\ Cardinality(Repairing) <= 1 /\ Cardinality(Settlements) <= 1
               /\ donated = 0 \/ (NoReverts /\ Only({"kick", "resolve"}))
               /\ Settlements = {} \/ NoReverts
Order       == /\ Len(txs) <= 3 /\ reviews = 0 /\ Plain /\ Repairing = {} /\ Settlements = {}
               /\ Only({"kick"}) \/ Sales(0)
               /\ Cardinality({t \in DOMAIN txs : txs[t].op = "resolve"}) <= 1 /\ Sales(Amount - 1)
TwoScanners == /\ reviews = 0 /\ Plain /\ Only({"kick"}) /\ Sales(1)
               /\ Len(txs) <= 2 /\ Cardinality(Settlements) <= 1
Applied     == Plain /\ Repairing = {} /\ Len(txs) <= 2
Cleared     == /\ Len(txs) <= 3 /\ Plain /\ Repairing = {} /\ Settlements = {} /\ ~Applying
               /\ job[Admin] # NoJob \/ \E r \in rows : r.base = "cleared"

Swept       == /\ reviews = 0 /\ donated = 0 /\ NoReverts /\ Repairing = {} /\ Settlements = {}
               /\ \A t \in DOMAIN txs : txs[t].op = <<"kick", "kick", "sweep", "resolve">>[t]
               /\ \A t \in DOMAIN txs \ {Len(txs)} : txs[t].state # "pending"
               /\ \A p \in DOMAIN sold \ {1} : sold[p] = 0

MCSpec == Init /\ [][Next /\ (Evidence \/ Order \/ TwoScanners \/ Applied \/ Cleared \/ Swept)']_vars

\* For liveness, donations with one transaction only; sending and donating, which
\* this restricts, are not assumed to be fair.
Calm == donated = 0 \/ Len(txs) <= 1

MCFairSpec == Init /\ [][Next /\ Calm']_vars /\ Fairness

ScannerSymmetry == Permutations(Scanners)
=============================================================================
