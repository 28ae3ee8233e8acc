----------------------------- MODULE SerialSender -----------------------------
(***************************************************************************)
(* What the broadcasting client promises: one transaction in the air at a  *)
(* time.  Nothing new is handed to the network before every transaction    *)
(* handed to it earlier has been resolved by chain evidence, and no        *)
(* transaction is handed over twice (docs/operator-guide.md, "refuse to    *)
(* sign while an earlier submission remains unresolved").                  *)
(***************************************************************************)
CONSTANTS Tx,       \* transactions
          Backlog   \* transactions already handed over at the start

VARIABLES sent,      \* handed to the network
          resolved   \* settled by a receipt

svars == <<sent, resolved>>

Init == sent = Backlog /\ resolved = {}

SendOne(t) ==
    /\ sent \subseteq resolved
    /\ t \notin sent
    /\ sent' = sent \union {t}
    /\ UNCHANGED resolved

Resolve(t) ==
    /\ t \in sent
    /\ resolved' = resolved \union {t}
    /\ UNCHANGED sent

Next == \E t \in Tx : SendOne(t) \/ Resolve(t)

Spec == Init /\ [][Next]_svars
=============================================================================
