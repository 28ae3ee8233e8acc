-------------------------- MODULE ActionLedgerProofs --------------------------
(***************************************************************************)
(* What the control plane's ledger guarantees for any number of requests,  *)
(* actions and transactions, and an action to enable tokens for any        *)
(* tokens, fee burners, gas and moves of others.                           *)
(*                                                                         *)
(* The ledger: a verified receipt is what the chain says, and the chain    *)
(* does not change its mind; so a status computed from receipts stays      *)
(* backed by the chain however long a replayed report holds on to it.      *)
(*                                                                         *)
(* The action: what is selected was not enabled when it was simulated, and *)
(* is to be done, in the batch being built, or in exactly one batch; so    *)
(* until its own transaction only others can have enabled it.              *)
(***************************************************************************)
EXTENDS MCActionLedger, SequenceLemmas

Statuses == Outcomes \union {"PREPARED", "BROADCAST_REPORTED"}

Types ==
    /\ chain \in [Tx -> Fates]
    /\ recorded \subseteq Tx
    /\ receipt \in [Tx -> Outcomes \union {"none"}]
    /\ status \in [Actions -> Statuses]
    /\ DOMAIN job = Workers

\* A verified receipt is the chain's, of a recorded hash.
ReceiptTrue ==
    \A t \in Tx : receipt[t] # "none" => receipt[t] = chain[t] /\ t \in recorded

\* A status claims no outcome the chain has not shown.
Backed(a, s) ==
    /\ s = "CONFIRMED" => \A i \in 1 .. NumTx : chain[<<a, i>>] = "CONFIRMED"
    /\ s = "REVERTED" => \E i \in 1 .. NumTx : chain[<<a, i>>] = "REVERTED"

\* What a request has read holds on until it commits.
JobTrue ==
    \A w \in Workers :
        /\ job[w].kind \in {"none", "first", "replay", "receipt", "lookup"}
        /\ job[w].kind \in {"first", "replay", "receipt"} => job[w].tx \in Tx
        /\ job[w].kind = "replay" =>
              /\ job[w].tx \in recorded /\ job[w].status \in Statuses \ {"PREPARED"}
              /\ Backed(job[w].tx[1], job[w].status)
        /\ job[w].kind = "receipt" =>
              job[w].tx \in recorded /\ chain[job[w].tx] \in Outcomes

StatusTrue ==
    \A a \in Actions :
        /\ Backed(a, status[a])
        /\ status[a] = "PREPARED" <=> \A i \in 1 .. NumTx : <<a, i>> \notin recorded

LedgerInv == Types /\ ReceiptTrue /\ JobTrue /\ StatusTrue

----------------------------------------------------------------------------

\* _calculate_action_status: computed from true receipts, a status is backed by
\* the chain and is PREPARED exactly when no hash is recorded.
LEMMA StatusOfTrue ==
    ASSUME NEW a \in Actions, NEW known \in SUBSET Tx,
           NEW outcome \in [Tx -> Outcomes \union {"none"}],
           \A t \in Tx : outcome[t] # "none" => outcome[t] = chain[t] /\ t \in known
    PROVE  /\ StatusOf(a, known, outcome) \in Statuses
           /\ Backed(a, StatusOf(a, known, outcome))
           /\ StatusOf(a, known, outcome) = "PREPARED" <=>
                 \A i \in 1 .. NumTx : <<a, i>> \notin known
<1> DEFINE txs == {a} \X (1 .. NumTx)
<1>1. \A t \in txs : t \in Tx /\ t[1] = a /\ \E i \in 1 .. NumTx : t = <<a, i>>
  BY DEF Tx
<1>2. \A i \in 1 .. NumTx : <<a, i>> \in txs /\ <<a, i>> \in Tx
  BY DEF Tx
<1>3. <<a, 1>> \in txs
  BY <1>2, LedgerAssumption
<1>4. CASE \E t \in txs : outcome[t] = "REVERTED"
  <2>1. StatusOf(a, known, outcome) = "REVERTED"
    BY <1>4 DEF StatusOf
  <2>2. PICK i \in 1 .. NumTx : outcome[<<a, i>>] = "REVERTED"
    BY <1>1, <1>4
  <2> QED BY <1>2, <2>1, <2>2 DEF Backed, Statuses, Outcomes
<1>5. CASE /\ ~ \E t \in txs : outcome[t] = "REVERTED"
           /\ \A t \in txs : outcome[t] = "CONFIRMED"
  <2>1. StatusOf(a, known, outcome) = "CONFIRMED"
    BY <1>5 DEF StatusOf
  <2> QED BY <1>2, <1>3, <1>5, <2>1, LedgerAssumption DEF Backed, Statuses, Outcomes
<1>6. CASE /\ ~ \E t \in txs : outcome[t] = "REVERTED"
           /\ ~ \A t \in txs : outcome[t] = "CONFIRMED"
  <2>1. StatusOf(a, known, outcome) =
          IF txs \intersect known # {} THEN "BROADCAST_REPORTED" ELSE "PREPARED"
    BY <1>6 DEF StatusOf
  <2>2. CASE \E i \in 1 .. NumTx : <<a, i>> \in known
    <3>1. txs \intersect known # {}
      BY <1>2, <2>2
    <3> QED BY <2>1, <2>2, <3>1 DEF Backed, Statuses
  <2>3. CASE \A i \in 1 .. NumTx : <<a, i>> \notin known
    <3>1. txs \intersect known = {}
      BY <1>1, <2>3
    <3> QED BY <2>1, <2>3, <3>1 DEF Backed, Statuses
  <2> QED BY <2>2, <2>3
<1> QED BY <1>4, <1>5, <1>6

\* A new server over old hashes starts with a true ledger.
LEMMA LedgerInit == Init => LedgerInv
<1> SUFFICES ASSUME Init PROVE LedgerInv
  OBVIOUS
<1>1. Types /\ ReceiptTrue /\ JobTrue
  <2>1. recorded \in SUBSET Tx /\ receipt \in [Tx -> Outcomes \union {"none"}]
    BY LedgerAssumption DEF Init
  <2>2. \A a \in Actions : StatusOf(a, recorded, receipt) \in Statuses
    BY <2>1, StatusOfTrue DEF Init
  <2>3. Types
    BY <2>1, <2>2 DEF Init, Types, Fates
  <2>4. ReceiptTrue /\ JobTrue
    BY DEF Init, ReceiptTrue, JobTrue, NoJob
  <2> QED BY <2>3, <2>4
<1>2. StatusTrue
  BY <1>1, StatusOfTrue DEF Init, StatusTrue, Types
<1> QED BY <1>1, <1>2 DEF LedgerInv

\* A transaction is its action and its place in it.
LEMMA TxParts ==
    ASSUME NEW t \in Tx
    PROVE  t[1] \in Actions /\ t[2] \in 1 .. NumTx /\ t = <<t[1], t[2]>>
  BY DEF Tx

\* What the chain has shown stays shown: a status that was backed stays backed.
LEMMA BackedStays ==
    ASSUME NEW a \in Actions, NEW s, Backed(a, s),
           \A t \in Tx : chain[t] # "none" => chain'[t] = chain[t]
    PROVE  Backed(a, s)'
<1>1. \A i \in 1 .. NumTx : <<a, i>> \in Tx
  BY DEF Tx
<1> QED BY <1>1 DEF Backed

\* Receipts of the current state give a status for the worker that reads them.
LEMMA StatusRead ==
    ASSUME LedgerInv, NEW t \in Tx, NEW known \in SUBSET Tx,
           recorded \subseteq known, t \in known
    PROVE  /\ StatusOf(t[1], known, receipt) \in Statuses \ {"PREPARED"}
           /\ Backed(t[1], StatusOf(t[1], known, receipt))
<1>1. t[1] \in Actions /\ t[2] \in 1 .. NumTx /\ <<t[1], t[2]>> \in known
  BY TxParts
<1>2. receipt \in [Tx -> Outcomes \union {"none"}]
  BY DEF LedgerInv, Types
<1>3. \A u \in Tx : receipt[u] # "none" => receipt[u] = chain[u] /\ u \in known
  BY DEF LedgerInv, ReceiptTrue
<1> QED BY <1>1, <1>2, <1>3, StatusOfTrue

\* A step that leaves the tables alone and keeps every job true.
LEMMA JobStep ==
    ASSUME LedgerInv, NEW w \in Workers, NEW j,
           job' = [job EXCEPT ![w] = j],
           UNCHANGED <<chain, recorded, receipt, status>>,
           j.kind \in {"none", "first", "replay", "receipt", "lookup"},
           j.kind \in {"first", "replay", "receipt"} => j.tx \in Tx,
           j.kind = "replay" =>
              /\ j.tx \in recorded /\ j.status \in Statuses \ {"PREPARED"}
              /\ Backed(j.tx[1], j.status),
           j.kind = "receipt" => j.tx \in recorded /\ chain[j.tx] \in Outcomes
    PROVE  LedgerInv'
<1>1. Types' /\ ReceiptTrue' /\ StatusTrue'
  BY DEF LedgerInv, Types, ReceiptTrue, StatusTrue, Backed
<1>2. job'[w] = j /\ \A v \in Workers \ {w} : job'[v] = job[v]
  BY DEF LedgerInv, Types
<1>3. JobTrue'
  BY <1>2 DEF LedgerInv, JobTrue, Backed
<1> QED BY <1>1, <1>3 DEF LedgerInv

----------------------------------------------------------------------------

\* Every step of every worker keeps the ledger true.
LEMMA LedgerStep == LedgerInv /\ [Next]_vars => LedgerInv'
<1> SUFFICES ASSUME LedgerInv, [Next]_vars PROVE LedgerInv'
  OBVIOUS
<1> USE DEF LedgerInv
<1>1. ASSUME NEW t \in Tx, Mine(t) PROVE LedgerInv'
  <2>1. \A u \in Tx : chain[u] # "none" => chain'[u] = chain[u]
    BY <1>1 DEF Mine, Types
  <2>2. Types' /\ ReceiptTrue'
    BY <1>1, <2>1 DEF Mine, Types, ReceiptTrue
  <2>3. StatusTrue'
    BY <1>1, <2>1, BackedStays DEF Mine, StatusTrue
  <2>4. JobTrue'
    <3> SUFFICES ASSUME NEW w \in Workers, job[w].kind = "replay"
                 PROVE  Backed(job[w].tx[1], job[w].status)'
      BY <1>1, <2>1 DEF Mine, JobTrue, Outcomes
    <3>1. job[w].tx[1] \in Actions /\ Backed(job[w].tx[1], job[w].status)
      BY TxParts DEF JobTrue
    <3>2. Backed(job[w].tx[1], job[w].status)' 
      BY <1>1, <2>1, <3>1, BackedStays DEF Mine, Backed, Tx
    <3> QED BY <3>2
  <2> QED BY <2>2, <2>3, <2>4
<1>2. ASSUME NEW w \in Reporters, NEW t \in Tx, StartBroadcast(w, t) PROVE LedgerInv'
  <2>1. w \in Workers
    BY DEF Workers
  <2>2. CASE t \in recorded
    <3> DEFINE j == [kind |-> "replay", tx |-> t, status |-> StatusOf(t[1], recorded, receipt)]
    <3>1. j.status \in Statuses \ {"PREPARED"} /\ Backed(t[1], j.status)
      BY <2>2, StatusRead DEF Types
    <3>2. job' = [job EXCEPT ![w] = j] /\ UNCHANGED <<chain, recorded, receipt, status>>
      BY <1>2, <2>2 DEF StartBroadcast
    <3>3. j.kind = "replay" /\ j.tx = t
      OBVIOUS
    <3> HIDE DEF j
    <3> QED BY <2>1, <2>2, <3>1, <3>2, <3>3, JobStep
  <2>3. CASE t \notin recorded
    <3> DEFINE j == [kind |-> "first", tx |-> t]
    <3>1. job' = [job EXCEPT ![w] = j] /\ UNCHANGED <<chain, recorded, receipt, status>>
      BY <1>2, <2>3 DEF StartBroadcast
    <3>2. j.kind = "first" /\ j.tx = t
      OBVIOUS
    <3> HIDE DEF j
    <3> QED BY <2>1, <3>1, <3>2, JobStep
  <2> QED BY <2>2, <2>3
<1>3. ASSUME NEW w \in Reporters, CommitFirst(w) PROVE LedgerInv'
  <2> DEFINE t == job[w].tx
  <2>1. w \in Workers /\ t \in Tx /\ t[1] \in Actions
    BY <1>3, TxParts DEF Workers, CommitFirst, JobTrue
  <2>2. /\ recorded' = recorded \union {t} /\ UNCHANGED <<chain, receipt>>
        /\ status' = [status EXCEPT ![t[1]] = StatusOf(t[1], recorded', receipt)]
        /\ job' = [job EXCEPT ![w] = NoJob]
    BY <1>3 DEF CommitFirst
  <2>3. /\ StatusOf(t[1], recorded', receipt) \in Statuses \ {"PREPARED"}
        /\ Backed(t[1], StatusOf(t[1], recorded', receipt))
    BY <2>1, <2>2, StatusRead DEF Types
  <2> HIDE DEF t
  <2>4. Types' /\ ReceiptTrue'
    BY <2>1, <2>2, <2>3 DEF Types, ReceiptTrue
  <2>5. JobTrue'
    BY <2>1, <2>2 DEF Types, JobTrue, NoJob, Backed
  <2>6. StatusTrue'
    <3> SUFFICES ASSUME NEW a \in Actions
                 PROVE  /\ Backed(a, status[a])'
                        /\ status'[a] = "PREPARED" <=>
                              \A i \in 1 .. NumTx : <<a, i>> \notin recorded'
      BY DEF StatusTrue
    <3>1. CASE a = t[1]
      BY <2>1, <2>2, <2>3, <3>1, TxParts DEF Types, Backed
    <3>2. CASE a # t[1]
      <4>1. status'[a] = status[a]
        BY <2>2, <3>2 DEF Types
      <4>2. \A i \in 1 .. NumTx : <<a, i>> # t
        BY <3>2
      <4> QED BY <2>2, <4>1, <4>2 DEF StatusTrue, Backed
    <3> QED BY <3>1, <3>2
  <2> QED BY <2>4, <2>5, <2>6
<1>4. ASSUME NEW w \in Reporters, CommitReplay(w) PROVE LedgerInv'
  <2> DEFINE t == job[w].tx
  <2>1. /\ w \in Workers /\ t \in Tx /\ t[1] \in Actions /\ t \in recorded
        /\ job[w].status \in Statuses \ {"PREPARED"} /\ Backed(t[1], job[w].status)
    BY <1>4, TxParts DEF Workers, CommitReplay, JobTrue
  <2>2. /\ UNCHANGED <<chain, recorded, receipt>>
        /\ status' = [status EXCEPT ![t[1]] = job[w].status]
        /\ job' = [job EXCEPT ![w] = NoJob]
    BY <1>4 DEF CommitReplay
  <2> HIDE DEF t
  <2>3. Types' /\ ReceiptTrue'
    BY <2>1, <2>2 DEF Types, ReceiptTrue
  <2>4. JobTrue'
    BY <2>1, <2>2 DEF Types, JobTrue, NoJob, Backed
  <2>5. StatusTrue'
    <3>1. <<t[1], t[2]>> \in recorded /\ t[2] \in 1 .. NumTx
      BY <2>1, TxParts
    <3>2. status'[t[1]] = job[w].status
      BY <2>1, <2>2 DEF Types
    <3>3. \A a \in Actions \ {t[1]} : status'[a] = status[a]
      BY <2>2 DEF Types
    <3>4. job[w].status # "PREPARED"
      BY <2>1
    <3> SUFFICES ASSUME NEW a \in Actions
                 PROVE  /\ Backed(a, status[a])'
                        /\ status'[a] = "PREPARED" <=> \A i \in 1 .. NumTx : <<a, i>> \notin recorded
      BY <2>2 DEF StatusTrue
    <3>5. CASE a = t[1]
      BY <2>1, <2>2, <3>1, <3>2, <3>4, <3>5 DEF Backed
    <3>6. CASE a # t[1]
      BY <2>2, <3>3, <3>6 DEF StatusTrue, Backed
    <3> QED BY <3>5, <3>6
  <2> QED BY <2>3, <2>4, <2>5
<1>5. ASSUME NEW w \in Workers, NEW t \in Tx, ReadForReceipt(w, t),
             UNCHANGED <<chain, recorded, receipt, status>>
      PROVE  LedgerInv'
  <2> DEFINE j == [kind |-> "receipt", tx |-> t, seen |-> Len(ops[t])]
  <2>1. job' = [job EXCEPT ![w] = j] /\ t \in recorded /\ chain[t] \in Outcomes
    BY <1>5 DEF ReadForReceipt
  <2>2. j.kind = "receipt" /\ j.tx = t
    OBVIOUS
  <2> HIDE DEF j
  <2> QED BY <1>5, <2>1, <2>2, JobStep
<1>6. ASSUME NEW w \in Workers, CommitReceipt(w) PROVE LedgerInv'
  <2> DEFINE t == job[w].tx
  <2>1. t \in Tx /\ t[1] \in Actions /\ t \in recorded /\ chain[t] \in Outcomes
    BY <1>6, TxParts DEF CommitReceipt, JobTrue
  <2>2. /\ UNCHANGED <<chain, recorded>> /\ job' = [job EXCEPT ![w] = NoJob]
        /\ receipt' = [receipt EXCEPT ![t] = chain[t]]
        /\ status' = [status EXCEPT ![t[1]] = StatusOf(t[1], recorded, receipt')]
    BY <1>6 DEF CommitReceipt
  <2> HIDE DEF t
  <2>3. /\ receipt' \in [Tx -> Outcomes \union {"none"}]
        /\ \A u \in Tx : receipt'[u] # "none" => receipt'[u] = chain[u] /\ u \in recorded
    BY <2>1, <2>2 DEF Types, ReceiptTrue
  <2>4. /\ StatusOf(t[1], recorded, receipt') \in Statuses
        /\ Backed(t[1], StatusOf(t[1], recorded, receipt'))
        /\ StatusOf(t[1], recorded, receipt') = "PREPARED" <=>
              \A i \in 1 .. NumTx : <<t[1], i>> \notin recorded
    BY <2>1, <2>3, StatusOfTrue DEF Types
  <2>5. Types' /\ ReceiptTrue'
    BY <2>1, <2>2, <2>3, <2>4 DEF Types, ReceiptTrue
  <2>6. JobTrue'
    BY <2>1, <2>2 DEF Types, JobTrue, NoJob, Backed
  <2>7. StatusTrue'
    BY <2>1, <2>2, <2>4 DEF StatusTrue, Types, Backed
  <2> QED BY <2>5, <2>6, <2>7
<1>7. ASSUME NEW w \in Workers, NEW j, job' = [job EXCEPT ![w] = j],
             j.kind \in {"none", "lookup"}, UNCHANGED <<chain, recorded, receipt, status>>
      PROVE  LedgerInv'
  BY <1>7, JobStep
<1>8. loop \in Workers /\ NoJob.kind = "none" /\ Finalisers \subseteq Workers
  BY DEF Workers, NoJob
<1>9. CASE \E w \in Finalisers, t \in Tx : StartReceipt(w, t)
  BY <1>5, <1>8, <1>9 DEF StartReceipt
<1>10. CASE \E w \in Finalisers \union {loop} : CommitReceipt(w)
  BY <1>6, <1>8, <1>10
<1>11. CASE \E w \in Workers : Abandon(w)
  BY <1>7, <1>8, <1>11 DEF Abandon
<1>12. CASE StartPass \/ UNCHANGED vars
  BY <1>12 DEF StartPass, vars, Types, ReceiptTrue, JobTrue, StatusTrue, Backed
<1>13. CASE MarkChecked
  <2> DEFINE j == [kind |-> "lookup", tx |-> Head(batch)]
  <2>1. job' = [job EXCEPT ![loop] = j] /\ UNCHANGED <<chain, recorded, receipt, status>>
    BY <1>13 DEF MarkChecked
  <2>2. j.kind = "lookup"
    OBVIOUS
  <2> HIDE DEF j
  <2> QED BY <1>7, <1>8, <2>1, <2>2
<1>14. CASE LookUp
  <2>1. job[loop].tx \in recorded
    BY <1>14 DEF LookUp, ReadForReceipt
  <2> QED BY <1>5, <1>8, <1>14, <2>1 DEF LookUp, Types
<1>15. CASE CrashLoop
  BY <1>7, <1>8, <1>15 DEF CrashLoop
<1> QED BY <1>1, <1>2, <1>3, <1>4, <1>9, <1>10, <1>11, <1>12, <1>13, <1>14, <1>15 DEF Next

\* The ledger is true in every reachable state.
LEMMA LedgerAlways == Spec => []LedgerInv
<1> QED BY LedgerInit, LedgerStep, PTL DEF Spec

\* record_broadcast, record_verified_receipt: whatever the interleaving, a stored
\* status never claims more than the chain has shown.
THEOREM StatusIsBacked == Spec => []StatusBacked
<1>1. LedgerInv => StatusBacked
  BY DEF LedgerInv, StatusTrue, StatusBacked, Backed
<1> QED BY <1>1, LedgerAlways, PTL

----------------------------------------------------------------------------

\* A finalised row of kick_txs says what the chain says.
RowsTrue ==
    /\ ops \in [Tx -> Seq(Outcomes \union {"SUBMITTED"})]
    /\ \A t \in Tx : \A i \in DOMAIN ops[t] :
          ops[t][i] # "SUBMITTED" => ops[t][i] = chain[t] /\ chain[t] # "none"

\* New rows come after the old ones and finalised rows stay.
RowsKept(old, new) ==
    \A i \in DOMAIN old :
        i \in DOMAIN new /\ (old[i] # "SUBMITTED" => new[i] = old[i])

\* ensure_action_operations: a missing row is staged as submitted.
LEMMA StagedRows ==
    ASSUME RowsTrue, NEW t \in Tx
    PROVE  /\ Staged(t) \in Seq(Outcomes \union {"SUBMITTED"})
           /\ RowsKept(ops[t], Staged(t))
           /\ \A i \in DOMAIN Staged(t) : Staged(t)[i] # "SUBMITTED" =>
                 Staged(t)[i] = chain[t] /\ chain[t] # "none"
<1>1. ops[t] \in Seq(Outcomes \union {"SUBMITTED"})
  BY DEF RowsTrue
<1>2. CASE Staged(t) = ops[t]
  BY <1>1, <1>2 DEF RowsTrue, RowsKept
<1>3. CASE ops[t] = <<>> /\ Staged(t) = <<"SUBMITTED">>
  BY <1>3 DEF RowsKept
<1> QED BY <1>2, <1>3 DEF Staged

\* finalize_receipt: the rows that were seen take the outcome of the chain.
LEMMA FinalisedRows ==
    ASSUME RowsTrue, NEW t \in Tx, NEW seen, chain[t] \in Outcomes
    PROVE  /\ Finalised(t, seen) \in Seq(Outcomes \union {"SUBMITTED"})
           /\ RowsKept(ops[t], Finalised(t, seen))
           /\ \A i \in DOMAIN Finalised(t, seen) : Finalised(t, seen)[i] # "SUBMITTED" =>
                 Finalised(t, seen)[i] = chain[t] /\ chain[t] # "none"
<1> DEFINE Row == Outcomes \union {"SUBMITTED"}
           kept == [i \in DOMAIN ops[t] |-> IF i <= seen THEN chain[t] ELSE ops[t][i]]
<1>1. ops[t] \in Seq(Row) /\ chain[t] \in Row /\ chain[t] # "none"
  BY DEF RowsTrue, Outcomes
<1>2. DOMAIN ops[t] = 1 .. Len(ops[t]) /\ Len(ops[t]) \in Nat
  BY <1>1
<1>3. \A i \in DOMAIN ops[t] : kept[i] = chain[t] \/ kept[i] = ops[t][i]
  OBVIOUS
<1>4. kept \in [1 .. Len(ops[t]) -> Row]
  BY <1>1, <1>2
<1>5. kept \in Seq(Row) /\ Len(kept) = Len(ops[t]) /\ DOMAIN kept = DOMAIN ops[t]
  BY <1>2, <1>4
<1>6. RowsKept(ops[t], kept)
  BY <1>3, <1>5 DEF RowsTrue, RowsKept
<1>7. \A i \in DOMAIN kept : kept[i] # "SUBMITTED" => kept[i] = chain[t]
  BY <1>3, <1>5 DEF RowsTrue
<1>8. CASE Finalised(t, seen) = kept
  BY <1>1, <1>5, <1>6, <1>7, <1>8
<1>9. CASE Finalised(t, seen) = Append(kept, chain[t])
  <2> HIDE DEF kept
  <2>1. /\ Append(kept, chain[t]) \in Seq(Row)
        /\ DOMAIN Append(kept, chain[t]) = 1 .. Len(kept) + 1
        /\ \A i \in DOMAIN kept : Append(kept, chain[t])[i] = kept[i]
        /\ Append(kept, chain[t])[Len(kept) + 1] = chain[t]
    BY <1>1, <1>5
  <2>2. DOMAIN kept = 1 .. Len(kept) /\ Len(kept) \in Nat
    BY <1>5
  <2>3. RowsKept(ops[t], Append(kept, chain[t]))
    BY <1>5, <1>6, <2>1, <2>2 DEF RowsKept
  <2>4. \A i \in DOMAIN Append(kept, chain[t]) :
          Append(kept, chain[t])[i] # "SUBMITTED" => Append(kept, chain[t])[i] = chain[t]
    BY <1>7, <2>1, <2>2
  <2> QED BY <1>1, <1>9, <2>1, <2>3, <2>4
<1> QED BY <1>8, <1>9 DEF Finalised

\* No step takes back or changes a finalised row, and none contradicts the chain.
LEMMA RowsStep ==
    ASSUME LedgerInv, RowsTrue, [Next]_vars
    PROVE  RowsTrue' /\ \A t \in Tx : RowsKept(ops[t], ops'[t])
<1>1. ASSUME UNCHANGED ops, \A t \in Tx : chain[t] # "none" => chain'[t] = chain[t]
      PROVE  RowsTrue' /\ \A t \in Tx : RowsKept(ops[t], ops'[t])
  BY <1>1 DEF RowsTrue, RowsKept
<1>2. ASSUME NEW t \in Tx, NEW list, UNCHANGED chain, ops' = [ops EXCEPT ![t] = list],
             list \in Seq(Outcomes \union {"SUBMITTED"}), RowsKept(ops[t], list),
             \A i \in DOMAIN list : list[i] # "SUBMITTED" =>
                list[i] = chain[t] /\ chain[t] # "none"
      PROVE  RowsTrue' /\ \A u \in Tx : RowsKept(ops[u], ops'[u])
  <2>1. ops'[t] = list /\ \A u \in Tx \ {t} : ops'[u] = ops[u]
    BY <1>2 DEF RowsTrue
  <2>2. ops' \in [Tx -> Seq(Outcomes \union {"SUBMITTED"})]
    BY <1>2 DEF RowsTrue
  <2> QED BY <1>2, <2>1, <2>2 DEF RowsTrue, RowsKept
<1>3. ASSUME NEW w \in Reporters, CommitFirst(w) \/ CommitReplay(w)
      PROVE  RowsTrue' /\ \A u \in Tx : RowsKept(ops[u], ops'[u])
  <2> DEFINE t == job[w].tx
  <2>1. t \in Tx
    BY <1>3 DEF LedgerInv, JobTrue, Workers, CommitFirst, CommitReplay
  <2>2. UNCHANGED chain /\ ops' = [ops EXCEPT ![t] = Staged(t)]
    BY <1>3 DEF CommitFirst, CommitReplay
  <2> HIDE DEF t
  <2> QED BY <1>2, <2>1, <2>2, StagedRows
<1>4. ASSUME NEW w \in Workers, CommitReceipt(w)
      PROVE  RowsTrue' /\ \A u \in Tx : RowsKept(ops[u], ops'[u])
  <2> DEFINE t == job[w].tx
  <2>1. t \in Tx /\ chain[t] \in Outcomes
    BY <1>4 DEF LedgerInv, JobTrue, CommitReceipt
  <2> DEFINE list == Finalised(t, job[w].seen)
  <2>3. UNCHANGED chain /\ ops' = [ops EXCEPT ![t] = list]
    BY <1>4 DEF CommitReceipt
  <2> HIDE DEF t
  <2>4. /\ list \in Seq(Outcomes \union {"SUBMITTED"}) /\ RowsKept(ops[t], list)
        /\ \A i \in DOMAIN list : list[i] # "SUBMITTED" =>
              list[i] = chain[t] /\ chain[t] # "none"
    BY <2>1, FinalisedRows
  <2> HIDE DEF list
  <2> QED BY <1>2, <2>1, <2>3, <2>4
<1>5. CASE \E t \in Tx : Mine(t)
  <2>1. UNCHANGED ops /\ \A u \in Tx : chain[u] # "none" => chain'[u] = chain[u]
    BY <1>5 DEF Mine, LedgerInv, Types
  <2> QED BY <1>1, <2>1
<1>6. CASE \E w \in Reporters : CommitFirst(w) \/ CommitReplay(w)
  BY <1>3, <1>6
<1>7. CASE \E w \in Finalisers \union {loop} : CommitReceipt(w)
  BY <1>4, <1>7 DEF Workers
<1>8. CASE \/ \E w \in Reporters, t \in Tx : StartBroadcast(w, t)
           \/ \E w \in Finalisers, t \in Tx : StartReceipt(w, t)
           \/ \E w \in Workers : Abandon(w)
           \/ StartPass \/ MarkChecked \/ LookUp \/ CrashLoop \/ UNCHANGED vars
  <2>1. UNCHANGED <<chain, ops>>
    BY <1>8 DEF StartBroadcast, StartReceipt, Abandon, StartPass, MarkChecked,
                LookUp, CrashLoop, vars
  <2> QED BY <1>1, <2>1
<1> QED BY <1>5, <1>6, <1>7, <1>8 DEF Next

\* kick_txs never contradicts the chain.
LEMMA RowsAlways == Spec => []RowsTrue
<1>1. Init => RowsTrue
  BY DEF Init, RowsTrue
<1>2. LedgerInv /\ RowsTrue /\ [Next]_vars => RowsTrue'
  BY RowsStep
<1> QED BY <1>1, <1>2, LedgerAlways, PTL DEF Spec

\* record_verified_receipt, finalize_receipt: a verified receipt and the rows
\* finalised from it are final, whatever is replayed afterwards.
THEOREM OutcomesAreFinal == Spec => OutcomeIsFinal
<1> DEFINE Keep == \A t \in Tx :
                /\ receipt[t] # "none" => receipt'[t] = receipt[t]
                /\ \A i \in DOMAIN ops[t] : ops[t][i] # "SUBMITTED" =>
                       i \in DOMAIN ops'[t] /\ ops'[t][i] = ops[t][i]
<1>1. LedgerInv /\ LedgerInv' /\ RowsTrue /\ [Next]_vars => [Keep]_vars
  <2> SUFFICES ASSUME LedgerInv, LedgerInv', RowsTrue, [Next]_vars, NEW t \in Tx
               PROVE  /\ receipt[t] # "none" => receipt'[t] = receipt[t]
                      /\ \A i \in DOMAIN ops[t] : ops[t][i] # "SUBMITTED" =>
                             i \in DOMAIN ops'[t] /\ ops'[t][i] = ops[t][i]
    OBVIOUS
  <2>1. RowsKept(ops[t], ops'[t])
    BY RowsStep
  <2>2. receipt[t] # "none" => receipt'[t] = receipt[t]
    <3>1. receipt'[t] = receipt[t] \/ receipt'[t] = chain[t]
      <4>1. CASE UNCHANGED receipt
        BY <4>1
      <4>2. CASE \E w \in Finalisers \union {loop} : CommitReceipt(w)
        BY <4>2 DEF CommitReceipt, LedgerInv, Types
      <4> QED BY <4>1, <4>2 DEF Next, vars, Mine, StartBroadcast, CommitFirst,
                CommitReplay, StartReceipt, Abandon, StartPass, MarkChecked, LookUp, CrashLoop
    <3> QED BY <3>1 DEF LedgerInv, ReceiptTrue
  <2> QED BY <2>1, <2>2 DEF RowsKept
<1> QED BY <1>1, LedgerAlways, RowsAlways, PTL DEF Spec, OutcomeIsFinal

----------------------------------------------------------------------------
(* Apart from hashes of an older server, kick_txs holds one row for each   *)
(* recorded transaction, and a receipt that is being finalised has seen it.*)

RowOfReceipt(t) == <<IF receipt[t] = "none" THEN "SUBMITTED" ELSE receipt[t]>>

AgreeInv ==
    /\ LedgersAgree
    /\ \A t \in Tx \ recorded : ops[t] = <<>>
    /\ \A w \in Workers :
          job[w].kind = "receipt" /\ job[w].tx \notin Legacy => job[w].seen = 1

\* A step that leaves recorded, receipt and ops alone and starts no receipt.
LEMMA AgreeStays ==
    ASSUME LedgerInv, AgreeInv, UNCHANGED <<recorded, receipt, ops>>, NEW w \in Workers, NEW j,
           job' = [job EXCEPT ![w] = j],
           j.kind = "receipt" /\ j.tx \notin Legacy => j.seen = 1
    PROVE  AgreeInv'
<1>1. job'[w] = j /\ \A v \in Workers \ {w} : job'[v] = job[v]
  BY DEF LedgerInv, Types
<1> QED BY <1>1 DEF AgreeInv, LedgersAgree

\* No request leaves the API tables and kick_txs at odds.
LEMMA AgreeStep ==
    ASSUME LedgerInv, RowsTrue, AgreeInv, [Next]_vars
    PROVE  AgreeInv'
<1>1. ASSUME NEW w \in Workers, NEW j, job' = [job EXCEPT ![w] = j], j.kind # "receipt",
             UNCHANGED <<recorded, receipt, ops>>
      PROVE  AgreeInv'
  BY <1>1, AgreeStays
<1>2. NoJob.kind # "receipt" /\ loop \in Workers
  BY DEF NoJob, Workers
<1>3. CASE (\E t \in Tx : Mine(t)) \/ StartPass \/ UNCHANGED vars
  BY <1>3 DEF Mine, StartPass, vars, AgreeInv, LedgersAgree
<1>4. ASSUME NEW w \in Reporters, NEW t \in Tx, StartBroadcast(w, t) PROVE AgreeInv'
  <2> DEFINE j == IF t \in recorded
                    THEN [kind |-> "replay", tx |-> t,
                          status |-> StatusOf(t[1], recorded, receipt)]
                    ELSE [kind |-> "first", tx |-> t]
  <2>1. job' = [job EXCEPT ![w] = j] /\ UNCHANGED <<recorded, receipt, ops>>
    BY <1>4 DEF StartBroadcast
  <2>2. j.kind # "receipt" /\ w \in Workers
    BY DEF Workers
  <2> HIDE DEF j
  <2> QED BY <1>1, <2>1, <2>2
<1>5. ASSUME NEW w \in Workers, NEW t \in Tx, ReadForReceipt(w, t),
             UNCHANGED <<recorded, receipt, ops>>
      PROVE  AgreeInv'
  <2> DEFINE j == [kind |-> "receipt", tx |-> t, seen |-> Len(ops[t])]
  <2>1. job' = [job EXCEPT ![w] = j] /\ t \in recorded
    BY <1>5 DEF ReadForReceipt
  <2>2. t \notin Legacy => ops[t] = RowOfReceipt(t)
    BY <2>1 DEF AgreeInv, LedgersAgree, RowOfReceipt
  <2>3. t \notin Legacy => Len(ops[t]) = 1
    BY <2>2 DEF RowOfReceipt
  <2>4. j.tx = t /\ (t \notin Legacy => j.seen = 1)
    BY <2>3
  <2> HIDE DEF j
  <2> QED BY <1>5, <2>1, <2>4, AgreeStays
<1>6. ASSUME NEW w \in Reporters, CommitFirst(w) \/ CommitReplay(w) PROVE AgreeInv'
  <2> DEFINE t == job[w].tx
  <2>1. w \in Workers /\ t \in Tx
    BY <1>6 DEF LedgerInv, JobTrue, Workers, CommitFirst, CommitReplay
  <2>2. /\ ops' = [ops EXCEPT ![t] = Staged(t)] /\ UNCHANGED receipt
        /\ job' = [job EXCEPT ![w] = NoJob] /\ recorded' = recorded \union {t}
    BY <1>6 DEF CommitFirst, CommitReplay, LedgerInv, JobTrue, Workers
  <2> HIDE DEF t
  <2>4. t \notin Legacy => Staged(t) = RowOfReceipt(t)
    <3>1. CASE t \in recorded
      <4>1. t \notin Legacy => ops[t] = RowOfReceipt(t)
        BY <3>1 DEF AgreeInv, LedgersAgree, RowOfReceipt
      <4>2. RowOfReceipt(t) # <<>>
        BY DEF RowOfReceipt
      <4> QED BY <4>1, <4>2 DEF Staged
    <3>2. CASE t \notin recorded
      <4>1. ops[t] = <<>> /\ receipt[t] = "none"
        BY <2>1, <3>2 DEF AgreeInv, LedgerInv, ReceiptTrue
      <4> QED BY <4>1 DEF Staged, RowOfReceipt
    <3> QED BY <3>1, <3>2
  <2>5. LedgersAgree'
    <3> SUFFICES ASSUME NEW u \in recorded' \ Legacy PROVE ops'[u] = RowOfReceipt(u)
      BY <2>2 DEF LedgersAgree, RowOfReceipt
    <3>1. CASE u = t
      BY <2>1, <2>2, <2>4, <3>1 DEF RowsTrue
    <3>2. CASE u # t
      <4>1. u \in recorded \ Legacy /\ u \in Tx
        BY <2>2, <3>2 DEF LedgerInv, Types
      <4>2. ops'[u] = ops[u]
        BY <2>2, <3>2, <4>1 DEF RowsTrue
      <4> QED BY <4>1, <4>2 DEF AgreeInv, LedgersAgree, RowOfReceipt
    <3> QED BY <3>1, <3>2
  <2>6. \A v \in Workers : job'[v].kind = "receipt" => job'[v] = job[v]
    BY <1>2, <2>2 DEF LedgerInv, Types
  <2>7. \A u \in Tx \ recorded' : ops'[u] = <<>>
    BY <2>1, <2>2 DEF AgreeInv, RowsTrue
  <2> QED BY <2>5, <2>6, <2>7 DEF AgreeInv
<1>7. ASSUME NEW w \in Workers, CommitReceipt(w) PROVE AgreeInv'
  <2> DEFINE t == job[w].tx
             list == Finalised(t, job[w].seen)
  <2>1. t \in Tx /\ t \in recorded /\ chain[t] \in Outcomes /\ chain[t] # "none"
    BY <1>7 DEF LedgerInv, JobTrue, CommitReceipt, Outcomes
  <2>2. /\ ops' = [ops EXCEPT ![t] = list] /\ receipt' = [receipt EXCEPT ![t] = chain[t]]
        /\ job' = [job EXCEPT ![w] = NoJob] /\ UNCHANGED recorded
    BY <1>7 DEF CommitReceipt
  <2>3. t \notin Legacy => list = <<chain[t]>>
    <3> SUFFICES ASSUME t \notin Legacy PROVE list = <<chain[t]>>
      OBVIOUS
    <3>1. ops[t] = RowOfReceipt(t) /\ job[w].seen = 1
      BY <1>7, <2>1 DEF AgreeInv, LedgersAgree, RowOfReceipt, CommitReceipt
    <3>2. DOMAIN ops[t] = 1 .. 1
      BY <3>1 DEF RowOfReceipt
    <3>3. list = [i \in 1 .. 1 |-> chain[t]]
      BY <3>1, <3>2 DEF Finalised
    <3> QED BY <3>3
  <2> HIDE DEF list, t
  <2>6. LedgersAgree'
    <3> SUFFICES ASSUME NEW u \in recorded \ Legacy PROVE ops'[u] = RowOfReceipt(u)'
      BY <2>2 DEF LedgersAgree, RowOfReceipt
    <3>1. u \in Tx
      BY DEF LedgerInv, Types
    <3>2. CASE u = t
      <4>1. receipt'[u] = chain[u] /\ ops'[u] = <<chain[u]>>
        BY <2>1, <2>2, <2>3, <3>2 DEF RowsTrue, LedgerInv, Types
      <4> QED BY <2>1, <3>2, <4>1 DEF RowOfReceipt
    <3>3. CASE u # t
      <4>1. ops'[u] = ops[u] /\ receipt'[u] = receipt[u]
        BY <2>2, <3>1, <3>3 DEF RowsTrue, LedgerInv, Types
      <4> QED BY <4>1 DEF AgreeInv, LedgersAgree, RowOfReceipt
    <3> QED BY <3>2, <3>3
  <2>7. \A v \in Workers : job'[v].kind = "receipt" => job'[v] = job[v]
    BY <1>2, <2>2 DEF LedgerInv, Types
  <2>8. \A u \in Tx \ recorded' : ops'[u] = <<>>
    BY <2>1, <2>2 DEF AgreeInv, RowsTrue
  <2> QED BY <2>6, <2>7, <2>8 DEF AgreeInv
<1>8. CASE \E w \in Finalisers, t \in Tx : StartReceipt(w, t)
  BY <1>5, <1>8 DEF StartReceipt, Workers
<1>9. CASE \E w \in Finalisers \union {loop} : CommitReceipt(w)
  BY <1>7, <1>9 DEF Workers
<1>10. CASE \E w \in Workers : Abandon(w)
  BY <1>1, <1>2, <1>10 DEF Abandon
<1>11. CASE MarkChecked
  <2> DEFINE j == [kind |-> "lookup", tx |-> Head(batch)]
  <2>1. job' = [job EXCEPT ![loop] = j] /\ UNCHANGED <<recorded, receipt, ops>>
    BY <1>11 DEF MarkChecked
  <2>2. j.kind # "receipt"
    OBVIOUS
  <2> HIDE DEF j
  <2> QED BY <1>1, <1>2, <2>1, <2>2
<1>12. CASE LookUp
  <2>1. job[loop].tx \in Tx
    BY <1>12 DEF LookUp, ReadForReceipt, LedgerInv, Types
  <2> QED BY <1>2, <1>5, <1>12, <2>1 DEF LookUp
<1>13. CASE CrashLoop
  BY <1>1, <1>2, <1>13 DEF CrashLoop
<1> QED BY <1>3, <1>4, <1>6, <1>8, <1>9, <1>10, <1>11, <1>12, <1>13 DEF Next

\* finalize_receipt, "commit all receipt-derived state together": the API tables
\* and kick_txs agree at every moment on whatever this server has recorded.
THEOREM TablesAgree == Spec => []LedgersAgree
<1>1. Init => AgreeInv
  BY LedgerAssumption DEF Init, AgreeInv, LedgersAgree, NoJob
<1>2. LedgerInv /\ RowsTrue /\ AgreeInv /\ [Next]_vars => AgreeInv'
  BY AgreeStep
<1>3. AgreeInv => LedgersAgree
  BY DEF AgreeInv
<1> QED BY <1>1, <1>2, <1>3, LedgerAlways, RowsAlways, PTL DEF Spec
----------------------------------------------------------------------------
(* The order in which hashes are looked up lists what is recorded, each    *)
(* once.                                                                   *)

OrderInv ==
    /\ order \in Seq(recorded) /\ ToSet(order) = recorded /\ Distinct(order)
    /\ IsFiniteSet(recorded)
    /\ batch \in Seq(recorded)

\* A list of all members of a set, each once.
Lists(s, S) == s \in Seq(S) /\ ToSet(s) = S /\ Distinct(s)

\* updated_at: a hash that is written comes last, whether it was listed or not.
LEMMA MovedToEndLists ==
    ASSUME OrderInv, NEW t
    PROVE  Lists(MovedToEnd(t), recorded \union {t})
<1>1. PICK s, S, u : s = order /\ S = recorded \union {t} /\ u = RemoveFirst(s, t)
  OBVIOUS
<1>2. s \in Seq(S) /\ Distinct(s) /\ t \in S
  BY <1>1 DEF OrderInv
<1>3. u \in Seq(S) /\ Distinct(u) /\ ToSet(u) = ToSet(s) \ {t}
  BY <1>1, <1>2, RemovedOnce
<1>4. Append(u, t) \in Seq(S) /\ ToSet(Append(u, t)) = ToSet(u) \union {t} /\ Distinct(Append(u, t))
  BY <1>2, <1>3, ToSetAppend, DistinctAppend
<1> QED BY <1>1, <1>3, <1>4 DEF Lists, MovedToEnd, OrderInv

\* A step that records a hash, or writes one that is recorded.
LEMMA MoveKeepsOrder ==
    ASSUME OrderInv, NEW t, recorded' = recorded \union {t}, order' = MovedToEnd(t), batch' \in Seq(recorded)
    PROVE  OrderInv'
<1>1. IsFiniteSet(recorded')
  BY FS_AddElement DEF OrderInv
<1>2. batch' \in Seq(recorded')
  OBVIOUS
<1>3. Lists(order', recorded')
  BY MovedToEndLists
<1> QED BY <1>1, <1>2, <1>3 DEF OrderInv, Lists

LEMMA OrderInit ==
    ASSUME Init
    PROVE  OrderInv
<1>1. IsFiniteSet(recorded) /\ Cardinality(recorded) \in Nat
  <2>1. IsFiniteSet(recorded)
    BY LedgerAssumption, FS_Subset DEF Init
  <2> QED BY <2>1, FS_CardinalityType
<1>2. PICK s, S, n : s = order /\ S = recorded /\ n = Cardinality(S)
  OBVIOUS
<1>3. s \in [1 .. n -> S] /\ Distinct(s) /\ n \in Nat
  BY <1>1, <1>2 DEF Init, Distinct
<1>4. s \in Seq(S) /\ Len(s) = n
  BY <1>3
<1>5. Cardinality(ToSet(s)) = n /\ ToSet(s) \subseteq S
  BY <1>3, <1>4, DistinctCounts
<1>6. ToSet(s) = S
  BY <1>1, <1>2, <1>5, FS_Subset
<1>7. batch = <<>>
  BY DEF Init
<1> QED BY <1>1, <1>2, <1>3, <1>4, <1>6, <1>7 DEF OrderInv

LEMMA OrderStep ==
    ASSUME LedgerInv, OrderInv, [Next]_vars
    PROVE  OrderInv'
<1>1. CASE UNCHANGED <<recorded, order, batch>>
  BY <1>1 DEF OrderInv
<1>2. CASE (\E t \in Tx : Mine(t)) \/ (\E w \in Reporters, t \in Tx : StartBroadcast(w, t)) \/ UNCHANGED vars
  BY <1>1, <1>2 DEF Mine, StartBroadcast, vars
<1>3. CASE \/ \E w \in Finalisers, t \in Tx : StartReceipt(w, t)
           \/ \E w \in Workers : Abandon(w)
           \/ \E w \in Reporters : CommitReplay(w)
           \/ LookUp
  BY <1>1, <1>3 DEF StartReceipt, Abandon, CommitReplay, LookUp
<1>4. ASSUME NEW w \in Reporters, CommitFirst(w) PROVE OrderInv'
  <2>1. PICK t : t = job[w].tx
    OBVIOUS
  <2>2. recorded' = recorded \union {t} /\ order' = MovedToEnd(t) /\ batch' = batch
    BY <1>4, <2>1 DEF CommitFirst
  <2> QED BY <2>2, MoveKeepsOrder DEF OrderInv
<1>5. ASSUME NEW w \in Finalisers \union {loop}, CommitReceipt(w) PROVE OrderInv'
  <2>1. PICK t : t = job[w].tx
    OBVIOUS
  <2>2. t \in recorded
    BY <1>5, <2>1 DEF CommitReceipt, LedgerInv, JobTrue, Workers
  <2>3. recorded' = recorded \union {t} /\ order' = MovedToEnd(t) /\ batch' = batch
    BY <1>5, <2>1, <2>2 DEF CommitReceipt
  <2> QED BY <2>3, MoveKeepsOrder DEF OrderInv
<1>6. CASE MarkChecked
  <2>1. PICK t : t = Head(batch)
    OBVIOUS
  <2>2. t \in recorded /\ batch' \in Seq(recorded)
    BY <1>6, <2>1 DEF MarkChecked, OrderInv
  <2>3. recorded' = recorded \union {t} /\ order' = MovedToEnd(t)
    BY <1>6, <2>1, <2>2 DEF MarkChecked
  <2> QED BY <2>2, <2>3, MoveKeepsOrder
<1>7. CASE StartPass
  <2>1. PICK n \in 1 .. BatchLimit : \E f \in Oldest(n) : batch' = [i \in 1 .. n |-> order[f[i]]]
    BY <1>7 DEF StartPass
  <2>2. PICK f \in Oldest(n) : batch' = [i \in 1 .. n |-> order[f[i]]]
    BY <2>1
  <2>3. n \in Nat /\ f \in [1 .. n -> DOMAIN order]
    <3>1. f \in [1 .. n -> Unverified]
      BY DEF Oldest
    <3> QED BY <3>1, LedgerAssumption DEF Unverified
  <2>4. \A i \in 1 .. n : order[f[i]] \in recorded
    BY <2>3 DEF OrderInv
  <2>5. batch' \in [1 .. n -> recorded]
    BY <2>2, <2>4
  <2>6. batch' \in Seq(recorded)
    BY <2>3, <2>5
  <2>7. UNCHANGED <<recorded, order>>
    BY <1>7 DEF StartPass
  <2> QED BY <2>6, <2>7 DEF OrderInv
<1>8. CASE CrashLoop
  BY <1>8 DEF CrashLoop, OrderInv
<1> QED BY <1>2, <1>3, <1>4, <1>5, <1>6, <1>7, <1>8 DEF Next

\* mark_receipt_checked and the commits: the tables keep their types, and the order of
\* lookups has every recorded hash exactly once, whatever is written while a pass goes on.
THEOREM LedgerTypes == Spec => []TypeOK
<1>1. Init => OrderInv
  BY OrderInit
<1>2. LedgerInv /\ OrderInv /\ [Next]_vars => OrderInv'
  BY OrderStep
<1>3. LedgerInv /\ RowsTrue /\ OrderInv => TypeOK
  <2> SUFFICES ASSUME LedgerInv, RowsTrue, OrderInv PROVE TypeOK
    OBVIOUS
  <2>1. Len(order) = Cardinality(recorded)
    BY DistinctCounts DEF OrderInv
  <2>2. {order[i] : i \in DOMAIN order} = recorded
    BY DEF OrderInv, ToSet
  <2>3. {batch[i] : i \in DOMAIN batch} \subseteq recorded
    BY DEF OrderInv
  <2> QED BY <2>1, <2>2, <2>3 DEF LedgerInv, Types, RowsTrue, TypeOK, Statuses
<1> QED BY <1>1, <1>2, <1>3, LedgerAlways, RowsAlways, PTL DEF Spec

----------------------------------------------------------------------------
(* The action to enable tokens: its inductive invariant.                   *)

EnableAssumption == IsFiniteSet(Tokens) /\ "absent" \notin Burners \union {none}

Places   == {"resolve", "inspect", "states", "probe", "batch", "prepared", "noop", "error"}
Plans(G) == {none} \union {Enable!Total(G, ts) : ts \in Seq(Tokens)}
Aliased  == {"auction", "burner"} \X Burners \union {<<"want", none>>}
Batch(G)  == [tokens : Seq(Tokens), gas : Plans(G)]
EnableTx == [tokens : Seq(Tokens), state : {"pending", "ok", "reverted"}]
ActionType(G) ==
    [at : Places, alias : Aliased, auction : Burners \union {none}, listed : SUBSET Tokens, found : SUBSET Tokens,
     todo : Seq(Tokens), selected : Seq(Tokens), tokens : Seq(Tokens), plan : Plans(G),
     batches : Seq(Batch(G))]
EnableTypes ==
    /\ rows \in [Burners -> {"absent", none} \union Burners] /\ enabled \in [Burners -> SUBSET Tokens]
    /\ moves \in Seq(Burners \X Tokens)
    /\ pool \in Seq(EnableTx)
    /\ action \in ActionType(gas)

In(b, i) == ToSet(b[i].tokens)

\* What is selected is to be done, in the batch being built, or in one batch.
InHand(r) ==
    /\ Distinct(r.todo)
    /\ ToSet(r.tokens) \subseteq ToSet(r.selected)
    /\ \A i \in DOMAIN r.batches : /\ In(r.batches, i) \subseteq ToSet(r.selected)
                                   /\ In(r.batches, i) \intersect ToSet(r.tokens) = {}
    /\ \A i, j \in DOMAIN r.batches : i # j => In(r.batches, i) \intersect In(r.batches, j) = {}
    /\ r.at \in {"resolve", "inspect", "states"} => r.selected = <<>> /\ r.todo = <<>>
    /\ r.at \in {"resolve", "inspect", "states", "probe"} => r.tokens = <<>> /\ r.batches = <<>>
    /\ r.at = "probe" => Distinct(r.selected) /\ ToSet(r.todo) \intersect ToSet(r.selected) = {}
    /\ r.at = "batch" =>
         /\ r.todo # <<>> \/ r.tokens # <<>>
         /\ ToSet(r.todo) \subseteq ToSet(r.selected) /\ ToSet(r.todo) \intersect ToSet(r.tokens) = {}
         /\ \A i \in DOMAIN r.batches : In(r.batches, i) \intersect ToSet(r.todo) = {}
    /\ r.at \in {"batch", "prepared"} =>
         \A t \in ToSet(r.selected) : \/ t \in ToSet(r.todo) \union ToSet(r.tokens)
                                      \/ \E i \in DOMAIN r.batches : t \in In(r.batches, i)
    /\ r.at = "prepared" => r.todo = <<>> /\ r.tokens = <<>>
    /\ r.at \in {"inspect", "states", "probe", "batch", "prepared"} \/ r.selected # <<>> => r.auction \in Burners

\* An estimate is that of its tokens, and within the limit.
Fitting(ts, plan, G) == plan # none => plan = Enable!Total(G, ts) /\ plan <= GasCap
Fit(r, G) ==
    /\ r.tokens # <<>> => Fitting(r.tokens, r.plan, G)
    /\ \A i \in DOMAIN r.batches : Fitting(r.batches[i].tokens, r.batches[i].gas, G)

\* The transactions are the batches in order.
PoolTrue(r, T) ==
    /\ Len(T) <= Len(r.batches) /\ \A n \in DOMAIN T : T[n].tokens = r.batches[n].tokens
    /\ r.at # "prepared" => T = <<>>

\* Only a confirmed transaction and others enable what was selected, and only others
\* disable it again.
Confirmed(t, T) == \E n \in DOMAIN T : T[n].state = "ok" /\ t \in ToSet(T[n].tokens)
EnabledTrue(r, T, On, M) ==
    \A t \in ToSet(r.selected) :
        <<r.auction, t>> \in ToSet(M) \/ (t \in On[r.auction] <=> Confirmed(t, T))

EnableInv ==
    /\ EnableTypes /\ InHand(action) /\ Fit(action, gas) /\ PoolTrue(action, pool)
    /\ EnabledTrue(action, pool, enabled, moves) /\ Enable!AliasNamesOne

----------------------------------------------------------------------------
(* Operators.                                                              *)

\* The instance and this module use the same operators on lists and sets.
LEMMA EnableLists == \A s : Enable!ToSet(s) = ToSet(s)
  BY DEF Enable!ToSet, ToSet

LEMMA EnableOrders == \A S : Enable!SetToSeq(S) = SetToSeq(S)
<1>1. \A S : Enable!Cardinality(S) = Cardinality(S)
  BY DEF Enable!Cardinality, Cardinality
<1> QED BY <1>1 DEF Enable!SetToSeq, SetToSeq, Enable!IsInjective, IsInjective

\* A list that something is added to, place by place.
LEMMA AppendedAt ==
    ASSUME NEW S, NEW s \in Seq(S), NEW e \in S
    PROVE  /\ Append(s, e) \in Seq(S) /\ Len(Append(s, e)) = Len(s) + 1 /\ Len(s) \in Nat
           /\ DOMAIN s = 1 .. Len(s) /\ DOMAIN Append(s, e) = 1 .. Len(s) + 1
           /\ Append(s, e)[Len(s) + 1] = e /\ \A i \in 1 .. Len(s) : Append(s, e)[i] = s[i]
  OBVIOUS

\* Two records of an action with the same values are the same to the invariant.
LEMMA SameAction ==
    ASSUME EnableInv, UNCHANGED <<configured, rows, gas, enabled, moves, action, pool>>
    PROVE  EnableInv'
  BY DEF EnableInv, EnableTypes, Enable!AliasNamesOne

----------------------------------------------------------------------------
(* Steps of the chain, of scans and of the client.                         *)

LEMMA MineKeepsEnable ==
    ASSUME EnableInv, NEW n \in DOMAIN pool, Enable!Mine(n)
    PROVE  EnableInv'
<1>1. PICK r, T, On, M : r = action /\ T = pool /\ On = enabled /\ M = moves
  OBVIOUS
<1>2. /\ r \in ActionType(gas) /\ InHand(r) /\ PoolTrue(r, T) /\ EnabledTrue(r, T, On, M)
      /\ T \in Seq(EnableTx)
      /\ On \in [Burners -> SUBSET Tokens] /\ n \in DOMAIN T
  BY <1>1 DEF EnableInv, EnableTypes
<1>3. UNCHANGED <<configured, rows, gas, moves, action>>
  BY DEF Enable!Mine, Enable!dbVars
<1>4. r.auction \in Burners
  <2>1. r.at = "prepared"
    BY <1>2 DEF PoolTrue
  <2> QED BY <1>2, <2>1 DEF InHand
<1>5. PICK state, more :
         /\ pool' = [T EXCEPT ![n].state = state] /\ enabled' = [On EXCEPT ![r.auction] = @ \union more]
         /\ T[n].state = "pending"
         /\ \/ state = "reverted" /\ more = {}
            \/ state = "ok" /\ more = ToSet(T[n].tokens)
  <2>1. CASE \E t \in ToSet(T[n].tokens) : t \in On[r.auction]
    <3>1. pool' = [T EXCEPT ![n].state = "reverted"] /\ enabled' = On /\ T[n].state = "pending"
      BY <1>1, <2>1, EnableLists DEF Enable!Mine
    <3>2. On = [On EXCEPT ![r.auction] = @ \union {}]
      BY <1>2, <1>4
    <3> QED BY <3>1, <3>2
  <2>2. CASE ~ \E t \in ToSet(T[n].tokens) : t \in On[r.auction]
    BY <1>1, <2>2, EnableLists DEF Enable!Mine
  <2> QED BY <2>1, <2>2
<1>6. PICK T2, On2 : T2 = pool' /\ On2 = enabled'
  OBVIOUS
<1>7. /\ T2 = [T EXCEPT ![n].state = state] /\ On2 = [On EXCEPT ![r.auction] = @ \union more]
      /\ T[n].state = "pending"
  BY <1>5, <1>6
<1>8. /\ T2 \in Seq(EnableTx)
      /\ Len(T2) = Len(T) /\ DOMAIN T2 = DOMAIN T
      /\ \A k \in DOMAIN T : T2[k].tokens = T[k].tokens /\ (k # n => T2[k] = T[k])
      /\ T2[n].state = state /\ state \in {"ok", "reverted"}
  <2>1. state \in {"ok", "reverted"}
    BY <1>5
  <2>2. T[n] \in EnableTx
    BY <1>2
  <2>3. PICK tx : tx = [T[n] EXCEPT !.state = state]
    OBVIOUS
  <2>4. tx \in EnableTx /\ tx.tokens = T[n].tokens /\ tx.state = state
    BY <2>1, <2>2, <2>3 DEF EnableTx
  <2>5. T2 = [T EXCEPT ![n] = tx]
    BY <1>7, <2>3
  <2> QED BY <1>2, <2>1, <2>4, <2>5
<1>9. more \subseteq Tokens
  <2>1. T[n].tokens \in Seq(Tokens)
    <3>1. T[n] \in EnableTx
      BY <1>2
    <3> QED BY <3>1 DEF EnableTx
  <2> QED BY <1>5, <2>1, ToSetType
<1>10. On2 \in [Burners -> SUBSET Tokens] /\ On2[r.auction] = On[r.auction] \union more
  BY <1>2, <1>4, <1>7, <1>9
<1>11. EnabledTrue(r, T2, On2, M)
  <2> SUFFICES ASSUME NEW t \in ToSet(r.selected), <<r.auction, t>> \notin ToSet(M)
               PROVE  t \in On2[r.auction] <=> Confirmed(t, T2)
    BY DEF EnabledTrue
  <2>1. t \in On[r.auction] <=> Confirmed(t, T)
    BY <1>2 DEF EnabledTrue
  <2>2. Confirmed(t, T) => Confirmed(t, T2)
    BY <1>7, <1>8 DEF Confirmed
  <2>3. t \in more => Confirmed(t, T2)
    BY <1>2, <1>5, <1>8 DEF Confirmed
  <2>4. Confirmed(t, T2) => Confirmed(t, T) \/ t \in more
    BY <1>5, <1>8 DEF Confirmed
  <2> QED BY <1>10, <2>1, <2>2, <2>3, <2>4
<1>12. PoolTrue(r, T2)
  BY <1>2, <1>8 DEF PoolTrue
<1> QED BY <1>1, <1>3, <1>6, <1>8, <1>10, <1>11, <1>12 DEF EnableInv, EnableTypes, Enable!AliasNamesOne

LEMMA ElsewhereKeepsEnable ==
    ASSUME EnableInv, Enable!Elsewhere
    PROVE  EnableInv'
<1>1. PICK b \in Burners, t \in Tokens :
        /\ moves' = Append(moves, <<b, t>>)
        /\ enabled' = [enabled EXCEPT ![b] = IF t \in @ THEN @ \ {t} ELSE @ \union {t}]
  BY DEF Enable!Elsewhere
<1>2. UNCHANGED <<configured, rows, gas, action, pool>>
  BY DEF Enable!Elsewhere, Enable!dbVars
<1>3. PICK r, T, On, M, On2, M2 :
         r = action /\ T = pool /\ On = enabled /\ M = moves /\ On2 = enabled' /\ M2 = moves'
  OBVIOUS
<1>4. /\ r \in ActionType(gas) /\ InHand(r) /\ EnabledTrue(r, T, On, M)
      /\ On \in [Burners -> SUBSET Tokens] /\ M \in Seq(Burners \X Tokens)
  BY <1>3 DEF EnableInv, EnableTypes
<1>5. /\ M2 \in Seq(Burners \X Tokens)
      /\ ToSet(M2) = ToSet(M) \union {<<b, t>>}
  <2>1. <<b, t>> \in Burners \X Tokens /\ M2 = Append(M, <<b, t>>)
    BY <1>1, <1>3
  <2> QED BY <1>4, <2>1, ToSetAppend
<1>6. /\ On2 \in [Burners -> SUBSET Tokens]
      /\ \A c \in Burners, u \in Tokens : <<c, u>> # <<b, t>> => (u \in On2[c] <=> u \in On[c])
  BY <1>1, <1>3, <1>4
<1>7. EnabledTrue(r, T, On2, M2)
  <2> SUFFICES ASSUME NEW u \in ToSet(r.selected), <<r.auction, u>> \notin ToSet(M2)
               PROVE  u \in On2[r.auction] <=> Confirmed(u, T)
    BY DEF EnabledTrue
  <2>1. r.selected \in Seq(Tokens)
    BY <1>4 DEF ActionType
  <2>2. u \in Tokens /\ r.auction \in Burners
    <3>1. r.selected # <<>>
      BY ToSetShort
    <3> QED BY <1>4, <2>1, <3>1, ToSetType DEF InHand
  <2>3. <<r.auction, u>> # <<b, t>> /\ <<r.auction, u>> \notin ToSet(M)
    BY <1>5
  <2> QED BY <1>4, <1>6, <2>2, <2>3 DEF EnabledTrue
<1> QED BY <1>2, <1>3, <1>5, <1>6, <1>7 DEF EnableInv, EnableTypes, Enable!AliasNamesOne

LEMMA RemapKeepsEnable ==
    ASSUME EnableAssumption, EnableInv, NEW b \in Burners, Enable!Remap(b)
    PROVE  EnableInv'
<1>1. /\ UNCHANGED <<configured, gas, enabled, moves, action, pool>>
      /\ rows[b] # "absent" /\ rows' = [rows EXCEPT ![b] = IF @ = none THEN b ELSE none]
  BY DEF Enable!Remap, Enable!chainVars
<1>2. rows \in [Burners -> {"absent", none} \union Burners]
  BY DEF EnableInv, EnableTypes
<1>3. rows' \in [Burners -> {"absent", none} \union Burners]
  BY <1>1, <1>2
<1>4. \A c \in Burners : rows'[c] # "absent" <=> rows[c] # "absent"
  BY <1>1, <1>2 DEF EnableAssumption
<1>5. Enable!AliasNamesOne'
  <2>1. Enable!AliasNamesOne
    BY DEF EnableInv
  <2>2. {c \in Burners : rows'[c] # "absent"} = {c \in Burners : rows[c] # "absent"}
    BY <1>4
  <2> QED BY <1>1, <2>1, <2>2 DEF Enable!AliasNamesOne
<1> QED BY <1>1, <1>3, <1>5 DEF EnableInv, EnableTypes

LEMMA SendKeepsEnable ==
    ASSUME EnableInv, Enable!Send
    PROVE  EnableInv'
<1>1. UNCHANGED <<configured, rows, gas, enabled, moves, action>>
  BY DEF Enable!Send, Enable!chainVars, Enable!dbVars
<1>2. PICK r, T, T2 : r = action /\ T = pool /\ T2 = pool'
  OBVIOUS
<1>3. PICK k, tx : /\ k = Len(T) + 1 /\ tx = [tokens |-> r.batches[k].tokens, state |-> "pending"]
                   /\ T2 = Append(T, tx) /\ Len(T) < Len(r.batches) /\ r.at = "prepared"
  BY <1>2 DEF Enable!Send, Enable!At
<1>4. /\ r \in ActionType(gas) /\ PoolTrue(r, T) /\ EnabledTrue(r, T, enabled, moves)
      /\ T \in Seq(EnableTx)
  BY <1>2 DEF EnableInv, EnableTypes
<1>5. r.batches \in Seq(Batch(gas))
  BY <1>4 DEF ActionType
<1>6. k \in 1 .. Len(r.batches) /\ r.batches[k] \in Batch(gas)
  <2>1. Len(T) \in Nat /\ Len(r.batches) \in Nat /\ DOMAIN r.batches = 1 .. Len(r.batches)
    BY <1>4, <1>5
  <2> QED BY <1>3, <1>5, <2>1
<1>7. tx \in EnableTx /\ tx.state = "pending" /\ tx.tokens = r.batches[k].tokens
  BY <1>3, <1>6 DEF EnableTx, Batch
<1>8. /\ T2 \in Seq(EnableTx)
      /\ Len(T2) = k /\ DOMAIN T2 = (DOMAIN T) \union {k} /\ T2[k] = tx
      /\ \A i \in DOMAIN T : T2[i] = T[i]
  BY <1>3, <1>4, <1>7
<1>9. PoolTrue(r, T2)
  BY <1>3, <1>4, <1>6, <1>7, <1>8 DEF PoolTrue
<1>10. \A t : Confirmed(t, T2) <=> Confirmed(t, T)
  BY <1>7, <1>8 DEF Confirmed
<1>11. EnabledTrue(r, T2, enabled, moves)
  BY <1>4, <1>10 DEF EnabledTrue
<1> QED BY <1>1, <1>2, <1>8, <1>9, <1>11 DEF EnableInv, EnableTypes, Enable!AliasNamesOne

----------------------------------------------------------------------------
(* Steps of the request.  Nothing is sent yet.                             *)

\* The rest of the state when only the request moves on.
RequestMoves(r, s) ==
    /\ r = action /\ s = action' /\ pool = <<>>
    /\ UNCHANGED <<configured, rows, gas, enabled, moves, pool>>

\* What has to be shown of a request that moves on and selects nothing new.
LEMMA RequestKeepsEnable ==
    ASSUME EnableInv, NEW CONSTANT r, NEW CONSTANT s, RequestMoves(r, s),
           s \in ActionType(gas), InHand(s), Fit(s, gas),
           s.selected = r.selected, s.alias = r.alias, s.auction = r.auction
    PROVE  EnableInv'
<1>1. PoolTrue(s, pool)
  <2>1. s.batches \in Seq(Batch(gas)) /\ Len(<<>>) = 0 /\ DOMAIN <<>> = {}
    BY DEF ActionType
  <2>2. Len(s.batches) >= 0
    BY <2>1
  <2> QED BY <2>1, <2>2 DEF RequestMoves, PoolTrue
<1>2. EnabledTrue(s, pool, enabled, moves)
  BY DEF EnabledTrue, RequestMoves, EnableInv
<1>3. Enable!AliasNamesOne'
  BY DEF RequestMoves, EnableInv, Enable!AliasNamesOne
<1> QED BY <1>1, <1>2, <1>3 DEF RequestMoves, EnableInv, EnableTypes

\* A request before it is stored has sent nothing.
LEMMA NothingSent ==
    ASSUME EnableInv, action.at # "prepared"
    PROVE  pool = <<>> /\ action \in ActionType(gas) /\ InHand(action) /\ Fit(action, gas)
  BY DEF EnableInv, EnableTypes, PoolTrue

\* A request that ends keeps what it has in hand.
LEMMA EndKeepsHand ==
    ASSUME NEW G, NEW r \in ActionType(G), InHand(r), Fit(r, G), NEW place \in {"error", "noop"}, NEW s,
           s = [r EXCEPT !.at = place]
    PROVE  /\ s \in ActionType(G) /\ InHand(s) /\ Fit(s, G)
           /\ s.selected = r.selected /\ s.alias = r.alias /\ s.auction = r.auction
<1>1. /\ s \in ActionType(G) /\ s.at = place /\ s.selected = r.selected /\ s.alias = r.alias /\ s.auction = r.auction
      /\ s.todo = r.todo /\ s.tokens = r.tokens /\ s.plan = r.plan /\ s.batches = r.batches
  BY DEF ActionType, Places
<1>2. InHand(s)
  BY <1>1 DEF InHand
<1>3. Fit(s, G)
  BY <1>1 DEF Fit
<1> QED BY <1>1, <1>2, <1>3

\* The request ends: nothing to do, or an error.
LEMMA EndKeepsEnable ==
    ASSUME EnableInv, NEW place \in {"error", "noop"}, Enable!Goto(place), action.at # "prepared",
           UNCHANGED <<configured, rows, gas, enabled, moves, pool>>
    PROVE  EnableInv'
<1>1. PICK r, s, G : r = action /\ s = action' /\ G = gas
  OBVIOUS
<1>2. r \in ActionType(G) /\ InHand(r) /\ Fit(r, G) /\ pool = <<>>
  BY <1>1, NothingSent
<1>3. s = [r EXCEPT !.at = place]
  BY <1>1 DEF Enable!Goto
<1>4. /\ s \in ActionType(G) /\ InHand(s) /\ Fit(s, G)
      /\ s.selected = r.selected /\ s.alias = r.alias /\ s.auction = r.auction
  BY <1>2, <1>3, EndKeepsHand
<1>5. RequestMoves(r, s)
  BY <1>1, <1>2 DEF RequestMoves
<1> QED BY <1>1, <1>4, <1>5, RequestKeepsEnable

LEMMA RaisesKeepsEnable ==
    ASSUME EnableInv, Enable!Raises
    PROVE  EnableInv'
<1>1. Enable!Goto("error") /\ action.at # "prepared" /\ UNCHANGED <<configured, rows, gas, enabled, moves, pool>>
  BY DEF Enable!Raises, Enable!chainVars, Enable!dbVars
<1> QED BY <1>1, EndKeepsEnable

\* The auction is found: the alias names one.
LEMMA ResolveKeepsEnable ==
    ASSUME EnableAssumption, EnableInv, Enable!Resolve
    PROVE  EnableInv'
<1>1. UNCHANGED <<configured, rows, gas, enabled, moves, pool>> /\ action.at = "resolve"
  BY DEF Enable!Resolve, Enable!chainVars, Enable!dbVars, Enable!At
<1>2. CASE Enable!Goto("error")
  BY <1>1, <1>2, EndKeepsEnable
<1>3. PICK r, s, G : r = action /\ s = action' /\ G = gas
  OBVIOUS
<1>4. r \in ActionType(G) /\ InHand(r) /\ Fit(r, G) /\ pool = <<>>
  BY <1>1, <1>3, NothingSent
<1>5. ASSUME NEW b \in Burners, s = [r EXCEPT !.at = "inspect", !.auction = b],
             r.alias[1] = "want" => configured \union {c \in Burners : rows[c] # "absent"} = {b}
      PROVE  EnableInv'
  <2>1. /\ s \in ActionType(G) /\ s.at = "inspect" /\ s.selected = r.selected /\ s.alias = r.alias /\ s.auction = b
        /\ s.todo = r.todo /\ s.tokens = r.tokens /\ s.plan = r.plan /\ s.batches = r.batches
    BY <1>4, <1>5 DEF ActionType, Places
  <2>2. r.selected = <<>> /\ r.todo = <<>> /\ r.tokens = <<>> /\ r.batches = <<>>
    BY <1>1, <1>3, <1>4 DEF InHand
  <2>3. InHand(s)
    BY <1>4, <2>1, <2>2 DEF InHand
  <2>4. Fit(s, G)
    BY <1>4, <2>1 DEF Fit
  <2>5. PoolTrue(s, pool)
    <3>1. Len(<<>>) = 0 /\ DOMAIN <<>> = {}
      OBVIOUS
    <3> QED BY <1>4, <2>1, <2>2, <3>1 DEF PoolTrue
  <2>6. EnabledTrue(s, pool, enabled, moves)
    BY <2>1, <2>2, ToSetShort DEF EnabledTrue
  <2>7. Enable!AliasNamesOne'
    BY <1>1, <1>3, <1>5, <2>1 DEF Enable!AliasNamesOne
  <2> QED BY <1>1, <1>3, <2>1, <2>3, <2>4, <2>5, <2>6, <2>7 DEF EnableInv, EnableTypes
<1>6. ASSUME NEW known \in {{}, {b \in Burners : rows[b] # "absent"}}, NEW candidates,
             candidates = {b \in configured \union known : Enable!Named(b)},
             NEW b \in Enable!Resolves(candidates, known), s = [r EXCEPT !.at = "inspect", !.auction = b]
      PROVE  EnableInv'
  <2>1. b \in Burners /\ b \in known /\ candidates = {b} /\ known = {c \in Burners : rows[c] # "absent"}
    BY <1>6 DEF Enable!Resolves
  <2>2. ASSUME r.alias[1] = "want"
        PROVE  configured \union {c \in Burners : rows[c] # "absent"} = {b}
    <3>1. r.alias = <<"want", none>>
      <4>1. r.alias \in Aliased
        BY <1>4 DEF ActionType
      <4> QED BY <2>2, <4>1 DEF Aliased
    <3>2. \A c : Enable!Named(c)
      BY <1>3, <3>1 DEF Enable!Named
    <3> QED BY <1>6, <2>1, <3>2
  <2> QED BY <1>5, <1>6, <2>1, <2>2
<1>7. ASSUME r.alias[1] = "auction", s = [r EXCEPT !.at = "inspect", !.auction = r.alias[2]]
      PROVE  EnableInv'
  <2>1. r.alias \in Aliased
    BY <1>4 DEF ActionType
  <2>2. r.alias[2] \in Burners
    BY <1>7, <2>1 DEF Aliased
  <2> QED BY <1>5, <1>7, <2>2
<1> QED BY <1>2, <1>3, <1>6, <1>7 DEF Enable!Resolve

LEMMA InspectKeepsEnable ==
    ASSUME EnableInv, Enable!Inspect
    PROVE  EnableInv'
<1>1. UNCHANGED <<configured, rows, gas, enabled, moves, pool>> /\ action.at = "inspect"
  BY DEF Enable!Inspect, Enable!chainVars, Enable!dbVars, Enable!At
<1>2. PICK r, s, G, listed, found :
         /\ r = action /\ s = action' /\ G = gas
         /\ listed \in {{}, enabled[r.auction]} /\ found \in SUBSET Tokens
         /\ s = [r EXCEPT !.at = "states", !.listed = listed, !.found = found]
  BY DEF Enable!Inspect
<1>3. r \in ActionType(G) /\ InHand(r) /\ Fit(r, G) /\ pool = <<>>
  BY <1>1, <1>2, NothingSent
<1>4. listed \in SUBSET Tokens
  <2>1. r.auction \in Burners
    BY <1>1, <1>2, <1>3 DEF InHand
  <2> QED BY <1>2, <2>1 DEF EnableInv, EnableTypes
<1>5. /\ s \in ActionType(G) /\ s.at = "states" /\ s.selected = r.selected /\ s.alias = r.alias /\ s.auction = r.auction
      /\ s.todo = r.todo /\ s.tokens = r.tokens /\ s.plan = r.plan /\ s.batches = r.batches
  BY <1>2, <1>3, <1>4 DEF ActionType, Places
<1>6. InHand(s)
  BY <1>1, <1>2, <1>3, <1>5 DEF InHand
<1>7. Fit(s, G)
  BY <1>3, <1>5 DEF Fit
<1>8. RequestMoves(r, s)
  BY <1>1, <1>2, <1>3 DEF RequestMoves
<1> QED BY <1>2, <1>5, <1>6, <1>7, <1>8, RequestKeepsEnable

LEMMA ReadStatesKeepsEnable ==
    ASSUME EnableAssumption, EnableInv, Enable!ReadStates
    PROVE  EnableInv'
<1>1. UNCHANGED <<configured, rows, gas, enabled, moves, pool>> /\ action.at = "states"
  BY DEF Enable!ReadStates, Enable!chainVars, Enable!dbVars, Enable!At
<1>2. PICK r, s, G, read, todo :
         /\ r = action /\ s = action' /\ G = gas
         /\ read \in SUBSET (enabled[r.auction] \ r.listed) /\ todo = SetToSeq(r.found)
         /\ s = [r EXCEPT !.at = "probe", !.listed = @ \union read, !.todo = todo]
  BY EnableOrders DEF Enable!ReadStates
<1>3. r \in ActionType(G) /\ InHand(r) /\ Fit(r, G) /\ pool = <<>>
  BY <1>1, <1>2, NothingSent
<1>4. r.listed \union read \in SUBSET Tokens
  <2>1. r.auction \in Burners
    BY <1>1, <1>2, <1>3 DEF InHand
  <2>2. enabled[r.auction] \in SUBSET Tokens
    BY <2>1 DEF EnableInv, EnableTypes
  <2> QED BY <1>2, <1>3, <2>2 DEF ActionType
<1>5. todo \in Seq(Tokens) /\ Distinct(todo)
  <2>1. r.found \in SUBSET Tokens
    BY <1>3 DEF ActionType
  <2>2. IsFiniteSet(r.found)
    BY <2>1, FS_Subset DEF EnableAssumption
  <2>3. todo \in Seq(r.found) /\ Distinct(todo)
    BY <1>2, <2>2, SetToSeqLists
  <2> QED BY <2>1, <2>3
<1>6. /\ s \in ActionType(G) /\ s.at = "probe" /\ s.selected = r.selected /\ s.alias = r.alias /\ s.auction = r.auction
      /\ s.todo = todo /\ s.tokens = r.tokens /\ s.plan = r.plan /\ s.batches = r.batches
  BY <1>2, <1>3, <1>4, <1>5 DEF ActionType, Places
<1>7. InHand(s)
  <2>1. r.selected = <<>> /\ r.tokens = <<>> /\ r.batches = <<>>
    BY <1>1, <1>2, <1>3 DEF InHand
  <2>2. Distinct(<<>>) /\ ToSet(<<>>) = {}
    BY ToSetShort DEF Distinct
  <2> QED BY <1>1, <1>2, <1>3, <1>5, <1>6, <2>1, <2>2 DEF InHand
<1>8. Fit(s, G)
  BY <1>3, <1>6 DEF Fit
<1>9. RequestMoves(r, s)
  BY <1>1, <1>2, <1>3 DEF RequestMoves
<1> QED BY <1>2, <1>6, <1>7, <1>8, <1>9, RequestKeepsEnable

\* A token that is selected was not enabled when its call was simulated.
LEMMA ProbeKeepsEnable ==
    ASSUME EnableInv, Enable!Probe
    PROVE  EnableInv'
<1>1. /\ UNCHANGED <<configured, rows, gas, enabled, moves, pool>> /\ action.at = "probe" /\ action.todo # <<>>
  BY DEF Enable!Probe, Enable!chainVars, Enable!dbVars, Enable!At
<1>2. PICK r, s, G, t : r = action /\ s = action' /\ G = gas /\ t = Head(r.todo)
  OBVIOUS
<1>3. r \in ActionType(G) /\ InHand(r) /\ Fit(r, G) /\ pool = <<>>
  BY <1>1, <1>2, NothingSent
<1>4. /\ t \in Tokens /\ Tail(r.todo) \in Seq(Tokens) /\ Distinct(Tail(r.todo)) /\ t \notin ToSet(Tail(r.todo))
      /\ ToSet(r.todo) = {t} \union ToSet(Tail(r.todo))
  <2>1. r.todo \in Seq(Tokens) /\ r.todo # <<>> /\ Distinct(r.todo)
    BY <1>1, <1>2, <1>3 DEF ActionType, InHand
  <2> QED BY <1>2, <2>1, HeadAndTail
<1>5. RequestMoves(r, s)
  BY <1>1, <1>2, <1>3 DEF RequestMoves
<1>6. /\ Distinct(r.selected) /\ ToSet(r.todo) \intersect ToSet(r.selected) = {} /\ r.selected \in Seq(Tokens)
      /\ r.tokens = <<>> /\ r.batches = <<>> /\ r.auction \in Burners
  BY <1>1, <1>2, <1>3 DEF InHand, ActionType
<1>7. CASE s = [r EXCEPT !.todo = Tail(@)]
  <2>1. /\ s \in ActionType(G) /\ s.at = "probe" /\ s.selected = r.selected /\ s.alias = r.alias /\ s.auction = r.auction
        /\ s.todo = Tail(r.todo) /\ s.tokens = r.tokens /\ s.plan = r.plan /\ s.batches = r.batches
    BY <1>1, <1>2, <1>3, <1>4, <1>7 DEF ActionType
  <2>2. InHand(s)
    BY <1>3, <1>4, <1>6, <2>1 DEF InHand
  <2>3. Fit(s, G)
    BY <1>3, <2>1 DEF Fit
  <2> QED BY <1>2, <1>5, <2>1, <2>2, <2>3, RequestKeepsEnable
<1>8. CASE s = [r EXCEPT !.todo = Tail(@), !.selected = Append(@, t)] /\ t \notin enabled[r.auction]
  <2>1. PICK more : more = Append(r.selected, t)
    OBVIOUS
  <2>2. more \in Seq(Tokens) /\ ToSet(more) = ToSet(r.selected) \union {t}
    BY <1>4, <1>6, <2>1, ToSetAppend
  <2>3. Distinct(more)
    <3>1. t \notin ToSet(r.selected)
      BY <1>4, <1>6
    <3> QED BY <1>4, <1>6, <2>1, <3>1, DistinctAppend
  <2>4. /\ s \in ActionType(G) /\ s.at = "probe" /\ s.selected = more /\ s.alias = r.alias /\ s.auction = r.auction
        /\ s.todo = Tail(r.todo) /\ s.tokens = r.tokens /\ s.plan = r.plan /\ s.batches = r.batches
    BY <1>1, <1>2, <1>3, <1>4, <1>8, <2>1, <2>2 DEF ActionType
  <2>5. InHand(s)
    BY <1>3, <1>4, <1>6, <2>2, <2>3, <2>4, ToSetShort DEF InHand
  <2>6. Fit(s, G)
    BY <1>3, <2>4 DEF Fit
  <2>7. EnabledTrue(s, pool, enabled, moves)
    <3>1. EnabledTrue(r, pool, enabled, moves)
      BY <1>2 DEF EnableInv
    <3>2. ~Confirmed(t, pool)
      BY <1>3 DEF Confirmed
    <3> QED BY <1>8, <2>2, <2>4, <3>1, <3>2 DEF EnabledTrue
  <2>8. PoolTrue(s, pool)
    BY <1>1, <1>2, <1>3, <2>4 DEF PoolTrue, EnableInv
  <2>9. Enable!AliasNamesOne'
    BY <1>1, <1>2, <2>4 DEF EnableInv, Enable!AliasNamesOne
  <2> QED BY <1>1, <1>2, <2>4, <2>5, <2>6, <2>7, <2>8, <2>9 DEF EnableInv, EnableTypes
<1> QED BY <1>2, <1>7, <1>8 DEF Enable!Probe, Enable!Simulation

LEMMA ProbedKeepsEnable ==
    ASSUME EnableInv, Enable!Probed
    PROVE  EnableInv'
<1>1. /\ UNCHANGED <<configured, rows, gas, enabled, moves, pool>> /\ action.at = "probe"
  BY DEF Enable!Probed, Enable!chainVars, Enable!dbVars, Enable!At
<1>2. CASE Enable!Goto("noop")
  BY <1>1, <1>2, EndKeepsEnable
<1>3. PICK r, s, G : r = action /\ s = action' /\ G = gas
  OBVIOUS
<1>4. r \in ActionType(G) /\ InHand(r) /\ Fit(r, G) /\ pool = <<>>
  BY <1>1, <1>3, NothingSent
<1>5. CASE r.selected # <<>> /\ s = [r EXCEPT !.at = "batch", !.todo = r.selected]
  <2>1. /\ s \in ActionType(G) /\ s.at = "batch" /\ s.selected = r.selected /\ s.alias = r.alias /\ s.auction = r.auction
        /\ s.todo = r.selected /\ s.tokens = r.tokens /\ s.plan = r.plan /\ s.batches = r.batches
    BY <1>4, <1>5 DEF ActionType, Places
  <2>2. Distinct(r.selected) /\ r.tokens = <<>> /\ r.batches = <<>> /\ r.auction \in Burners
    BY <1>1, <1>3, <1>4 DEF InHand
  <2>3. InHand(s)
    BY <1>5, <2>1, <2>2, ToSetShort DEF InHand
  <2>4. Fit(s, G)
    BY <1>4, <2>1 DEF Fit
  <2>5. RequestMoves(r, s)
    BY <1>1, <1>3, <1>4 DEF RequestMoves
  <2> QED BY <1>3, <2>1, <2>3, <2>4, <2>5, RequestKeepsEnable
<1> QED BY <1>2, <1>3, <1>5 DEF Enable!Probed

\* The batches with one more, cut from the tokens in hand.
Cuts(r, cut, G) ==
    /\ cut \in Seq(Batch(G)) /\ DOMAIN cut = (DOMAIN r.batches) \union {Len(r.batches) + 1}
    /\ In(cut, Len(r.batches) + 1) = ToSet(r.tokens)
    /\ \A i \in DOMAIN r.batches : In(cut, i) = In(r.batches, i)
    /\ \A i \in DOMAIN cut : /\ In(cut, i) \subseteq ToSet(r.selected)
                             /\ In(cut, i) \intersect ToSet(r.todo) = {}
                             /\ Fitting(cut[i].tokens, cut[i].gas, G)
    /\ \A i, j \in DOMAIN cut : i # j => In(cut, i) \intersect In(cut, j) = {}

LEMMA CutKeepsHand ==
    ASSUME NEW G, NEW r \in ActionType(G), InHand(r), Fit(r, G), r.at = "batch", r.tokens # <<>>,
           NEW cut, cut = Append(r.batches, [tokens |-> r.tokens, gas |-> r.plan])
    PROVE  Cuts(r, cut, G)
<1>1. PICK b : b = [tokens |-> r.tokens, gas |-> r.plan]
  OBVIOUS
<1>2. b \in Batch(G) /\ b.tokens = r.tokens /\ b.gas = r.plan /\ r.batches \in Seq(Batch(G))
  BY <1>1 DEF ActionType, Batch
<1>3. /\ cut \in Seq(Batch(G)) /\ DOMAIN cut = 1 .. Len(r.batches) + 1 /\ DOMAIN r.batches = 1 .. Len(r.batches)
      /\ cut[Len(r.batches) + 1] = b /\ \A i \in 1 .. Len(r.batches) : cut[i] = r.batches[i]
      /\ Len(r.batches) \in Nat
  BY <1>1, <1>2, AppendedAt
<1>4. /\ DOMAIN cut = (DOMAIN r.batches) \union {Len(r.batches) + 1} /\ Len(r.batches) + 1 \notin DOMAIN r.batches
  BY <1>3
<1>5. /\ In(cut, Len(r.batches) + 1) = ToSet(r.tokens)
      /\ \A i \in DOMAIN r.batches : In(cut, i) = In(r.batches, i)
  BY <1>2, <1>3 DEF In
<1>6. \A i \in DOMAIN cut : /\ In(cut, i) \subseteq ToSet(r.selected)
                            /\ In(cut, i) \intersect ToSet(r.todo) = {}
  BY <1>4, <1>5 DEF InHand
<1>7. \A i \in DOMAIN cut : Fitting(cut[i].tokens, cut[i].gas, G)
  BY <1>2, <1>3, <1>4 DEF Fit
<1>8. \A i, j \in DOMAIN cut : i # j => In(cut, i) \intersect In(cut, j) = {}
  BY <1>4, <1>5 DEF InHand
<1> QED BY <1>3, <1>4, <1>5, <1>6, <1>7, <1>8 DEF Cuts

\* build_execution_plan's estimate is for the tokens it was asked for.
LEMMA EstimatesAre ==
    ASSUME NEW G, NEW ts \in Seq(Tokens), NEW plan \in Enable!Estimates(ts), G = gas, ~Enable!Above(plan)
    PROVE  plan \in Plans(G) /\ Fitting(ts, plan, G)
<1>1. plan = none \/ plan = Enable!Total(G, ts)
  BY DEF Enable!Estimates
<1>2. plan # none => plan <= GasCap
  BY DEF Enable!Above
<1> QED BY <1>1, <1>2 DEF Plans, Fitting

LEMMA GrowKeepsEnable ==
    ASSUME EnableInv, Enable!Grow
    PROVE  EnableInv'
<1>1. /\ UNCHANGED <<configured, rows, gas, enabled, moves, pool>> /\ action.at = "batch" /\ action.todo # <<>>
  BY DEF Enable!Grow, Enable!chainVars, Enable!dbVars, Enable!At
<1>2. CASE Enable!Goto("error")
  BY <1>1, <1>2, EndKeepsEnable
<1>3. PICK r, s, G, t, ts : /\ r = action /\ s = action' /\ G = gas /\ t = Head(r.todo) /\ ts = Append(r.tokens, t)
  OBVIOUS
<1>4. r \in ActionType(G) /\ InHand(r) /\ Fit(r, G) /\ pool = <<>>
  BY <1>1, <1>3, NothingSent
<1>5. /\ t \in Tokens /\ Tail(r.todo) \in Seq(Tokens) /\ Distinct(Tail(r.todo)) /\ t \notin ToSet(Tail(r.todo))
      /\ ToSet(r.todo) = {t} \union ToSet(Tail(r.todo))
  <2>1. r.todo \in Seq(Tokens) /\ r.todo # <<>> /\ Distinct(r.todo)
    BY <1>1, <1>3, <1>4 DEF ActionType, InHand
  <2> QED BY <1>3, <2>1, HeadAndTail
<1>6. ts \in Seq(Tokens) /\ ts # <<>> /\ ToSet(ts) = ToSet(r.tokens) \union {t}
  <2>1. r.tokens \in Seq(Tokens)
    BY <1>4 DEF ActionType
  <2> QED BY <1>3, <1>5, <2>1, ToSetAppend
<1>7. RequestMoves(r, s)
  BY <1>1, <1>3, <1>4 DEF RequestMoves
<1>8. /\ r.at = "batch" /\ ToSet(r.tokens) \subseteq ToSet(r.selected) /\ ToSet(r.todo) \subseteq ToSet(r.selected)
      /\ ToSet(r.todo) \intersect ToSet(r.tokens) = {} /\ r.auction \in Burners
      /\ \A i \in DOMAIN r.batches : /\ In(r.batches, i) \intersect ToSet(r.todo) = {}
                                     /\ In(r.batches, i) \intersect ToSet(r.tokens) = {}
      /\ \A u \in ToSet(r.selected) : \/ u \in ToSet(r.todo) \union ToSet(r.tokens)
                                      \/ \E i \in DOMAIN r.batches : u \in In(r.batches, i)
  BY <1>1, <1>3, <1>4 DEF InHand
<1>9. ASSUME NEW plan \in Enable!Estimates(ts), ~Enable!Above(plan),
             s = [r EXCEPT !.todo = Tail(@), !.tokens = ts, !.plan = plan]
      PROVE  EnableInv'
  <2>1. plan \in Plans(G) /\ Fitting(ts, plan, G)
    BY <1>3, <1>6, <1>9, EstimatesAre
  <2>2. /\ s \in ActionType(G) /\ s.at = "batch" /\ s.selected = r.selected /\ s.alias = r.alias /\ s.auction = r.auction
        /\ s.todo = Tail(r.todo) /\ s.tokens = ts /\ s.plan = plan /\ s.batches = r.batches
    BY <1>4, <1>5, <1>6, <1>8, <1>9, <2>1 DEF ActionType
  <2>3. InHand(s)
    <3>1. /\ ToSet(s.tokens) \subseteq ToSet(s.selected) /\ ToSet(s.todo) \subseteq ToSet(s.selected)
          /\ ToSet(s.todo) \intersect ToSet(s.tokens) = {}
          /\ \A i \in DOMAIN s.batches : /\ In(s.batches, i) \intersect ToSet(s.todo) = {}
                                         /\ In(s.batches, i) \intersect ToSet(s.tokens) = {}
          /\ \A u \in ToSet(s.selected) : \/ u \in ToSet(s.todo) \union ToSet(s.tokens)
                                          \/ \E i \in DOMAIN s.batches : u \in In(s.batches, i)
      BY <1>5, <1>6, <1>8, <2>2
    <3> QED BY <1>4, <1>5, <1>6, <1>8, <2>2, <3>1 DEF InHand
  <2>4. Fit(s, G)
    BY <1>4, <2>1, <2>2 DEF Fit
  <2> QED BY <1>3, <1>7, <2>2, <2>3, <2>4, RequestKeepsEnable
<1>10. ASSUME NEW cut, cut = Append(r.batches, [tokens |-> r.tokens, gas |-> r.plan]), r.tokens # <<>>,
              s = [r EXCEPT !.batches = cut, !.tokens = <<>>]
       PROVE  EnableInv'
  <2>1. /\ cut \in Seq(Batch(G)) /\ DOMAIN cut = (DOMAIN r.batches) \union {Len(r.batches) + 1}
        /\ In(cut, Len(r.batches) + 1) = ToSet(r.tokens)
        /\ \A i \in DOMAIN r.batches : In(cut, i) = In(r.batches, i)
        /\ \A i \in DOMAIN cut : /\ In(cut, i) \subseteq ToSet(r.selected)
                                 /\ In(cut, i) \intersect ToSet(r.todo) = {}
                                 /\ Fitting(cut[i].tokens, cut[i].gas, G)
        /\ \A i, j \in DOMAIN cut : i # j => In(cut, i) \intersect In(cut, j) = {}
    <3>1. Cuts(r, cut, G)
      BY <1>4, <1>8, <1>10, CutKeepsHand
    <3> QED BY <3>1 DEF Cuts
  <2>2. <<>> \in Seq(Tokens) /\ ToSet(<<>>) = {}
    BY ToSetShort
  <2>3. /\ s \in ActionType(G) /\ s.at = "batch" /\ s.selected = r.selected /\ s.alias = r.alias /\ s.auction = r.auction
        /\ s.todo = r.todo /\ s.tokens = <<>> /\ s.plan = r.plan /\ s.batches = cut
    BY <1>4, <1>8, <1>10, <2>1, <2>2 DEF ActionType
  <2>4. InHand(s)
    <3>1. \A u \in ToSet(s.selected) : \/ u \in ToSet(s.todo) \union ToSet(s.tokens)
                                       \/ \E i \in DOMAIN s.batches : u \in In(s.batches, i)
      BY <1>8, <2>1, <2>3
    <3> QED BY <1>1, <1>3, <1>4, <1>8, <2>1, <2>2, <2>3, <3>1 DEF InHand
  <2>5. Fit(s, G)
    BY <2>1, <2>3 DEF Fit
  <2> QED BY <1>3, <1>7, <2>3, <2>4, <2>5, RequestKeepsEnable
<1>11. CASE \E plan \in Enable!Estimates(ts) : Enable!Join(t, ts, plan)
  BY <1>2, <1>3, <1>9, <1>10, <1>11 DEF Enable!Join, Enable!Cut
<1> QED BY <1>2, <1>3, <1>11 DEF Enable!Grow

LEMMA StoreKeepsEnable ==
    ASSUME EnableInv, Enable!Store
    PROVE  EnableInv'
<1>1. /\ UNCHANGED <<configured, rows, gas, enabled, moves, pool>> /\ action.at = "batch" /\ action.todo = <<>>
  BY DEF Enable!Store, Enable!chainVars, Enable!dbVars, Enable!At
<1>2. PICK r, s, G, cut :
        /\ r = action /\ s = action' /\ G = gas
        /\ cut = Append(r.batches, [tokens |-> r.tokens, gas |-> r.plan])
        /\ s = [r EXCEPT !.at = "prepared", !.batches = cut, !.tokens = <<>>]
  BY DEF Enable!Store, Enable!Cut
<1>3. r \in ActionType(G) /\ InHand(r) /\ Fit(r, G) /\ pool = <<>>
  BY <1>1, <1>2, NothingSent
<1>4. /\ r.tokens # <<>> /\ r.auction \in Burners /\ r.at = "batch" /\ r.todo = <<>>
      /\ \A u \in ToSet(r.selected) : \/ u \in ToSet(r.tokens)
                                      \/ \E i \in DOMAIN r.batches : u \in In(r.batches, i)
  BY <1>1, <1>2, <1>3, ToSetShort DEF InHand
<1>5. /\ cut \in Seq(Batch(G)) /\ DOMAIN cut = (DOMAIN r.batches) \union {Len(r.batches) + 1}
      /\ In(cut, Len(r.batches) + 1) = ToSet(r.tokens)
      /\ \A i \in DOMAIN r.batches : In(cut, i) = In(r.batches, i)
      /\ \A i \in DOMAIN cut : /\ In(cut, i) \subseteq ToSet(r.selected)
                               /\ Fitting(cut[i].tokens, cut[i].gas, G)
      /\ \A i, j \in DOMAIN cut : i # j => In(cut, i) \intersect In(cut, j) = {}
  <2>1. Cuts(r, cut, G)
    BY <1>2, <1>3, <1>4, CutKeepsHand
  <2> QED BY <2>1 DEF Cuts
<1>6. <<>> \in Seq(Tokens) /\ ToSet(<<>>) = {}
  BY ToSetShort
<1>7. /\ s \in ActionType(G) /\ s.at = "prepared" /\ s.selected = r.selected /\ s.alias = r.alias /\ s.auction = r.auction
      /\ s.todo = <<>> /\ s.tokens = <<>> /\ s.plan = r.plan /\ s.batches = cut
  <2>1. "prepared" \in Places /\ <<>> \in Seq(Tokens) /\ cut \in Seq(Batch(G))
    BY <1>5, <1>6 DEF Places
  <2>2. PICK empty : empty = <<>>
    OBVIOUS
  <2>3. s = [r EXCEPT !.at = "prepared", !.batches = cut, !.tokens = empty] /\ empty \in Seq(Tokens)
    BY <1>2, <2>1, <2>2
  <2>4. /\ s \in ActionType(G) /\ s.at = "prepared" /\ s.selected = r.selected /\ s.alias = r.alias
        /\ s.auction = r.auction /\ s.todo = r.todo /\ s.tokens = empty /\ s.plan = r.plan /\ s.batches = cut
    BY <1>3, <2>1, <2>3 DEF ActionType
  <2> QED BY <1>4, <2>2, <2>4
<1>8. InHand(s)
  <2>1. \A u \in ToSet(s.selected) : \E i \in DOMAIN s.batches : u \in In(s.batches, i)
    BY <1>4, <1>5, <1>7
  <2>2. Distinct(<<>>)
    BY DEF Distinct
  <2> QED BY <1>4, <1>5, <1>6, <1>7, <2>1, <2>2 DEF InHand
<1>9. Fit(s, G)
  BY <1>5, <1>7 DEF Fit
<1>10. RequestMoves(r, s)
  BY <1>1, <1>2, <1>3 DEF RequestMoves
<1> QED BY <1>2, <1>7, <1>8, <1>9, <1>10, RequestKeepsEnable

----------------------------------------------------------------------------
(* The invariant, and what it says.                                        *)

LEMMA InitHoldsEnable ==
    ASSUME Enable!Init
    PROVE  EnableInv
<1>1. PICK alias \in Aliased : action = Enable!Asked(alias)
  BY DEF Enable!Init, Aliased
<1>2. PICK r, G : r = action /\ G = gas
  OBVIOUS
<1>3. /\ r.at = "resolve" /\ r.alias = alias /\ r.auction = none /\ r.listed = {} /\ r.found = {} /\ r.todo = <<>>
      /\ r.selected = <<>> /\ r.tokens = <<>> /\ r.plan = none /\ r.batches = <<>>
      /\ r = [at |-> "resolve", alias |-> alias, auction |-> none, listed |-> {}, found |-> {}, todo |-> <<>>,
              selected |-> <<>>, tokens |-> <<>>, plan |-> none, batches |-> <<>>]
  BY <1>1, <1>2 DEF Enable!Asked
<1>4. <<>> \in Seq(Tokens) /\ <<>> \in Seq(Batch(G)) /\ DOMAIN <<>> = {} /\ Len(<<>>) = 0
  OBVIOUS
<1>5. r \in ActionType(G)
  BY <1>3, <1>4 DEF ActionType, Places, Plans
<1>6. EnableTypes
  <2>1. rows \in [Burners -> {"absent", none} \union Burners]
    BY DEF Enable!Init
  <2>2. enabled \in [Burners -> SUBSET Tokens] /\ moves = <<>> /\ pool = <<>>
    BY DEF Enable!Init
  <2> QED BY <1>2, <1>5, <2>1, <2>2 DEF EnableTypes
<1>7. InHand(r) /\ Fit(r, G)
  BY <1>3, <1>4, ToSetShort DEF InHand, Fit, Distinct
<1>8. PoolTrue(r, pool)
  BY <1>3, <1>4 DEF PoolTrue, Enable!Init
<1>9. EnabledTrue(r, pool, enabled, moves)
  BY <1>3, ToSetShort DEF EnabledTrue
<1>10. Enable!AliasNamesOne
  BY <1>2, <1>3 DEF Enable!AliasNamesOne
<1> QED BY <1>2, <1>6, <1>7, <1>8, <1>9, <1>10 DEF EnableInv

LEMMA StepKeepsEnableInv ==
    ASSUME EnableAssumption, EnableInv, Enable!Next
    PROVE  EnableInv'
<1>1. CASE Enable!Resolve \/ Enable!Inspect \/ Enable!ReadStates \/ Enable!Probe \/ Enable!Probed
  BY <1>1, ResolveKeepsEnable, InspectKeepsEnable, ReadStatesKeepsEnable, ProbeKeepsEnable, ProbedKeepsEnable
<1>2. CASE Enable!Grow \/ Enable!Store \/ Enable!Raises \/ Enable!Send \/ Enable!Elsewhere
  BY <1>2, GrowKeepsEnable, StoreKeepsEnable, RaisesKeepsEnable, SendKeepsEnable, ElsewhereKeepsEnable
<1>3. CASE \E n \in DOMAIN pool : Enable!Mine(n)
  BY <1>3, MineKeepsEnable
<1>4. CASE \E b \in Burners : Enable!Remap(b)
  BY <1>4, RemapKeepsEnable
<1> QED BY <1>1, <1>2, <1>3, <1>4 DEF Enable!Next

\* The invariant says what the four properties say.
LEMMA EnableInvSuffices ==
    ASSUME EnableInv
    PROVE  EnablingIsSound
<1>1. PICK r, T, On, M : r = action /\ T = pool /\ On = enabled /\ M = moves
  OBVIOUS
<1>2. /\ InHand(r) /\ PoolTrue(r, T) /\ EnabledTrue(r, T, On, M) /\ Fit(r, gas) /\ r \in ActionType(gas)
      /\ T \in Seq(EnableTx)
  BY <1>1 DEF EnableInv, EnableTypes
<1>3. \A t : Enable!Touched(t) <=> <<r.auction, t>> \in ToSet(M)
  BY <1>1, EnableLists DEF Enable!Touched
<1>4. DOMAIN r.batches = 1 .. Len(r.batches) /\ DOMAIN T = 1 .. Len(T) /\ Len(T) \in Nat /\ Len(r.batches) \in Nat
  BY <1>2 DEF ActionType
<1>5. \A n \in DOMAIN T : n \in DOMAIN r.batches /\ ToSet(T[n].tokens) = In(r.batches, n)
  BY <1>2, <1>4 DEF PoolTrue, In
<1>6. Enable!SelectionTakesEffect
  <2> SUFFICES ASSUME r.at = "prepared", Len(T) = Len(r.batches), \A n \in DOMAIN T : T[n].state = "ok",
                      NEW t \in ToSet(r.selected)
               PROVE  t \in On[r.auction] \/ <<r.auction, t>> \in ToSet(M)
    BY <1>1, <1>3, EnableLists DEF Enable!SelectionTakesEffect, Enable!At
  <2>1. PICK i \in DOMAIN r.batches : t \in In(r.batches, i)
    BY <1>2, ToSetShort DEF InHand
  <2>2. Confirmed(t, T)
    BY <1>4, <1>5, <2>1 DEF Confirmed
  <2> QED BY <1>2, <2>2 DEF EnabledTrue
<1>7. Enable!OnlyOthersStopIt
  <2> SUFFICES ASSUME NEW i \in DOMAIN r.batches, ~(i <= Len(T) /\ T[i].state # "reverted"),
                      NEW t \in In(r.batches, i), t \in On[r.auction]
               PROVE  <<r.auction, t>> \in ToSet(M)
    BY <1>1, <1>3, EnableLists DEF Enable!OnlyOthersStopIt, In
  <2>1. t \in ToSet(r.selected)
    BY <1>2 DEF InHand
  <2>2. ~Confirmed(t, T)
    <3> SUFFICES ASSUME NEW n \in DOMAIN T, T[n].state = "ok", t \in ToSet(T[n].tokens)
                 PROVE  FALSE
      BY DEF Confirmed
    <3>1. n \in DOMAIN r.batches /\ t \in In(r.batches, n)
      BY <1>5
    <3>2. n = i
      BY <1>2, <3>1 DEF InHand
    <3>3. i <= Len(T)
      BY <1>4, <3>2
    <3> QED BY <3>2, <3>3
  <2> QED BY <1>2, <2>1, <2>2 DEF EnabledTrue
<1>8. Enable!BatchesFit
  BY <1>1, <1>2 DEF Fit, Fitting, Enable!BatchesFit
<1> QED BY <1>6, <1>7, <1>8 DEF EnablingIsSound, Enable!EnablingIsSound, EnableInv

\* prepare_enable_tokens_action, _build_enable_token_batches: whatever reads fail and
\* wherever batches are cut, each selected token is in one transaction, which fits and
\* fails only over what others did; and an alias names one auction.
THEOREM EnablingStaysSound == ASSUME EnableAssumption PROVE Enable!Spec => []EnablingIsSound
<1>1. Enable!Init => EnableInv
  BY InitHoldsEnable
<1>2. EnableInv /\ [Enable!Next]_(Enable!vars) => EnableInv'
  <2>1. ASSUME EnableInv, UNCHANGED Enable!vars
        PROVE  EnableInv'
    <3>1. UNCHANGED <<configured, rows, gas, enabled, moves, action, pool>>
      BY <2>1 DEF Enable!vars, Enable!chainVars, Enable!dbVars
    <3> QED BY <2>1, <3>1, SameAction
  <2> QED BY <2>1, StepKeepsEnableInv
<1>3. EnableInv => EnablingIsSound
  BY EnableInvSuffices
<1> QED BY <1>1, <1>2, <1>3, PTL DEF Enable!Spec

\* The composition is each of the two by itself, so the theorems hold of it.
THEOREM EachLedgerIsItself == MCFairSpec => Spec /\ Enable!Spec
<1>1. MCInit => Init /\ Enable!Init
  BY DEF MCInit
<1>2. [MCNext]_<<vars, enableVars>> => [Next]_vars /\ [Enable!Next]_(Enable!vars)
  <2>1. UNCHANGED enableVars => UNCHANGED Enable!vars
    BY DEF enableVars, Enable!vars, Enable!chainVars, Enable!dbVars
  <2> QED BY <2>1 DEF MCNext
<1> QED BY <1>1, <1>2, PTL DEF MCFairSpec, Spec, Enable!Spec

=============================================================================
