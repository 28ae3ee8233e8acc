----------------------------- MODULE ActionLedger -----------------------------
(***************************************************************************)
(* The control plane's ledger of prepared actions: record_broadcast and    *)
(* record_verified_receipt of tidal/api/services/action_audit.py,          *)
(* finalize_receipt of tidal/operation_reconciler.py as far as it serves   *)
(* the API tables, and the background loop of                              *)
(* tidal/api/services/action_reconcile.py.                                 *)
(*                                                                         *)
(* Requests run in threads and the scanner in a process of its own, all on *)
(* one SQLite file.  What a request reads before its first write may be    *)
(* stale when it writes; from that write to its commit it is alone.  So a  *)
(* request is two steps, its reads and its commit, unless its first        *)
(* statement is the write.                                                 *)
(*                                                                         *)
(* A transaction <<action, index>> is signed once and stands for its hash, *)
(* so the 409 answer to a second hash never arises here.  Deployments,     *)
(* which have no rows in kick_txs, are left out.                           *)
(***************************************************************************)
EXTENDS Integers, Sequences, FiniteSets, SequencesExt

CONSTANTS Actions,     \* prepared actions
          NumTx,       \* transactions per action
          Legacy,      \* hashes an older server may have recorded without rows
          Reporters,   \* threads serving broadcast reports
          Finalisers,  \* receipt requests and the scanner
          BatchLimit   \* hashes looked up per pass of the loop (20 in the code)

Tx == Actions \X (1 .. NumTx)

ASSUME LedgerAssumption ==
    /\ NumTx \in Nat \ {0} /\ BatchLimit \in Nat \ {0}
    /\ Legacy \subseteq Tx /\ IsFiniteSet(Legacy)

loop == "loop"
Workers == Reporters \union Finalisers \union {loop}

Outcomes == {"CONFIRMED", "REVERTED"}

\* The network's answer for a hash: not mined, or not the prepared transaction.
Fates == Outcomes \union {"none", "mismatch"}

VARIABLES
    chain,    \* what became of each transaction
    recorded, \* api_action_transactions with a tx_hash
    receipt,  \* their verified receipt_status, "none" while verified_at is null
    status,   \* api_actions.status
    ops,      \* statuses of the kick_txs rows of each transaction, in id order
    order,    \* recorded transactions by updated_at, oldest first
    batch,    \* what is left of the loop's current pass
    job       \* what each worker has read and not yet written

vars == <<chain, recorded, receipt, status, ops, order, batch, job>>

NoJob == [kind |-> "none"]

\* Mutation: one confirmed transaction confirms the action.
StatusOfAnyConfirmed(a, known, outcome) ==
    LET txs == {a} \X (1 .. NumTx) IN
    IF \E t \in txs : outcome[t] = "REVERTED" THEN "REVERTED"
    ELSE IF \E t \in txs : outcome[t] = "CONFIRMED" THEN "CONFIRMED"
    ELSE IF txs \intersect known # {} THEN "BROADCAST_REPORTED" ELSE "PREPARED"

\* _calculate_action_status; verified receipts are never FAILED.
StatusOf(a, known, outcome) ==
    LET txs == {a} \X (1 .. NumTx) IN
    IF \E t \in txs : outcome[t] = "REVERTED" THEN "REVERTED"
    ELSE IF \A t \in txs : outcome[t] = "CONFIRMED" THEN "CONFIRMED"
    ELSE IF txs \intersect known # {} THEN "BROADCAST_REPORTED" ELSE "PREPARED"

Init ==
    /\ chain = [t \in Tx |-> "none"]
    /\ recorded \in SUBSET Legacy
    /\ receipt = [t \in Tx |-> "none"]
    /\ status = [a \in Actions |-> StatusOf(a, recorded, receipt)]
    /\ ops = [t \in Tx |-> <<>>]
    /\ order \in {s \in [1 .. Cardinality(recorded) -> recorded] :
                     \A i, j \in DOMAIN s : s[i] = s[j] => i = j}
    /\ batch = <<>>
    /\ job = [w \in Workers |-> NoJob]

\* The network mines a transaction; external.
Mine(t) ==
    /\ chain[t] = "none"
    /\ \E fate \in Fates \ {"none"} : chain' = [chain EXCEPT ![t] = fate]
    /\ UNCHANGED <<recorded, receipt, status, ops, order, batch, job>>

\* Mutation: the hash keeps its old place as well.
AppendedAgain(t) == Append(order, t)

MovedToEnd(t) == Append(RemoveFirst(order, t), t)

----------------------------------------------------------------------------
(* record_broadcast.  The first report of a hash writes it at once and     *)
(* reads the transactions under the lock.  A replay reads them before its  *)
(* first write.                                                            *)

StartBroadcast(w, t) ==
    /\ job[w] = NoJob
    /\ job' = [job EXCEPT ![w] =
                 IF t \in recorded
                   THEN [kind |-> "replay", tx |-> t,
                         status |-> StatusOf(t[1], recorded, receipt)]
                   ELSE [kind |-> "first", tx |-> t]]
    /\ UNCHANGED <<chain, recorded, receipt, status, ops, order, batch>>

\* ensure_action_operations: a missing row is staged, an existing one kept.
Staged(t) == IF ops[t] # <<>> THEN ops[t] ELSE <<"SUBMITTED">>

\* Mutation: the hash is committed before the operation rows are staged.
CommitFirstHashOnly(w) ==
    /\ job[w].kind = "first"
    /\ LET t == job[w].tx IN
         /\ recorded' = recorded \union {t}
         /\ status' = [status EXCEPT ![t[1]] = StatusOf(t[1], recorded', receipt)]
         /\ order' = MovedToEnd(t)
    /\ job' = [job EXCEPT ![w] = NoJob]
    /\ UNCHANGED <<chain, receipt, ops, batch>>

CommitFirst(w) ==
    /\ job[w].kind = "first"
    /\ LET t == job[w].tx IN
         /\ recorded' = recorded \union {t}
         /\ status' = [status EXCEPT ![t[1]] = StatusOf(t[1], recorded', receipt)]
         /\ ops' = [ops EXCEPT ![t] = Staged(t)]
         /\ order' = MovedToEnd(t)
    /\ job' = [job EXCEPT ![w] = NoJob]
    /\ UNCHANGED <<chain, receipt, batch>>

\* Mutation: a replay stages its rows as submitted again.
CommitReplayRestages(w) ==
    /\ job[w].kind = "replay"
    /\ LET t == job[w].tx IN
         /\ status' = [status EXCEPT ![t[1]] = job[w].status]
         /\ ops' = [ops EXCEPT ![t] = <<"SUBMITTED">>]
    /\ job' = [job EXCEPT ![w] = NoJob]
    /\ UNCHANGED <<chain, recorded, receipt, order, batch>>

CommitReplay(w) ==
    /\ job[w].kind = "replay"
    /\ LET t == job[w].tx IN
         /\ status' = [status EXCEPT ![t[1]] = job[w].status]
         /\ ops' = [ops EXCEPT ![t] = Staged(t)]
    /\ job' = [job EXCEPT ![w] = NoJob]
    /\ UNCHANGED <<chain, recorded, receipt, order, batch>>

----------------------------------------------------------------------------
(* finalize_receipt.  The rows that exist are read before the first write; *)
(* a row another worker stages in between is not among them.               *)

ReadForReceipt(w, t) ==
    /\ t \in recorded /\ chain[t] \in Outcomes
    /\ job' = [job EXCEPT ![w] = [kind |-> "receipt", tx |-> t, seen |-> Len(ops[t])]]

\* A receipt request or the scanner; a mismatch changes nothing.
StartReceipt(w, t) ==
    /\ job[w] = NoJob
    /\ ReadForReceipt(w, t)
    /\ UNCHANGED <<chain, recorded, receipt, status, ops, order, batch>>

Finalised(t, seen) ==
    LET kept == [i \in DOMAIN ops[t] |-> IF i <= seen THEN chain[t] ELSE ops[t][i]]
    IN  IF seen = 0 THEN Append(kept, chain[t]) ELSE kept

CommitReceipt(w) ==
    /\ job[w].kind = "receipt"
    /\ LET t == job[w].tx IN
         /\ ops' = [ops EXCEPT ![t] = Finalised(t, job[w].seen)]
         /\ receipt' = [receipt EXCEPT ![t] = chain[t]]
         /\ status' = [status EXCEPT ![t[1]] = StatusOf(t[1], recorded, receipt')]
         /\ order' = MovedToEnd(t)
    /\ job' = [job EXCEPT ![w] = NoJob]
    /\ UNCHANGED <<chain, recorded, batch>>

\* A failed lookup, a rollback or a crash: nothing of the request is written.
Abandon(w) ==
    /\ job[w] # NoJob
    /\ job' = [job EXCEPT ![w] = NoJob]
    /\ UNCHANGED <<chain, recorded, receipt, status, ops, order, batch>>

----------------------------------------------------------------------------
(* reconcile_pending_actions: the oldest unverified hashes, each marked as *)
(* checked before its lookup.  The threshold on updated_at leaves out a    *)
(* newer part of the list.                                                 *)

Unverified == {i \in DOMAIN order : receipt[order[i]] = "none"}

\* The places of the n oldest, in order.
Oldest(n) == {f \in [1 .. n -> Unverified] :
                 /\ \A i, j \in 1 .. n : i < j => f[i] < f[j]
                 /\ \A u \in Unverified : u <= f[n] => \E i \in 1 .. n : f[i] = u}

StartPass ==
    /\ batch = <<>> /\ job[loop] = NoJob
    /\ \E n \in 1 .. BatchLimit : \E f \in Oldest(n) : batch' = [i \in 1 .. n |-> order[f[i]]]
    /\ UNCHANGED <<chain, recorded, receipt, status, ops, order, job>>

\* Mutation: a hash that was looked at keeps its place.
MarkNothing ==
    /\ batch # <<>> /\ job[loop] = NoJob
    /\ batch' = Tail(batch)
    /\ job' = [job EXCEPT ![loop] = [kind |-> "lookup", tx |-> Head(batch)]]
    /\ UNCHANGED <<chain, recorded, receipt, status, ops, order>>

MarkChecked ==
    /\ batch # <<>> /\ job[loop] = NoJob
    /\ order' = MovedToEnd(Head(batch))
    /\ batch' = Tail(batch)
    /\ job' = [job EXCEPT ![loop] = [kind |-> "lookup", tx |-> Head(batch)]]
    /\ UNCHANGED <<chain, recorded, receipt, status, ops>>

\* The receipt is there; if it is not, the lookup is abandoned.
LookUp ==
    /\ job[loop].kind = "lookup"
    /\ ReadForReceipt(loop, job[loop].tx)
    /\ UNCHANGED <<chain, recorded, receipt, status, ops, order, batch>>

\* The API process dies: the pass is forgotten.
CrashLoop ==
    /\ batch # <<>>
    /\ batch' = <<>>
    /\ job' = [job EXCEPT ![loop] = NoJob]
    /\ UNCHANGED <<chain, recorded, receipt, status, ops, order>>

----------------------------------------------------------------------------

Next ==
    \/ \E t \in Tx : Mine(t)
    \/ \E w \in Reporters, t \in Tx : StartBroadcast(w, t)
    \/ \E w \in Reporters : CommitFirst(w) \/ CommitReplay(w)
    \/ \E w \in Finalisers, t \in Tx : StartReceipt(w, t)
    \/ \E w \in Finalisers \union {loop} : CommitReceipt(w)
    \/ \E w \in Workers : Abandon(w)
    \/ StartPass \/ MarkChecked \/ LookUp \/ CrashLoop

Spec == Init /\ [][Next]_vars

(***************************************************************************)
(* Fairness.  The loop goes on for ever; a lookup and a commit that are    *)
(* tried again and again for one hash do not fail every time, and the API  *)
(* process does not die in every pass.                                     *)
(***************************************************************************)
Fairness ==
    /\ WF_vars(StartPass) /\ WF_vars(MarkChecked)
    /\ WF_vars(job[loop].kind = "lookup" /\ Abandon(loop))
    /\ \A t \in Tx :
         /\ SF_vars(batch # <<>> /\ Head(batch) = t /\ MarkChecked)
         /\ SF_vars(job[loop] # NoJob /\ job[loop].tx = t /\ LookUp)
         /\ SF_vars(job[loop] # NoJob /\ job[loop].tx = t /\ CommitReceipt(loop))

FairSpec == Spec /\ Fairness

----------------------------------------------------------------------------
(* Properties.                                                             *)

\* Every table has its type, and the loop's order lists what is recorded.
TypeOK ==
    /\ chain \in [Tx -> Fates]
    /\ recorded \subseteq Tx
    /\ receipt \in [Tx -> Outcomes \union {"none"}]
    /\ status \in [Actions -> Outcomes \union {"PREPARED", "BROADCAST_REPORTED"}]
    /\ ops \in [Tx -> Seq(Outcomes \union {"SUBMITTED"})]
    /\ {order[i] : i \in DOMAIN order} = recorded /\ Len(order) = Cardinality(recorded)
    /\ {batch[i] : i \in DOMAIN batch} \subseteq recorded

\* record_broadcast, record_verified_receipt: a stored status never claims more
\* than the chain has shown, whichever request wrote it last, and an action of
\* which a hash is recorded is never shown as merely prepared.
StatusBacked ==
    \A a \in Actions :
        /\ status[a] = "CONFIRMED" => \A i \in 1 .. NumTx : chain[<<a, i>>] = "CONFIRMED"
        /\ status[a] = "REVERTED" => \E i \in 1 .. NumTx : chain[<<a, i>>] = "REVERTED"
        /\ status[a] = "PREPARED" <=> \A i \in 1 .. NumTx : <<a, i>> \notin recorded

\* finalize_receipt, "commit all receipt-derived state together": the API
\* tables and kick_txs say the same of a transaction at every moment, save of
\* one an older server recorded without rows.
LedgersAgree ==
    \A t \in recorded \ Legacy :
        ops[t] = <<IF receipt[t] = "none" THEN "SUBMITTED" ELSE receipt[t]>>

\* A verified receipt, and a row finalised from it, never change again.
OutcomeIsFinal ==
    [][\A t \in Tx :
        /\ receipt[t] # "none" => receipt'[t] = receipt[t]
        /\ \A i \in DOMAIN ops[t] : ops[t][i] # "SUBMITTED" =>
               i \in DOMAIN ops'[t] /\ ops'[t][i] = ops[t][i]]_vars

\* docs/api-reference.md:190: "broadcast replay does not downgrade verified
\* outcomes"; an action's stored outcome stays.
ReplayKeepsOutcome ==
    [][\A a \in Actions : status[a] \in Outcomes => status'[a] = status[a]]_vars

\* The rotation reaches every hash: one that is recorded and mined is verified,
\* however many others stay unmined or mismatched for ever.
VerifiedInTheEnd ==
    \A t \in Tx :
        t \in recorded /\ chain[t] \in Outcomes ~> receipt[t] # "none"
=============================================================================
