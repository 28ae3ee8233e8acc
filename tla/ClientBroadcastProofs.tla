------------------------- MODULE ClientBroadcastProofs -------------------------
(***************************************************************************)
(* Proofs about ClientBroadcast for any number of client processes,        *)
(* actions and transactions per action, any legacy rows and any limits.    *)
(*                                                                         *)
(* The argument for retention has one idea: once a transaction is Kept     *)
(* (its submission row is in the outbox, or a client has seen its receipt) *)
(* it stays so, because a submission row is deleted only by a process that *)
(* holds the receipt.  Whatever a process carries between two steps, and   *)
(* every undelivered report it is about to delete, is Kept already.  The   *)
(* one exception is an old report that comes within reach of the flush     *)
(* after the upgrade; WithinReach says when there is none.  What a single  *)
(* client guarantees beyond that comes last.                               *)
(***************************************************************************)
EXTENDS ClientBroadcast, FiniteSetTheorems, WellFoundedInduction, TLAPS

(***************************************************************************)
(* PendingNonce is well defined: the pool holds fewer transactions than    *)
(* there are candidates, so some candidate is free, and there is a least.  *)
(***************************************************************************)
\* A non-empty set of natural numbers has a least element.
LEMMA LeastElement ==
    ASSUME NEW S \in SUBSET Nat, S # {}
    PROVE  \E n \in S : \A m \in S : n <= m
<1> DEFINE T == {0 .. n : n \in S}
<1>1. IsWellFoundedOn(StrictSubsetOrdering(Nat), FiniteSubsetsOf(Nat))
  BY FS_StrictSubsetOrderingWellFounded
<1>2. T \subseteq FiniteSubsetsOf(Nat)
  <2> SUFFICES ASSUME NEW n \in S PROVE 0 .. n \in FiniteSubsetsOf(Nat)
    OBVIOUS
  <2>1. IsFiniteSet(0 .. n)
    BY FS_Interval
  <2> QED BY <2>1 DEF FiniteSubsetsOf
<1>3. \E x \in T : \A y \in T : <<y, x>> \notin StrictSubsetOrdering(Nat)
  <2> HIDE DEF T
  <2>1. T # {}
    BY DEF T
  <2> QED BY <1>1, <1>2, <2>1, WFMin
<1>4. PICK n \in S : \A m \in S : <<0 .. m, 0 .. n>> \notin StrictSubsetOrdering(Nat)
  BY <1>3
<1>5. ASSUME NEW m \in S, m < n PROVE FALSE
  <2>1. 0 .. m \subseteq 0 .. n
    BY <1>5
  <2>2. n \in 0 .. n /\ n \notin 0 .. m
    BY <1>5
  <2>3. 0 .. m \in SUBSET Nat /\ 0 .. n \in SUBSET Nat
    OBVIOUS
  <2> QED BY <1>4, <2>1, <2>2, <2>3, Zenon DEF StrictSubsetOrdering
<1> QED BY <1>5

\* There are finitely many transactions, so they can be counted.
LEMMA TxFinite ==
    /\ IsFiniteSet(Tx) /\ Cardinality(Tx) \in Nat
    /\ \A S \in SUBSET Tx : IsFiniteSet(S) /\ Cardinality(S) \in Nat
<1>1. IsFiniteSet(1 .. NumTx)
  BY ConstantsAssumption, FS_Interval
<1>2. IsFiniteSet(Tx)
  BY <1>1, ConstantsAssumption, FS_Product DEF Tx
<1> HIDE DEF Tx
<1>3. \A S \in SUBSET Tx : IsFiniteSet(S)
  BY <1>2, FS_Subset
<1> QED BY <1>2, <1>3, FS_CardinalityType

\* The account nonce of the chain is a natural number.
LEMMA MinedCountType == MinedCount \in Nat
<1>1. {t \in Tx : Mined(t)} \in SUBSET Tx
  OBVIOUS
<1> QED BY <1>1, TxFinite DEF MinedCount

\* get_transaction_count(sender, "pending") is a natural number, not below the
\* number of mined transactions and not taken by a transaction in the pool.
LEMMA PendingNonceProperties ==
    /\ PendingNonce \in Nat
    /\ PendingNonce >= MinedCount
    /\ \A t \in Tx : net[t] = "pool" => nonceOf[t] # PendingNonce
<1> DEFINE M == MinedCount
           C == Cardinality(Tx)
           Taken(n) == \E t \in Tx : net[t] = "pool" /\ nonceOf[t] = n
           Candidates == {n \in M .. M + C : ~Taken(n)}
<1>1. M \in Nat /\ C \in Nat
  BY MinedCountType, TxFinite
<1>2. Candidates # {}
  <2> SUFFICES ASSUME \A n \in M .. M + C : Taken(n) PROVE FALSE
    OBVIOUS
  <2> DEFINE holder == [n \in M .. M + C |->
                          CHOOSE t \in Tx : net[t] = "pool" /\ nonceOf[t] = n]
  <2>1. \A n \in M .. M + C : holder[n] \in Tx /\ nonceOf[holder[n]] = n
    OBVIOUS
  <2>2. holder \in [M .. M + C -> Tx]
    BY <2>1
  <2>3. IsFiniteSet(M .. M + C) /\ Cardinality(M .. M + C) = C + 1
    <3>1. M \in Int /\ M + C \in Int /\ ~(M > M + C) /\ (M + C) - M + 1 = C + 1
      BY <1>1
    <3> HIDE DEF M, C
    <3> QED BY ONLY <3>1, FS_Interval
  <2>4. \E x, y \in M .. M + C : x # y /\ holder[x] = holder[y]
    <3>1. Cardinality(Tx) < Cardinality(M .. M + C)
      BY <1>1, <2>3
    <3>2. IsFiniteSet(Tx)
      BY TxFinite
    <3> DEFINE I == M .. M + C
    <3>3. holder \in [I -> Tx] /\ IsFiniteSet(I) /\ Cardinality(Tx) < Cardinality(I)
      BY <3>1, <2>2, <2>3
    <3> HIDE DEF holder, I
    <3>4. \E x, y \in I : x # y /\ holder[x] = holder[y]
      BY <3>2, <3>3, FS_PigeonHole
    <3> QED BY <3>4 DEF I
  <2> HIDE DEF holder
  <2> QED BY <2>1, <2>4
<1>3. PICK n \in Candidates : \A m \in Candidates : n <= m
  <2>1. Candidates \in SUBSET Nat
    BY <1>1
  <2> HIDE DEF Candidates
  <2> QED BY <1>2, <2>1, LeastElement
<1>4. \E k \in M .. M + C :
        /\ \A t \in Tx : net[t] = "pool" => nonceOf[t] # k
        /\ \A m \in M .. k - 1 : \E t \in Tx : net[t] = "pool" /\ nonceOf[t] = m
  <2>1. \A m \in M .. n - 1 : m \in M .. M + C /\ ~(n <= m)
    BY <1>1
  <2>2. \A m \in M .. n - 1 : Taken(m)
    BY <1>3, <2>1
  <2> QED BY <1>3, <2>2
<1>5. /\ PendingNonce \in M .. M + C
      /\ \A t \in Tx : net[t] = "pool" => nonceOf[t] # PendingNonce
  BY <1>4 DEF PendingNonce
<1> QED BY <1>1, <1>5

----------------------------------------------------------------------------
(* The pages of a limited query.                                           *)

\* A limited query answers with some of the rows it selects.
LEMMA LimitedSubset == \A S, limit : \A T \in Limited(S, limit) : T \subseteq S
BY DEF Limited

\* A limit that covers the rows cuts nothing off.
LEMMA LimitedAll ==
    ASSUME NEW S, IsFiniteSet(S), NEW limit \in Nat, Cardinality(S) <= limit
    PROVE  \A T \in Limited(S, limit) : T = S
<1> SUFFICES ASSUME NEW T \in Limited(S, limit) PROVE T = S
  OBVIOUS
<1>1. T \subseteq S /\ Cardinality(T) = Cardinality(S)
  <2>1. Cardinality(S) \in Nat
    BY FS_CardinalityType
  <2> QED BY <2>1 DEF Limited
<1> QED BY <1>1, FS_Subset

\* A write keeps the reports of the page that are still queued on the page.
LEMMA RepageKeeps ==
    ASSUME Repage
    PROVE  page' \subseteq Reports' /\ page \cap outbox' \subseteq page'
<1> QED BY LimitedSubset DEF Repage

----------------------------------------------------------------------------
(* Types.                                                                  *)

\* Where a process holds a transaction, and where it works through reports.
Holding == Labels \ {"idle", "upgrade", "flush", "reconcile", "check", "fees"}

HoldsTx      == \A p \in Procs : pc[p] \in Holding => cur[p] \in Tx
HoldsReports ==
    \A p \in Procs : pc[p] \in {"flush", "flushed"} => \A r \in todo[p] : r[1] # "submission"

TypeInv == TypeOK /\ HoldsTx /\ HoldsReports

\* A fresh client over an old outbox has the types below.
LEMMA TypeInit == Init => TypeInv
<1> SUFFICES ASSUME Init PROVE TypeInv
  OBVIOUS
<1>1. outbox \subseteq Rows /\ sent \subseteq Tx
  BY ConstantsAssumption DEF Init, Broadcast, Rows
<1>2. Cardinality(Legacy) \in Nat
  BY ConstantsAssumption, TxFinite
<1>3. nonceOf \in [Tx -> Nat \union {NoNonce}]
  BY <1>2 DEF Init, NoNonce
<1>4. page \subseteq Reports
  BY LimitedSubset DEF Init
<1> QED BY <1>1, <1>3, <1>4 DEF Init, TypeInv, TypeOK, HoldsTx, HoldsReports, Holding, Labels

\* Every step of a client and of the network keeps the types, and a process
\* that is reporting or sending holds a transaction.
LEMMA TypeStep ==
    ASSUME TypeInv, [Next]_vars
    PROVE  TypeInv'
<1> USE DEF TypeInv, TypeOK, HoldsTx, HoldsReports, Holding, Labels, Reports, fileVars, chainVars, localVars
<1>1. ASSUME NEW p \in Procs, Start(p) PROVE TypeInv'
  BY <1>1 DEF Start, Goto
<1>2. ASSUME NEW p \in Procs, Upgrade(p) PROVE TypeInv'
  BY <1>2 DEF Upgrade, Submission, Rows
<1>3. ASSUME NEW p \in Procs, StartFlush(p) PROVE TypeInv'
  BY <1>3 DEF StartFlush, Goto
<1>4. ASSUME NEW p \in Procs, FlushPost(p) PROVE TypeInv'
  BY <1>4 DEF FlushPost, Goto, Recorded, Rows
<1>5. ASSUME NEW p \in Procs, FlushDelivered(p) PROVE TypeInv'
  BY <1>5, RepageKeeps DEF FlushDelivered, Goto, PutDown, Rows
<1>6. ASSUME NEW p \in Procs, FlushRejected(p) PROVE TypeInv'
  BY <1>6 DEF FlushRejected
<1>7. ASSUME NEW p \in Procs, FlushBroken(p) PROVE TypeInv'
  BY <1>7 DEF FlushBroken, Recorded, Rows
<1>8. ASSUME NEW p \in Procs, StartReconcile(p) PROVE TypeInv'
  BY <1>8 DEF StartReconcile, Goto, Limited, Submissions, Rows
<1>9. ASSUME NEW p \in Procs, ReconcileNext(p) PROVE TypeInv'
  BY <1>9 DEF ReconcileNext, Report, Goto, Rows
<1>10. ASSUME NEW p \in Procs, CheckSubmissions(p) PROVE TypeInv'
  BY <1>10 DEF CheckSubmissions, Stop, PutDown, Goto
<1>11. ASSUME NEW p \in Procs, CheckBroadcasts(p) PROVE TypeInv'
  BY <1>11 DEF CheckBroadcasts, Stop, PutDown, Goto
<1>12. ASSUME NEW p \in Procs, FetchNonce(p) PROVE TypeInv'
  BY <1>12, PendingNonceProperties, ConstantsAssumption DEF FetchNonce, Goto, Tx
<1>13. ASSUME NEW p \in Procs, SkipSend(p) PROVE TypeInv'
  BY <1>13 DEF SkipSend, Stop, PutDown, Goto
<1>14. ASSUME NEW p \in Procs, RetainSubmission(p) PROVE TypeInv'
  BY <1>14 DEF RetainSubmission, Goto, Submission, Rows
<1>15. ASSUME NEW p \in Procs, Send(p) PROVE TypeInv'
  BY <1>15 DEF Send, Report, Goto
<1>16. ASSUME NEW p \in Procs, QueueReport(p) PROVE TypeInv'
  BY <1>16, RepageKeeps DEF QueueReport, Goto, Rows
<1>17. ASSUME NEW p \in Procs, QueueReportFails(p) PROVE TypeInv'
  BY <1>17 DEF QueueReportFails, Goto
<1>18. ASSUME NEW p \in Procs, PostReport(p) PROVE TypeInv'
  BY <1>18 DEF PostReport, Goto, AfterReport, Recorded
<1>19. ASSUME NEW p \in Procs, ReportDelivered(p) PROVE TypeInv'
  BY <1>19, RepageKeeps DEF ReportDelivered, Goto, AfterReport
<1>20. ASSUME NEW p \in Procs, PostReportFails(p) PROVE TypeInv'
  BY <1>20 DEF PostReportFails, Goto, AfterReport, Recorded
<1>21. ASSUME NEW p \in Procs, ObserveReceipt(p) PROVE TypeInv'
  BY <1>21 DEF ObserveReceipt, Report, Goto
<1>22. ASSUME NEW p \in Procs, NoReceipt(p) PROVE TypeInv'
  BY <1>22 DEF NoReceipt, Stop, PutDown, Goto
<1>23. ASSUME NEW p \in Procs, ForgetSubmission(p) PROVE TypeInv'
  <2>1. cur[p] \in Tx
    BY <1>23 DEF ForgetSubmission
  <2>2. cur[p][2] < NumTx => <<cur[p][1], cur[p][2] + 1>> \in Tx
    BY <2>1, ConstantsAssumption DEF Tx
  <2> QED BY <1>23, <2>1, <2>2, SMTT(30) DEF ForgetSubmission, Stop, PutDown, Goto, Submission
<1>24. ASSUME NEW p \in Procs, Crash(p) PROVE TypeInv'
  BY <1>24 DEF Crash, Stop, PutDown, Goto
<1>25. ASSUME NEW t \in Tx, Accept(t) PROVE TypeInv'
  BY <1>25 DEF Accept
<1>26. ASSUME NEW t \in Tx, Evict(t) PROVE TypeInv'
  BY <1>26 DEF Evict
<1>27. ASSUME NEW t \in Tx, Mine(t) PROVE TypeInv'
  BY <1>27 DEF Mine
<1>28. CASE UNCHANGED vars
  BY <1>28 DEF vars
<1> QED
  BY <1>1, <1>2, <1>3, <1>4, <1>5, <1>6, <1>7, <1>8, <1>9, <1>10, <1>11, <1>12, <1>13, <1>14, <1>15, <1>16, <1>17, <1>18, <1>19, <1>20, <1>21, <1>22, <1>23, <1>24, <1>25, <1>26, <1>27, <1>28
  DEF Next, Broadcasting, Network

\* Every variable keeps its type, whatever dies, fails or is lost.
THEOREM TypeCorrect == Spec => []TypeOK
<1>1. Init => TypeInv
  BY TypeInit
<1>2. TypeInv /\ [Next]_vars => TypeInv'
  BY TypeStep
<1>3. TypeInv => TypeOK
  BY DEF TypeInv
<1> QED BY <1>1, <1>2, <1>3, PTL DEF Spec

----------------------------------------------------------------------------
(* Retention.                                                              *)

\* The submission row is there, or a client has seen the receipt.
Kept(t) == Submission(t) \in outbox \/ t \in observed

\* Where a process reports, or is about to delete a delivered report.
Reporting == {"queue", "post", "postUnqueued", "posted"}

ObservedMined    == \A t \in observed : Mined(t)
ReceiptsObserved == \A t \in Tx : Receipt(t) \in outbox => t \in observed

ForgetsObserved ==
    \A p \in Procs :
        pc[p] = "forget" \/ (pc[p] \in Reporting /\ rtype[p] = "receipt") => cur[p] \in observed

ForgetInv == ObservedMined /\ ReceiptsObserved /\ ForgetsObserved

(***************************************************************************)
(* Retention is claimed for a set C of transactions: for all of them when  *)
(* the upgrade reaches every report the flush can deliver, and for those   *)
(* no older client sent in any case.                                       *)
(***************************************************************************)
SentKept(C) == \A t \in sent \cap C : Kept(t) \/ (t \in Legacy /\ Broadcast(t) \in outbox)

\* While it upgrades, a process has yet to retain the legacy reports on its
\* list, and no other report is on the page the flush will take.
UpgradesPage(C) ==
    \A p \in Procs : pc[p] = "upgrade" =>
        /\ \A r \in todo[p] : r[1] = "broadcast"
        /\ \A t \in C : Broadcast(t) \in page => Kept(t) \/ Broadcast(t) \in todo[p]

\* Whatever it works on afterwards is kept.
ListsKept(C) ==
    \A p \in Procs : pc[p] # "upgrade" => \A r \in todo[p] : r[2] \in C => Kept(r[2])
HeldKept(C)  ==
    \A p \in Procs :
        pc[p] \in {"flushed", "send"} \union Reporting /\ cur[p] \in C => Kept(cur[p])

RetentionInv(C) ==
    ForgetInv /\ SentKept(C) /\ UpgradesPage(C) /\ ListsKept(C) /\ HeldKept(C)

\* Every report that is yet to be upgraded is within reach of the next query.
WithinReach(C) == \A t \in C : Broadcast(t) \in outbox => Kept(t) \/ Broadcast(t) \in page

\* "At most one client process."
OneClient == \A p, q \in Procs : p = q

(* Reports.                                                                *)

\* The broadcast of t reached the control plane, or its report is queued, or
\* the operator was warned.
Reported(t) == Broadcast(t) \in outbox \/ t \in ledger \/ t \in warned

ObservedReported == \A t \in observed : Reported(t)

\* A report is deleted only after it was posted.
PostedRecorded ==
    \A p \in Procs :
        pc[p] \in {"flushed", "posted"} /\ rtype[p] = "broadcast" => cur[p] \in ledger

HeldReported ==
    \A p \in Procs :
        pc[p] = "lookup" \/ (pc[p] = "post" /\ rtype[p] = "broadcast") => Reported(cur[p])

ReportInv == ObservedReported /\ PostedRecorded /\ HeldReported

\* At the start the only transactions in the air are those an older client
\* left behind as broadcast reports.
LEMMA RetentionInit ==
    ASSUME Init, NEW C \in SUBSET Tx
    PROVE  RetentionInv(C) /\ ReportInv
<1>1. \A t \in Tx : Receipt(t) \notin outbox
  BY DEF Init, Receipt, Broadcast
<1> QED
  BY <1>1 DEF Init, RetentionInv, ForgetInv, ReportInv, ObservedMined, SentKept, ReceiptsObserved,
    UpgradesPage, ListsKept, HeldKept, ForgetsObserved, ObservedReported, PostedRecorded,
    HeldReported, Reporting, Kept

\* The old reports are within reach when the limit covers them; of other
\* transactions there is none.
LEMMA ReachInit ==
    ASSUME Init, NEW C \in SUBSET Tx,
           C \cap Legacy = {} \/ Cardinality(Legacy) <= ReportLimit
    PROVE  WithinReach(C)
<1>1. CASE C \cap Legacy = {}
  <2> SUFFICES ASSUME NEW t \in C PROVE Broadcast(t) \notin outbox
    BY DEF WithinReach
  <2> QED BY <1>1 DEF Init, Broadcast
<1>2. CASE Cardinality(Legacy) <= ReportLimit
  <2>1. Reports = {Broadcast(t) : t \in Legacy}
    BY DEF Init, Reports, Broadcast
  <2>2. IsFiniteSet(Legacy) /\ Cardinality(Legacy) \in Nat
    BY ConstantsAssumption, TxFinite
  <2>3. IsFiniteSet(Reports) /\ Cardinality(Reports) <= Cardinality(Legacy)
    <3> DEFINE f == [t \in Legacy |-> Broadcast(t)]
    <3>1. f \in Surjection(Legacy, Reports)
      BY <2>1 DEF Surjection
    <3> HIDE DEF f
    <3> QED BY <2>2, <3>1, FS_Surjection
  <2>4. Cardinality(Reports) <= ReportLimit
    <3>1. Cardinality(Reports) \in Nat
      BY <2>3, FS_CardinalityType
    <3> QED BY <1>2, <2>2, <2>3, <3>1, ConstantsAssumption
  <2>5. page = Reports
    BY <2>3, <2>4, LimitedAll, ConstantsAssumption DEF Init
  <2> QED BY <2>1, <2>5 DEF WithinReach, Init
<1> QED BY <1>1, <1>2

\* queue_submission, the upgrade and the flush keep every transaction in the
\* air in the outbox, or in the hand of a process that has seen its receipt.
LEMMA RetentionStep ==
    ASSUME NEW C \in SUBSET Tx, TypeInv, RetentionInv(C), [Next]_vars,
           OneClient \/ WithinReach(C)
    PROVE  RetentionInv(C)'
<1> USE DEF TypeInv, TypeOK, HoldsTx, HoldsReports, Holding, Labels, fileVars, chainVars, localVars,
        RetentionInv, ForgetInv, ObservedMined, SentKept, ReceiptsObserved, UpgradesPage, ListsKept,
        HeldKept, ForgetsObserved, Reporting, Kept, Mined, Submission, Broadcast, Receipt
<1>1. ASSUME NEW p \in Procs, Start(p) PROVE RetentionInv(C)'
  BY <1>1, SMTT(30) DEF Start, Goto
<1>2. ASSUME NEW p \in Procs, Upgrade(p) PROVE RetentionInv(C)'
  BY <1>2, SMTT(30) DEF Upgrade
<1>3. ASSUME NEW p \in Procs, StartFlush(p) PROVE RetentionInv(C)'
  <2>1. \A r \in page : r[2] \in C => Kept(r[2])
    <3> SUFFICES ASSUME NEW r \in page, r[2] \in C PROVE Kept(r[2])
      OBVIOUS
    <3>1. r \in outbox /\ r[2] \in Tx /\ (r = Broadcast(r[2]) \/ r = Receipt(r[2]))
      BY DEF Rows, Reports
    <3>2. CASE r = Broadcast(r[2])
      BY <1>3, <3>1, <3>2 DEF StartFlush
    <3>3. CASE r = Receipt(r[2])
      BY <3>1, <3>3
    <3> QED BY <3>1, <3>2, <3>3
  <2> QED BY <1>3, <2>1, SMTT(30) DEF StartFlush, Goto
<1>4. ASSUME NEW p \in Procs, FlushPost(p) PROVE RetentionInv(C)'
  BY <1>4, SMTT(30) DEF FlushPost, Goto, Recorded
<1>5. ASSUME NEW p \in Procs, FlushDelivered(p) PROVE RetentionInv(C)'
  <2>1. UpgradesPage(C)'
    BY <1>5, RepageKeeps, SMTT(30) DEF FlushDelivered, Goto, PutDown, OneClient, WithinReach, Reports
  <2> QED BY <1>5, <2>1, SMTT(30) DEF FlushDelivered, Goto, PutDown
<1>6. ASSUME NEW p \in Procs, FlushRejected(p) PROVE RetentionInv(C)'
  BY <1>6, SMTT(30) DEF FlushRejected
<1>7. ASSUME NEW p \in Procs, FlushBroken(p) PROVE RetentionInv(C)'
  BY <1>7, SMTT(30) DEF FlushBroken, Recorded
<1>8. ASSUME NEW p \in Procs, StartReconcile(p) PROVE RetentionInv(C)'
  <2>1. PICK S \in Limited(Submissions, ReconcileLimit) : todo' = [todo EXCEPT ![p] = S]
    BY <1>8 DEF StartReconcile
  <2>2. ASSUME NEW r \in S PROVE Kept(r[2])
    <3>1. r \in outbox /\ r = <<"submission", r[2]>>
      BY <2>1, LimitedSubset DEF Rows, Submissions
    <3> QED BY <3>1
  <2> QED BY <1>8, <2>1, <2>2, SMTT(30) DEF StartReconcile, Goto
<1>9. ASSUME NEW p \in Procs, ReconcileNext(p) PROVE RetentionInv(C)'
  BY <1>9, SMTT(30) DEF ReconcileNext, Report, Goto
<1>10. ASSUME NEW p \in Procs, CheckSubmissions(p) PROVE RetentionInv(C)'
  <2>1. CASE Stop(p)
    BY <1>10, <2>1, SMTT(30) DEF CheckSubmissions, Stop, PutDown, Goto
  <2>2. CASE Goto(p, "check") /\ UNCHANGED <<todo, cur, rtype, ctx, nonce>>
    BY <1>10, <2>2, SMTT(30) DEF CheckSubmissions, Goto
  <2> QED BY <1>10, <2>1, <2>2 DEF CheckSubmissions
<1>11. ASSUME NEW p \in Procs, CheckBroadcasts(p) PROVE RetentionInv(C)'
  <2>1. CASE Stop(p)
    BY <1>11, <2>1, SMTT(30) DEF CheckBroadcasts, Stop, PutDown, Goto
  <2>2. CASE Goto(p, "fees") /\ UNCHANGED <<todo, cur, rtype, ctx, nonce>>
    BY <1>11, <2>2, SMTT(30) DEF CheckBroadcasts, Goto
  <2> QED BY <1>11, <2>1, <2>2 DEF CheckBroadcasts
<1>12. ASSUME NEW p \in Procs, FetchNonce(p) PROVE RetentionInv(C)'
  BY <1>12, SMTT(30) DEF FetchNonce, Goto
<1>13. ASSUME NEW p \in Procs, SkipSend(p) PROVE RetentionInv(C)'
  BY <1>13, SMTT(30) DEF SkipSend, Stop, PutDown, Goto
<1>14. ASSUME NEW p \in Procs, RetainSubmission(p) PROVE RetentionInv(C)'
  BY <1>14, SMTT(30) DEF RetainSubmission, Goto
<1>15. ASSUME NEW p \in Procs, Send(p) PROVE RetentionInv(C)'
  BY <1>15, SMTT(30) DEF Send, Report, Goto
<1>16. ASSUME NEW p \in Procs, QueueReport(p) PROVE RetentionInv(C)'
  <2>1. UpgradesPage(C)'
    BY <1>16, RepageKeeps, SMTT(30) DEF QueueReport, Goto, OneClient, WithinReach, Reports
  <2> QED BY <1>16, <2>1, SMTT(30) DEF QueueReport, Goto
<1>17. ASSUME NEW p \in Procs, QueueReportFails(p) PROVE RetentionInv(C)'
  BY <1>17, SMTT(30) DEF QueueReportFails, Goto
<1>18. ASSUME NEW p \in Procs, PostReport(p) PROVE RetentionInv(C)'
  BY <1>18, SMTT(30) DEF PostReport, Goto, AfterReport, Recorded
<1>19. ASSUME NEW p \in Procs, ReportDelivered(p) PROVE RetentionInv(C)'
  <2>1. UpgradesPage(C)'
    BY <1>19, RepageKeeps, SMTT(30) DEF ReportDelivered, Goto, AfterReport, OneClient, WithinReach, Reports
  <2> QED BY <1>19, <2>1, SMTT(30) DEF ReportDelivered, Goto, AfterReport
<1>20. ASSUME NEW p \in Procs, PostReportFails(p) PROVE RetentionInv(C)'
  BY <1>20, SMTT(30) DEF PostReportFails, Goto, AfterReport, Recorded
<1>21. ASSUME NEW p \in Procs, ObserveReceipt(p) PROVE RetentionInv(C)'
  BY <1>21, SMTT(30) DEF ObserveReceipt, Report, Goto
<1>22. ASSUME NEW p \in Procs, NoReceipt(p) PROVE RetentionInv(C)'
  BY <1>22, SMTT(30) DEF NoReceipt, Stop, PutDown, Goto
<1>23. ASSUME NEW p \in Procs, ForgetSubmission(p) PROVE RetentionInv(C)'
  BY <1>23, SMTT(30) DEF ForgetSubmission, Stop, PutDown, Goto
<1>24. ASSUME NEW p \in Procs, Crash(p) PROVE RetentionInv(C)'
  BY <1>24, SMTT(30) DEF Crash, Stop, PutDown, Goto
<1>25. ASSUME NEW t \in Tx, Accept(t) PROVE RetentionInv(C)'
  BY <1>25, SMTT(30) DEF Accept
<1>26. ASSUME NEW t \in Tx, Evict(t) PROVE RetentionInv(C)'
  BY <1>26, SMTT(30) DEF Evict
<1>27. ASSUME NEW t \in Tx, Mine(t) PROVE RetentionInv(C)'
  BY <1>27, SMTT(30) DEF Mine
<1>28. CASE UNCHANGED vars
  BY <1>28 DEF vars
<1> HIDE DEF RetentionInv
<1> QED
  BY <1>1, <1>2, <1>3, <1>4, <1>5, <1>6, <1>7, <1>8, <1>9, <1>10, <1>11, <1>12, <1>13, <1>14, <1>15, <1>16, <1>17, <1>18, <1>19, <1>20, <1>21, <1>22, <1>23, <1>24, <1>25, <1>26, <1>27, <1>28
  DEF Next, Broadcasting, Network

\* _send_action_report and flush_pending never lose the broadcast report of a
\* transaction that was let go.
LEMMA ReportStep ==
    ASSUME TypeInv, ForgetInv, ReportInv, [Next]_vars
    PROVE  ReportInv'
<1> USE DEF TypeInv, TypeOK, HoldsTx, HoldsReports, Holding, Labels, fileVars, chainVars, localVars,
        ForgetInv, ForgetsObserved, Reporting, ReportInv, ObservedReported, PostedRecorded,
        HeldReported, Reported, Submission, Broadcast
<1>1. ASSUME NEW p \in Procs, Start(p) PROVE ReportInv'
  BY <1>1, SMTT(30) DEF Start, Goto
<1>2. ASSUME NEW p \in Procs, Upgrade(p) PROVE ReportInv'
  BY <1>2, SMTT(30) DEF Upgrade
<1>3. ASSUME NEW p \in Procs, StartFlush(p) PROVE ReportInv'
  BY <1>3, SMTT(30) DEF StartFlush, Goto
<1>4. ASSUME NEW p \in Procs, FlushPost(p) PROVE ReportInv'
  BY <1>4, SMTT(30) DEF FlushPost, Goto, Recorded
<1>5. ASSUME NEW p \in Procs, FlushDelivered(p) PROVE ReportInv'
  BY <1>5, SMTT(30) DEF FlushDelivered, Goto, PutDown
<1>6. ASSUME NEW p \in Procs, FlushRejected(p) PROVE ReportInv'
  BY <1>6, SMTT(30) DEF FlushRejected
<1>7. ASSUME NEW p \in Procs, FlushBroken(p) PROVE ReportInv'
  BY <1>7, SMTT(30) DEF FlushBroken, Recorded
<1>8. ASSUME NEW p \in Procs, StartReconcile(p) PROVE ReportInv'
  BY <1>8, SMTT(30) DEF StartReconcile, Goto
<1>9. ASSUME NEW p \in Procs, ReconcileNext(p) PROVE ReportInv'
  BY <1>9, SMTT(30) DEF ReconcileNext, Report, Goto
<1>10. ASSUME NEW p \in Procs, CheckSubmissions(p) PROVE ReportInv'
  BY <1>10, SMTT(30) DEF CheckSubmissions, Stop, PutDown, Goto
<1>11. ASSUME NEW p \in Procs, CheckBroadcasts(p) PROVE ReportInv'
  <2>1. CASE Stop(p)
    BY <1>11, <2>1, SMTT(30) DEF CheckBroadcasts, Stop, PutDown, Goto
  <2>2. CASE Goto(p, "fees") /\ UNCHANGED <<todo, cur, rtype, ctx, nonce>>
    BY <1>11, <2>2, SMTT(30) DEF CheckBroadcasts, Goto
  <2> QED BY <1>11, <2>1, <2>2 DEF CheckBroadcasts
<1>12. ASSUME NEW p \in Procs, FetchNonce(p) PROVE ReportInv'
  BY <1>12, SMTT(30) DEF FetchNonce, Goto
<1>13. ASSUME NEW p \in Procs, SkipSend(p) PROVE ReportInv'
  BY <1>13, SMTT(30) DEF SkipSend, Stop, PutDown, Goto
<1>14. ASSUME NEW p \in Procs, RetainSubmission(p) PROVE ReportInv'
  BY <1>14, SMTT(30) DEF RetainSubmission, Goto
<1>15. ASSUME NEW p \in Procs, Send(p) PROVE ReportInv'
  BY <1>15, SMTT(30) DEF Send, Report, Goto
<1>16. ASSUME NEW p \in Procs, QueueReport(p) PROVE ReportInv'
  BY <1>16, SMTT(30) DEF QueueReport, Goto
<1>17. ASSUME NEW p \in Procs, QueueReportFails(p) PROVE ReportInv'
  BY <1>17, SMTT(30) DEF QueueReportFails, Goto
<1>18. ASSUME NEW p \in Procs, PostReport(p) PROVE ReportInv'
  BY <1>18, SMTT(30) DEF PostReport, Goto, AfterReport, Recorded
<1>19. ASSUME NEW p \in Procs, ReportDelivered(p) PROVE ReportInv'
  BY <1>19, SMTT(30) DEF ReportDelivered, Goto, AfterReport
<1>20. ASSUME NEW p \in Procs, PostReportFails(p) PROVE ReportInv'
  BY <1>20, SMTT(30) DEF PostReportFails, Goto, AfterReport, Recorded
<1>21. ASSUME NEW p \in Procs, ObserveReceipt(p) PROVE ReportInv'
  BY <1>21, SMTT(30) DEF ObserveReceipt, Report, Goto
<1>22. ASSUME NEW p \in Procs, NoReceipt(p) PROVE ReportInv'
  BY <1>22, SMTT(30) DEF NoReceipt, Stop, PutDown, Goto
<1>23. ASSUME NEW p \in Procs, ForgetSubmission(p) PROVE ReportInv'
  BY <1>23, SMTT(30) DEF ForgetSubmission, Stop, PutDown, Goto
<1>24. ASSUME NEW p \in Procs, Crash(p) PROVE ReportInv'
  BY <1>24, SMTT(30) DEF Crash, Stop, PutDown, Goto
<1>25. ASSUME NEW t \in Tx, Accept(t) PROVE ReportInv'
  BY <1>25, SMTT(30) DEF Accept
<1>26. ASSUME NEW t \in Tx, Evict(t) PROVE ReportInv'
  BY <1>26, SMTT(30) DEF Evict
<1>27. ASSUME NEW t \in Tx, Mine(t) PROVE ReportInv'
  BY <1>27, SMTT(30) DEF Mine
<1>28. CASE UNCHANGED vars
  BY <1>28 DEF vars
<1> HIDE DEF ReportInv
<1> QED
  BY <1>1, <1>2, <1>3, <1>4, <1>5, <1>6, <1>7, <1>8, <1>9, <1>10, <1>11, <1>12, <1>13, <1>14, <1>15, <1>16, <1>17, <1>18, <1>19, <1>20, <1>21, <1>22, <1>23, <1>24, <1>25, <1>26, <1>27, <1>28
  DEF Next, Broadcasting, Network

\* A report stays within reach: rows on the page keep their place, and a report
\* queued now is of a transaction that is kept.
LEMMA ReachStep ==
    ASSUME NEW C \in SUBSET Tx, TypeInv, RetentionInv(C), WithinReach(C), [Next]_vars
    PROVE  WithinReach(C)'
<1> USE DEF TypeInv, TypeOK, HoldsTx, Holding, Labels, fileVars, chainVars, localVars,
        RetentionInv, ForgetInv, ForgetsObserved, HeldKept, Reporting, Kept, WithinReach,
        Submission, Broadcast
<1>1. CASE UNCHANGED <<outbox, page, observed>>
  BY <1>1
<1>2. ASSUME NEW p \in Procs, Upgrade(p) PROVE WithinReach(C)'
  BY <1>2 DEF Upgrade
<1>3. ASSUME NEW p \in Procs, FlushDelivered(p) PROVE WithinReach(C)'
  BY <1>3, RepageKeeps DEF FlushDelivered
<1>4. ASSUME NEW p \in Procs, RetainSubmission(p) PROVE WithinReach(C)'
  BY <1>4 DEF RetainSubmission
<1>5. ASSUME NEW p \in Procs, QueueReport(p) PROVE WithinReach(C)'
  BY <1>5, RepageKeeps DEF QueueReport
<1>6. ASSUME NEW p \in Procs, ReportDelivered(p) PROVE WithinReach(C)'
  BY <1>6, RepageKeeps DEF ReportDelivered
<1>7. ASSUME NEW p \in Procs, ObserveReceipt(p) PROVE WithinReach(C)'
  BY <1>7 DEF ObserveReceipt
<1>8. ASSUME NEW p \in Procs, ForgetSubmission(p) PROVE WithinReach(C)'
  BY <1>8 DEF ForgetSubmission
<1>9. ASSUME NEW p \in Procs, Start(p) \/ StartFlush(p) \/ FlushPost(p) \/ FlushRejected(p)
                               \/ FlushBroken(p) \/ StartReconcile(p) \/ ReconcileNext(p)
                               \/ CheckSubmissions(p) \/ CheckBroadcasts(p) \/ FetchNonce(p)
                               \/ SkipSend(p) \/ Send(p) \/ QueueReportFails(p) \/ PostReport(p)
                               \/ PostReportFails(p) \/ NoReceipt(p) \/ Crash(p)
      PROVE  UNCHANGED <<outbox, page, observed>>
  BY <1>9 DEF Start, StartFlush, FlushPost, FlushRejected, FlushBroken, StartReconcile,
    ReconcileNext, CheckSubmissions, CheckBroadcasts, FetchNonce, SkipSend, Send,
    QueueReportFails, PostReport, PostReportFails, NoReceipt, Crash
<1>10. ASSUME NEW t \in Tx, Network(t) PROVE UNCHANGED <<outbox, page, observed>>
  BY <1>10 DEF Network, Accept, Evict, Mine
<1>11. CASE UNCHANGED vars
  BY <1>11 DEF vars
<1> HIDE DEF WithinReach
<1> QED
  BY <1>1, <1>2, <1>3, <1>4, <1>5, <1>6, <1>7, <1>8, <1>9, <1>10, <1>11 DEF Next, Broadcasting

\* What holds of any number of clients: the transactions no older client sent.
Own == Tx \ Legacy

LEMMA InductiveInvariant ==
    Spec => [](TypeInv /\ RetentionInv(Own) /\ WithinReach(Own) /\ ReportInv)
<1>1. Own \in SUBSET Tx /\ Own \cap Legacy = {}
  BY DEF Own
<1>2. Init => TypeInv /\ RetentionInv(Own) /\ WithinReach(Own) /\ ReportInv
  BY <1>1, TypeInit, RetentionInit, ReachInit
<1>3. TypeInv /\ RetentionInv(Own) /\ WithinReach(Own) /\ ReportInv /\ [Next]_vars
        => (TypeInv /\ RetentionInv(Own) /\ WithinReach(Own) /\ ReportInv)'
  <2>1. RetentionInv(Own) => ForgetInv
    BY DEF RetentionInv
  <2> QED BY <1>1, <2>1, TypeStep, RetentionStep, ReachStep, ReportStep
<1> QED BY <1>2, <1>3, PTL DEF Spec

\* With one client, or when one query covers what older clients left, the
\* legacy transactions are included.
LEMMA OneClientInvariant ==
    ASSUME OneClient
    PROVE  Spec => [](TypeInv /\ RetentionInv(Tx))
<1>1. Init => TypeInv /\ RetentionInv(Tx)
  BY TypeInit, RetentionInit
<1>2. TypeInv /\ RetentionInv(Tx) /\ [Next]_vars => (TypeInv /\ RetentionInv(Tx))'
  BY OneClient, TypeStep, RetentionStep
<1> QED BY <1>1, <1>2, PTL DEF Spec

LEMMA CoveredInvariant ==
    ASSUME Cardinality(Legacy) <= ReportLimit
    PROVE  Spec => [](TypeInv /\ RetentionInv(Tx) /\ WithinReach(Tx))
<1>1. Init => TypeInv /\ RetentionInv(Tx) /\ WithinReach(Tx)
  BY TypeInit, RetentionInit, ReachInit
<1>2. TypeInv /\ RetentionInv(Tx) /\ WithinReach(Tx) /\ [Next]_vars
        => (TypeInv /\ RetentionInv(Tx) /\ WithinReach(Tx))'
  BY TypeStep, RetentionStep, ReachStep
<1> QED BY <1>1, <1>2, PTL DEF Spec

\* broadcast_prepared_action, queue_submission: with any number of clients
\* crashing anywhere, whatever an older client left behind, a transaction these
\* clients handed to the network is retained as a submission until some client
\* has seen its receipt.
THEOREM OwnRetention == Spec => [](\A t \in InFlight \ Legacy : Submission(t) \in outbox)
<1>1. TypeInv /\ RetentionInv(Own) => \A t \in InFlight \ Legacy : Submission(t) \in outbox
  BY DEF TypeInv, TypeOK, RetentionInv, SentKept, InFlight, Kept, Own
<1> QED BY <1>1, InductiveInvariant, PTL

\* broadcast_prepared_action: the same holds of the transactions an older client
\* left behind, as long as a single client runs or one query (LIMIT 100) covers
\* what was left; otherwise another client may move a report within reach of
\* the flush after the upgrade has passed it by.
THEOREM Retention ==
    ASSUME OneClient \/ Cardinality(Legacy) <= ReportLimit
    PROVE  Spec => []SubmissionRetained
<1>1. TypeInv /\ RetentionInv(Tx) => SubmissionRetained
  BY DEF TypeInv, TypeOK, RetentionInv, SentKept, SubmissionRetained, InFlight, Kept
<1>2. CASE OneClient
  BY <1>1, <1>2, OneClientInvariant, PTL
<1>3. CASE Cardinality(Legacy) <= ReportLimit
  BY <1>1, <1>3, CoveredInvariant, PTL
<1> QED BY <1>2, <1>3

\* mark_delivered: a retained hash is forgotten only when the chain has mined
\* the transaction.
THEOREM ForgettingIsSafe == Spec => ForgottenOnlyWhenMined
<1> DEFINE Safe == \A t \in Tx :
                     Submission(t) \in outbox /\ Submission(t) \notin outbox' => Mined(t)
<1>1. TypeInv /\ RetentionInv(Own) /\ [Next]_vars => [Safe]_vars
  <2> SUFFICES ASSUME TypeInv, RetentionInv(Own), Next,
                      NEW t \in Tx, Submission(t) \in outbox, Submission(t) \notin outbox'
               PROVE  Mined(t)
    OBVIOUS
  <2>1. PICK p \in Procs : Broadcasting(p)
    BY DEF Next, Network, Accept, Evict, Mine, fileVars
  <2>2. FlushDelivered(p) \/ ReportDelivered(p) \/ ForgetSubmission(p)
    BY <2>1 DEF Broadcasting, Start, Upgrade, StartFlush, FlushPost, FlushRejected, FlushBroken,
      StartReconcile, ReconcileNext, CheckSubmissions, CheckBroadcasts, FetchNonce, SkipSend,
      RetainSubmission, Send, QueueReport, QueueReportFails, PostReport, PostReportFails,
      ObserveReceipt, NoReceipt, Crash, fileVars
  <2>3. CASE FlushDelivered(p) \/ ReportDelivered(p)
    BY <2>3 DEF FlushDelivered, ReportDelivered, Submission, TypeInv, TypeOK
  <2>4. CASE ForgetSubmission(p)
    <3>1. t = cur[p] /\ cur[p] \in observed
      BY <2>4 DEF ForgetSubmission, Submission, RetentionInv, ForgetInv, ForgetsObserved
    <3> QED BY <3>1 DEF RetentionInv, ForgetInv, ObservedMined
  <2> QED BY <2>2, <2>3, <2>4
<1> QED BY <1>1, InductiveInvariant, PTL DEF Spec, ForgottenOnlyWhenMined

\* _send_action_report and flush_pending: once a client has seen a receipt, the
\* control plane has the broadcast, or its report is still queued, or the
\* operator was warned.
THEOREM ReportsSurvive == Spec => []ReportKeptOrAnnounced
<1>1. ReportInv => ReportKeptOrAnnounced
  BY DEF ReportInv, ObservedReported, Reported, ReportKeptOrAnnounced
<1> QED BY <1>1, InductiveInvariant, PTL

----------------------------------------------------------------------------
(***************************************************************************)
(* A single client process implements the serial sender of SerialSender,   *)
(* and never signs a replacement.                                          *)
(*                                                                         *)
(* The argument: past the two outbox checks every transaction sent so far  *)
(* has been observed, so it is mined and its nonce lies below the number   *)
(* of mined transactions, hence below the nonce fetched next.  In the loop *)
(* only the transaction in hand may be unobserved.                         *)
(***************************************************************************)
\* A transaction on the network was sent, one that was sent was signed.
NetSent    == \A t \in Tx : net[t] # "none" => t \in sent
SentSigned == \A t \in sent : nonceOf[t] # NoNonce

\* A mined transaction has used up its nonce.
MinedBelow == \A t \in Tx : Mined(t) => nonceOf[t] < MinedCount

\* Past the first check no submission is retained, past the second nothing is
\* in flight.
ChecksHold ==
    \A p \in Procs :
        /\ pc[p] = "check" => \A t \in Tx : Submission(t) \notin outbox
        /\ pc[p] \in {"fees", "sign", "send"} => sent \subseteq observed

\* The transaction about to be sent is new, and so are those after it.
Signing == {"sign", "send"}
Loop    == Reporting \union {"lookup", "forget"}

NextIsNew ==
    \A p \in Procs :
        /\ pc[p] = "sign" => nonceOf[cur[p]] = NoNonce
        /\ pc[p] = "send" => cur[p] \notin sent /\ nonceOf[cur[p]] = nonce[p]
        /\ pc[p] \in Signing \/ (pc[p] \in Loop /\ ctx[p] = "send") =>
              \A i \in 1 .. NumTx : i > cur[p][2] => nonceOf[<<cur[p][1], i>>] = NoNonce

\* ctx is "send" only while a transaction of the action is in hand.
LoopContext == \A p \in Procs : pc[p] \notin Signing \union Loop => ctx[p] = "reconcile"

\* After the send only the transaction in hand may be in flight.
OneInFlight ==
    \A p \in Procs :
        pc[p] \in Loop /\ ctx[p] = "send" => sent \subseteq observed \union {cur[p]}

\* The nonce in hand is above every nonce sent before.
NonceAhead ==
    \A p \in Procs :
        /\ pc[p] \in Signing => \A t \in sent : nonceOf[t] < nonce[p]
        /\ pc[p] \in Loop /\ ctx[p] = "send" => \A t \in sent : nonceOf[t] <= nonce[p]

SerialInv ==
    /\ NetSent /\ SentSigned /\ MinedBelow
    /\ ChecksHold /\ LoopContext /\ NextIsNew /\ OneInFlight /\ NonceAhead
    /\ NoReplacementSigned

\* Nothing an older client left behind shares a nonce.
LEMMA SerialInit == Init => SerialInv
<1> SUFFICES ASSUME Init PROVE SerialInv
  OBVIOUS
<1>1. \A t \in Tx : ~Mined(t)
  BY DEF Init, Mined
<1>2. NoReplacementSigned /\ SentSigned
  BY ConstantsAssumption DEF Init, NoReplacementSigned, SentSigned, NoNonce
<1> QED
  BY <1>1, <1>2 DEF Init, SerialInv, NetSent, MinedBelow, ChecksHold, LoopContext, NextIsNew, OneInFlight,
    NonceAhead, Signing, Loop, Reporting

\* A step of the only client, or of the network, keeps the serial invariant.
LEMMA SerialStep ==
    ASSUME TypeInv, RetentionInv(Tx), SerialInv, [Next]_vars,
           \A p, q \in Procs : p = q
    PROVE  SerialInv'
<1> USE DEF TypeInv, TypeOK, HoldsTx, Holding, Labels, fileVars, chainVars, localVars,
        RetentionInv, ForgetInv, SerialInv, NetSent, SentSigned, ChecksHold, LoopContext, NextIsNew, OneInFlight,
        NonceAhead, NoReplacementSigned, Signing, Loop, Reporting, Submission, NoNonce
<1>1. ASSUME NEW p \in Procs, Start(p) PROVE SerialInv'
  BY <1>1, SMTT(30) DEF Start, Goto, MinedBelow, Mined, MinedCount
<1>2. ASSUME NEW p \in Procs, Upgrade(p) PROVE SerialInv'
  BY <1>2, SMTT(30) DEF Upgrade, MinedBelow, Mined, MinedCount
<1>3. ASSUME NEW p \in Procs, StartFlush(p) PROVE SerialInv'
  BY <1>3, SMTT(30) DEF StartFlush, Goto, MinedBelow, Mined, MinedCount
<1>4. ASSUME NEW p \in Procs, FlushPost(p) PROVE SerialInv'
  BY <1>4, SMTT(30) DEF FlushPost, Goto, MinedBelow, Mined, MinedCount
<1>5. ASSUME NEW p \in Procs, FlushDelivered(p) PROVE SerialInv'
  BY <1>5, SMTT(30) DEF FlushDelivered, Goto, PutDown, MinedBelow, Mined, MinedCount
<1>6. ASSUME NEW p \in Procs, FlushRejected(p) PROVE SerialInv'
  BY <1>6, SMTT(30) DEF FlushRejected, MinedBelow, Mined, MinedCount
<1>7. ASSUME NEW p \in Procs, FlushBroken(p) PROVE SerialInv'
  BY <1>7, SMTT(30) DEF FlushBroken, MinedBelow, Mined, MinedCount
<1>8. ASSUME NEW p \in Procs, StartReconcile(p) PROVE SerialInv'
  BY <1>8, SMTT(30) DEF StartReconcile, Goto, MinedBelow, Mined, MinedCount
<1>9. ASSUME NEW p \in Procs, ReconcileNext(p) PROVE SerialInv'
  BY <1>9, SMTT(30) DEF ReconcileNext, Report, Goto, MinedBelow, Mined, MinedCount
<1>10. ASSUME NEW p \in Procs, CheckSubmissions(p) PROVE SerialInv'
  <2>1. CASE Stop(p)
    BY <1>10, <2>1, SMTT(30) DEF CheckSubmissions, Stop, PutDown, Goto, MinedBelow, Mined, MinedCount
  <2>2. CASE /\ \A t \in Tx : Submission(t) \notin outbox
             /\ Goto(p, "check") /\ UNCHANGED <<todo, cur, rtype, ctx, nonce>>
    BY <1>10, <2>2, SMTT(30) DEF CheckSubmissions, Goto, MinedBelow, Mined, MinedCount
  <2> QED BY <1>10, <2>1, <2>2 DEF CheckSubmissions
<1>11. ASSUME NEW p \in Procs, CheckBroadcasts(p) PROVE SerialInv'
  <2>1. CASE Stop(p)
    BY <1>11, <2>1, SMTT(30) DEF CheckBroadcasts, Stop, PutDown, Goto, MinedBelow, Mined, MinedCount
  <2>2. CASE /\ \A t \in Tx : Broadcast(t) \notin outbox
             /\ Goto(p, "fees") /\ UNCHANGED <<todo, cur, rtype, ctx, nonce>>
    <3>1. sent \subseteq observed
      BY <1>11, <2>2 DEF CheckBroadcasts, SentKept, Kept
    <3> QED
      BY <1>11, <2>2, <3>1, SMTT(30) DEF CheckBroadcasts, Goto, MinedBelow, Mined, MinedCount
  <2> QED BY <1>11, <2>1, <2>2 DEF CheckBroadcasts
<1>12. ASSUME NEW p \in Procs, FetchNonce(p) PROVE SerialInv'
  <2>1. PICK a \in Actions : Fresh(a) /\ cur' = [cur EXCEPT ![p] = <<a, 1>>]
    BY <1>12 DEF FetchNonce
  <2>2. sent \subseteq observed
    BY <1>12 DEF FetchNonce
  <2>3. \A t \in sent : nonceOf[t] < PendingNonce
    BY <2>2, PendingNonceProperties, MinedCountType DEF ObservedMined, MinedBelow
  <2>4. nonceOf[<<a, 1>>] = NoNonce /\ \A i \in 1 .. NumTx : nonceOf[<<a, i>>] = NoNonce
    BY <2>1, ConstantsAssumption DEF Fresh
  <2> QED
    BY <1>12, <2>1, <2>2, <2>3, <2>4, SMTT(30)
    DEF FetchNonce, Goto, MinedBelow, Mined, MinedCount
<1>13. ASSUME NEW p \in Procs, SkipSend(p) PROVE SerialInv'
  BY <1>13, SMTT(30) DEF SkipSend, Stop, PutDown, Goto, MinedBelow, Mined, MinedCount
<1>14. ASSUME NEW p \in Procs, RetainSubmission(p) PROVE SerialInv'
  BY <1>14, SMTT(30) DEF RetainSubmission, Goto, MinedBelow, Mined, MinedCount
<1>15. ASSUME NEW p \in Procs, Send(p) PROVE SerialInv'
  BY <1>15, SMTT(30) DEF Send, Report, Goto, MinedBelow, Mined, MinedCount
<1>16. ASSUME NEW p \in Procs, QueueReport(p) PROVE SerialInv'
  BY <1>16, SMTT(30) DEF QueueReport, Goto, MinedBelow, Mined, MinedCount
<1>17. ASSUME NEW p \in Procs, QueueReportFails(p) PROVE SerialInv'
  BY <1>17, SMTT(30) DEF QueueReportFails, Goto, MinedBelow, Mined, MinedCount
<1>18. ASSUME NEW p \in Procs, PostReport(p) PROVE SerialInv'
  BY <1>18, SMTT(30) DEF PostReport, Goto, AfterReport, MinedBelow, Mined, MinedCount
<1>19. ASSUME NEW p \in Procs, ReportDelivered(p) PROVE SerialInv'
  BY <1>19, SMTT(30) DEF ReportDelivered, Goto, AfterReport, MinedBelow, Mined, MinedCount
<1>20. ASSUME NEW p \in Procs, PostReportFails(p) PROVE SerialInv'
  BY <1>20, SMTT(30) DEF PostReportFails, Goto, AfterReport, MinedBelow, Mined, MinedCount
<1>21. ASSUME NEW p \in Procs, ObserveReceipt(p) PROVE SerialInv'
  BY <1>21, SMTT(30) DEF ObserveReceipt, Report, Goto, MinedBelow, Mined, MinedCount
<1>22. ASSUME NEW p \in Procs, NoReceipt(p) PROVE SerialInv'
  BY <1>22, SMTT(30) DEF NoReceipt, Stop, PutDown, Goto, MinedBelow, Mined, MinedCount
<1>23. ASSUME NEW p \in Procs, ForgetSubmission(p) PROVE SerialInv'
  <2>1. MinedBelow'
    BY <1>23 DEF ForgetSubmission, MinedBelow, Mined, MinedCount
  <2>2. CASE Stop(p)
    BY <1>23, <2>1, <2>2, SMTT(30) DEF ForgetSubmission, Stop, PutDown, Goto
  <2>3. CASE ctx[p] = "reconcile" /\ Goto(p, "reconcile") /\ PutDown(p) /\ UNCHANGED <<todo, ctx, nonce>>
    BY <1>23, <2>1, <2>3, SMTT(30) DEF ForgetSubmission, PutDown, Goto
  <2>4. CASE /\ ctx[p] = "send" /\ cur[p][2] < NumTx
             /\ Goto(p, "sign")
             /\ cur' = [cur EXCEPT ![p] = <<cur[p][1], cur[p][2] + 1>>]
             /\ rtype' = [rtype EXCEPT ![p] = "broadcast"]
             /\ nonce' = [nonce EXCEPT ![p] = @ + 1]
             /\ UNCHANGED <<todo, ctx>>
    <3>1. pc[p] = "forget" /\ cur[p] \in observed /\ sent \subseteq observed
      BY <1>23, <2>4 DEF ForgetSubmission, ForgetsObserved
    <3>2. cur[p][2] \in Nat /\ cur[p][2] + 1 \in 1 .. NumTx
      BY <3>1, <2>4, ConstantsAssumption DEF Tx
    <3>3. \A i \in 1 .. NumTx : i > cur[p][2] => nonceOf[<<cur[p][1], i>>] = NoNonce
      BY <3>1, <2>4
    <3>4. /\ cur'[p] = <<cur[p][1], cur[p][2] + 1>>
          /\ nonce'[p] = nonce[p] + 1 /\ pc'[p] = "sign"
          /\ UNCHANGED <<nonceOf, sent, net, observed>>
      BY <1>23, <2>4 DEF ForgetSubmission, Goto
    <3>5. NextIsNew'
      <4>1. nonceOf'[cur'[p]] = NoNonce
        BY <3>2, <3>3, <3>4
      <4>2. \A i \in 1 .. NumTx : i > cur'[p][2] => nonceOf'[<<cur'[p][1], i>>] = NoNonce
        BY <3>2, <3>3, <3>4, ConstantsAssumption
      <4> HIDE DEF TypeInv, RetentionInv, SerialInv
      <4> QED BY <3>4, <4>1, <4>2
    <3>6. NonceAhead'
      BY <1>23, <2>4, <3>1, <3>4
    <3>7. ChecksHold' /\ LoopContext' /\ OneInFlight'
      BY <1>23, <2>4, <3>1, <3>4
    <3> QED BY <2>1, <3>4, <3>5, <3>6, <3>7
  <2> QED BY <1>23, <2>2, <2>3, <2>4 DEF ForgetSubmission
<1>24. ASSUME NEW p \in Procs, Crash(p) PROVE SerialInv'
  BY <1>24, SMTT(30) DEF Crash, Stop, PutDown, Goto, MinedBelow, Mined, MinedCount
<1>25. ASSUME NEW t \in Tx, Accept(t) PROVE SerialInv'
  BY <1>25, SMTT(30) DEF Accept, MinedBelow, Mined, MinedCount
<1>26. ASSUME NEW t \in Tx, Evict(t) PROVE SerialInv'
  BY <1>26, SMTT(30) DEF Evict, MinedBelow, Mined, MinedCount
<1>27. ASSUME NEW t \in Tx, Mine(t) PROVE SerialInv'
  <2> DEFINE Old == {u \in Tx : Mined(u)}
  <2>1. ~Mined(t) /\ nonceOf[t] = MinedCount /\ UNCHANGED nonceOf
    BY <1>27 DEF Mine, Mined
  <2>2. \A u \in Tx : Mined(u)' <=> Mined(u) \/ u = t
    BY <1>27 DEF Mine, Mined
  <2>3. {u \in Tx : Mined(u)'} = Old \union {t} /\ t \notin Old
    BY <2>1, <2>2
  <2>4. Cardinality(Old \union {t}) = Cardinality(Old) + 1
    <3>1. IsFiniteSet(Old)
      BY TxFinite
    <3> HIDE DEF Old
    <3> QED BY <2>3, <3>1, FS_AddElement
  <2>5. MinedCount' = MinedCount + 1
    BY <2>3, <2>4 DEF MinedCount
  <2>6. MinedBelow'
    BY <2>1, <2>2, <2>5, MinedCountType DEF MinedBelow
  <2> QED BY <1>27, <2>6, SMTT(30) DEF Mine
<1>28. CASE UNCHANGED vars
  BY <1>28 DEF vars, MinedBelow, Mined, MinedCount
<1> HIDE DEF SerialInv
<1> QED
  BY <1>1, <1>2, <1>3, <1>4, <1>5, <1>6, <1>7, <1>8, <1>9, <1>10, <1>11, <1>12, <1>13, <1>14, <1>15, <1>16, <1>17, <1>18, <1>19, <1>20, <1>21, <1>22, <1>23, <1>24, <1>25, <1>26, <1>27, <1>28
  DEF Next, Broadcasting, Network

\* With one client the serial invariant holds throughout.
LEMMA SerialInvariant ==
    ASSUME OneClient
    PROVE  Spec => [](TypeInv /\ RetentionInv(Tx) /\ SerialInv)
<1>1. Init => SerialInv
  BY SerialInit
<1>2. TypeInv /\ RetentionInv(Tx) /\ SerialInv /\ [Next]_vars => SerialInv'
  BY OneClient, SerialStep DEF OneClient
<1> QED BY <1>1, <1>2, OneClient, OneClientInvariant, PTL DEF Spec

\* broadcast_prepared_action: a single client never signs a replacement; no two
\* transactions it hands to the network carry the same nonce.
THEOREM NoReplacement == ASSUME OneClient PROVE Spec => []NoReplacementSigned
<1>1. SerialInv => NoReplacementSigned
  BY DEF SerialInv
<1> QED BY <1>1, SerialInvariant, PTL

\* broadcast_prepared_action implements the serial sender: nothing new is handed
\* to the network before everything sent earlier has a receipt.
THEOREM SerialSending == ASSUME OneClient PROVE Spec => ImplementsSerialSender
<1>1. Init => Serial!Init
  BY DEF Init, Serial!Init
<1>2. TypeInv /\ RetentionInv(Tx) /\ SerialInv /\ [Next]_vars => [Serial!Next]_(Serial!svars)
  <2> SUFFICES ASSUME TypeInv, RetentionInv(Tx), SerialInv, [Next]_vars
               PROVE  Serial!Next \/ UNCHANGED <<sent, observed>>
    BY DEF Serial!svars
  <2>1. CASE \E p \in Procs : Send(p)
    <3>1. PICK p \in Procs : Send(p)
      BY <2>1
    <3>2. cur[p] \in Tx
      BY <3>1 DEF Send, TypeInv, HoldsTx, Holding, Labels
    <3>3. sent \subseteq observed /\ cur[p] \notin sent
      BY <3>1 DEF Send, SerialInv, ChecksHold, NextIsNew
    <3>4. Serial!SendOne(cur[p])
      BY <3>1, <3>3 DEF Send, Serial!SendOne
    <3> QED BY <3>2, <3>4 DEF Serial!Next
  <2>2. CASE \E p \in Procs : ObserveReceipt(p)
    <3>1. PICK p \in Procs : ObserveReceipt(p)
      BY <2>2
    <3>2. cur[p] \in Tx
      BY <3>1 DEF ObserveReceipt, TypeInv, HoldsTx, Holding, Labels
    <3>3. cur[p] \in sent
      BY <3>1, <3>2 DEF ObserveReceipt, Mined, SerialInv, NetSent
    <3>4. Serial!Resolve(cur[p])
      BY <3>1, <3>3 DEF ObserveReceipt, Serial!Resolve, fileVars, chainVars
    <3> QED BY <3>2, <3>4 DEF Serial!Next
  <2>3. CASE UNCHANGED vars
    BY <2>3 DEF vars, fileVars, chainVars
  <2>4. CASE \E t \in Tx : Network(t)
    BY <2>4 DEF Network, Accept, Evict, Mine
  <2>5. CASE \E p \in Procs : Broadcasting(p) /\ ~Send(p) /\ ~ObserveReceipt(p)
    <3>1. PICK p \in Procs : Broadcasting(p) /\ ~Send(p) /\ ~ObserveReceipt(p)
      BY <2>5
    <3>2. CASE \/ Start(p) \/ Upgrade(p) \/ StartFlush(p)
               \/ FlushPost(p) \/ FlushDelivered(p) \/ FlushRejected(p) \/ FlushBroken(p)
      BY <3>2 DEF Start, Upgrade, StartFlush, FlushPost, FlushDelivered, FlushRejected,
        FlushBroken, fileVars, chainVars
    <3>3. CASE \/ StartReconcile(p) \/ ReconcileNext(p) \/ CheckSubmissions(p) \/ CheckBroadcasts(p)
               \/ FetchNonce(p) \/ SkipSend(p) \/ RetainSubmission(p)
      BY <3>3 DEF StartReconcile, ReconcileNext, CheckSubmissions, CheckBroadcasts, FetchNonce,
        SkipSend, RetainSubmission, fileVars, chainVars
    <3>4. CASE \/ QueueReport(p) \/ QueueReportFails(p) \/ PostReport(p) \/ ReportDelivered(p)
               \/ PostReportFails(p) \/ NoReceipt(p) \/ ForgetSubmission(p) \/ Crash(p)
      BY <3>4 DEF QueueReport, QueueReportFails, PostReport, ReportDelivered, PostReportFails,
        NoReceipt, ForgetSubmission, Crash, fileVars, chainVars
    <3> QED BY <3>1, <3>2, <3>3, <3>4 DEF Broadcasting
  <2> QED BY <2>1, <2>2, <2>3, <2>4, <2>5 DEF Next
<1> QED BY <1>1, <1>2, SerialInvariant, PTL DEF Spec, ImplementsSerialSender, Serial!Spec
=============================================================================
