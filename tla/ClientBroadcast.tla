--------------------------- MODULE ClientBroadcast ---------------------------
(***************************************************************************)
(* The operator's command-line client broadcasting prepared actions:       *)
(* broadcast_prepared_action and _reconcile_saved_submissions of           *)
(* tidal/operator_cli_support.py over the durable outbox of                *)
(* tidal/control_plane/outbox.py.                                          *)
(*                                                                         *)
(* A client process signs the transactions of one action in turn.  Before  *)
(* it touches the network it retains the hash in the outbox; it forgets    *)
(* the hash only when it has seen a receipt.  A process may die between    *)
(* any two steps, a report may be lost in either direction, and the        *)
(* network may lose, delay or evict a transaction.  The outbox file        *)
(* survives everything, and every process shares it.                       *)
(*                                                                         *)
(* A transaction is the pair <<action id, index>>; that pair stands for    *)
(* its hash, because an action id is broadcast by one process only.  The   *)
(* outbox rows are a set.  Of the ORDER BY of pending_reports only what     *)
(* its LIMIT cuts off is kept: the page is the set of reports that the     *)
(* limited query answers with, rows stay on it until they are deleted, and *)
(* which row moves up next is left open, as is the order of delivery.      *)
(***************************************************************************)
EXTENDS Integers, FiniteSets

CONSTANTS Procs,          \* client processes sharing one outbox file
          Actions,        \* ids of prepared actions
          NumTx,          \* transactions per action
          Legacy,         \* transactions an older client sent and left behind
                          \* as undelivered broadcast reports
          ReconcileLimit, \* submissions looked up per run (20 in the code)
          ReportLimit     \* reports read by one query (100 in the code)

Tx == Actions \X (1 .. NumTx)

ASSUME ConstantsAssumption ==
    /\ NumTx \in Nat \ {0}
    /\ ReconcileLimit \in Nat \ {0}
    /\ ReportLimit \in Nat \ {0}
    /\ Legacy \subseteq Tx
    /\ IsFiniteSet(Actions)

NoTx    == <<>>           \* "no transaction in hand"
NoNonce == -1             \* nonce of a transaction that was never retained

VARIABLES
    outbox,    \* rows of action_report_outbox: <<report_type, tx>>
    page,      \* its oldest ReportLimit broadcast and receipt reports
    nonceOf,   \* nonce each retained transaction was signed with
    sent,      \* transactions handed to send_raw_transaction
    net,       \* what became of each transaction on the network
    ledger,    \* transactions whose broadcast the control plane recorded
    observed,  \* history: transactions whose receipt some client has seen
    warned,    \* history: reports given up on ("could not be queued")
    pc, todo, cur, rtype, ctx, nonce   \* local state of each process

fileVars  == <<outbox, page>>
chainVars == <<nonceOf, sent, net>>
localVars == <<pc, todo, cur, rtype, ctx, nonce>>
vars == <<fileVars, chainVars, ledger, observed, warned, localVars>>

Submission(t) == <<"submission", t>>
Broadcast(t)  == <<"broadcast", t>>
Receipt(t)    == <<"receipt", t>>
Rows == {"submission", "broadcast", "receipt"} \X Tx

Reports     == {r \in outbox : r[1] # "submission"}
Submissions == {r \in outbox : r[1] = "submission"}

\* SELECT ... LIMIT: what a query that is cut off may answer with.
Limited(S, limit) ==
    {T \in SUBSET S :
        Cardinality(T) = IF Cardinality(S) > limit THEN limit ELSE Cardinality(S)}

\* After a write: the reports on the page keep their place, and others move up
\* only where there is room.
Repage == page' \in {P \in Limited(Reports', ReportLimit) : page \cap outbox' \subseteq P}

Mined(t) == net[t] \in {"confirmed", "reverted"}
MinedCount == Cardinality({t \in Tx : Mined(t)})

(***************************************************************************)
(* get_transaction_count(sender, "pending"): the first nonce neither used  *)
(* on chain nor taken by a transaction the node holds in its pool.         *)
(***************************************************************************)
PendingNonce ==
    CHOOSE n \in MinedCount .. MinedCount + Cardinality(Tx) :
        /\ \A t \in Tx : net[t] = "pool" => nonceOf[t] # n
        /\ \A m \in MinedCount .. n - 1 :
               \E t \in Tx : net[t] = "pool" /\ nonceOf[t] = m

Init ==
    /\ outbox = {Broadcast(t) : t \in Legacy}
    /\ page \in Limited(Reports, ReportLimit)
    /\ sent = Legacy
    /\ nonceOf \in {f \in [Tx -> NoNonce .. Cardinality(Legacy) - 1] :
                      \A t, u \in Tx : /\ f[t] = NoNonce <=> t \notin Legacy
                                       /\ t # u /\ f[t] = f[u] => f[t] = NoNonce}
    /\ net = [t \in Tx |-> "none"]
    /\ ledger = {} /\ observed = {} /\ warned = {}
    /\ pc = [p \in Procs |-> "idle"]
    /\ todo = [p \in Procs |-> {}]
    /\ cur = [p \in Procs |-> NoTx]
    /\ rtype = [p \in Procs |-> "broadcast"]
    /\ ctx = [p \in Procs |-> "reconcile"]
    /\ nonce = [p \in Procs |-> 0]

Goto(p, label) == pc' = [pc EXCEPT ![p] = label]

PutDown(p) ==
    /\ cur' = [cur EXCEPT ![p] = NoTx]
    /\ rtype' = [rtype EXCEPT ![p] = "broadcast"]

(***************************************************************************)
(* The process ends: by a crash, an exception or a return.  What it held   *)
(* in memory is gone.                                                      *)
(***************************************************************************)
Stop(p) ==
    /\ Goto(p, "idle")
    /\ PutDown(p)
    /\ todo' = [todo EXCEPT ![p] = {}]
    /\ ctx' = [ctx EXCEPT ![p] = "reconcile"]
    /\ nonce' = [nonce EXCEPT ![p] = 0]

(***************************************************************************)
(* _send_action_report(type, t): queue the row, post it, delete the row.   *)
(***************************************************************************)
Report(p, type, t) ==
    /\ Goto(p, "queue")
    /\ cur' = [cur EXCEPT ![p] = t]
    /\ rtype' = [rtype EXCEPT ![p] = type]

AfterReport(p) ==
    Goto(p, IF rtype[p] = "broadcast" THEN "lookup" ELSE "forget")

----------------------------------------------------------------------------
(* Start of broadcast_prepared_action: retain what older clients left.     *)

Start(p) ==
    /\ pc[p] = "idle"
    /\ Goto(p, "upgrade")
    /\ todo' = [todo EXCEPT ![p] = {r \in page : r[1] = "broadcast"}]
    /\ UNCHANGED <<fileVars, chainVars, ledger, observed, warned, cur, rtype, ctx, nonce>>

Upgrade(p) ==
    /\ pc[p] = "upgrade"
    /\ \E r \in todo[p] :
         /\ outbox' = outbox \union {Submission(r[2])}
         /\ todo' = [todo EXCEPT ![p] = @ \ {r}]
    /\ UNCHANGED <<page, chainVars, ledger, observed, warned, pc, cur, rtype, ctx, nonce>>

StartFlush(p) ==
    /\ pc[p] = "upgrade" /\ todo[p] = {}
    /\ Goto(p, "flush")
    /\ todo' = [todo EXCEPT ![p] = page]
    /\ UNCHANGED <<fileVars, chainVars, ledger, observed, warned, cur, rtype, ctx, nonce>>

----------------------------------------------------------------------------
(* flush_pending: post every undelivered report once.                      *)

Recorded(r) == ledger' = IF r[1] = "broadcast" THEN ledger \union {r[2]} ELSE ledger

FlushPost(p) ==
    /\ pc[p] = "flush"
    /\ \E r \in todo[p] :
         /\ Recorded(r)
         /\ Goto(p, "flushed")
         /\ cur' = [cur EXCEPT ![p] = r[2]]
         /\ rtype' = [rtype EXCEPT ![p] = r[1]]
         /\ todo' = [todo EXCEPT ![p] = @ \ {r}]
    /\ UNCHANGED <<fileVars, chainVars, observed, warned, ctx, nonce>>

\* Mutation: delivering the broadcast report also erases the submission.
FlushDeliveredErasesIdentity(p) ==
    /\ pc[p] = "flushed"
    /\ outbox' = outbox \ {<<rtype[p], cur[p]>>, Submission(cur[p])}
    /\ Repage
    /\ Goto(p, "flush")
    /\ PutDown(p)
    /\ UNCHANGED <<chainVars, ledger, observed, warned, todo, ctx, nonce>>

FlushDelivered(p) ==
    /\ pc[p] = "flushed"
    /\ outbox' = outbox \ {<<rtype[p], cur[p]>>}
    /\ Repage
    /\ Goto(p, "flush")
    /\ PutDown(p)
    /\ UNCHANGED <<chainVars, ledger, observed, warned, todo, ctx, nonce>>

\* 4xx: the row stays, the loop goes on with the next report.
FlushRejected(p) ==
    /\ pc[p] = "flush"
    /\ \E r \in todo[p] : todo' = [todo EXCEPT ![p] = @ \ {r}]
    /\ UNCHANGED <<fileVars, chainVars, ledger, observed, warned, pc, cur, rtype, ctx, nonce>>

\* No answer or 5xx: the control plane may or may not have recorded it.
FlushBroken(p) ==
    /\ pc[p] = "flush"
    /\ \E r \in todo[p] : Recorded(r) \/ UNCHANGED ledger
    /\ todo' = [todo EXCEPT ![p] = {}]
    /\ UNCHANGED <<fileVars, chainVars, observed, warned, pc, cur, rtype, ctx, nonce>>

----------------------------------------------------------------------------
(* _reconcile_saved_submissions: resolve every retained hash or give up.   *)

StartReconcile(p) ==
    /\ pc[p] = "flush" /\ todo[p] = {}
    /\ Goto(p, "reconcile")
    /\ \E S \in Limited(Submissions, ReconcileLimit) : todo' = [todo EXCEPT ![p] = S]
    /\ UNCHANGED <<fileVars, chainVars, ledger, observed, warned, cur, rtype, ctx, nonce>>

ReconcileNext(p) ==
    /\ pc[p] = "reconcile"
    /\ \E r \in todo[p] :
         /\ Report(p, "broadcast", r[2])
         /\ todo' = [todo EXCEPT ![p] = @ \ {r}]
    /\ UNCHANGED <<fileVars, chainVars, ledger, observed, warned, ctx, nonce>>

\* Mutation: the submissions that were looked up are taken for all of them.
CheckLookedUpOnly(p) ==
    /\ pc[p] = "reconcile" /\ todo[p] = {}
    /\ Goto(p, "check")
    /\ UNCHANGED <<fileVars, chainVars, ledger, observed, warned, todo, cur, rtype, ctx, nonce>>

\* pending_count(submission), then pending_count(broadcast): two queries.
CheckSubmissions(p) ==
    /\ pc[p] = "reconcile" /\ todo[p] = {}
    /\ IF \E t \in Tx : Submission(t) \in outbox
         THEN Stop(p)
         ELSE Goto(p, "check") /\ UNCHANGED <<todo, cur, rtype, ctx, nonce>>
    /\ UNCHANGED <<fileVars, chainVars, ledger, observed, warned>>

CheckBroadcasts(p) ==
    /\ pc[p] = "check"
    /\ IF \E t \in Tx : Broadcast(t) \in outbox
         THEN Stop(p)
         ELSE Goto(p, "fees") /\ UNCHANGED <<todo, cur, rtype, ctx, nonce>>
    /\ UNCHANGED <<fileVars, chainVars, ledger, observed, warned>>

----------------------------------------------------------------------------
(* The signing loop.                                                       *)

Fresh(a) == \A i \in 1 .. NumTx : nonceOf[<<a, i>>] = NoNonce

\* Every run prepares an action of its own, so no two processes share one.
FetchNonce(p) ==
    /\ pc[p] = "fees"
    /\ \E a \in Actions :
         /\ Fresh(a)
         /\ \A q \in Procs, i \in 1 .. NumTx : cur[q] # <<a, i>>
         /\ cur' = [cur EXCEPT ![p] = <<a, 1>>]
    /\ Goto(p, "sign")
    /\ ctx' = [ctx EXCEPT ![p] = "send"]
    /\ nonce' = [nonce EXCEPT ![p] = PendingNonce]
    /\ UNCHANGED <<fileVars, chainVars, ledger, observed, warned, todo, rtype>>

\* BaseFeeCapSkip, or the nonce cannot be read.
SkipSend(p) ==
    /\ pc[p] = "fees"
    /\ Stop(p)
    /\ UNCHANGED <<fileVars, chainVars, ledger, observed, warned>>

\* Mutation: the identity is kept only as a deliverable broadcast report.
RetainAsBroadcast(p) ==
    /\ pc[p] = "sign"
    /\ outbox' = outbox \union {Broadcast(cur[p])}
    /\ Repage
    /\ nonceOf' = [nonceOf EXCEPT ![cur[p]] = nonce[p]]
    /\ Goto(p, "send")
    /\ UNCHANGED <<sent, net, ledger, observed, warned, todo, cur, rtype, ctx, nonce>>

\* sign_transaction, then queue_submission: the hash is durable from here.
RetainSubmission(p) ==
    /\ pc[p] = "sign"
    /\ outbox' = outbox \union {Submission(cur[p])}
    /\ nonceOf' = [nonceOf EXCEPT ![cur[p]] = nonce[p]]
    /\ Goto(p, "send")
    /\ UNCHANGED <<page, sent, net, ledger, observed, warned, todo, cur, rtype, ctx, nonce>>

\* send_raw_transaction; its answer changes only the wording of the result.
Send(p) ==
    /\ pc[p] = "send"
    /\ sent' = sent \union {cur[p]}
    /\ Report(p, "broadcast", cur[p])
    /\ UNCHANGED <<fileVars, nonceOf, net, ledger, observed, warned, todo, ctx, nonce>>

----------------------------------------------------------------------------
(* _send_action_report.                                                    *)

QueueReport(p) ==
    /\ pc[p] = "queue"
    /\ outbox' = outbox \union {<<rtype[p], cur[p]>>}
    /\ Repage
    /\ Goto(p, "post")
    /\ UNCHANGED <<chainVars, ledger, observed, warned, todo, cur, rtype, ctx, nonce>>

\* The row could not be written; the report is posted all the same.
QueueReportFails(p) ==
    /\ pc[p] = "queue"
    /\ Goto(p, "postUnqueued")
    /\ UNCHANGED <<fileVars, chainVars, ledger, observed, warned, todo, cur, rtype, ctx, nonce>>

PostReport(p) ==
    /\ pc[p] \in {"post", "postUnqueued"}
    /\ Recorded(<<rtype[p], cur[p]>>)
    /\ IF pc[p] = "post" THEN Goto(p, "posted") ELSE AfterReport(p)
    /\ UNCHANGED <<fileVars, chainVars, observed, warned, todo, cur, rtype, ctx, nonce>>

ReportDelivered(p) ==
    /\ pc[p] = "posted"
    /\ outbox' = outbox \ {<<rtype[p], cur[p]>>}
    /\ Repage
    /\ AfterReport(p)
    /\ UNCHANGED <<chainVars, ledger, observed, warned, todo, cur, rtype, ctx, nonce>>

\* Mutation: a report that fails is dropped from the queue.
PostReportFailsDropsRow(p) ==
    /\ pc[p] \in {"post", "postUnqueued"}
    /\ Recorded(<<rtype[p], cur[p]>>) \/ UNCHANGED ledger
    /\ outbox' = outbox \ {<<rtype[p], cur[p]>>}
    /\ Repage
    /\ AfterReport(p)
    /\ UNCHANGED <<chainVars, observed, warned, todo, cur, rtype, ctx, nonce>>

\* Any error of the post, or of the delete after it: the row stays.
PostReportFails(p) ==
    /\ pc[p] \in {"post", "postUnqueued"}
    /\ Recorded(<<rtype[p], cur[p]>>) \/ UNCHANGED ledger
    /\ warned' = IF pc[p] = "postUnqueued" /\ rtype[p] = "broadcast"
                   THEN warned \union {cur[p]} ELSE warned
    /\ AfterReport(p)
    /\ UNCHANGED <<fileVars, chainVars, observed, todo, cur, rtype, ctx, nonce>>

----------------------------------------------------------------------------
(* The receipt.                                                            *)

\* Mutation: only a successful receipt resolves a submission.
ObserveSuccessOnly(p) ==
    /\ pc[p] = "lookup"
    /\ net[cur[p]] = "confirmed"
    /\ observed' = observed \union {cur[p]}
    /\ Report(p, "receipt", cur[p])
    /\ UNCHANGED <<fileVars, chainVars, ledger, warned, todo, ctx, nonce>>

ObserveReceipt(p) ==
    /\ pc[p] = "lookup"
    /\ Mined(cur[p])
    /\ observed' = observed \union {cur[p]}
    /\ Report(p, "receipt", cur[p])
    /\ UNCHANGED <<fileVars, chainVars, ledger, warned, todo, ctx, nonce>>

\* Mutation: a receipt that times out does not stop the dependent transactions.
NoReceiptCarriesOn(p) ==
    /\ pc[p] = "lookup"
    /\ IF ctx[p] = "send" /\ cur[p][2] < NumTx
         THEN /\ Goto(p, "sign")
              /\ cur' = [cur EXCEPT ![p] = <<cur[p][1], cur[p][2] + 1>>]
              /\ nonce' = [nonce EXCEPT ![p] = @ + 1]
              /\ UNCHANGED <<todo, rtype, ctx>>
         ELSE Stop(p)
    /\ UNCHANGED <<fileVars, chainVars, ledger, observed, warned>>

\* Timed out, failed, or a status outside {0, 1}: the hash stays retained.
NoReceipt(p) ==
    /\ pc[p] = "lookup"
    /\ Stop(p)
    /\ UNCHANGED <<fileVars, chainVars, ledger, observed, warned>>

\* Mutation: the loop signs one transaction too many.
ForgetOneTooMany(p) ==
    /\ pc[p] = "forget"
    /\ outbox' = outbox \ {Submission(cur[p])}
    /\ IF ctx[p] = "send" /\ net[cur[p]] = "confirmed"
         THEN /\ Goto(p, "sign")
              /\ cur' = [cur EXCEPT ![p] = <<cur[p][1], cur[p][2] + 1>>]
              /\ nonce' = [nonce EXCEPT ![p] = @ + 1]
              /\ UNCHANGED <<todo, rtype, ctx>>
         ELSE Stop(p)
    /\ UNCHANGED <<page, chainVars, ledger, observed, warned>>

\* Mutation: the nonce is not advanced between transactions.
ForgetKeepsNonce(p) ==
    /\ pc[p] = "forget"
    /\ outbox' = outbox \ {Submission(cur[p])}
    /\ IF ctx[p] = "send" /\ net[cur[p]] = "confirmed" /\ cur[p][2] < NumTx
         THEN /\ Goto(p, "sign")
              /\ cur' = [cur EXCEPT ![p] = <<cur[p][1], cur[p][2] + 1>>]
              /\ UNCHANGED <<todo, rtype, ctx, nonce>>
         ELSE Stop(p)
    /\ UNCHANGED <<page, chainVars, ledger, observed, warned>>

ForgetSubmission(p) ==
    /\ pc[p] = "forget"
    /\ outbox' = outbox \ {Submission(cur[p])}
    /\ IF ctx[p] = "reconcile"
         THEN Goto(p, "reconcile") /\ PutDown(p) /\ UNCHANGED <<todo, ctx, nonce>>
         ELSE IF net[cur[p]] = "confirmed" /\ cur[p][2] < NumTx
           THEN /\ Goto(p, "sign")
                /\ cur' = [cur EXCEPT ![p] = <<cur[p][1], cur[p][2] + 1>>]
                /\ rtype' = [rtype EXCEPT ![p] = "broadcast"]
                /\ nonce' = [nonce EXCEPT ![p] = @ + 1]
                /\ UNCHANGED <<todo, ctx>>
           ELSE Stop(p)
    /\ UNCHANGED <<page, chainVars, ledger, observed, warned>>

\* The process is killed, or an outbox, signing or gas-estimate error ends it.
Crash(p) ==
    /\ pc[p] # "idle"
    /\ Stop(p)
    /\ UNCHANGED <<fileVars, chainVars, ledger, observed, warned>>

----------------------------------------------------------------------------
(* The network, external to the repository: a transaction handed to it may *)
(* reach the pool late or never, may be evicted and come back, and is      *)
(* mined at its nonce or not at all.                                       *)

Accept(t) ==
    /\ t \in sent /\ net[t] = "none" /\ nonceOf[t] >= MinedCount
    /\ net' = [net EXCEPT ![t] = "pool"]
    /\ UNCHANGED <<fileVars, nonceOf, sent, ledger, observed, warned, localVars>>

Evict(t) ==
    /\ net[t] = "pool"
    /\ net' = [net EXCEPT ![t] = "none"]
    /\ UNCHANGED <<fileVars, nonceOf, sent, ledger, observed, warned, localVars>>

Mine(t) ==
    /\ net[t] = "pool" /\ nonceOf[t] = MinedCount
    /\ \E status \in {"confirmed", "reverted"} :
         net' = [u \in Tx |-> IF u = t THEN status
                              ELSE IF net[u] = "pool" /\ nonceOf[u] = nonceOf[t]
                                THEN "none" ELSE net[u]]
    /\ UNCHANGED <<fileVars, nonceOf, sent, ledger, observed, warned, localVars>>

----------------------------------------------------------------------------

Broadcasting(p) ==
    \/ Start(p) \/ Upgrade(p) \/ StartFlush(p)
    \/ FlushPost(p) \/ FlushDelivered(p) \/ FlushRejected(p) \/ FlushBroken(p)
    \/ StartReconcile(p) \/ ReconcileNext(p) \/ CheckSubmissions(p) \/ CheckBroadcasts(p)
    \/ FetchNonce(p) \/ SkipSend(p) \/ RetainSubmission(p) \/ Send(p)
    \/ QueueReport(p) \/ QueueReportFails(p) \/ PostReport(p) \/ ReportDelivered(p)
    \/ PostReportFails(p) \/ ObserveReceipt(p) \/ NoReceipt(p) \/ ForgetSubmission(p)
    \/ Crash(p)

Network(t) == Accept(t) \/ Evict(t) \/ Mine(t)

Next == (\E p \in Procs : Broadcasting(p)) \/ (\E t \in Tx : Network(t))

Spec == Init /\ [][Next]_vars

(***************************************************************************)
(* Fairness.  A process runs on to its end or dies (WF).  The client is    *)
(* run again and again, by a timer or an operator, and no single step      *)
(* fails on every run: a step that is possible in infinitely many runs is  *)
(* taken in infinitely many.  Crashes, failures to queue, rejected or lost *)
(* reports, the signing loop and the network are not assumed fair.         *)
(***************************************************************************)
Fairness ==
    \A p \in Procs :
        /\ WF_vars(Broadcasting(p))
        /\ SF_vars(Start(p)) /\ SF_vars(Upgrade(p)) /\ SF_vars(StartFlush(p))
        /\ SF_vars(FlushPost(p)) /\ SF_vars(FlushDelivered(p))
        /\ SF_vars(StartReconcile(p)) /\ SF_vars(ReconcileNext(p))
        /\ \A type \in {"broadcast", "receipt"} :
              /\ SF_vars(rtype[p] = type /\ QueueReport(p))
              /\ SF_vars(rtype[p] = type /\ PostReport(p))
              /\ SF_vars(rtype[p] = type /\ ReportDelivered(p))
        /\ SF_vars(ObserveReceipt(p)) /\ SF_vars(ForgetSubmission(p))

FairSpec == Spec /\ Fairness

----------------------------------------------------------------------------
(* Properties.                                                             *)

Labels == {"idle", "upgrade", "flush", "flushed", "reconcile", "check", "fees", "sign",
           "send", "queue", "post", "postUnqueued", "posted", "lookup", "forget"}

\* Every variable has its type; a process in the signing loop or reporting
\* holds a transaction.
TypeOK ==
    /\ outbox \subseteq Rows
    /\ page \subseteq Reports
    /\ nonceOf \in [Tx -> Nat \union {NoNonce}]
    /\ sent \subseteq Tx /\ ledger \subseteq Tx /\ observed \subseteq Tx /\ warned \subseteq Tx
    /\ net \in [Tx -> {"none", "pool", "confirmed", "reverted"}]
    /\ pc \in [Procs -> Labels]
    /\ todo \in [Procs -> SUBSET Rows]
    /\ cur \in [Procs -> Tx \union {NoTx}]
    /\ rtype \in [Procs -> {"broadcast", "receipt"}]
    /\ ctx \in [Procs -> {"reconcile", "send"}]
    /\ nonce \in [Procs -> Nat]

InFlight == sent \ observed

\* broadcast_prepared_action: a transaction that was handed to the network and
\* whose receipt no client has seen is still in the outbox file, whatever died
\* in between: as a submission row or, if an older client sent it, at least as
\* its undelivered broadcast report.
SubmissionRetained ==
    \A t \in InFlight :
        Submission(t) \in outbox \/ (t \in Legacy /\ Broadcast(t) \in outbox)

\* "must never sign its replacement": with one client process no two
\* transactions handed to the network ever carry the same nonce.
NoReplacementSigned ==
    \A t, u \in sent : t # u => nonceOf[t] # nonceOf[u]

\* mark_delivered on a submission row: a retained hash is given up only when
\* the chain has mined it, never because its report was delivered.
ForgottenOnlyWhenMined ==
    [][\A t \in Tx : Submission(t) \in outbox /\ Submission(t) \notin outbox' => Mined(t)]_vars

\* Once the client has let a mined transaction go, the control plane has its
\* broadcast, or the report is still queued, or the operator was warned that
\* it could be neither queued nor sent.
ReportKeptOrAnnounced ==
    \A t \in observed :
        \/ Submission(t) \in outbox \/ Broadcast(t) \in outbox
        \/ t \in ledger \/ t \in warned

\* docs/operator-guide.md:115: a client run refuses to sign while an earlier
\* submission remains unresolved.
RefusesWhileUnresolved ==
    [][\A t \in sent' \ sent : InFlight = {}]_vars

\* Each client run implements the serial sender (SerialSender.tla).
Serial == INSTANCE SerialSender WITH Backlog <- Legacy, resolved <- observed
ImplementsSerialSender == Serial!Spec

\* A mined submission does not block the client for ever: some later run sees
\* its receipt and lets it go.
MinedIsResolved ==
    \A t \in Tx : t \in sent /\ Mined(t) ~> t \in observed /\ Submission(t) \notin outbox

\* Report delivery: the control plane ends up with the broadcast of every
\* resolved transaction unless the operator was warned.
ResolvedIsReported ==
    \A t \in Tx : t \in observed ~> t \in ledger \/ t \in warned
=============================================================================
