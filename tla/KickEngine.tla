----------------------------- MODULE KickEngine -----------------------------
(***************************************************************************)
(* The kick engine: TxnService.run_once with the batches of KickPlanner    *)
(* and the transactions of KickExecutor.  One live run at a time holds the *)
(* lock file; it plans once, then sends resolutions and kicks one after    *)
(* the other and writes a kick_txs row per pair after each send.           *)
(*                                                                         *)
(* A pair is an auction and a token.  The guard looks at the pair alone: a *)
(* confirmed kick blocks it until its round is known as closed, while the  *)
(* auction's other tokens may be kicked.  On chain an auction has one lot  *)
(* for sale at a time.  How one candidate is planned is told in KickRun,   *)
(* and how evidence becomes a verdict in RoundLedger.                      *)
(***************************************************************************)
EXTENDS Naturals, Sequences, FiniteSets, SequencesExt

CONSTANTS Procs, None,
          Pairs,    \* <<auction, token>>
          MaxRuns,  \* bound: runs
          MaxTx,    \* bound: transactions
          MaxMoves  \* bound: moves of others on the chain

VARIABLES
    lot,   \* chain: clean, live or leftover
    open,  \* chain: the transaction that opened a pair's round, or 0
    pool,  \* transactions in the order sent; "after" are those mined before one
    moves, \* moves of others so far
    rows,  \* kick_txs
    runs,  \* txn_runs
    lock,  \* who holds the lock file
    proc,  \* what each process does
    lost   \* history: <<transaction, pair>> whose row could not be written

chainVars == <<lot, open, moves>>
vars == <<chainVars, pool, rows, runs, lock, proc, lost>>

Idle == [at |-> "idle", run |-> 0, live |-> FALSE, batch |-> FALSE, todo |-> <<>>,
         op |-> "none", group |-> <<>>, left |-> <<>>, tx |-> 0, attempted |-> 0, ok |-> 0, bad |-> 0]

Init ==
    /\ lot = [x \in Pairs |-> "clean"] /\ open = [x \in Pairs |-> 0]
    /\ pool = <<>> /\ moves = 0 /\ rows = {} /\ runs = <<>>
    /\ lock = None /\ proc = [p \in Procs |-> Idle] /\ lost = {}

At(p, place) == proc[p].at = place
Become(p, new) == proc' = [proc EXCEPT ![p] = new]
Onward(r) == [r EXCEPT !.at = "next", !.group = <<>>, !.left = <<>>, !.tx = 0]
Row(r, op, x, status, n) ==
    [run |-> r.run, op |-> op, pair |-> x, status |-> status, tx |-> n, closed |-> FALSE]
RowsFor(r, status) == {Row(r, r.op, x, status, 0) : x \in ToSet(r.group)}
LotsOf(x) == {y \in Pairs : y[1] = x[1]}

----------------------------------------------------------------------------
(* The auctions.                                                           *)

\* kick reverts while the auction is active, resolveAuction without force while
\* its lot is live; a batch stands or falls as a whole.
Reverts(op, group) ==
    \E x \in ToSet(group) : \E y \in IF op = "kick" THEN LotsOf(x) ELSE {x} : lot[y] = "live"

Mine(n) ==
    LET tx == pool[n]
        on == ToSet(tx.group)
    IN  /\ tx.state = "pending"
        /\ \/ pool' = [pool EXCEPT ![n].state = "reverted"] /\ UNCHANGED <<lot, open>>
           \/ /\ ~Reverts(tx.op, tx.group)
              /\ pool' = [pool EXCEPT ![n].state = "ok",
                              ![n].after = {m \in DOMAIN pool : pool[m].state = "ok"}]
              /\ lot'  = [x \in Pairs |-> IF x \notin on THEN lot[x]
                                          ELSE IF tx.op = "kick" THEN "live" ELSE "clean"]
              /\ open' = [x \in Pairs |-> IF x \notin on THEN open[x]
                                          ELSE IF tx.op = "kick" THEN n ELSE 0]
        /\ UNCHANGED <<moves, rows, runs, lock, proc, lost>>

\* A lot is bought and settled, expires, is resolved, or gets tokens sent in.
Elsewhere(x) ==
    /\ moves < MaxMoves /\ moves' = moves + 1
    /\ \E to \in {"clean", "leftover"} \ {lot[x]} :
         /\ lot'  = [lot EXCEPT ![x] = to]
         /\ open' = [open EXCEPT ![x] = IF to = "clean" THEN 0 ELSE @]
    /\ UNCHANGED <<pool, rows, runs, lock, proc, lost>>

----------------------------------------------------------------------------
(* kick_txs as the guard and the reconciler see it.                        *)

\* Mutation: a kick without a receipt does not count.
GuardConfirmedOnly(x) ==
    \A r \in rows : (r.op = "kick" /\ r.pair = x /\ r.status = "CONFIRMED") => r.closed

\* NoFillGuard.decide, of an auction and a token; rows of failed, declined and dry
\* runs are no rounds.
GuardAllows(x) ==
    \A r \in rows : (r.op = "kick" /\ r.pair = x /\ r.status \in {"SUBMITTED", "CONFIRMED"})
                        => r.status = "CONFIRMED" /\ r.closed

\* finalize_receipt: all rows of a transaction; a confirmed resolution closes
\* the round before it.
StatusOf(n) == IF pool[n].state = "ok" THEN "CONFIRMED" ELSE "REVERTED"
Finalised(n) ==
    {[r EXCEPT !.status = IF r.tx = n THEN StatusOf(n) ELSE @,
               !.closed = @ \/ (/\ pool[n].op = "resolve" /\ pool[n].state = "ok"
                                /\ r.op = "kick" /\ r.status = "CONFIRMED"
                                /\ r.pair \in ToSet(pool[n].group) /\ r.tx \in pool[n].after)] : r \in rows}

\* The scanner's repair: receipts that were missed, and rounds closed elsewhere.
Repair(x) ==
    /\ rows' = {IF r.pair # x \/ r.tx = 0 THEN r
                ELSE IF r.status = "SUBMITTED" /\ pool[r.tx].state # "pending"
                     THEN [r EXCEPT !.status = StatusOf(r.tx)]
                ELSE IF r.op = "kick" /\ r.status = "CONFIRMED" /\ open[x] # r.tx
                     THEN [r EXCEPT !.closed = TRUE]
                ELSE r : r \in rows}
    /\ rows' # rows
    /\ UNCHANGED <<chainVars, pool, runs, lock, proc, lost>>

----------------------------------------------------------------------------
(* TxnService: the lock, the run row, the plan.                            *)

\* Mutation: nobody looks at the lock.
LockIgnored == TRUE

\* fcntl.flock(LOCK_EX | LOCK_NB); a run that finds it held leaves no trace.
LockFree == lock = None

Start(p) ==
    /\ At(p, "idle") /\ Len(runs) < MaxRuns
    /\ \E live, batch \in BOOLEAN :
         /\ live => LockFree
         /\ lock' = IF live THEN p ELSE lock
         /\ Become(p, [Idle EXCEPT !.at = "plan", !.run = Len(runs) + 1, !.live = live, !.batch = batch])
         /\ runs' = Append(runs, [status |-> "RUNNING", live |-> live, attempted |-> 0, ok |-> 0, bad |-> 0])
    /\ UNCHANGED <<chainVars, pool, rows, lost>>

Singles(op, S) == [i \in DOMAIN SetToSeq(S) |-> [op |-> op, group |-> <<SetToSeq(S)[i]>>]]

\* One transaction for all kicks, unless batching is off or the estimate of the
\* batch met an active auction; a dry run writes a row for each.
Groups(r, resolves, kicks, together) ==
    Singles("resolve", resolves)
    \o (IF r.live /\ r.batch /\ together /\ Cardinality(kicks) > 1
        THEN <<[op |-> "kick", group |-> SetToSeq(kicks)]>> ELSE Singles("kick", kicks))

\* At most one pair of an auction is chosen, of those the guard lets through.
\* Leftovers of its auction, of any token, are resolved instead, where that can be
\* estimated; an auction with a live lot is skipped; of the rest some are skipped
\* for their price or quote.  A candidate that fails with an error ends the run:
\* see Die.
Plan(p) ==
    /\ At(p, "plan")
    /\ \E chosen \in SUBSET {x \in Pairs : GuardAllows(x)}, together \in BOOLEAN :
         LET due   == {y \in UNION {LotsOf(x) : x \in chosen} : lot[y] = "leftover"}
             ready == {x \in chosen : \A y \in LotsOf(x) : lot[y] = "clean"}
         IN  /\ \A x \in chosen : LotsOf(x) \intersect chosen = {x}
             /\ \E resolves \in IF proc[p].live THEN SUBSET due ELSE {due}, kicks \in SUBSET ready :
                  Become(p, [proc[p] EXCEPT !.at = "next", !.todo = Groups(proc[p], resolves, kicks, together),
                                 !.attempted = Cardinality(resolves \union kicks)])
    /\ UNCHANGED <<chainVars, pool, rows, runs, lock, lost>>

Take(p) ==
    /\ At(p, "next") /\ proc[p].live /\ proc[p].todo # <<>>
    /\ Become(p, [proc[p] EXCEPT !.at = "fees", !.todo = Tail(@), !.op = Head(proc[p].todo).op,
                                 !.group = Head(proc[p].todo).group])
    /\ UNCHANGED <<chainVars, pool, rows, runs, lock, lost>>

DryRow(p) ==
    /\ At(p, "next") /\ ~proc[p].live /\ proc[p].todo # <<>>
    /\ LET item == Head(proc[p].todo) IN
         rows' = rows \union {Row(proc[p], item.op, x, "DRY_RUN", 0) : x \in ToSet(item.group)}
    /\ Become(p, [proc[p] EXCEPT !.todo = Tail(@)])
    /\ UNCHANGED <<chainVars, pool, runs, lock, lost>>

----------------------------------------------------------------------------
(* KickExecutor: one transaction.                                          *)

\* Mutation: a failed resolution is not counted.
FailedUncounted(r) == Onward(r)

Failed(r) == [Onward(r) EXCEPT !.bad = @ + 1]

\* Base fee, gas estimate, gas cap.  For a kick that fails one of them the arguments
\* of the failure row do not fit _fail, and the run dies.
CheckKick(p) ==
    /\ At(p, "fees") /\ proc[p].op = "kick" /\ ~Reverts("kick", proc[p].group)
    /\ Become(p, [proc[p] EXCEPT !.at = "confirm"])
    /\ UNCHANGED <<chainVars, pool, rows, runs, lock, lost>>

\* A batch that meets an active auction is sent kick by kick (execute_batch).
SplitBatch(p) ==
    LET r == proc[p] IN
    /\ At(p, "fees") /\ r.op = "kick" /\ Len(r.group) > 1 /\ Reverts("kick", r.group)
    /\ Become(p, [Onward(r) EXCEPT !.todo = Singles("kick", ToSet(r.group)) \o @])
    /\ UNCHANGED <<chainVars, pool, rows, runs, lock, lost>>

\* A resolution that fails a check gets a row, and the run goes on.
CheckResolve(p) ==
    LET r == proc[p] IN
    /\ At(p, "fees") /\ r.op = "resolve"
    /\ \/ /\ ~Reverts("resolve", r.group)
          /\ Become(p, [r EXCEPT !.at = "send"])
          /\ UNCHANGED rows
       \/ /\ \E status \in {"ERROR", "ESTIMATE_FAILED"} : rows' = rows \union RowsFor(r, status)
          /\ Become(p, Failed(r))
    /\ UNCHANGED <<chainVars, pool, runs, lock, lost>>

Confirm(p) ==
    /\ At(p, "confirm")
    /\ Become(p, [proc[p] EXCEPT !.at = "send"])
    /\ UNCHANGED <<chainVars, pool, rows, runs, lock, lost>>

\* Mutation: declined kicks stay attempts.
DeclineCounted(p) ==
    /\ At(p, "confirm")
    /\ rows' = rows \union RowsFor(proc[p], "USER_SKIPPED")
    /\ Become(p, Onward(proc[p]))
    /\ UNCHANGED <<chainVars, pool, runs, lock, lost>>

Decline(p) ==
    /\ At(p, "confirm")
    /\ rows' = rows \union RowsFor(proc[p], "USER_SKIPPED")
    /\ Become(p, [Onward(proc[p]) EXCEPT !.attempted = @ - Len(proc[p].group)])
    /\ UNCHANGED <<chainVars, pool, runs, lock, lost>>

Sent(r) == Append(pool, [op |-> r.op, group |-> r.group, state |-> "pending", after |-> {}])

Send(p) ==
    /\ At(p, "send") /\ Len(pool) < MaxTx
    /\ pool' = Sent(proc[p])
    /\ Become(p, [proc[p] EXCEPT !.at = "insert", !.tx = Len(pool) + 1, !.left = proc[p].group])
    /\ UNCHANGED <<chainVars, rows, runs, lock, lost>>

\* The node's error may hide that it took the transaction.  A resolution gets an
\* ERROR row without a hash; a kick gets no row, because the run dies.
SendFails(p) ==
    LET r == proc[p] IN
    /\ At(p, "send")
    /\ \/ UNCHANGED <<pool, lost>>
       \/ /\ Len(pool) < MaxTx /\ pool' = Sent(r)
          /\ lost' = lost \union {<<Len(pool) + 1, x>> : x \in ToSet(r.group)}
    /\ IF r.op = "resolve"
       THEN rows' = rows \union RowsFor(r, "ERROR") /\ Become(p, Failed(r)) /\ UNCHANGED lock
       ELSE UNCHANGED rows /\ Become(p, Idle) /\ lock' = None
    /\ UNCHANGED <<chainVars, runs>>

\* Mutation: one row for a batch.
InsertOne(p) ==
    /\ At(p, "insert")
    /\ rows' = rows \union {Row(proc[p], proc[p].op, Head(proc[p].left), "SUBMITTED", proc[p].tx)}
    /\ Become(p, [proc[p] EXCEPT !.left = <<>>, !.at = "wait"])
    /\ UNCHANGED <<chainVars, pool, runs, lock, lost>>

\* _insert_operation_tx commits each row.
Insert(p) ==
    /\ At(p, "insert")
    /\ rows' = rows \union {Row(proc[p], proc[p].op, Head(proc[p].left), "SUBMITTED", proc[p].tx)}
    /\ Become(p, [proc[p] EXCEPT !.left = Tail(@), !.at = IF Len(proc[p].left) = 1 THEN "wait" ELSE @])
    /\ UNCHANGED <<chainVars, pool, runs, lock, lost>>

Await(p) ==
    LET r == proc[p] IN
    /\ At(p, "wait") /\ pool[r.tx].state # "pending"
    /\ rows' = Finalised(r.tx)
    /\ Become(p, IF pool[r.tx].state = "ok" THEN [Onward(r) EXCEPT !.ok = @ + Len(r.group)]
                 ELSE [Onward(r) EXCEPT !.bad = @ + Len(r.group)])
    /\ UNCHANGED <<chainVars, pool, runs, lock, lost>>

\* No receipt within two minutes: neither a success nor a failure, and unlike the
\* broadcasting client the engine goes on to the next transaction.
GiveUpWaiting(p) ==
    /\ At(p, "wait")
    /\ Become(p, Onward(proc[p]))
    /\ UNCHANGED <<chainVars, pool, rows, runs, lock, lost>>

----------------------------------------------------------------------------
(* The end of a run.                                                       *)

RunStatus(r) ==
    CASE ~r.live               -> "DRY_RUN"
      [] r.bad > 0 /\ r.ok = 0 -> "FAILED"
      [] r.bad > 0 /\ r.ok > 0 -> "PARTIAL_SUCCESS"
      [] OTHER                 -> "SUCCESS"

Released(p) == lock' = IF lock = p THEN None ELSE lock

Finish(p) ==
    LET r == proc[p] IN
    /\ At(p, "next") /\ r.todo = <<>>
    /\ runs' = [runs EXCEPT ![r.run] = [status |-> RunStatus(r), live |-> r.live,
                    attempted |-> r.attempted, ok |-> r.ok, bad |-> r.bad]]
    /\ Become(p, Idle) /\ Released(p)
    /\ UNCHANGED <<chainVars, pool, rows, lost>>

\* The process is killed, or an exception leaves run_once: an error while
\* planning or in record_prepare_failure, a failed check of a kick, the nonce, the
\* priority fee, finalize_receipt.  The run row stays as it is.
Die(p) ==
    /\ ~At(p, "idle")
    /\ lost' = lost \union {<<proc[p].tx, x>> : x \in ToSet(proc[p].left)}
    /\ Become(p, Idle) /\ Released(p)
    /\ UNCHANGED <<chainVars, pool, rows, runs>>

Step(p) ==
    \/ Start(p) \/ Plan(p) \/ Take(p) \/ DryRow(p)
    \/ CheckKick(p) \/ SplitBatch(p) \/ CheckResolve(p) \/ Confirm(p) \/ Decline(p)
    \/ Send(p) \/ SendFails(p) \/ Insert(p) \/ Await(p) \/ GiveUpWaiting(p)
    \/ Finish(p) \/ Die(p)

Next ==
    \/ \E p \in Procs : Step(p)
    \/ \E x \in Pairs : Repair(x) \/ Elsewhere(x)
    \/ \E n \in DOMAIN pool : Mine(n)

Spec == Init /\ [][Next]_vars

----------------------------------------------------------------------------
(* Properties.                                                             *)

\* A kick that goes out now: each earlier kick of the same pair has reverted or its
\* round is over, those excepted whose row was lost.
OnlyDueKicks ==
    \A n \in DOMAIN pool' \ DOMAIN pool : \A x \in ToSet(pool'[n].group) : pool'[n].op = "kick" =>
        \A m \in DOMAIN pool :
            (pool[m].op = "kick" /\ x \in ToSet(pool[m].group) /\ <<m, x>> \notin lost)
                => pool[m].state = "reverted" \/ (pool[m].state = "ok" /\ open[x] # m)

\* Whatever happens between the plan and the send, only due kicks are sent: the
\* lock, the guard and the row after each send see to it (run_once).
KicksFollowClosedRounds == [][OnlyDueKicks]_vars

\* Every pair of a transaction has its row, unless the process died before it
\* was written, and rows of one transaction tell its outcome (execute_batch).
RowsTellTheBatch ==
    /\ \A n \in DOMAIN pool : \A x \in ToSet(pool[n].group) :
         \/ <<n, x>> \in lost
         \/ \E p \in Procs : proc[p].tx = n /\ x \in ToSet(proc[p].left)
         \/ \E r \in rows : r.tx = n /\ r.pair = x /\ r.op = pool[n].op
    /\ \A r \in rows : /\ r.status = "CONFIRMED" => pool[r.tx].state = "ok"
                       /\ r.status = "REVERTED"  => pool[r.tx].state = "reverted"

RowsOfRun(n, statuses) == Cardinality({r \in rows : r.run = n /\ r.status \in statuses})

\* The totals of a finished run are those of its rows, however it went and
\* whatever a repair has found since (_tally_exec_result, finalize).
TotalsAddUp ==
    \A n \in DOMAIN runs : runs[n].status # "RUNNING" =>
        /\ runs[n].attempted = RowsOfRun(n, {"DRY_RUN", "SUBMITTED", "CONFIRMED", "REVERTED", "ERROR", "ESTIMATE_FAILED"})
        /\ runs[n].ok  <= RowsOfRun(n, {"CONFIRMED"})
        /\ runs[n].bad >= RowsOfRun(n, {"ERROR", "ESTIMATE_FAILED"})
        /\ runs[n].bad <= RowsOfRun(n, {"REVERTED", "ERROR", "ESTIMATE_FAILED"})

\* What a run leaves behind, rows and totals, is what it did: RowsTellTheBatch and
\* TotalsAddUp.
RunsAreRecorded == RowsTellTheBatch /\ TotalsAddUp
=============================================================================
