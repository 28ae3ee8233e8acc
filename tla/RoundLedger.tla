------------------------------ MODULE RoundLedger ------------------------------
(***************************************************************************)
(* Evidence about the rounds of one (auction, token) pair: what happens on *)
(* the chain, which rows of kick_txs record it, and the reconciliation     *)
(* that turns receipts and logs into confirmed, linked rows                *)
(* (tidal/operation_reconciler.py, the row insertion of                    *)
(* tidal/api/services/action_audit.py, and AuctionKicker.sol).             *)
(*                                                                         *)
(* Receipts are finalised in any order by several processes: the API's     *)
(* receipt route and background loop, the transaction service, the         *)
(* scanner.  A finaliser reads the row and computes its round link before  *)
(* its first write takes SQLite's write lock; from that write to its       *)
(* commit it is alone.  Each of these is one step here, so another         *)
(* process may commit in between.                                          *)
(***************************************************************************)
EXTENDS AuctionRounds, Sequences

CONSTANTS Finalisers,   \* processes running finalize_receipt
          Scanners,     \* processes running repair_pairs
          Ops,          \* operator transactions considered
          Amount,       \* tokens moved by a kick
          MaxTx,        \* bound: operator transactions
          MaxReverts,   \* bound: operator transactions that revert
          MaxReviews,   \* bound: uses of `tidal-server db` on the pair
          MaxSettles,   \* bound: settlements called directly by third parties
          MaxDonations  \* bound: tokens sent to the auction outside a kick

ASSUME BoundsAssumption ==
    /\ Ops \subseteq {"kick", "resolve", "sweep"}
    /\ Amount \in Nat \ {0}
    /\ MaxTx \in Nat /\ MaxReverts \in Nat /\ MaxReviews \in Nat /\ MaxSettles \in Nat /\ MaxDonations \in Nat

VARIABLES
    txs,      \* operator transactions in the order sent: [op, state, at], where
              \* at is the length of the chain when it was sent
    chain,    \* mined events in chain order: [op, tx, path, req, amt]
    kicked,   \* the auction's kicked(token) # 0
    active,   \* the auction's isActive(token)
    balance,  \* tokens held by the auction
    sold,     \* history: tokens bought in the round opened at each position
    donated,  \* history: tokens that arrived outside a kick
    rows,     \* rows of kick_txs for the pair
    job,      \* what each finaliser or scanner has read and not yet written
    phase,    \* where each scanner is in repair_pairs
    reviews   \* commands of `tidal-server db` so far

chainVars  == <<txs, chain, kicked, active, balance, sold, donated>>
vars == <<chainVars, rows, job, phase, reviews>>

Admin   == "admin"   \* whoever runs `tidal-server db`
Workers == Finalisers \union Scanners \union {Admin}
NoJob   == [kind |-> "none"]

Init ==
    /\ txs = <<>> /\ chain = <<>> /\ sold = <<>>
    /\ kicked = FALSE /\ active = FALSE /\ balance = 0 /\ donated = 0
    /\ rows = {}
    /\ job = [w \in Workers |-> NoJob]
    /\ phase = [s \in Scanners \union {Admin} |-> "idle"]
    /\ reviews = 0

----------------------------------------------------------------------------
(* The chain.                                                              *)

\* An operator transaction leaves for the network.
SendTx(op) ==
    /\ Len(txs) < MaxTx
    /\ txs' = Append(txs, [op |-> op, state |-> "pending", at |-> Len(chain)])
    /\ UNCHANGED <<chain, kicked, active, balance, sold, donated, rows, job, phase, reviews>>

Mined(t, state) == txs' = [txs EXCEPT ![t].state = state]

Emit(event) ==
    /\ chain' = Append(chain, event)
    /\ sold' = Append(sold, 0)

MineReverted(t) ==
    /\ txs[t].state = "pending"
    /\ Cardinality({u \in DOMAIN txs : txs[u].state = "reverted"}) < MaxReverts
    /\ Mined(t, "reverted")
    /\ Emit([op |-> "reverted", tx |-> t, path |-> NoPath, req |-> NoAmount, amt |-> NoAmount])
    /\ UNCHANGED <<kicked, active, balance, donated, rows, job, phase, reviews>>

\* AuctionKicker.kick: the tokens move to the auction, which then offers all
\* it holds.  The auction refuses a kick while it is active.
MineKick(t) ==
    /\ txs[t].op = "kick" /\ txs[t].state = "pending" /\ ~active
    /\ Mined(t, "ok")
    /\ Emit([op |-> "kick", tx |-> t, path |-> NoPath, req |-> Amount, amt |-> balance + Amount])
    /\ kicked' = TRUE /\ active' = TRUE /\ balance' = balance + Amount
    /\ UNCHANGED <<donated, rows, job, phase, reviews>>

\* _previewResolveAuction.
ResolvePath ==
    CASE active /\ balance = 0            -> 1
      [] active /\ balance # 0            -> 3
      [] ~active /\ kicked /\ balance = 0 -> 4
      [] ~active /\ kicked /\ balance # 0 -> 5
      [] ~kicked /\ balance # 0           -> 2
      [] ~kicked /\ balance = 0           -> 0

\* AuctionKicker.resolveAuction: sweep what is there, then settle or reset.
MineResolve(t) ==
    /\ txs[t].op = "resolve" /\ txs[t].state = "pending"
    /\ Mined(t, "ok")
    /\ Emit([op |-> "resolve", tx |-> t, path |-> ResolvePath, req |-> NoAmount, amt |-> balance])
    /\ kicked' = FALSE /\ active' = FALSE /\ balance' = 0
    /\ UNCHANGED <<donated, rows, job, phase, reviews>>

\* AuctionKicker.sweepAuction: the round stays open.
MineSweep(t) ==
    /\ txs[t].op = "sweep" /\ txs[t].state = "pending" /\ balance # 0
    /\ Mined(t, "ok")
    /\ Emit([op |-> "sweep", tx |-> t, path |-> NoPath, req |-> NoAmount, amt |-> balance])
    /\ balance' = 0
    /\ UNCHANGED <<kicked, active, donated, rows, job, phase, reviews>>

\* Anyone settles an active auction that has sold out (AuctionSettled).
SettleDirectly ==
    /\ active /\ balance = 0
    /\ Cardinality({p \in DOMAIN chain : chain[p].op = "settled"}) < MaxSettles
    /\ Emit([op |-> "settled", tx |-> 0, path |-> NoPath, req |-> NoAmount, amt |-> 0])
    /\ kicked' = FALSE /\ active' = FALSE
    /\ UNCHANGED <<txs, balance, donated, rows, job, phase, reviews>>

KickPositions == {p \in DOMAIN chain : chain[p].op = "kick"}
\* The open round belongs to the last kick on the chain.
LastKick == CHOOSE p \in KickPositions : \A q \in KickPositions : q <= p

Take ==
    /\ active /\ balance > 0
    /\ balance' = balance - 1
    /\ sold' = [sold EXCEPT ![LastKick] = @ + 1]
    /\ UNCHANGED <<txs, chain, kicked, active, donated, rows, job, phase, reviews>>

Expire ==
    /\ active
    /\ active' = FALSE
    /\ UNCHANGED <<txs, chain, kicked, balance, sold, donated, rows, job, phase, reviews>>

Donate ==
    /\ donated < MaxDonations
    /\ donated' = donated + 1
    /\ balance' = balance + 1
    /\ UNCHANGED <<txs, chain, kicked, active, sold, rows, job, phase, reviews>>

----------------------------------------------------------------------------
(* Recording a transaction: ensure_action_operations, or the insert of     *)
(* kick_execute and auction_settler, some time after the send.             *)

\* `repair-auction-rounds --apply` runs while the API, the scanner and kick
\* scheduling are stopped.
Applying == phase[Admin] # "idle"

NewId == Cardinality(rows) + 1

RowOf(t) == {r \in rows : r.tx = t}

\* created_at as a rank: the block time of a position, or the moment between
\* two blocks at which a transaction was broadcast.
BlockTime(pos) == pos * (MaxTx + 1)
SentAt(t)      == BlockTime(txs[t].at) + t

RecordTx(t) ==
    /\ RowOf(t) = {} /\ ~Applying
    /\ rows' = rows \union
         {[id |-> NewId, op |-> txs[t].op, tx |-> t, status |-> "SUBMITTED", pos |-> NoPos,
           path |-> NoPath, req |-> IF txs[t].op = "kick" THEN Amount ELSE NoAmount,
           amt |-> NoAmount,
           link |-> IF txs[t].op = "kick" THEN NoLink ELSE LatestUnclosed(rows),
           created |-> SentAt(t), base |-> "no"]}
    /\ UNCHANGED <<chainVars, job, phase, reviews>>

----------------------------------------------------------------------------
(* finalize_receipt.                                                       *)

PositionOf(t) == CHOOSE p \in DOMAIN chain : chain[p].tx = t

\* _round_kick_id: an existing link is kept.
RoundKickId(r, pos) == IF r.link # NoLink THEN r.link ELSE LatestUnclosedBefore(rows, pos)

\* Mutation: tokens swept by a resolution are not recorded.
FinalisedWithoutRecovery(r, p) ==
    LET e == chain[p] IN
    IF e.op = "reverted" THEN [r EXCEPT !.status = "REVERTED", !.pos = p]
    ELSE [r EXCEPT !.status = "CONFIRMED", !.pos = p, !.path = e.path,
                   !.amt = IF r.op = "resolve" THEN 0 ELSE e.amt,
                   !.req = IF r.op = "kick" THEN e.req ELSE @,
                   !.link = IF r.op = "kick" \/ e.path = 0 THEN NoLink ELSE RoundKickId(r, p)]

\* The auction_settled rows finalize_receipt may add are none: in a transaction of the
\* kicker an auction settles only where it is resolved, and what the same receipt
\* resolves is passed over (resolved_pairs).
Finalised(r, p) ==
    LET e == chain[p] IN
    IF e.op = "reverted" THEN [r EXCEPT !.status = "REVERTED", !.pos = p]
    ELSE [r EXCEPT !.status = "CONFIRMED", !.pos = p, !.path = e.path, !.amt = e.amt,
                   !.req = IF r.op = "kick" THEN e.req ELSE @,
                   !.link = IF r.op = "kick" \/ e.path = 0 THEN NoLink ELSE RoundKickId(r, p)]

\* Reads, up to the first write.
StartFinalise(w, r) ==
    /\ job[w] = NoJob
    /\ r.tx # 0 /\ txs[r.tx].state # "pending"
    /\ job' = [job EXCEPT ![w] = [kind |-> "finalise", row |-> Finalised(r, PositionOf(r.tx))]]

\* update_fields: the columns finalize_receipt computed, nothing else.
WriteFinalised(w) ==
    /\ job[w].kind = "finalise"
    /\ LET new == job[w].row IN
         rows' = {IF r.id = new.id
                    THEN [r EXCEPT !.status = new.status, !.pos = new.pos, !.path = new.path,
                                   !.req = new.req, !.amt = new.amt,
                                   !.link = IF new.status = "REVERTED" THEN @ ELSE new.link]
                    ELSE r : r \in rows}
    /\ job' = [job EXCEPT ![w] = NoJob]
    /\ UNCHANGED <<chainVars, phase, reviews>>

\* A receipt route, the background loop or an executor, for a submitted row.
Finalise(w, t) ==
    /\ ~Applying
    /\ \E r \in RowOf(t) : r.status = "SUBMITTED" /\ StartFinalise(w, r)
    /\ UNCHANGED <<chainVars, rows, phase, reviews>>

\* An RPC error, a rollback or a crash: nothing was written.
Abandon(w) ==
    /\ job[w] # NoJob
    /\ job' = [job EXCEPT ![w] = NoJob]
    /\ phase' = [s \in DOMAIN phase |-> IF s = w THEN "idle" ELSE phase[s]]
    /\ UNCHANGED <<chainVars, rows, reviews>>

----------------------------------------------------------------------------
(* repair_pairs: only for a pair whose latest round is not settled; replay *)
(* receipts, rebuild links, discover settlements, rebuild links.           *)

NeedsRepair == \E k \in Latest(rows) : Outcome(k, rows) \in {"UNKNOWN", "INCOMPLETE"}

\* Mutation: pairs with an incomplete round are not repaired.
StartRepairUnknownOnly(s) ==
    /\ phase[s] = "idle" /\ ~Applying /\ (\E k \in Latest(rows) : Outcome(k, rows) = "UNKNOWN")
    /\ phase' = [phase EXCEPT ![s] = "receipts"]
    /\ UNCHANGED <<chainVars, rows, job, reviews>>

StartRepair(s) ==
    /\ phase[s] = "idle" /\ ~Applying /\ NeedsRepair
    /\ phase' = [phase EXCEPT ![s] = "receipts"]
    /\ UNCHANGED <<chainVars, rows, job, reviews>>

\* reconcile_receipts, one receipt after the other in any order.
ReplayReceipt(s) ==
    /\ phase[s] = "receipts"
    /\ \E r \in rows : r.status \in {"SUBMITTED", "CONFIRMED"} /\ StartFinalise(s, r)
    /\ UNCHANGED <<chainVars, rows, phase, reviews>>

\* rebuild_round_links: walk the confirmed rows in chain order; a recovery
\* belongs to the kick that is open at its position.
Placed == {r \in rows : r.status = "CONFIRMED" /\ r.pos # NoPos}

\* Mutation: any earlier operation may open a round.
OpenRowAt(r) == LatestOf({k \in Placed : k.pos < r.pos})

OpenKickAt(r) ==
    LatestOf({k \in Placed : /\ k.op = "kick" /\ k.pos < r.pos
                             /\ \A c \in Placed : ClosesRound(c) =>
                                                    ~(k.pos < c.pos /\ c.pos < r.pos)})

RebuiltLinks ==
    [id \in {r.id : r \in {q \in Placed : q.op # "kick"}} |->
        LET r == CHOOSE q \in Placed : q.id = id
        IN  IF r.op = "resolve" /\ r.path = 0 THEN NoLink ELSE OpenKickAt(r)]

ReadLinks(s) ==
    /\ phase[s] \in {"receipts", "discover"} /\ job[s] = NoJob
    /\ job' = [job EXCEPT ![s] = [kind |-> "links", links |-> RebuiltLinks]]
    /\ UNCHANGED <<chainVars, rows, phase, reviews>>

WriteLinks(s) ==
    /\ job[s].kind = "links"
    /\ LET links == job[s].links IN
         rows' = {IF r.id \in DOMAIN links THEN [r EXCEPT !.link = links[r.id]] ELSE r
                  : r \in rows}
    /\ job' = [job EXCEPT ![s] = NoJob]
    /\ phase' = [phase EXCEPT ![s] = IF @ = "receipts" THEN "discover"
                                    ELSE IF s = Admin THEN "baseline" ELSE "idle"]
    /\ UNCHANGED <<chainVars, reviews>>

\* discover_direct_settlements: the check, then an awaited block lookup, then
\* the insert.
ReadSettlement(s) ==
    /\ phase[s] = "discover" /\ job[s] = NoJob
    /\ \E p \in DOMAIN chain :
         /\ chain[p].op = "settled"
         /\ ~ \E r \in rows : r.op = "settled" /\ r.pos = p
         /\ LatestUnclosedBefore(rows, p) # NoLink
         /\ job' = [job EXCEPT ![s] = [kind |-> "settlement", pos |-> p,
                                       kick |-> LatestUnclosedBefore(rows, p)]]
    /\ UNCHANGED <<chainVars, rows, phase, reviews>>

InsertSettlement(s) ==
    /\ job[s].kind = "settlement"
    /\ rows' = rows \union
         {[id |-> NewId, op |-> "settled", tx |-> 0, status |-> "CONFIRMED",
           pos |-> job[s].pos, path |-> NoPath, req |-> NoAmount, amt |-> 0,
           link |-> job[s].kick, created |-> BlockTime(job[s].pos), base |-> "no"]}
    /\ job' = [job EXCEPT ![s] = NoJob]
    /\ UNCHANGED <<chainVars, phase, reviews>>

----------------------------------------------------------------------------
(* tidal-server db: reviewed baselines, the cutoff of Current.             *)

Review == reviews < MaxReviews /\ reviews' = reviews + 1
Baselined(kicks, reason) ==
    rows' = {IF r \in kicks THEN [r EXCEPT !.base = reason] ELSE r : r \in rows}

\* clear-no-fill-suspension reads, and writes afterwards.
StartClear ==
    /\ Review /\ job[Admin] = NoJob /\ ~Applying
    /\ \E k \in ClearableNoFill(rows) :
         job' = [job EXCEPT ![Admin] = [kind |-> "clear", kick |-> k.id]]
    /\ UNCHANGED <<chainVars, rows, phase>>

WriteClear ==
    /\ job[Admin].kind = "clear"
    /\ Baselined({r \in rows : r.id = job[Admin].kick}, "cleared")
    /\ job' = [job EXCEPT ![Admin] = NoJob]
    /\ UNCHANGED <<chainVars, phase, reviews>>

\* repair-auction-rounds --apply goes through the steps of repair_pairs, whatever
\* the state of the pair, and then sets baselines.
StartApply ==
    /\ Review /\ \A w \in Workers : job[w] = NoJob
    /\ \A s \in DOMAIN phase : phase[s] = "idle"
    /\ phase' = [phase EXCEPT ![Admin] = "receipts"]
    /\ UNCHANGED <<chainVars, rows, job>>

\* _baseline_unprovable_rounds: the latest round only if isActive says no.
Unprovables ==
    {k \in Kicks(rows) : /\ k.base = "no" /\ Outcome(k, rows) \in {"UNKNOWN", "INCOMPLETE"}
                         /\ Newer(k, rows) = {} => ~active}

SetBaselines ==
    /\ phase[Admin] = "baseline" /\ job[Admin] = NoJob
    /\ \/ Baselined(Unprovables, "repaired")
       \/ Baselined({k \in Unprovables : Newer(k, rows) # {}}, "repaired")  \* isActive failed
    /\ phase' = [phase EXCEPT ![Admin] = "idle"]
    /\ UNCHANGED <<chainVars, job, reviews>>

----------------------------------------------------------------------------

OnChain ==
    \/ \E op \in Ops : SendTx(op)
    \/ \E t \in DOMAIN txs : MineReverted(t) \/ MineKick(t) \/ MineResolve(t) \/ MineSweep(t)
    \/ SettleDirectly \/ Take \/ Expire \/ Donate

Repair(s) ==
    \/ ReplayReceipt(s) \/ ReadLinks(s) \/ WriteLinks(s)
    \/ ReadSettlement(s) \/ InsertSettlement(s)

Maintain == StartClear \/ WriteClear \/ StartApply \/ SetBaselines

Next ==
    \/ OnChain \/ Maintain
    \/ \E t \in DOMAIN txs : RecordTx(t)
    \/ \E f \in Finalisers, t \in DOMAIN txs : Finalise(f, t)
    \/ \E w \in Workers : WriteFinalised(w) \/ Abandon(w)
    \/ \E s \in Scanners : StartRepair(s)
    \/ \E s \in Scanners \union {Admin} : Repair(s)

Spec == Init /\ [][Next]_vars

(***************************************************************************)
(* Fairness.  Reports of a broadcast are delivered in the end, the API's   *)
(* loop and the scanner's timer go on for ever, and an RPC that fails does *)
(* not fail on every attempt.  Nothing is assumed of the chain.            *)
(***************************************************************************)
Fairness ==
    /\ \A t \in 1 .. MaxTx :
         /\ WF_vars(t \in DOMAIN txs /\ RecordTx(t))
         /\ \A f \in Finalisers : SF_vars(t \in DOMAIN txs /\ Finalise(f, t))
    /\ \A w \in Workers \ {Admin} : SF_vars(WriteFinalised(w))
    /\ \A s \in Scanners :
         /\ SF_vars(StartRepair(s)) /\ SF_vars(ReadLinks(s)) /\ SF_vars(WriteLinks(s))
         /\ SF_vars(ReadSettlement(s)) /\ SF_vars(InsertSettlement(s))

FairSpec == Spec /\ Fairness

----------------------------------------------------------------------------
(* What really happened in the round opened at position p.                 *)

After(p) == {q \in DOMAIN chain : q > p /\ ~ \E k \in KickPositions : p < k /\ k <= q}

ClosesOnChain(q) == chain[q].op = "settled"
                    \/ (chain[q].op = "resolve" /\ chain[q].path \in ClosingPaths)

TrueOutcome(p) ==
    IF chain[p].amt # chain[p].req THEN "UNKNOWN"
    ELSE IF ~ \E q \in After(p) : ClosesOnChain(q) THEN "INCOMPLETE"
    ELSE IF sold[p] = 0 THEN "NO_FILL" ELSE "PRODUCTIVE"

AllRecorded == \A t \in DOMAIN txs : RowOf(t) # {}

\* Kicks of the pair are mined in the order they were sent.
KicksInOrder ==
    \A t, u \in DOMAIN txs :
        t < u /\ txs[t].op = "kick" /\ txs[u].op = "kick" /\ txs[u].state # "pending" =>
            txs[t].state # "pending" /\ PositionOf(t) < PositionOf(u)

CaughtUp ==
    /\ AllRecorded
    /\ \A r \in rows : r.status # "SUBMITTED"
    /\ \A p \in DOMAIN chain : chain[p].op = "settled" =>
         Cardinality({r \in rows : r.pos = p}) = 1
    /\ \A id \in DOMAIN RebuiltLinks : \E r \in rows : r.id = id /\ r.link = RebuiltLinks[id]

----------------------------------------------------------------------------
(* Properties.                                                             *)

\* Rows have the shape kick_txs gives them and ids are unique.
TypeOK ==
    /\ \A r \in rows :
         /\ r.op \in {"kick", "resolve", "sweep", "settled"}
         /\ r.status \in {"SUBMITTED", "CONFIRMED", "REVERTED"}
         /\ r.pos \in {NoPos} \union DOMAIN chain
         /\ r.path \in {NoPath} \union AllPaths
         /\ r.link \in {NoLink} \union {k.id : k \in {q \in rows : q.op = "kick"}}
         /\ r.base # "no" => r.op = "kick"
    /\ {r.id : r \in rows} = 1 .. Cardinality(rows)
    /\ balance \in Nat /\ Len(sold) = Len(chain)

\* NoFillGuard: whatever order receipts, logs and links arrive in, automation
\* is never let through while a round the ledger knows of is still open on the
\* chain or its kick is still in flight; clear-no-fill-suspension does not change
\* that ("A newer incomplete round remains enforced", docs/cli-server-db.md:54).
\* The one exception are kicks the one-time repair has written off.
AllowsOnlyClosedRounds ==
    AllRecorded /\ KicksInOrder /\ Decide(rows, TRUE, TRUE) = "ALLOW" =>
        \A t \in DOMAIN txs :
            (txs[t].op = "kick" /\ ~ \E r \in rows : r.base = "repaired" /\ r.created >= SentAt(t)) =>
                /\ txs[t].state # "pending"
                /\ ~(kicked /\ chain[LastKick].tx = t)

\* A no-fill verdict on the latest round is right: nothing was sold in it, up
\* to what somebody sent to the auction outside a kick.
NoFillIsTrue ==
    AllRecorded /\ KicksInOrder =>
        \A k \in Latest(rows) : Outcome(k, rows) = "NO_FILL" => sold[k.pos] <= donated

\* Every sweep that was mined is linked to the round it took tokens from.
SweepsPlaced ==
    \A r \in rows : r.op = "sweep" /\ txs[r.tx].state = "ok" =>
        \A p \in KickPositions : PositionOf(r.tx) \in After(p) =>
            \E k \in RowOf(chain[p].tx) : r.link = k.id

\* A productive verdict on the latest round is right: something was sold in it,
\* unless a sweep of the pair is not linked to its own round (see
\* AmbiguousEvidenceBlocks for those).
ProductiveIsTrue ==
    AllRecorded /\ KicksInOrder /\ SweepsPlaced =>
        \A k \in Latest(rows) : Outcome(k, rows) = "PRODUCTIVE" => sold[k.pos] > 0

AllFinalised == AllRecorded /\ \A r \in rows : r.status # "SUBMITTED"

\* docs/kick-selection.md:116: "Incomplete or ambiguous evidence also blocks."
\* Once every receipt is in, automation is let through on a productive round
\* only if something was sold in it.
AmbiguousEvidenceBlocks ==
    AllFinalised /\ KicksInOrder /\ Decide(rows, FALSE, FALSE) = "ALLOW" =>
        \A k \in Latest(rows) : Outcome(k, rows) = "PRODUCTIVE" => sold[k.pos] > 0

\* Once every transaction is finalised, every settlement recorded once and the
\* links are those of a rebuild, the ledger tells every round as it happened
\* (as long as only kicks brought tokens to the auction).
CaughtUpIsTrue ==
    CaughtUp /\ donated = 0 => \A k \in Kicks(rows) : Outcome(k, rows) = TrueOutcome(k.pos)

AtRest == KicksInOrder /\ ~kicked /\ \A t \in DOMAIN txs : txs[t].state # "pending"

\* A pair is never stuck on an incomplete round that the chain has closed: the
\* scanner's repair finds the close, or the chain moves on.
ClosedRoundIsJudged ==
    AtRest ~> (~AtRest \/ \A k \in Latest(rows) : Outcome(k, rows) # "INCOMPLETE")
=============================================================================
