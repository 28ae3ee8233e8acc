------------------------------ MODULE KickRun ------------------------------
(***************************************************************************)
(* Operators at work: `tidal kick run` and `tidal auction settle | sweep`  *)
(* from the choice of candidates to the exit code, with the preparation of *)
(* each action on the server (KickPlanner.plan, prepare_settle_action,     *)
(* prepare_sweep_action) and the auctions it reads.                        *)
(*                                                                         *)
(* Every client keeps an outbox of its own, so what a client has sent may  *)
(* be unknown to the server.  How evidence becomes a verdict on a round is *)
(* the subject of RoundLedger: here the server knows the true outcome of   *)
(* each kick it has heard of.  ClientBroadcast has the details of sending. *)
(***************************************************************************)
EXTENDS KickShortlist, KickPricing

CONSTANTS Clients,     \* operator machines
          Pairs,       \* (auction, token) pairs
          Markets,     \* what the tables, the config and the prices may say
          RetryTotal,  \* length of no_fill_policy.retry_delays_minutes
          MaxTx,       \* bound: transactions sent
          MaxRuns      \* bound: commands started

ASSUME BoundsAssumption ==
    /\ RetryTotal \in Nat /\ MaxTx \in Nat /\ MaxRuns \in Nat

\* What the tables say is about pairs that exist.
ASSUME MarketsAssumption ==
    /\ IsFiniteSet(Pairs)
    /\ \A m \in Markets :
         /\ m.limit \in Nat /\ Readable(m.view)
         /\ \A cand \in DOMAIN m.usd : PairOf(cand) \in Pairs

VARIABLES
    market,  \* the market (see KickShortlist), with a view (see KickPricing)
    lot,     \* chain: state of each pair's lot
    txs,     \* transactions in the order sent
    client,  \* what each client is doing
    started, \* commands started so far
    streak   \* history: the kicks of a pair without a fill, in a row, that were not
             \* started with --allow-no-fill-retry

vars == <<market, lot, txs, client, started, streak>>

Modes   == {"interactive", "unattended", "headless"}
Flags   == {"override", "gauge"}  \* --allow-no-fill-retry, --allow-killed-gauge
Reasons == Flags \union {"unread", "late"}
Idle == [at |-> "idle", cmd |-> "none", mode |-> "headless", run |-> 0, queue |-> <<>>,
         done |-> {}, pair |-> CHOOSE p \in Pairs : TRUE, busy |-> FALSE, ops |-> <<>>,
         kick |-> None,
         next |-> 1, aged |-> FALSE, why |-> {}, results |-> <<>>, records |-> <<>>,
         expected |-> 0, verdict |-> "none"]

Init ==
    /\ market \in Markets
    /\ lot = [p \in Pairs |-> "clean"]
    /\ txs = <<>> /\ started = 0
    /\ client = [c \in Clients |-> Idle]
    /\ streak = [p \in Pairs |-> {}]

At(c, place)   == client[c].at = place
AuctionOf(p)   == p[1]
LotsOf(a)      == {p \in Pairs : AuctionOf(p) = a}
Own(c)         == {t \in DOMAIN txs : txs[t].by = c}
Become(c, new) == client' = [client EXCEPT ![c] = new]

----------------------------------------------------------------------------
(* AuctionKicker and the auctions.                                         *)

Active(state)      == state \in {"live", "sold"}
HasBalance(state)  == state \in {"live", "leftover", "donated"}
NeedsForce(state)  == state = "live"
\* Neither PATH_NOOP nor PATH_RESET_ONLY, and no force needed.
Actionable(state)  == state \in {"sold", "leftover", "donated"}
IsAnActiveAuction(a) == \E p \in LotsOf(a) : Active(lot[p])

Succeeds(tx) ==
    CASE tx.op = "kick"    -> ~IsAnActiveAuction(AuctionOf(tx.pair))
      [] tx.op = "resolve" -> tx.force \/ ~NeedsForce(lot[tx.pair])
      [] tx.op = "sweep"   -> HasBalance(lot[tx.pair])

OpenRounds(p) == {t \in DOMAIN txs : txs[t].pair = p /\ txs[t].round \in {"open", "bought"}}

\* The txs after the rounds of a pair have closed, and what that does to its streak.
Closed(p, ts) == [t \in DOMAIN ts |->
    IF t \notin OpenRounds(p) THEN ts[t]
    ELSE [ts[t] EXCEPT !.round = IF @ = "bought" THEN "filled" ELSE "unfilled"]]
StreakClosed(p) ==
    IF \E t \in OpenRounds(p) : txs[t].round = "bought" THEN [streak EXCEPT ![p] = {}]
    ELSE [streak EXCEPT ![p] = @ \union {t \in OpenRounds(p) : "override" \notin txs[t].why}]

Mine(t) ==
    LET tx == txs[t]
        mined == [txs EXCEPT ![t].state = "ok"]
    IN  /\ tx.state = "pool"
        /\ \/ /\ ~Succeeds(tx)
              /\ txs' = [txs EXCEPT ![t].state = "reverted"]
              /\ UNCHANGED <<lot, streak>>
           \/ /\ tx.op = "kick" /\ Succeeds(tx)
              /\ txs' = [mined EXCEPT ![t].over = lot[tx.pair],
                           ![t].round = IF HasBalance(lot[tx.pair]) THEN "unclear" ELSE "open"]
              /\ lot' = [lot EXCEPT ![tx.pair] = "live"]
              /\ UNCHANGED streak
           \/ /\ tx.op = "resolve" /\ Succeeds(tx)
              /\ txs' = Closed(tx.pair, mined) /\ streak' = StreakClosed(tx.pair)
              /\ lot' = [lot EXCEPT ![tx.pair] = "clean"]
           \/ /\ tx.op = "sweep" /\ Succeeds(tx)
              /\ txs' = mined
              /\ lot' = [lot EXCEPT ![tx.pair] =
                     CASE @ = "live" -> "sold" [] @ = "leftover" -> "empty" [] @ = "donated" -> "clean"]
              /\ UNCHANGED streak
        /\ UNCHANGED <<client, started>>

Buy(p) ==
    /\ lot[p] = "live"
    /\ txs' = [t \in DOMAIN txs |-> IF t \in OpenRounds(p) THEN [txs[t] EXCEPT !.round = "bought"] ELSE txs[t]]
    /\ \E left \in {"live", "sold"} : lot' = [lot EXCEPT ![p] = left]
    /\ UNCHANGED <<client, started, streak>>

\* The window of a round is a day long: no request to the server lasts through
\* it, a kick prepared before it is too old at the prompt, and one that is past
\* the prompt, or in the pool, is late.
Expire(p) ==
    /\ Active(lot[p])
    /\ ~ \E c \in Clients : client[c].at \in {"lots", "quote", "estimate"}
    /\ lot' = [lot EXCEPT ![p] = IF @ = "live" THEN "leftover" ELSE "empty"]
    /\ client' = [c \in Clients |->
           IF client[c].ops = <<>> \/ AuctionOf(client[c].pair) # AuctionOf(p) THEN client[c]
           ELSE IF At(c, "review") THEN [client[c] EXCEPT !.aged = TRUE]
           ELSE [client[c] EXCEPT !.why = @ \union {"late"}]]
    /\ txs' = [t \in DOMAIN txs |->
           IF txs[t].state = "pool" THEN [txs[t] EXCEPT !.why = @ \union {"late"}] ELSE txs[t]]
    /\ UNCHANGED <<started, streak>>

\* The scanner, or for a lot that has sold out anyone, resolves without force.
ResolveElsewhere(p) ==
    /\ Actionable(lot[p])
    /\ txs' = Closed(p, txs) /\ streak' = StreakClosed(p)
    /\ lot' = [lot EXCEPT ![p] = "clean"]
    /\ UNCHANGED <<client, started>>

Donate(p) ==
    /\ lot[p] = "clean"
    /\ lot' = [lot EXCEPT ![p] = "donated"]
    /\ UNCHANGED <<txs, client, started, streak>>

----------------------------------------------------------------------------
(* The server: the no-fill guard over the kicks it has heard of.           *)

Known(p) == {t \in DOMAIN txs : /\ txs[t].op = "kick" /\ txs[t].pair = p /\ txs[t].known
                                /\ txs[t].state # "reverted"}

\* Mutation: only the latest round counts.
LatestKnown(p) == {t \in Known(p) : txs[t].round # "filled" /\ \A u \in Known(p) : u <= t}

\* Kicks since the last productive round.
Recent(p) == {t \in Known(p) : ~ \E u \in Known(p) : u >= t /\ txs[u].round = "filled"}

NoFillAllows(p, retry) ==
    /\ \A t \in Recent(p) : txs[t].round = "unfilled"
    /\ Cardinality(Recent(p)) <= RetryTotal \/ retry

Candidates == DOMAIN market.usd
Shortlist(scope, retry) ==
    BuildShortlist(market, scope, {p \in {PairOf(cand) : cand \in scope} : ~NoFillAllows(p, retry)})

\* Mutation: only the guard is asked about a candidate from the queue.
AcceptsUnfiltered(r, cand) == NoFillAllows(PairOf(cand), "override" \in r.why)

\* The request for one exact candidate, up to the inspection of its auction.
Accepts(r, cand) ==
    /\ Shortlist({cand}, "override" \in r.why).selected = <<cand>>
    /\ GaugeAlive(market, cand) \/ "gauge" \in r.why
    /\ Compatible(market.view)

----------------------------------------------------------------------------
(* kick run: one candidate after the other.                                *)

\* Candidates at hand: those that the options name, with data that is fresh and
\* without a backoff.  focus is what the options pin down; a fee burner has no gauge,
\* and here any source that has none killed may be one.
Focused(hand, focus) ==
    \A x, y \in hand :
        /\ focus = "fee burners" => SourceOf(x) \notin market.killed
        /\ focus = "source" => SourceOf(x) = SourceOf(y)
        /\ focus \in {"auction", "pair"} => AuctionIn(x) = AuctionIn(y)
        /\ focus = "pair" => PairOf(x) = PairOf(y)

\* inspect_kicks and _candidate_review_queue.  An interactive run that names
\* fee burners, a source or an auction takes up the deferred candidates as well, and
\* --allow-no-fill-retry those whose retries are exhausted.
ReviewQueue(hand, mode, focus, retry) ==
    LET list == Shortlist(hand, FALSE)
        exhausted == {cand \in list.noFill : NoFillAllows(PairOf(cand), TRUE)}
    IN  list.selected \o (IF mode = "interactive" /\ focus # "all" THEN list.deferred ELSE <<>>)
                      \o (IF retry THEN SortCandidates(market, exhausted) ELSE <<>>)

StartKickRun(c) ==
    /\ At(c, "idle") /\ started < MaxRuns
    /\ started' = started + 1
    /\ \E mode \in Modes, hand \in SUBSET Candidates, flags \in SUBSET Flags,
          focus \in {"all", "fee burners", "source", "auction", "pair"} :
         /\ Focused(hand, focus)
         /\ "override" \in flags => mode # "headless" /\ focus = "pair"
         /\ focus # "all" => mode = "interactive" \/ "override" \in flags  \* no difference otherwise
         /\ "gauge" \in flags => market.killed # {}                        \* nor here
         /\ Become(c, [Idle EXCEPT !.at = "next", !.cmd = "kick", !.mode = mode, !.run = started',
                          !.queue = ReviewQueue(hand, mode, focus, "override" \in flags), !.why = flags])
    /\ UNCHANGED <<lot, txs, streak>>

\* Mutation: the index of the next transaction is not reset.
OnwardKeepsIndex(r) == [r EXCEPT !.at = "next", !.ops = <<>>, !.aged = FALSE, !.busy = FALSE,
                                 !.why = @ \intersect Flags, !.results = <<>>, !.kick = None]

\* What a candidate leaves behind when the run moves on.
Onward(r)  == [r EXCEPT !.at = "next", !.ops = <<>>, !.next = 1, !.aged = FALSE, !.busy = FALSE,
                        !.why = @ \intersect Flags, !.results = <<>>, !.kick = None]
Skip(c)    == Become(c, Onward(client[c]))
Retry(c)   == "override" \in client[c].why

PassOver(c) ==
    /\ At(c, "next") /\ client[c].queue # <<>>
    /\ AuctionIn(Head(client[c].queue)) \in client[c].done
    /\ Become(c, [client[c] EXCEPT !.queue = Tail(@)])
    /\ UNCHANGED <<lot, txs, started, streak>>

\* Shortlist, gauge, version and isAnActiveAuction; a candidate may have dropped
\* out since the queue was made.
Prepare(c) ==
    LET cand == Head(client[c].queue) IN
    /\ At(c, "next") /\ client[c].queue # <<>>
    /\ AuctionIn(cand) \notin client[c].done
    /\ \/ /\ Accepts(client[c], cand)
          /\ Become(c, [client[c] EXCEPT !.at = "lots", !.queue = Tail(@), !.pair = PairOf(cand),
                                         !.busy = IsAnActiveAuction(AuctionIn(cand))])
       \/ Become(c, [client[c] EXCEPT !.queue = Tail(@)])
    /\ UNCHANGED <<lot, txs, started, streak>>

\* inspect_auction_settlements: the lots of an auction to resolve without force.
DueLots(a) == {p \in LotsOf(a) : Actionable(lot[p])}

Call(op, p, force) == [op |-> op, pair |-> p, force |-> force]
Offer(r, calls)    == [r EXCEPT !.at = "review", !.ops = calls]

\* inspect_auction_settlements previews the enabled tokens; when those cannot be
\* read there is nothing to preview.  Lots to resolve take the place of the
\* kick, those whose resolution cannot be estimated excepted.
InspectLots(c) ==
    LET r == client[c]
        lots == LotsOf(AuctionOf(r.pair))
    IN  /\ At(c, "lots")
        /\ \/ \E estimated \in (SUBSET DueLots(AuctionOf(r.pair))) \ {{}} :
                Become(c, Offer(r, SetToSeq({Call("resolve", p, FALSE) : p \in estimated})))
           \/ Skip(c)  \* a preview or every estimate failed, or a lot is live
           \/ /\ \A p \in lots : ~Actionable(lot[p]) /\ ~NeedsForce(lot[p])
              /\ Become(c, [r EXCEPT !.at = "quote"])
           \/ Become(c, [r EXCEPT !.at = "quote", !.why = @ \union {"unread"}])
        /\ UNCHANGED <<lot, txs, started, streak>>

\* The guard again, then prepare_kick with live balance, price and quote.
Quote(c) ==
    /\ At(c, "quote")
    /\ \/ /\ NoFillAllows(client[c].pair, Retry(c)) /\ ~client[c].busy
          /\ PrepareKick(market.view) # None
          /\ Become(c, [client[c] EXCEPT !.at = "estimate", !.kick = PrepareKick(market.view)])
       \/ Skip(c)
    /\ UNCHANGED <<lot, txs, started, streak>>

Estimate(c) ==
    /\ At(c, "estimate")
    /\ \/ /\ ~IsAnActiveAuction(AuctionOf(client[c].pair))
          /\ Become(c, Offer(client[c], <<Call("kick", client[c].pair, FALSE)>>))
       \/ Skip(c)
    /\ UNCHANGED <<lot, txs, started, streak>>

\* Refused at the prompt, for its gas limit, or because it is too old.
Decline(c) ==
    /\ At(c, "review") /\ client[c].cmd = "kick"
    /\ Skip(c)
    /\ UNCHANGED <<lot, txs, started, streak>>

\* Mutation: the age of a prepared action is not checked.
NeverTooOld(r) == FALSE

TooOld(r) == r.cmd = "kick" /\ r.aged

Accept(c) ==
    /\ At(c, "review") /\ ~TooOld(client[c])
    /\ Become(c, [client[c] EXCEPT !.at = "check"])
    /\ UNCHANGED <<lot, txs, started, streak>>

----------------------------------------------------------------------------
(* auction settle and auction sweep: one action each.                      *)

\* decide_auction_settlement of a lot that was named; force only where it is needed.
Resolution(p) == <<Call("resolve", p, NeedsForce(lot[p]))>>

\* What an operator asks for.
Command(cmd, p) == [Idle EXCEPT !.cmd = cmd, !.run = started', !.pair = p]

\* All lots that are due, or the one that was named.
StartSettle(c) ==
    /\ At(c, "idle") /\ started < MaxRuns
    /\ started' = started + 1
    /\ \E p \in Pairs :
         LET due == DueLots(AuctionOf(p))
             new == Command("settle", p)
         IN  \/ due # {} /\ Become(c, Offer(new, SetToSeq({Call("resolve", q, FALSE) : q \in due})))
             \/ /\ Actionable(lot[p]) \/ NeedsForce(lot[p])
                /\ Become(c, Offer(new, Resolution(p)))
    /\ UNCHANGED <<lot, txs, streak>>

StartSweep(c) ==
    /\ At(c, "idle") /\ started < MaxRuns
    /\ started' = started + 1
    /\ \E p \in Pairs :
         /\ HasBalance(lot[p])
         /\ Become(c, Offer(Command("sweep", p), <<Call("sweep", p, FALSE)>>))
    /\ UNCHANGED <<lot, txs, streak>>

----------------------------------------------------------------------------
(* Executing an action (see ClientBroadcast).                              *)

\* Mutation: a reported transaction counts as resolved.
Unreported(c) == {t \in Own(c) : txs[t].state = "pool" /\ ~txs[t].known}

Unresolved(c) == {t \in Own(c) : txs[t].state = "pool"}

\* Saved reports are delivered, and saved hashes looked up.
CheckOutbox(c) ==
    /\ At(c, "check")
    /\ txs' = [t \in DOMAIN txs |-> IF txs[t].by = c THEN [txs[t] EXCEPT !.known = TRUE] ELSE txs[t]]
    /\ Unresolved(c) = {}
    /\ Become(c, [client[c] EXCEPT !.at = "send"])
    /\ UNCHANGED <<lot, started, streak>>

\* Only a kick run has a cap on the base fee; nothing was sent.
BaseFeeCapSkip(c) ==
    /\ At(c, "check") /\ client[c].cmd = "kick" /\ Unresolved(c) = {}
    /\ txs' = [t \in DOMAIN txs |-> IF txs[t].by = c THEN [txs[t] EXCEPT !.known = TRUE] ELSE txs[t]]
    /\ Skip(c)
    /\ UNCHANGED <<lot, started, streak>>

Send(c) ==
    LET call == client[c].ops[client[c].next] IN
    /\ At(c, "send") /\ Len(txs) < MaxTx
    /\ txs' = Append(txs, [op |-> call.op, pair |-> call.pair, force |-> call.force, by |-> c,
                           run |-> client[c].run, state |-> "pool", known |-> FALSE,
                           round |-> "none", over |-> "none", why |-> client[c].why])
    /\ Become(c, [client[c] EXCEPT !.at = "report"])
    /\ UNCHANGED <<lot, started, streak>>

LastOf(c) == CHOOSE t \in Own(c) : \A u \in Own(c) : u <= t

\* A report that does not get through stays in the outbox.
Report(c) ==
    /\ At(c, "report")
    /\ \E delivered \in BOOLEAN : txs' = [txs EXCEPT ![LastOf(c)].known = delivered]
    /\ Become(c, [client[c] EXCEPT !.at = "wait"])
    /\ UNCHANGED <<lot, started, streak>>

ResultOf(state) == CASE state = "ok" -> "CONFIRMED" [] state = "reverted" -> "REVERTED" [] state = "pool" -> "PENDING"

\* Mutation: the auction is not marked as done.
ConcludedOpen(r, results) ==
    LET after == [Onward(r) EXCEPT !.records = @ \o results, !.expected = @ + Len(r.ops)]
    IN  IF "PENDING" \in ToSet(results) \/ r.cmd # "kick" \/ r.mode = "unattended"
        THEN [after EXCEPT !.at = "finish"] ELSE after

\* The action is over: its records count, and the auction is done for this run.
Concluded(r, results) ==
    LET after == [Onward(r) EXCEPT !.records = @ \o results, !.expected = @ + Len(r.ops),
                                   !.done = @ \union {AuctionOf(r.pair)}]
    IN  IF "PENDING" \in ToSet(results) \/ r.cmd # "kick" \/ r.mode = "unattended"
        THEN [after EXCEPT !.at = "finish"] ELSE after

\* A receipt, or none within the timeout; only a confirmed transaction is
\* followed by the next one.
Await(c) ==
    LET r == client[c] IN
    /\ At(c, "wait")
    /\ \E state \in {txs[LastOf(c)].state, "pool"} :
         LET results == Append(r.results, ResultOf(state)) IN
         Become(c, IF state = "ok" /\ r.next < Len(r.ops)
                   THEN [r EXCEPT !.at = "send", !.next = @ + 1, !.results = results]
                   ELSE Concluded(r, results))
    /\ UNCHANGED <<lot, txs, started, streak>>

\* Mutation: the transactions that did not get out are not expected.
RaiseQuietly(c) ==
    /\ client[c].at \in {"next", "check", "send"}
    /\ Become(c, [Onward(client[c]) EXCEPT !.at = "finish"])
    /\ UNCHANGED <<lot, txs, started, streak>>

\* An error in a request, in the checks or while signing ends the command.  The
\* records of the action at hand are lost with it.
Raise(c) ==
    /\ client[c].at \in {"next", "check", "send"}
    /\ Become(c, [Onward(client[c]) EXCEPT !.at = "finish",
                      !.expected = IF @ > Len(client[c].records) THEN @ ELSE Len(client[c].records) + 1])
    /\ UNCHANGED <<lot, txs, started, streak>>

----------------------------------------------------------------------------
(* The end of a command.                                                   *)

Count(records, statuses) == Cardinality({n \in DOMAIN records : records[n] \in statuses})

SummarizeExecution(records, expected) ==
    LET confirmed   == Count(records, {"CONFIRMED"})
        failed      == Count(records, {"REVERTED"})
        pending     == Count(records, {"PENDING"})
        unsubmitted == expected > Len(records)
    IN  CASE records = <<>> /\ expected = 0                               -> "noop"
          [] confirmed > 0 /\ pending = 0 /\ failed = 0 /\ ~unsubmitted   -> "confirmed"
          [] \/ confirmed > 0 /\ (pending > 0 \/ failed > 0 \/ unsubmitted)
             \/ pending > 0 /\ failed > 0                                 -> "partial"
          [] confirmed = 0 /\ pending > 0 /\ failed = 0                   -> "pending"
          [] OTHER                                                        -> "failed"

Finish(c) ==
    /\ At(c, "finish") \/ (At(c, "next") /\ client[c].queue = <<>>)
    /\ Become(c, [Idle EXCEPT !.at = "done", !.run = client[c].run,
                     !.verdict = SummarizeExecution(client[c].records, client[c].expected)])
    /\ UNCHANGED <<lot, txs, started, streak>>

\* The process has ended, or is killed.
Quit(c) ==
    /\ ~At(c, "idle")
    /\ Become(c, Idle)
    /\ UNCHANGED <<lot, txs, started, streak>>

Step(c) ==
    \/ StartKickRun(c) \/ PassOver(c) \/ Prepare(c) \/ InspectLots(c) \/ Quote(c) \/ Estimate(c)
    \/ Decline(c) \/ Accept(c) \/ StartSettle(c) \/ StartSweep(c)
    \/ CheckOutbox(c) \/ BaseFeeCapSkip(c) \/ Send(c) \/ Report(c) \/ Await(c) \/ Raise(c)
    \/ Finish(c) \/ Quit(c)

Next ==
    /\ UNCHANGED market
    /\ \/ \E c \in Clients : Step(c)
       \/ \E t \in DOMAIN txs : Mine(t)
       \/ \E p \in Pairs : Buy(p) \/ Expire(p) \/ ResolveElsewhere(p) \/ Donate(p)

Spec == Init /\ [][Next]_vars

----------------------------------------------------------------------------
(* Properties.                                                             *)

TypeOK ==
    /\ lot \in [Pairs -> {"clean", "live", "sold", "leftover", "empty", "donated"}]
    /\ \A t \in DOMAIN txs :
         /\ txs[t].op \in {"kick", "resolve", "sweep"} /\ txs[t].pair \in Pairs
         /\ txs[t].state \in {"pool", "ok", "reverted"} /\ txs[t].why \subseteq Reasons
         /\ txs[t].round # "none" => txs[t].op = "kick" /\ txs[t].state = "ok"
    /\ \A p \in Pairs : Cardinality(OpenRounds(p)) > 0 => lot[p] # "clean"
    /\ \A c \in Clients : client[c].next \in 1 .. Len(client[c].ops) \union {1}

\* The guard decides when an action is prepared (KickPlanner.plan), on what the
\* server has heard of; reports are delivered later (flush_pending), and the
\* decision is not taken again.  So RetryTotal + 1 rounds in a row without a fill
\* are not the limit: each client that kicks the pair may add an unreported kick,
\* one with an action in its hands, and one that was in the pool when another
\* client's round was filled: it is the older of the two, and the guard looks at
\* nothing older than a fill (classify_pair_operations).  There are never more.
Kickers(p) == {txs[t].by : t \in {u \in DOMAIN txs : txs[u].op = "kick" /\ txs[u].pair = p}}
StreakBounded ==
    \A p \in Pairs : \/ streak[p] = {}
                     \/ Cardinality(streak[p]) < RetryTotal + 3 * Cardinality(Kickers(p))

\* A kick lands on the unsold tokens of an earlier round only if it spent a round's
\* time past the prompt or in the pool, or if the planner could not read which
\* tokens to look at (inspect_auction_settlements); never because a prepared
\* action was confirmed late.
NoKickOverLeftovers ==
    \A t \in DOMAIN txs : txs[t].over = "leftover" => txs[t].why \intersect {"late", "unread"} # {}

\* A run acts on an auction once: what it resolves, or kicks, it does not kick
\* again on evidence that is older than its own action (terminal_auction_addresses).
OneActionPerAuction ==
    \A t, u \in DOMAIN txs :
        (t < u /\ txs[t].by = txs[u].by /\ txs[t].run = txs[u].run
           /\ AuctionOf(txs[t].pair) = AuctionOf(txs[u].pair)) =>
            txs[t].op = "resolve" /\ txs[u].op = "resolve" /\ txs[t].pair # txs[u].pair

\* Through timeouts, crashes and new commands a client never sends while an
\* earlier transaction of its own is unresolved.
StopsWhilePending ==
    \A t, u \in DOMAIN txs : t < u /\ txs[t].by = txs[u].by => txs[t].state # "pool"

\* Exit codes (docs/cli-reference.md): "confirmed" means that everything the
\* command sent was mined and succeeded, "noop" that it sent nothing, however it
\* was interrupted.
VerdictsAreTrue ==
    \A c \in Clients :
        LET sent == {t \in Own(c) : txs[t].run = client[c].run} IN
        /\ client[c].verdict = "confirmed" => sent # {} /\ \A t \in sent : txs[t].state = "ok"
        /\ client[c].verdict = "noop" => sent = {}

\* The auction that an operator is asked to confirm starts no lower than the
\* buffered quote (encode_starting_price_raw), up to what is lost when its price per
\* token is rounded to a unit of 1/Wad, half a unit for each token of the lot, and
\* when the ask of the lot is rounded down.
OpensAboveQuote ==
    \A c \in Clients : (At(c, "review") /\ client[c].kick # None) =>
        LET v == market.view
            lost == 1 + CeilDiv(Available(v), 2 * Wad * WantScaler(v))
        IN  (LotAsk(v, client[c].kick.start, 0) + lost) * Bps >= BufferedQuote(v)

\* And it can be filled (prepare_kick): before it ends it passes a price between
\* the minimum and the trusted quote, unless a step of the pricing profile is wider
\* than its minimum buffer.
OffersCanFill ==
    \A c \in Clients : (At(c, "review") /\ client[c].kick # None) =>
        LET v == market.view
            kick == client[c].kick
            Ask(n) == LotAsk(v, kick.start, n)
        IN  v.decay < v.minBuffer =>
              \E n \in 0 .. Steps(v) : LotAt(v, kick.minimum) <= Ask(n) /\ Ask(n) <= FloorQuote(v)

\* The minimum of a kick never rests on a single quote, where the profile guards
\* against outliers and two providers quoted less (_select_floor_quote_amount_raw).
MinimumIsBacked ==
    \A c \in Clients : (At(c, "review") /\ client[c].kick # None) =>
        LET v == market.view
            lower   == {n \in DOMAIN v.providers : v.providers[n] \in 1 .. v.quote - 1}
            backing == {n \in DOMAIN v.providers : v.providers[n] >= LotAt(v, client[c].kick.minimum)}
        IN  v.outlierFloor /\ Cardinality(lower) >= 2 => Cardinality(backing) >= 2

\* The prices an operator is asked to confirm: the three together.
PricesAreSound == OpensAboveQuote /\ OffersCanFill /\ MinimumIsBacked

\* Policies hold for every kick that is sent, whichever way its candidate got into
\* the queue: deferred behind another one of its auction, or listed because its
\* retries were exhausted (_candidate_review_queue).
PolicyRespected ==
    \A t \in DOMAIN txs : txs[t].op = "kick" =>
        \E cand \in Candidates :
            /\ PairOf(cand) = txs[t].pair /\ cand \in Eligible(market, Candidates)
            /\ ~Ignored(market, cand) /\ ~Cooling(market, cand)
            /\ GaugeAlive(market, cand) \/ "gauge" \in txs[t].why
=============================================================================
