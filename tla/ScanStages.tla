------------------------------ MODULE ScanStages ------------------------------
(***************************************************************************)
(* One scan after the other against a moving chain: the cached mapping,    *)
(* guard status and enabled tokens it refreshes, and the transactions it   *)
(* sends when started with --auto-settle or --auto-enable-tokens           *)
(* (ScannerService._run_scan, StrategyAuctionMapper,                       *)
(* AuctionSettlementService, AuctionTokenEnablementService).               *)
(*                                                                         *)
(* A stage reads, then commits, so the chain may move between any two of   *)
(* them; the wait for a receipt alone may take two minutes.  Any read may  *)
(* fail, and where the code does not catch that, the scan is aborted.      *)
(***************************************************************************)
EXTENDS Naturals, Sequences, FiniteSets, SequencesExt

CONSTANTS Sources,   \* strategies and fee burners
          Auctions, Tokens, None,
          MaxScans,  \* bound: scans
          MaxMoves   \* bound: moves of other actors on the chain

ASSUME BoundsAssumption ==
    /\ None \notin Auctions /\ IsFiniteSet(Auctions) /\ IsFiniteSet(Tokens)
    /\ MaxScans \in Nat /\ MaxMoves \in Nat

VARIABLES
    listed,   \* chain: the auction the factories list for a source's want and receiver
    owned,    \* chain: auctions governed by the trade handler
    enabled,  \* chain: enabled tokens of an auction
    lot,      \* chain: state of a token's lot in an auction
    killed,   \* chain: sources whose gauge is killed
    pool,     \* transactions of the scanner, in the order sent
    moves,    \* moves of others so far
    mapping,  \* strategies and fee_burners: auction_address
    guard,    \* kick_guard_status_latest: disabled
    cache,    \* auction_enabled_tokens_latest: active
    rows,     \* kick_txs written by scans
    runs,     \* scan_runs.status
    scan,     \* the scan in progress
    lost,     \* history: <<transaction, token>> whose sender died or saw no answer
    withdrawn \* history: pairs others disabled since the auction was last read

chainVars == <<listed, owned, enabled, lot, killed, moves, withdrawn>>
dbVars    == <<mapping, guard, cache>>
vars == <<chainVars, dbVars, pool, rows, runs, scan, lost>>

Pairs == Auctions \X Tokens
Quiet == [at |-> "idle", settle |-> FALSE, enable |-> FALSE, fresh |-> FALSE,
          factory |-> {}, unread |-> {}, seen |-> {}, todo |-> <<>>, batch |-> <<>>,
          op |-> "none", due |-> {}, tx |-> 0, left |-> <<>>, failed |-> FALSE]
Run == Len(runs)

Init ==
    /\ listed \in [Sources -> Auctions \union {None}]
    /\ owned = Auctions
    /\ \E E \in SUBSET Tokens : enabled = [a \in Auctions |-> E]
    /\ lot = [p \in Pairs |-> "clean"]
    /\ killed = {} /\ pool = <<>> /\ moves = 0 /\ withdrawn = {}
    /\ mapping = [s \in Sources |-> None]
    /\ guard = [s \in Sources |-> FALSE]
    /\ cache = [a \in Auctions |-> {}]
    /\ rows = {} /\ runs = <<>> /\ scan = Quiet /\ lost = {}

At(stage)   == scan.at = stage
Mapped      == {mapping[s] : s \in Sources} \ {None}
SourceOf(a) == CHOOSE s \in Sources : mapping[s] = a
Goto(stage) == scan' = [scan EXCEPT !.at = stage]
Row(op, pair, status, tx) ==
    [run |-> Run, op |-> op, auction |-> pair[1], token |-> pair[2], status |-> status, tx |-> tx]

----------------------------------------------------------------------------
(* scan_once and the stages that only read the chain.                      *)

Begin ==
    /\ At("idle") /\ Len(runs) < MaxScans
    /\ runs' = Append(runs, "RUNNING")
    /\ \E settle, enable \in BOOLEAN :
         scan' = [Quiet EXCEPT !.at = "map", !.settle = settle, !.enable = enable]
    /\ UNCHANGED <<chainVars, dbVars, pool, rows, lost>>

\* refresh_for_strategies: a source whose want cannot be read gets no auction;
\* any other failed read keeps the cached mapping, which is then not fresh.
MapAuctions ==
    /\ At("map")
    /\ \/ \E readable \in SUBSET Sources :
            /\ mapping' = [s \in Sources |->
                   IF s \in readable /\ listed[s] \in owned THEN listed[s] ELSE None]
            /\ scan' = [scan EXCEPT !.at = "guards", !.fresh = TRUE,
                            !.factory = {listed[s] : s \in readable} \intersect owned]
       \/ Goto("guards") /\ UNCHANGED mapping
    /\ UNCHANGED <<chainVars, guard, cache, pool, rows, runs, lost>>

\* _refresh_kick_guard_status: unknown counts as not disabled.
CheckGuards ==
    /\ At("guards")
    /\ \E known \in SUBSET Sources :
         guard' = [s \in Sources |-> mapping[s] # None /\ s \in known /\ s \in killed]
    /\ Goto("enabled")
    /\ UNCHANGED <<chainVars, mapping, cache, pool, rows, runs, lost>>

\* Mutation: a read adds to the cache and takes nothing out.
ReadAddsOnly ==
    /\ At("enabled")
    /\ \/ \E unread \in SUBSET Mapped :
            /\ cache' = [a \in Auctions |->
                   IF a \in Mapped \ unread THEN cache[a] \union enabled[a] ELSE cache[a]]
            /\ scan' = [scan EXCEPT !.at = "settle", !.unread = unread,
                   !.seen = {p \in Pairs : p[1] \in Mapped \ unread /\ p[2] \in enabled[p[1]]}]
            /\ withdrawn' = {p \in withdrawn : p[1] \notin Mapped \ unread}
       \/ Goto("settle") /\ UNCHANGED <<cache, withdrawn>>
    /\ UNCHANGED <<listed, owned, enabled, lot, killed, moves, mapping, guard, pool, rows, runs, lost>>

\* getAllEnabledAuctions of every mapped auction: one of them may fail, or all.
ReadEnabled ==
    /\ At("enabled")
    /\ \/ \E unread \in SUBSET Mapped :
            /\ cache' = [a \in Auctions |->
                   IF a \in Mapped \ unread THEN enabled[a] ELSE cache[a]]
            /\ scan' = [scan EXCEPT !.at = "settle", !.unread = unread,
                   !.seen = {p \in Pairs : p[1] \in Mapped \ unread /\ p[2] \in enabled[p[1]]}]
            /\ withdrawn' = {p \in withdrawn : p[1] \notin Mapped \ unread}
       \/ Goto("settle") /\ UNCHANGED <<cache, withdrawn>>
    /\ UNCHANGED <<listed, owned, enabled, lot, killed, moves, mapping, guard, pool, rows, runs, lost>>

----------------------------------------------------------------------------
(* AuctionKicker and the auctions, as far as these transactions go.        *)

Resolvable(state) == state \in {"sold out", "stranded"}
NeedsForce(state) == state = "live"

\* resolveAuction(auction, token, forceLive) and enableTokens(auction, tokens); a
\* token that is enabled already fails the whole batch.
Reverts(op, a, ts) ==
    \/ a \notin owned
    \/ op = "enable" /\ ts \intersect enabled[a] # {}
    \/ op = "resolve" /\ \E t \in ts : NeedsForce(lot[a, t])

\* The gas limit, an estimate capped at max_gas_limit, may be too low for either.
Mine(n) ==
    LET tx == pool[n]
        may == ~Reverts(tx.op, tx.auction, tx.tokens) \/ (tx.force /\ tx.auction \in owned)
    IN  /\ tx.state = "pending"
        /\ \/ pool' = [pool EXCEPT ![n].state = "reverted"] /\ UNCHANGED <<lot, enabled>>
           \/ /\ may /\ pool' = [pool EXCEPT ![n].state = "ok"]
              /\ lot' = [p \in Pairs |->
                     IF tx.op = "resolve" /\ p[1] = tx.auction /\ p[2] \in tx.tokens
                     THEN "clean" ELSE lot[p]]
              /\ enabled' = [a \in Auctions |->
                     IF tx.op = "enable" /\ a = tx.auction
                     THEN enabled[a] \union tx.tokens ELSE enabled[a]]
        /\ UNCHANGED <<listed, owned, killed, moves, withdrawn, dbVars, rows, runs, scan, lost>>

Moves(from) ==
    CASE from = "clean"    -> {"live", "stranded"}      \* kicked, or tokens sent in
      [] from = "live"     -> {"sold out", "stranded"}  \* taken, or expired
      [] from = "sold out" -> {"clean", "empty"}        \* settled, or expired
      [] from = "stranded" -> {"live"}
      [] from = "empty"    -> {"live"}

\* The governance of an auction enables and disables its tokens; without its state
\* an unsold lot is stranded.
EnableToken(p) ==
    /\ p[2] \notin enabled[p[1]]
    /\ enabled' = [enabled EXCEPT ![p[1]] = @ \union {p[2]}]
    /\ UNCHANGED <<lot, withdrawn>>

DisableToken(p) ==
    /\ p[2] \in enabled[p[1]]
    /\ enabled' = [enabled EXCEPT ![p[1]] = @ \ {p[2]}]
    /\ lot' = [lot EXCEPT ![p] = IF @ \in {"live", "stranded"} THEN "stranded" ELSE "clean"]
    /\ withdrawn' = withdrawn \union {p}

\* Kicks, takes, expiries, deployments, governance and gauges: not the scanner.
Elsewhere ==
    /\ moves < MaxMoves /\ moves' = moves + 1
    /\ \/ /\ \E p \in Pairs : \E to \in Moves(lot[p]) :
                /\ to = "live" => p[2] \in enabled[p[1]]
                /\ lot' = [lot EXCEPT ![p] = to]
          /\ UNCHANGED <<listed, owned, enabled, withdrawn, killed>>
       \/ /\ \E p \in Pairs : EnableToken(p) \/ DisableToken(p)
          /\ UNCHANGED <<listed, owned, killed>>
       \/ /\ \E s \in Sources, a \in Auctions : listed' = [listed EXCEPT ![s] = a]
          /\ UNCHANGED <<lot, owned, enabled, withdrawn, killed>>
       \/ /\ \E a \in owned : owned' = owned \ {a}
          /\ UNCHANGED <<lot, listed, enabled, withdrawn, killed>>
       \/ /\ \E s \in Sources : killed' = {s} \ killed
          /\ UNCHANGED <<lot, listed, owned, enabled, withdrawn>>
    /\ UNCHANGED <<dbVars, pool, rows, runs, scan, lost>>

----------------------------------------------------------------------------
(* settle_stale_auctions.                                                  *)

\* Mutation: resolveAuction(..., True).
ForcedAlways == TRUE

Forced == FALSE   \* resolveAuction(..., False)

\* previewResolveAuction of the enabled tokens of the auctions that can be read.
Previewed(readable) ==
    {p \in Pairs : p[1] \in readable /\ p[2] \in enabled[p[1]] /\ Resolvable(lot[p])}

\* An auction one of whose previews fails is left alone; a failed read of its
\* enabled tokens leaves nothing to preview.  Fees may postpone everything.
InspectLots ==
    /\ At("settle")
    /\ \E readable \in SUBSET Mapped, postponed \in BOOLEAN :
         LET found == Previewed(readable)
         IN  scan' = IF scan.settle /\ ~postponed /\ found # {}
                     THEN [scan EXCEPT !.at = "next lot", !.todo = SetToSeq(found), !.op = "resolve"]
                     ELSE [scan EXCEPT !.at = "balances"]
    /\ UNCHANGED <<chainVars, dbVars, pool, rows, runs, lost>>

\* Gas is estimated for one lot at a time, after the previous one's receipt.
NextLot ==
    /\ At("next lot")
    /\ \/ /\ scan.todo = <<>>
          /\ Goto("balances") /\ UNCHANGED rows
       \/ /\ scan.todo # <<>>
          /\ Forced \/ ~Reverts("resolve", Head(scan.todo)[1], {Head(scan.todo)[2]})
          /\ scan' = [scan EXCEPT !.at = "send", !.batch = <<Head(scan.todo)>>, !.todo = Tail(@)]
          /\ UNCHANGED rows
       \/ /\ scan.todo # <<>>
          /\ rows' = rows \union {Row("resolve", Head(scan.todo), "ESTIMATE_FAILED", 0)}
          /\ scan' = [scan EXCEPT !.todo = Tail(@)]
    /\ UNCHANGED <<chainVars, dbVars, pool, runs, lost>>

----------------------------------------------------------------------------
(* A transaction of either service: sign and send, insert its rows, wait.  *)

Then == IF scan.op = "resolve" THEN "next lot" ELSE "next token"
Tx   == [op |-> scan.op, auction |-> Head(scan.batch)[1], state |-> "pending",
         tokens |-> {p[2] : p \in ToSet(scan.batch)}, force |-> Forced /\ scan.op = "resolve"]
\* Mutation: a failed send is recorded like any other.
RowsAsSubmitted(status, n) == {Row(scan.op, p, "SUBMITTED", n) : p \in ToSet(scan.batch)}

RowsOf(status, n) == {Row(scan.op, p, status, n) : p \in ToSet(scan.batch)}

\* send_raw_transaction retries; its exception may hide a transaction that the
\* node took.  Such a transaction is recorded as an ERROR without a hash.
Send ==
    /\ At("send")
    /\ \/ /\ pool' = Append(pool, Tx)
          /\ scan' = [scan EXCEPT !.at = "insert", !.tx = Len(pool) + 1, !.left = scan.batch]
          /\ UNCHANGED <<rows, lost>>
       \/ /\ \/ pool' = pool /\ lost' = lost
             \/ /\ pool' = Append(pool, Tx)
                /\ lost' = lost \union {<<Len(pool) + 1, p[2]>> : p \in ToSet(scan.batch)}
          /\ rows' = rows \union RowsOf("ERROR", 0)
          /\ scan' = [scan EXCEPT !.at = Then, !.batch = <<>>]
    /\ UNCHANGED <<chainVars, dbVars, runs>>

\* Mutation: one row for a batch.
InsertFirst ==
    /\ At("insert")
    /\ rows' = rows \union {Row(scan.op, Head(scan.left), "SUBMITTED", scan.tx)}
    /\ scan' = [scan EXCEPT !.at = "wait", !.left = <<>>]
    /\ UNCHANGED <<chainVars, dbVars, pool, runs, lost>>

\* KickTxRepository.insert commits each row.
InsertRow ==
    /\ At("insert")
    /\ rows' = rows \union {Row(scan.op, Head(scan.left), "SUBMITTED", scan.tx)}
    /\ scan' = [scan EXCEPT !.at = IF Len(scan.left) = 1 THEN "wait" ELSE @, !.left = Tail(@)]
    /\ UNCHANGED <<chainVars, dbVars, pool, runs, lost>>

\* Mutation: the cache is updated whatever the receipt says.
ObserveAnyReceipt ==
    /\ At("wait") /\ pool[scan.tx].state # "pending"
    /\ rows' = {IF r.tx # scan.tx THEN r
                ELSE [r EXCEPT !.status = IF pool[scan.tx].state = "ok" THEN "CONFIRMED" ELSE "REVERTED"]
                : r \in rows}
    /\ cache' = [cache EXCEPT ![Tx.auction] = @ \union (IF scan.op = "enable" THEN Tx.tokens ELSE {})]
    /\ scan' = [scan EXCEPT !.at = Then, !.batch = <<>>, !.tx = 0]
    /\ UNCHANGED <<chainVars, mapping, guard, pool, runs, lost>>

Settled(status) ==
    rows' = {IF r.tx = scan.tx THEN [r EXCEPT !.status = status] ELSE r : r \in rows}

\* Confirmed tokens go straight into the cache.
ObserveReceipt ==
    /\ At("wait") /\ pool[scan.tx].state # "pending"
    /\ \/ /\ pool[scan.tx].state = "ok" /\ Settled("CONFIRMED")
          /\ cache' = IF scan.op = "enable"
                      THEN [cache EXCEPT ![Tx.auction] = @ \union Tx.tokens] ELSE cache
       \/ /\ pool[scan.tx].state = "reverted" /\ Settled("REVERTED")
          /\ UNCHANGED cache
    /\ scan' = [scan EXCEPT !.at = Then, !.batch = <<>>, !.tx = 0]
    /\ UNCHANGED <<chainVars, mapping, guard, pool, runs, lost>>

\* No receipt in time, or evidence of a settlement that cannot be reconciled.
ReceiptTimeout ==
    /\ At("wait")
    /\ scan' = [scan EXCEPT !.at = Then, !.batch = <<>>, !.tx = 0]
    /\ UNCHANGED <<chainVars, dbVars, pool, rows, runs, lost>>

----------------------------------------------------------------------------
(* Balances, and enable_missing_tokens.                                    *)

ReadBalances ==
    /\ At("balances")
    /\ \E positive \in SUBSET {p \in Pairs : p[1] \in Mapped}, failed \in BOOLEAN :
         scan' = [scan EXCEPT !.at = "enable", !.due = positive, !.failed = failed, !.op = "enable"]
    /\ UNCHANGED <<chainVars, dbVars, pool, rows, runs, lost>>

\* normalized_enabled iterates over the tokens of every auction that was read;
\* for one whose read failed they are None.
Iterable == scan.unread = {}

\* Mutation: the cached mapping is good enough.
FromCache == TRUE

\* A token is due on an auction that the factories listed in this scan, that is
\* still governed by the trade handler, whose state says it is not enabled and
\* whose enable() does not fail.  Any of those reads may fail; fees may
\* postpone the rest.
FactoryVerified == scan.fresh
Eligible == {p \in scan.due \ scan.seen : p[1] \in owned /\ p[2] \notin enabled[p[1]]}

SelectTokens ==
    /\ At("enable")
    /\ IF ~scan.enable \/ scan.due = {}
       THEN Goto("prices")
       ELSE /\ Iterable
            /\ \E due \in SUBSET (IF FactoryVerified THEN Eligible ELSE {}) :
                 scan' = [scan EXCEPT !.at = "next token", !.due = due, !.todo = SetToSeq(due)]
    /\ UNCHANGED <<chainVars, dbVars, pool, rows, runs, lost>>

\* _enable_auction_batches: a batch grows while it can be estimated below the
\* gas limit; otherwise what there is goes out and the token starts a new one.
\* Any estimate may fail, or come out above the limit.
SameAuction == scan.batch # <<>> => Head(scan.batch)[1] = Head(scan.todo)[1]
GrowBatch ==
    /\ At("next token") /\ scan.todo # <<>> /\ SameAuction
    /\ ~Reverts("enable", Head(scan.todo)[1], {p[2] : p \in ToSet(Append(scan.batch, Head(scan.todo)))})
    /\ scan' = [scan EXCEPT !.batch = Append(@, Head(scan.todo)), !.todo = Tail(@)]
    /\ UNCHANGED <<chainVars, dbVars, pool, rows, runs, lost>>

\* Mutation: the token that did not fit is forgotten.
FlushAndDrop ==
    /\ At("next token") /\ scan.batch # <<>>
    /\ scan' = [scan EXCEPT !.at = "send", !.todo = IF @ = <<>> THEN @ ELSE Tail(@)]
    /\ UNCHANGED <<chainVars, dbVars, pool, rows, runs, lost>>

FlushBatch ==
    /\ At("next token") /\ scan.batch # <<>>
    /\ Goto("send")
    /\ UNCHANGED <<chainVars, dbVars, pool, rows, runs, lost>>

FailToken ==
    /\ At("next token") /\ scan.batch = <<>> /\ scan.todo # <<>>
    /\ rows' = rows \union {Row("enable", Head(scan.todo), "ESTIMATE_FAILED", 0)}
    /\ scan' = [scan EXCEPT !.todo = Tail(@)]
    /\ UNCHANGED <<chainVars, dbVars, pool, runs, lost>>

AllEnabled ==
    /\ At("next token") /\ scan.batch = <<>> /\ scan.todo = <<>>
    /\ Goto("prices")
    /\ UNCHANGED <<chainVars, dbVars, pool, rows, runs, lost>>

----------------------------------------------------------------------------
(* The end of a scan.                                                      *)

\* determine_scan_status, with no pair left when every token's metadata failed.
Finish ==
    /\ At("prices")
    /\ \E status \in IF scan.failed THEN {"FAILED", "PARTIAL_SUCCESS"} ELSE {"SUCCESS"} :
         runs' = [runs EXCEPT ![Run] = status]
    /\ scan' = Quiet
    /\ UNCHANGED <<chainVars, dbVars, pool, rows, lost>>

\* What a stage does not catch ends the scan: discovery, lot previews, the nonce,
\* the block number, price storage, and the iteration over unread tokens.
Raises ==
    \/ scan.at \in {"map", "settle", "send", "balances", "prices"}
    \/ At("enable") /\ scan.enable /\ scan.due # {} /\ ~Iterable

Abort ==
    /\ Raises
    /\ runs' = [runs EXCEPT ![Run] = "FAILED"]
    /\ scan' = Quiet
    /\ UNCHANGED <<chainVars, dbVars, pool, rows, lost>>

Crash ==
    /\ ~At("idle")
    /\ lost' = lost \union {<<scan.tx, p[2]>> : p \in ToSet(scan.left)}
    /\ scan' = Quiet
    /\ UNCHANGED <<chainVars, dbVars, pool, rows, runs>>

Next ==
    \/ Begin \/ MapAuctions \/ CheckGuards \/ ReadEnabled \/ InspectLots \/ NextLot
    \/ Send \/ InsertRow \/ ObserveReceipt \/ ReceiptTimeout
    \/ ReadBalances \/ SelectTokens \/ GrowBatch \/ FlushBatch \/ FailToken \/ AllEnabled
    \/ Finish \/ Abort \/ Crash \/ Elsewhere
    \/ \E n \in DOMAIN pool : Mine(n)

Spec == Init /\ [][Next]_vars

----------------------------------------------------------------------------
(* Properties.                                                             *)

Statuses == {"SUBMITTED", "CONFIRMED", "REVERTED", "ERROR", "ESTIMATE_FAILED"}

TypeOK ==
    /\ listed \in [Sources -> Auctions \union {None}] /\ owned \subseteq Auctions
    /\ enabled \in [Auctions -> SUBSET Tokens] /\ cache \in [Auctions -> SUBSET Tokens]
    /\ lot \in [Pairs -> {"clean", "live", "sold out", "stranded", "empty"}]
    /\ mapping \in [Sources -> Auctions \union {None}] /\ guard \in [Sources -> BOOLEAN]
    /\ withdrawn \subseteq Pairs
    /\ \A r \in rows : r.status \in Statuses /\ (r.tx = 0 <=> r.status \in {"ERROR", "ESTIMATE_FAILED"})
    /\ ToSet(runs) \subseteq {"RUNNING", "SUCCESS", "PARTIAL_SUCCESS", "FAILED"}

\* However old the preview, a resolution sent by the scanner never ends a round
\* that still has tokens for sale (settle_stale_auctions, forceLive = false).
LiveLotsAreLeftAlone ==
    [][\A p \in Pairs : lot[p] = "live" => lot'[p] # "clean"]_vars

\* Tokens are enabled only on auctions that this very scan found in a factory,
\* never on the strength of a cached mapping (factory_verified).
EnablesOnlyListed ==
    [][\A n \in DOMAIN pool' \ DOMAIN pool :
        pool'[n].op = "enable" => pool'[n].auction \in scan.factory]_vars

\* Each token of a transaction has its row unless the sender died before it was
\* written or saw no answer, no other token has one, and rows tell the outcome.
RowsTellTheTransactions ==
    /\ \A n \in DOMAIN pool : \A t \in pool[n].tokens :
         \/ <<n, t>> \in lost
         \/ At("insert") /\ scan.tx = n /\ \E p \in ToSet(scan.left) : p[2] = t
         \/ \E r \in rows : r.tx = n /\ r.token = t
    /\ \A r \in rows : r.tx # 0 => r.token \in pool[r.tx].tokens
    /\ \A r \in rows :
         /\ r.status = "CONFIRMED" => pool[r.tx].state = "ok"
         /\ r.status = "REVERTED"  => pool[r.tx].state = "reverted"

\* However estimates and sends go, the batches of a scan account for every token
\* it set out to enable, each exactly once (_enable_auction_batches).
EveryTokenAccounted ==
    (At("prices") /\ scan.enable) =>
        \A p \in scan.due :
            Cardinality({r \in rows : r.run = Run /\ r.op = "enable"
                                      /\ r.auction = p[1] /\ r.token = p[2]}) = 1

\* Whatever the scanner does on the chain is in kick_txs, once and with its outcome:
\* RowsTellTheTransactions and EveryTokenAccounted.
RowsAreTrue == RowsTellTheTransactions /\ EveryTokenAccounted

\* What the cache wrongly shows as enabled, others have disabled since the scanner
\* last read the auction: neither a receipt (mark_tokens_enabled) nor a read that
\* replaces what was cached leaves anything else behind.
CacheIsSound ==
    \A a \in Auctions : \A t \in cache[a] \ enabled[a] : <<a, t>> \in withdrawn

\* The test at tests/integration/test_scanner_service.py:817 has a scan end in
\* SUCCESS (918) although the enabled tokens could not be read (944): so no scan
\* should be aborted for that when it comes to enabling tokens.
UnreadTokensDoNotAbort == [][At("enable") => runs' = runs]_vars
=============================================================================
