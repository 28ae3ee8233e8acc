# A verification of Tidal's rounds, ledgers and signers

Tidal sells the reward tokens of yield strategies through on-chain auctions. A scanner reads balances
and keeps a cache of what is on the chain; a control plane (an HTTP API) decides which (auction, token)
pair may be *kicked* and prepares the transaction; an operator's command-line client signs and sends it, and
reports it back. Receipts and logs become rows of `kick_txs`, and the classification of those rows decides
whether a pair may be kicked again. The scanner can also sign: it settles stale auctions and enables tokens.

The questions that carry the risk, and the modules that ask them:

1. Does the client ever sign what it must not, or lose a hash it has signed? (`ClientBroadcast`, `SerialSender`)
2. Does the ledger of rounds let automation through on wrong evidence? (`AuctionRounds`, `RoundLedger`)
3. Do the control plane's two ledgers of one transaction agree? (`ActionLedger`)
4. How old may a decision be when it is sent, and what follows from that? (`KickRun`, `KickEngine`)
5. Do the scanner's transactions and alerts survive failing reads, lost answers and crashes?
   (`ScanStages`, `ScanAlerts`)
6. Can what an operator is asked to sign work at all: prices, batches, deployments? (`KickPricing`,
   `EnableTokens`, `AuctionFleet`)

Paths below are under `src/`, those of Python modules under `src/tidal/`.

## 1. Inventory

| Component | State | Hard behaviour | Correct when | Modelled by |
|---|---|---|---|---|
| Broadcasting client `operator_cli_support.py` | action, index, nonce of one run | crash between any two steps, lost answers, two processes | nothing is signed while something is unresolved; a hash is kept until its receipt was seen | `ClientBroadcast` |
| Client outbox `control_plane/outbox.py` | SQLite rows | shared without a lock, survives crashes | no row is lost | `ClientBroadcast` |
| Control-plane client `control_plane/client.py` | none | lost requests and answers | | `ClientBroadcast`, partly |
| Round classification `auction_rounds.py` | none | order, missing and contradictory evidence | verdicts agree with what was sold | `AuctionRounds` |
| Operation reconciler `operation_reconciler.py` | `kick_txs` | several processes, reads before awaits | rows converge to the chain | `RoundLedger`, partly |
| Round repair `auction_round_repair.py`, `server_cli.py` | baselines | a decision is written after it was read | no open round is written off unseen | `RoundLedger` |
| `contracts/src/AuctionKicker.sol` | kicked, active, balance, enabled | the state met when mined | (environment) | several, partly |
| Persistence `persistence/` | tables | sessions, stale reads | (part of the others) | several, partly |
| Action audit `api/services/action_audit.py` | `api_actions`, its transactions, `kick_txs` | replayed reports overlap receipts | status follows verified receipts, both ledgers agree | `ActionLedger` |
| Receipt loop `api/services/action_reconcile.py` | `updated_at` | starvation, RPC failure | every mined hash is verified in the end | `ActionLedger` |
| Kick engine `transaction_service/service.py`, `kick_execute.py` | run row, lock file, `kick_txs` | crash between send and insert, failure paths, batches | one live run at a time, rows and totals tell what was sent | `KickEngine` |
| Planning `transaction_service/planner.py`, `evaluator.py`, `kick_policy.py`, `kick_prepare.py` | none | order of filters, integer rounding | policies hold for what is sent; what is offered can be bought | `KickShortlist`, `KickPricing`, `KickRun`, partly |
| Preparation `api/services/action_prepare.py` (partly) | prepared actions | decisions get old | an old decision is not sent | `KickRun`, `EnableTokens`, `AuctionFleet` |
| `kick run` `kick_cli.py`, `execution_result.py` | review queue | prompts, errors half-way | one action per auction, true exit codes | `KickRun` |
| Alerts `alerts/` | `alert_deliveries` | crash between send and commit, moving windows | bounded attempts, no failure unannounced | `ScanAlerts`, `BoundedDelivery` |
| Scanner `scanner/service.py`, `auction_mapper.py`, ... | scan run, cached mapping, guard, enabled tokens | partly failing reads, aborts | the cache is sound, rows are true | `ScanStages`, partly |
| Settlement `scanner/auction_settler.py`, `auction_settlement.py` | `kick_txs` | preview against a moving chain | no round that still sells is ended | `ScanStages`, `KickRun` |
| Token enabling `scanner/auction_token_enabler.py`, `ops/auction_enable.py` | cache of enabled tokens | cut batches, failed probes | every selected token enabled, once | `ScanStages`, `EnableTokens` |
| Pricing `auction_price_units.py`, `pricing/` | cached prices | rounding in three places | see planning | `KickPricing`, partly |
| Deployment and migration `auction_migration/`, `ops/deploy.py`, `api/services/deployment_rpc.py` | cache file, slots | runs that die or time out, cancelled callers | nothing recreated twice, no slot lost | `AuctionFleet`, partly |
| Command-line front ends, configuration | none | | | the commands that act, through the modules above |
| Chain access `chain/` | none | timeouts, retries | | as its users see it |
| Read models and dashboard; authentication | none | | | not modelled |

How they interact. The client posts broadcasts and receipts to the API, which inserts `kick_txs` rows and
finalises receipts; the API's loop, the engine and the scanner finalise and repair the same rows through one SQLite
database; preparation reads them through `NoFillGuard`. The client and the server share nothing but
HTTP, client processes of one machine share the outbox file, and the migration script has nothing but its cache file.
PROJECT.json lists the hazards at their lines, with the properties about each.

## 2. Modules

| Module | Models |
|---|---|
| `SerialSender` | abstract: what the client promises about sending |
| `ClientBroadcast` | `broadcast_prepared_action`, `_reconcile_saved_submissions`, `_send_action_report`, the outbox |
| `AuctionRounds` | operators: `classify_round`, `_classify_pair_rounds`, `NoFillGuard.decide`, clear suspension |
| `RoundLedger` | the chain of one pair, `kick_txs`, the reconciler, repair, `tidal-server db` |
| `ActionLedger` | `record_broadcast`, `record_verified_receipt`, `ensure_action_operations`, the receipt loop |
| `BoundedDelivery` | abstract: what the alert dispatcher promises |
| `ScanAlerts` | the end of a scan, `AlertService.evaluate`, `AlertDispatcher.dispatch` |
| `ScanStages` | the stages of a scan, its caches and its transactions |
| `KickShortlist` | operators: `build_shortlist` and the policies |
| `KickPricing` | operators: `prepare_kick` and `auction_price_units.py` |
| `KickRun` | `tidal kick run`, `auction settle`, `auction sweep` with their preparation on the server |
| `KickEngine` | `TxnService.run_once`, batches, `KickExecutor` |
| `EnableTokens` | `tidal auction enable-tokens` |
| `AuctionFleet` | migration, deployments, the factories, the mapping they lead to |
| `MC*` | instances for model checking, described under Runs |
| `ClientBroadcastProofs`, `RoundLedgerProofs`, `ActionLedgerProofs`, `ScanAlertsProofs`, `ScanStagesProofs`, `KickRunProofs`, `AuctionFleetProofs` | theorems about the module each is named after; `ScanStagesProofs` also about `KickEngine` and `MCScanStages`, `ActionLedgerProofs` about `EnableTokens` and `MCActionLedger` |
| `SequenceLemmas` | lemmas on sequences and sets of numbers that the proofs share |

`KickRun` extends `KickShortlist` and `KickPricing`; `RoundLedger` extends `AuctionRounds`. `MCScanStages` puts
`ScanStages`, `KickEngine` and `AuctionFleet` side by side, `MCActionLedger` does so with `ActionLedger` and
`EnableTokens`: in each behaviour one of them moves. Where a module needs what another one
explains, it takes the result: `KickRun` and `KickEngine` know the true verdict of the rounds they have evidence of
(`RoundLedger`), `KickRun` sends in the three steps that matter to it (`ClientBroadcast`), `ScanAlerts` takes the
outcome of a scan as an input (`ScanStages`).

### ClientBroadcast

`outbox` is the table `action_report_outbox`; `ledger` is what the control plane has recorded; `net` is
the fate of each transaction; `pc`, `todo`, `cur`, `rtype`, `ctx`, `nonce` are the locals of each client
process. `observed` and `warned` are history. Each SQLite statement, HTTP request and RPC call of the
code is one step, so a crash (`Crash`) or another process can come between any two of them.

`page` is what `pending_reports` answers with, the oldest `ReportLimit` (100) broadcast and receipt reports together: a
row that is on the page stays there until it is deleted, and which one moves up in its place is left open (`Repage`).

- `Start`, `Upgrade`, `StartFlush` and `Flush*`: the head of `broadcast_prepared_action`. Old broadcast
  reports on the page get a submission row, then the page is read again and every report on it is posted once. 4xx leaves the row and goes on
  (`FlushRejected`), no answer or 5xx stops the flush and may or may not have been recorded (`FlushBroken`).
- `StartReconcile` to `CheckBroadcasts`: `_reconcile_saved_submissions`, its limit, and the two
  counts that decide whether signing is allowed.
- `FetchNonce`, `RetainSubmission`, `Send`: sign, make the hash durable, hand it to the network. The answer
  of `send_raw_transaction` does not influence what follows, so `Send` has no failing variant: the network
  may take, delay or lose the transaction in any case.
- `QueueReport` to `PostReportFails`: `_send_action_report`. `ObserveReceipt`, `NoReceipt`, `ForgetSubmission`:
  the receipt, which may stop the loop or let it sign the next transaction.
- `Accept`, `Evict`, `Mine`: the network, external.

A transaction `<<action, index>>` stands for its hash. Rows are a set, so the delivery order of
`pending_reports` is open. Fees, gas, receipt payload and result texts are left out. An action is
prepared for one run, so two processes never broadcast the same one.

### RoundLedger

The chain part has the auction's `kicked`, `active` and `balance`, and the events in `chain`. `sold` and
`donated` are history that no row contains; the properties compare the ledger's verdicts with them. `rows` is
`kick_txs`, `job` is what a process has read and not yet written, `phase` where a scanner or the
administrator is in `repair_pairs`.

- `RecordTx`: row insertion some time after the send. A recovery is linked to the unclosed kick known then.
- `StartFinalise`/`WriteFinalised`: `finalize_receipt`. The reads and the link happen before the first write
  takes SQLite's lock, so they are two steps. `Abandon` is an RPC error, a rollback or a crash.
- `StartRepair`, `ReplayReceipt`, `ReadLinks`/`WriteLinks`, `ReadSettlement`/`InsertSettlement`:
  `repair_pairs`. `discover_direct_settlements` awaits a block between its check and its insert.
- `StartClear`/`WriteClear` (`clear-no-fill-suspension`: the rounds are read, the baseline is written later) and
  `StartApply`, the repair of the worker `Admin`, `SetBaselines` (`repair-auction-rounds --apply`). `docs/cli-server-db.md:44`
  allows an apply only while API, scanner and kick scheduling are stopped, so other workers wait (`Applying`); a clear has no such rule.

`finalize_receipt` also writes an `auction_settled` row for a settlement that it finds in a receipt
(`operation_reconciler.py:448`); none of the transactions finalised here can have one, since in a transaction of the kicker
only a resolution settles, and pairs that the same receipt resolves are passed over.

One pair; a chain position stands for (block, transaction index, `mined_at`); a kick moves `Amount` tokens.
Decoding of logs is exact. Dry-run rows and rows that were never sent have no state that matters.

### ActionLedger

`recorded` and `receipt` are `api_action_transactions` (a hash is there; its verified outcome), `status` is
`api_actions.status`, `ops` the statuses of the `kick_txs` rows of a transaction in id order, `order` the
recorded transactions by `updated_at`, `batch` what is left of the loop's pass, `job` what a worker has read and
not yet written. `chain` is the network, external.

- `StartBroadcast`, `CommitFirst`, `CommitReplay`: `record_broadcast`. SQLite takes its write lock at the first
  write of a session and reads before it may be stale. A first report writes first and reads afterwards; a
  replay computes the status from what it read before.
- `StartReceipt` (a receipt request or the scanner), `CommitReceipt`: `finalize_receipt` with
  `ensure_action_operations` and `record_verified_receipt`. What it read is the rows that exist (`seen`).
- `StartPass`, `MarkChecked`, `LookUp`, `CrashLoop`: one pass of `reconcile_pending_actions`. A hash is moved to
  the end of `order` before its lookup. `Abandon` is a failed lookup, a rollback or a crash of any worker.

`Legacy` are hashes an older server may have recorded without rows. A hash may turn out to be mined with another
transaction than the prepared one (`"mismatch"`), which changes nothing. A transaction is signed once, so it
stands for its hash and the 409 answer does not arise. One row stands for the rows a transaction has (one per
auction). Deployments, which have no rows, are left out.

### ScanAlerts and BoundedDelivery

`runs` is `scan_runs` with the errors of each run, `rows` is `alert_deliveries`, `proc` where a scanner process is, `round`
what the guard says of a pair. `received` and `cut` are history: what a destination accepted, and runs whose alerting was
interrupted. `Start`, `Finish`, `Raise` are the run's row; `Evaluate` computes the three kinds of transitions
(`RoundKeys`, `FailedKeys`, `RepeatedKeys`) with their occurrence keys; `ReadDelivery`, `CountAttempt`, `SendAccepted` or
`SendFails`, `RecordSent` are the commits of `AlertDispatcher.dispatch` with the send between them, and
`Interrupt` is a crash or the exception that `_post_commit_alerts` swallows. A send that raises may have been accepted.

`BoundedDelivery` knows attempts, deliveries and recorded successes. That a key is not *counted* again
after a success needs scans that do not overlap: the dispatcher reads a row and writes the count later, so two
overlapping scans count from the same number. Nothing in the code locks two `tidal-server scan run`; the run
has one scanner, as the documented deployment has.

### ScanStages

`listed`, `owned`, `enabled`, `lot`, `killed` are the chain, `mapping`, `guard`, `cache` what the scan has cached of it
(`strategies.auction_address`, kick guard, `auction_enabled_tokens_latest`), `pool` the transactions of the
scanner, `rows` `kick_txs`, `scan` the locals of `_run_scan`. A stage is a step or a few: `MapAuctions`,
`CheckGuards`, `ReadEnabled`, `InspectLots`/`NextLot` (`settle_stale_auctions`), `ReadBalances`, `SelectTokens`,
`GrowBatch`/`FlushBatch`/`FailToken` (`_enable_auction_batches`), `Finish`. `Send`, `InsertRow` (one commit for each token
of a batch), `ObserveReceipt`, `ReceiptTimeout` serve both services. `Abort` is an exception that no stage catches, `Crash`
the death of the process, `Elsewhere` everybody else, the governance included that enables and disables tokens
(`EnableToken`, `DisableToken`). `lost` and `withdrawn` are history: tokens of transactions whose row could not be written,
and tokens that others have disabled since the scanner last read their auction. A token disabled by governance stays in the
cache until then, so what `CacheIsSound` says is that nothing else is wrong in the cache.

Any read may fail; which of them is caught follows the code. Fees may postpone everything. A lot has five states,
those that `_previewResolveAuction` tells apart. Discovery, token metadata and prices change nothing that the later stages
read here, except that they may raise.

### KickRun, KickShortlist, KickPricing

`market` is what tables, config and quotes say, `lot` the state of each pair's lot, `txs` the transactions with the
round each kick opened, `client` the locals of a command, `streak` history: the kicks of each pair that
got no fill, in a row.

- `StartKickRun` (three modes, the two flags, the scope of the options) makes the review queue; `PassOver`, `Prepare`,
  `InspectLots`, `Quote`, `Estimate` are the request for one exact candidate, each a step because the chain moves on
  between its reads; `Decline`, `Accept` are the prompt with the age check.
- `StartSettle`, `StartSweep` are the two other commands.
- `CheckOutbox`, `BaseFeeCapSkip`, `Send`, `Report`, `Await`, `Raise`, `Finish`, `Quit`: execution. A client has an
  outbox of its own, so the server may not have heard of what it sent (`known`). `Finish` gives the exit code.
- `Mine`, `Buy`, `Expire`, `ResolveElsewhere`, `Donate`: the auctions.
- `BuildShortlist` has the policies in their order: enabled tokens, ignore rules, no-fill guard, cooldown, best candidate of an
  auction, limit. `PrepareKick` has the size of a sale, the floor quote with its outlier rule, the encoded starting
  price of both contract versions and the minimum price; `LotAsk` follows the auction's price with its rounded repeated
  multiplication (`RPow`).

Assumption: a round lasts a day, no request to the server lasts that long (`Expire`). `Decimal` arithmetic is exact; the
program's has 28 digits, so its minimum price may differ in the last place. `--source-type fee-burner`, which takes up deferred
candidates without naming a source, is a scope of its own (`Focused`): any sources without a killed gauge may be fee burners.

### KickEngine

A pair is an auction and a token. `lock` is the lock file, `runs` `txn_runs`, `rows` `kick_txs`, `proc` the locals of
`run_once`, `lot`, `open`, `pool` the chain, where an auction has at most one live lot (`LotsOf`). `Start`, `Plan`, `Take`/`DryRow`, then per transaction `CheckKick`/`SplitBatch`/`CheckResolve`,
`Confirm`/`Decline`, `Send`/`SendFails`, `Insert` (one commit for each pair of a batch), `Await`/`GiveUpWaiting`, and
`Finish`. `Die` is a kill or an exception that leaves `run_once`: the run row stays `RUNNING`. That includes the failure
path of a kick, which calls `_fail` with an argument that it does not have. `Repair` is the scanner's work on the rows.

Facts worth knowing: the guard is asked per pair, before the best candidate of an auction is chosen and again after the lots
are inspected, so while a kick of one token is pending (its receipt timed out, its row is `SUBMITTED`) the next run may take
another token of the same auction, see a clean preview and send; one of the two kicks then reverts. `KicksFollowClosedRounds`
therefore speaks of pairs. The engine goes on after a receipt timeout, counts it neither way, and has no age check; in
this commit `run_once` has no caller outside the tests.

### EnableTokens

`rows` and `configured` are what an alias is resolved against, `enabled` the chain, `action` the request with the action it
prepares, `pool` what the client has sent. `Resolve`, `Inspect`, `ReadStates`, `Probe`, `Probed`, `Store` are
`prepare_enable_tokens_action`; any read may fail in the way the code treats it. `Grow` is one estimate of
`_build_enable_token_batches`: the chain may move on between two of them, and a token that did not fit is estimated
again on its own. `Remap` and `Elsewhere` are the scanner and governance. Where the tokens of a source are
looked for is abstracted to any set. Without an estimate a batch is never cut; without a gas limit the client estimates when it sends.

### AuctionFleet

`auctions` are the clones of the approved factories in creation order, at addresses fixed by (factory, salt); `file` is
the migration's cache file, `script` the running script, `requests` and `slots` the API's deployment
jobs, `mapped` the mapping a scan reads back. `StartScript` to `StopScript` are `deploy_new_auctions`; `Admit`,
`Disconnect`, `FinishRead`, `Sign` and `DeploySingle` the deployments asked for one by one; `RefreshMapping`
is `refresh_for_strategies`. Others create auctions, good or not, and hand governance over or back (`OthersDeploy`,
`GovernanceMoves`). The mapper drops an auction that has lost its governance (`auction_mapper.py:186`), so a source may then
well go back to an older auction; `NeverOlder` speaks of a source whose auction is governed when the scan reads it, and
`VerifiedIsTrue` of the auction at an address, whoever governs it by now. A kick changes an auction's starting price, by which
the migration recognises it; kicks of these auctions are left out.

Facts worth knowing: the migration's target is v1.0.4 while v1.0.5 wins in the mapper; it recognises an existing
auction only with the same starting price; matches for a deployment are looked up in the chosen factory only, and
auctions that cannot be read are passed over; the default salt of a manual deployment holds the second, so a deployment
that is prepared again a second later creates a second auction, and a scan then maps the newer one. Nothing
locks two runs of the migration against each other; the model has one at a time.

## 3. Runs

A run may explore several *families* of behaviours: constraints on the next state that say which actors
take part, one family after the other in one state graph, so that each interesting combination has room without all of
them at once. A property that is a conjunction (`RowsAreTrue`, `RunsAreRecorded`, `FleetIsSound`,
`EnablingIsSound`, `PricesAreSound`, `MappingIsTrusted`) has its conjuncts named and explained in the component's module;
for several of them more than one mutated definition is kept beside the code it mutates.

| Run | Instance | Shows |
|---|---|---|
| `client_one` | one process, two actions of two transactions, two reports of an older client, lookup and report limit 1 | types, retention, one nonce per transaction, reports kept, only mined hashes forgotten, `SerialSender` implemented; a run that cannot look at every retained hash refuses to sign |
| `client_live` | one process, one transaction, fair | a mined submission is resolved and its report delivered |
| `client_two_unserialised` | two processes | **violation**: see Findings |
| `rounds` | families `Evidence`, `Order`, `TwoScanners`, `Applied`, `Cleared`, `Swept` | no verdict on the newest round contradicts what was sold, as long as its sweeps are linked to it; automation passes only closed rounds |
| `rounds_live` | two transactions, a settlement, a donation, fair | a closed round does not stay incomplete |
| `rounds_unlinked_sweep` | a kick, a sweep and a resolution | **violation**: see Findings |
| `ledger_evidence` | an action of two transactions, one perhaps recorded by an older server, a reporting thread, a receipt request, the loop with one lookup per pass, fair; families `Batches`, `Aliases` of `EnableTokens` | status backed by the chain, both ledgers agree, outcomes final, every mined hash verified in the end; enabling is sound |
| `ledger_replay` | one transaction, a report and a receipt request | **violation**: see Findings |
| `scan_alerts` | four scans, one item, one pair, one destination; families `NoRounds`, `CleanScans` | bounded delivery, failures announced, one alert per episode |
| `scan_stages` | scans, the engine, or the fleet | rows true, cache sound, live lots left alone, mapping trusted; kicks follow closed rounds, totals add up; nothing recreated twice |
| `kick_run` | families `OnePair` (kicks only, or every command and fault), `TwoTokens`, `TwoAuctions`, `TwoClients`, `Priced`, `Listed` | bounds on what old decisions do, policies, prices, exit codes |
| `scan_unread` | one scan of one auction | **violation**: see Findings |

### Bounds, and why they are enough

*Client.* Two transactions are enough for a dependent one, two actions for a run after a run, two old reports with limits of one for an
upgrade, a flush and a lookup that stop half-way. Crashes, evictions and lost reports are unbounded. Two processes are explored by
`client_two_unserialised`; that reports and forgetting hold for any number of processes is proved, and retention
as far as it does (section 4).

*Rounds* (`RetryTotal` 2 as shipped, `Amount` 2, `MaxTx` 4, `MaxReverts` 1, `MaxReviews` 1, `MaxSettles` 2,
`MaxDonations` 1). `Amount` 2 has partial fills. Every family but `Swept` has at most three transactions. Three are the least that put two kicks and a close, or a
kick and two recoveries, on the chain; what a verdict depends on is one round and the next kick. `Evidence` has two
transactions of any kind with reverts, a settlement and a donation; `Order` three without a scanner; `TwoScanners` overlapping repairs
with one settlement, recorded twice; `Applied` a one-time repair after two transactions; `Cleared` a suspension that
is cleared while other workers go on; `Swept` four transactions without reverts, repairs and settlements, the least
at which a sweep can be linked to the wrong kick (kick, kick, sweep, resolve). The command asks for a
completed no-fill round, not for exhausted retries, so one such round is enough for it.

*Action ledger.* Needs no bound: a transaction is mined once and the loop goes round. Two transactions are the least
at which "all confirmed" and "one confirmed" differ, and with one lookup a pass the least at which a hash that is
never mined, or is mismatched, could keep the loop from the other. *Enabling*: two fee burners (an alias of several
auctions), three tokens, `GasCap` 2, `MaxGas` 3: batches that fit, that are cut, and a token too large for any.

*Alerts.* Three failures in a row are a repeated failure; the fourth scan moves the window.

*Scans* (one source, two auctions, two tokens, two scans, two moves). Two auctions let a mapping change, two tokens
make a batch that is cut, or that is recorded in part; a second scan meets what the first one left behind, a token that was
disabled in between included. *Engine*: two processes, three pairs (`Traded`: two tokens of one auction, one of another), two
runs, two transactions and a move, which is a batch of two, a race for the lock, a second token of an auction whose first
is pending, and a decision overtaken by a move. The runs are of one process each (as good as the other, since an idle process
remembers nothing), beside a dry run there is at most one transaction or move (`EngineWithin`), and others do not move
after the last transaction (`OthersInTime`): no decision to send is left that they could overtake. *Fleet*: two
requests for one slot, two runs of the script, two transactions, and one move of others, or two of them beside the mapping:
another deployment, and its governance lost.

*Kick runs* (`RetryTotal` 1, at most four commands and transactions). One client with four rounds of one pair reaches the
limit of retries and the two kicks past it; the other families have two commands, or one, with every fault. Prices: `Bps` 20, `Ray` 10 000,
`Wad` 100, so that every rounding happens with numbers TLC can count; 576 views over eight quotes, both versions, auctions that
are too short, long enough or of no length, with a cap and without, and eight shortlists.

The runs with bounds on the chain, or on commands, switch deadlock checking off because a bounded system stops; so do the
`ledger_*` runs, since an instance in which everything is verified is done.

### Assumptions in the properties

- `AllRecorded`: every transaction has a row; before that the ledger cannot know. `KicksInOrder`: kicks of the pair
  are mined in the order they were sent, since the code orders kicks by `created_at`.
- `AllowsOnlyClosedRounds` exempts kicks that a one-time repair has written off: it baselines the latest round when
  `isActive` is false, which includes a kick that is still pending.
- `NoFillIsTrue` allows `sold <= donated`, for tokens sent to the auction outside a kick are swept and counted
  like unsold ones. `CaughtUpIsTrue` speaks of a ledger with every receipt, every settlement and rebuilt links.
- `ProductiveIsTrue` asks that every sweep that was mined is linked to its own round (`SweepsPlaced`). A sweep without a
  link is the finding of `rounds_unlinked_sweep`; a sweep linked to an older kick, because it was recorded or finalised
  before the newer one was confirmed, is missing from the sum in the same way.
- `StreakBounded` does not say that retries stop at `RetryTotal + 1` rounds: the guard decides on what the server has heard of,
  and each client may add an unreported kick, one that was prepared before, and one that was still in the pool when a
  younger kick of another client was filled, since the guard looks at nothing older than a fill. Two clients reach that
  third kick only with five kicks and a fill, beyond `MaxTx`, so the bound rests on its proof; with a bound of two
  kicks per client the proof does not go through, and a run that is led along that path violates it. Rounds opened with
  `--allow-no-fill-retry` are not counted.
- `OffersCanFill` needs a step of the price that is narrower than the minimum buffer (`decay < minBuffer`), by more than
  rounding: a lot so cheap that its price per token is a few units of 1/`Wad` could step over the interval. In the
  instance no lot is.
- `OpensAboveQuote` allows for what is lost when the price per token is rounded to a unit of 1/`Wad`: half a unit per token of
  the lot, and the one that is cut off. One unit alone is enough for the lots of the instance and false in general: at
  `Wad` and `Bps` 100, a lot of 4 712 400 units of 1/`Wad` that starts at 409.5 asks for nothing.
- `SubmissionRetained` is checked for one client. For several it holds when one query covers what older clients left
  behind, and of the transactions that are not of older clients in any case (both proved). Otherwise it does not: see Findings.
- `LedgersAgree` leaves out the hashes of `Legacy`, for which two rows may be staged.
- `CacheIsSound` exempts tokens that others have disabled since the auction was last read (`withdrawn`), `NeverOlder` sources
  whose auction has lost its governance, `KicksFollowClosedRounds` other tokens of the same auction: in all three the code
  cannot know better, or does not look.
- `RunsAreRecorded` speaks of finished runs; a run that dies stays `RUNNING` with its totals unwritten.

### Fairness

`ClientBroadcast!Fairness`: a process runs to its end or dies (weak fairness); the client is run
again and again and no step that is possible in infinitely many runs fails in all of them (strong
fairness of the steps on the way to a receipt, for each report type on its own). Nothing is assumed of crashes,
rejections, the signing loop or the network, so a transaction that is never mined blocks the client for ever,
which is what the code intends. `RoundLedger!Fairness`: broadcasts are reported in the end, the API's loop and
the scanner's timer never stop, and an RPC that works infinitely often answers in the end. Nothing is assumed
of the chain or of the administrator. `ActionLedger!Fairness`: the loop goes on for ever, and a lookup or commit that is
tried again and again for one hash does not fail every time; nothing is assumed of requests or of mining.
The other modules state safety only: scans and commands are started by timers and people, and what they owe is stated as
bounds and rows.

## 4. Proofs

A proof is about every value of the constants: any number of processes, transactions, tokens or auctions, and any value of
the bounds. Where an invariant had to be strengthened, TLC checked the strengthened one first. The assumptions are
those of the modules (bounds are naturals, sets that are counted or listed are finite) and what is named below.

`ClientBroadcastProofs`, for any number of processes, actions, transactions, and any limits. Assumptions:
`ConstantsAssumption` (positive `NumTx` and limits, finitely many actions, `Legacy` are transactions).

- `PendingNonceProperties`: the `CHOOSE` in `PendingNonce` has a witness. The pool holds fewer transactions
  than there are candidates, so one is free, and a non-empty set of naturals has a least element.
- `TypeCorrect`: `TypeOK`. It needs that a process that reports or sends holds a transaction (`HoldsTx`) and
  lists only reports it may post (`HoldsReports`).
- `OwnRetention`, `Retention`, `ForgettingIsSafe`, `ReportsSurvive`. `SubmissionRetained` is not inductive: a row that a process
  has listed may be deleted by another, and the upgrade of old reports is a loop that may be interrupted. Let a
  transaction be *kept* when its submission row is there or a client has seen its receipt. No step revokes
  that, because a submission row is deleted only by `ForgetSubmission`, where the process has seen the
  receipt (`ForgetsObserved`). `RetentionInv` says that everything sent is kept or is an old report still in the
  outbox, that whatever a process lists or holds after its upgrade is kept (`ListsKept`, `HeldKept`), and
  that an upgrading process has every unkept old report of the page on its list (`UpgradesPage`). The last part is
  the one another process can break, by deleting a row of the page so that an old report moves up. It cannot when every
  unkept old report is on the page already (`WithinReach`), which is inductive and holds at the start if
  `Cardinality(Legacy) <= ReportLimit`. So the invariant is stated for a set of transactions: `Retention` takes all of them, with one
  client or with few enough old reports; `OwnRetention` takes those that no older client sent, without a condition.
  `ReportInv` does the same for reports.

For one process (`OneClient`; `client_two_unserialised` shows it is needed):

- `NoReplacement` and `SerialSending` (the refinement of `SerialSender`). Past the two outbox checks everything
  sent so far has been observed, so it is mined and its nonce lies below the number of mined transactions,
  hence below the nonce fetched next; in the loop only the transaction in hand may be unobserved.

`RoundLedgerProofs`, for any number of workers, transactions, settlements and reviews:

- `LedgerTypes`, `AllowedRoundsAreClosed`. `LedgerInv` says that a mined event stays where it is (`ChainTrue`), that a
  confirmed row points at the event of its own transaction (`RowsTrue`), and that what a worker has read is still so
  when it writes (`JobsTrue`), which holds because a receipt does not change. So the close that a verdict rests on is on the
  chain, after the kick that it is linked to, and the newest kick of the ledger is the last one of the chain. Whether
  the link is the right one does not matter for this.
- `LotInvariant`, `NoFillsAreTrue`, `ProductiveRoundsAreTrue`. The tokens are counted as piles: those of the last round are
  sold, taken back by an event, or in the auction, up to donations (`Conserved`), and a closed round has none left
  (`RoundTrue`). A verdict sums rows of different events after the last kick, so it counts no more than was taken back,
  and no less if every sweep is linked to its round.
- `CaughtUpLedgerIsTrue`. A ledger that has caught up has one row per event, a rebuild links each to the round that was
  open there, and so every verdict is exact, whatever the links were before.

`ActionLedgerProofs`, for any number of actions, transactions, requests and any `Legacy`:

- `StatusIsBacked`. `StatusBacked` is not inductive, since a replay writes a status it computed earlier. `LedgerInv`
  adds that every verified receipt is the chain's (`ReceiptTrue`) and that what a request holds is still backed
  (`JobTrue`): the chain does not change its mind, so a status that was backed stays backed (`BackedStays`).
- `OutcomesAreFinal` adds `RowsTrue`: a finalised row says what the chain says, so finalising it again changes nothing.
- `TablesAgree`: a receipt being finalised has seen the one row of its transaction (`AgreeInv`). A hash of `Legacy` is
  left out because it has no row at first, and a replay and a receipt may then both stage the missing one.
- `LedgerTypes`: besides types, `order` lists exactly the recorded hashes, each once, and a pass has only such in hand
  (`OrderInv`), so a rotation neither loses nor repeats a hash. This needs that `Legacy` is finite.

The same module about `EnableTokens`, for any number of fee burners, tokens (a finite set) of any gas, any limit and moves of
others (`EnableAssumption`, which also says that `"absent"` is not a fee burner):

- `EnablingStaysSound`. `EnableInv` follows the selected tokens: each is still to be done, in the batch being built or in one
  batch, and never in two (`InHand`), however reads fail and batches are cut; the estimate in hand is that of the
  tokens in hand (`Fit`); transactions are batches in order (`PoolTrue`). A selected token that nobody else touched is enabled
  exactly if a confirmed transaction has it (`EnabledTrue`): it was simulated when it was probed, so it was not enabled then.
  An alias that several fee burners answer to is resolved to none, because candidates are counted before
  their rows are read.
- `EachLedgerIsItself`: a behaviour of the composition is one of each of the two, so their theorems hold of it.

`ScanAlertsProofs`, for any number of scans, items, rounds and destinations:

- `AlertsTypes`, for any number of overlapping scanners: no delivery is counted more than `AttemptLimit` times, because
  the number that is written is one more than a number that was read below the limit.
- `FailureAnnouncedHolds`, `OneAlertPerEpisodeHolds` and `DeliversWithinBounds` (the refinement of `BoundedDelivery`) assume
  `OneScanner`, for nothing locks two `tidal-server scan run`. `LoneInv` says that what the scanner is about to announce was
  true when it made its list and is still true, since only the newest run can finish (`NewestInHand`), that what it has read of
  a delivery is what the row says (`CountsAreSound`), that a failed run which is over was tried everywhere or cut
  short (`FailuresAreTried`), and that an alert names the run at which its episode began (`OccurrencesBegin`).

`ScanStagesProofs`, for any number of sources, auctions, tokens, scans and moves of others:

- `ScanTypes`, `RowsTellTheTruth`, `CacheStaysSound`, `LiveLotsLeftAlone`, `EnablesListedOnly`. `ScanInv` ties what a scan has
  in hand to what it has read and written: what it means to enable comes from a factory that it has read itself
  (`MappingTrue`, `BatchTrue`), every token it set out to enable is in its hands or has one row (`Accounted`), a token of a
  transaction without a row is in the hands of the scan that has just sent it or its sender died or saw no answer
  (`RowsTellTheTransactions`). The cache is sound because what the transaction at hand has enabled stays enabled unless it is
  withdrawn (`InEffect`, in `BatchTrue`), however late its receipt is seen, and a read forgets what it does not find. A live lot is safe from an old preview because the
  scanner never forces, and then the contract looks again.

The same module about `KickEngine`, for any number of processes, pairs (a finite set), runs, transactions and moves of
others, repairs among them (`EngineAssumption`, which also says that the empty lock is not a process):

- `EngineIsSound`, `EngineKicksWhatIsDue` (`KicksFollowClosedRounds`), `EngineTellsWhatItDid` (`RunsAreRecorded`). A live run holds the
  lock (`LockTrue`), so nobody else is about to send; hence a pair whose earlier kicks were all over when the
  run planned (`Over`, in `Holds`) is still due when the run sends, since mining, repairs and moves of others only ever end
  rounds of kicks. The groups on a run's list are pairwise disjoint (`ListTrue`), so a kick never makes the next one stale. For the totals, the
  pairs of a run are split into those with a row (`Told`) and those ahead (`Ahead`); each step moves pairs from one to
  the other, so `attempted` stays the size of the union (`Counted`) until the run ends (`Totalled`). A pair of a
  transaction has its row, is in the hands of its sender, or is among the rows a crash lost (`BatchesTold`).
- `FleetStaysSound`, `MappingsAreTrusted`, `ServicesKeepTypes`: the theorems of `AuctionFleetProofs`, cited for the instance of the
  fleet that stands beside the scanner; `EachServiceIsItself`: a behaviour of the composition is one of each of the three.

`KickRunProofs`, for any number of clients, pairs, candidates, transactions and commands, and any markets
(`MarketsAssumption`):

- `RunTypes`, `NoKickOverLeftoversHolds`, `OneActionPerAuctionHolds`, `StopsWhilePendingHolds`, `VerdictsHold`,
  `PoliciesHold`. `RunInv` ties what a client is doing to what it has sent under its command (`Honest`): each of its
  transactions is on an auction that is done with or is one of the calls of the action at hand, as far as it
  got; while every record says confirmed all of them have succeeded; what it is about to kick was permitted by every
  policy, and is not on unsold tokens unless the age of the plan or a failed read of the lots is the reason.
- `StreaksAreBounded`. `StreakBounded` is not inductive: a kick counts when its round closes, long after it was decided.
  `StreakInv` counts from the decision on. Let the *possible* streak of a pair be its kicks that have no fill since the last one,
  with those that are in the pool or whose round is open (`May`); together with the clients that have an allowed kick in their
  hands it stays below the bound (`Bounded`), and sending a kick only moves it from one to the other. A client may
  take a kick in its hands at any time, so what has to be shown is that the guard leaves room for every client at once
  (`DecisionIsBounded`). Of the possible streak, at most `RetryTotal` kicks are recent rounds it has seen. At most
  one of each client is unreported, because the outbox is emptied before every send (`OneUnheard`, which goes through
  actions of several calls by way of `Hears`). The others are older than the last fill: they were in the pool when it came,
  so there is one of each client, and none of the client whose round was filled (`StreakTrue`).
- `OpensAboveQuoteHolds`, the first part of `PricesAreSound`, for all decimals, lots, caps, quotes and buffers and for both encodings
  (`Readable`, in `MarketsAssumption`: decimals are between 0 and 18, amounts are not negative). What is offered is what was
  prepared (`Prepared`); the encoded price covers the buffered quote (`EncodedCovers`), before the first step nothing
  has decayed (`NoDecayYet`), and the three divisions on the way to the ask lose no more than is allowed (`AskLoses`).

`AuctionFleetProofs`, for any sources, requests, slots and script runs (`FleetAssumption`: the sets are finite, `None` is not an
entry):

- `FleetIsAlwaysSound`, `FleetTypes`, `NeverFallsBack`. An address is one auction's, and the salt of a recreated auction is a function of
  its source and price, so two recreations of one legacy auction would be one auction (`ChainInv`). Nothing of an
  auction changes but its governance (`ChainGrows`), so an entry that was verified stays true, in the file and in the script
  that holds it (`ScriptInv`), which is why neither crashes nor a late transaction matter. Slots and requests being read are
  counted together (`RequestInv`). A refreshed mapping is the newest valid auction (`RefreshFacts`).

Only model-checked:

- liveness (`MinedIsResolved`, `ResolvedIsReported`, `ClosedRoundIsJudged`, `VerifiedInTheEnd`), out of the prover's reach;
- the other two parts of `PricesAreSound`: `OffersCanFill` rests on repeated rounding in `RPow`, and `MinimumIsBacked` on
  sorting (`SortSeq`) and filtering (`SelectSeq`) lists of any length, both inductions over data.

## 5. Findings

- `client_two_unserialised` / `RefusesWhileUnresolved`: two client processes pass the outbox checks together;
  the second sends while the first one's submission is unresolved. `docs/operator-guide.md:115` says later
  executions "refuse to sign while an earlier submission remains unresolved". The check
  (`operator_cli_support.py:180`) and `queue_submission` (263) are separate transactions of the outbox.
- `rounds_unlinked_sweep` / `AmbiguousEvidenceBlocks`: a sweep recorded before its kick is confirmed has no
  link; if kick and close are finalised first, nothing links it afterwards, `has_unlinked_close` does not look
  at sweeps (`auction_rounds.py:400`), and the round counts as productive though nothing was sold.
  `repair_pairs` leaves productive pairs alone. A sweep that gets the link of an older kick has the same effect
  (see `SweepsPlaced`). `docs/kick-selection.md:116`: "Incomplete or ambiguous evidence
  also blocks."
- `ledger_replay` / `ReplayKeepsOutcome`: a replayed report reads the transactions
  (`api/services/action_audit.py:133`), a receipt commits, and the replay writes `BROADCAST_REPORTED` over the
  stored outcome. `docs/api-reference.md:190`: "broadcast replay does not downgrade verified outcomes". The verified
  receipt and the `kick_txs` row keep the outcome (`OutcomeIsFinal`); `api_actions.status`, which the list filters
  on, does not, and no later pass looks at a verified hash.
- `scan_unread` / `UnreadTokensDoNotAbort`: for an auction whose enabled tokens could not be read the reader's result
  is `None`, over which `scanner/auction_token_enabler.py:119` iterates, so a scan with `--auto-enable-tokens` is
  aborted and counts as failed. `tests/integration/test_scanner_service.py:817` expects a scan to end in success (918)
  although the read failed (944); that test does not enable tokens.

More observations are part of the models without a run of their own. With several clients and more than 100 old reports a
client may erase the only trace of an old submission: A and B upgrade the first 100 and B lists them for its flush; B
deletes one that it delivered; A reads the page again for its own flush, and now number 101 is on it, which A delivers and
deletes though nobody retained its submission (`ClientBroadcast` with two processes, two old reports and `ReportLimit` 1
reaches this in ten steps). `operator_cli_support.py:167` says "Delivery must not erase an unresolved send identity". A kick that fails a check in the engine leaves
its run `RUNNING`, because `_fail` does not take `requested_sell_amount` (`transaction_service/kick_execute.py:226`).
And `_terminal_same_auction_from_skip` (`kick_cli.py:228`) waits for a skip reason, "active above minimumPrice", that
no code of the server gives, so in `KickRun` a skipped candidate never ends the review of its auction.

## 6. Not modelled

- Read models, dashboard, rendering, the user interface: queries and presentation, which change nothing.
- Authentication, configuration, argument parsing, database migrations: no concurrency and no protocol.
- RPC transport, multicall, ABI encoding and decoding, HTTP clients: I/O. Their failures are modelled where they are met.
- Fees and gas prices: they decide whether something is sent now or postponed, which is a choice in the models.
- Discovery, balance readers, token metadata and the refresh of cached prices: batched reads with an upsert per row;
  the stages that come after them meet any subset of what could be read.
- The kick engine's and the scanner's callers (`scan run` on a timer): any number of runs, one scanner at a time.
- The pause status that kick preparation leaves for the dashboard (`kick_prepare_status.py`).
- `ops.deploy.send_live_deployment`, which has no caller.
- A broadcast report that the control plane always rejects with 4xx, and the client it then blocks, needs the
  composition of `ClientBroadcast` with `ActionLedger`; it is listed as a hazard without a property.

## 7. Plan

What is left: the composition named under "Not modelled", and kicks of a pair that are mined out of order, which needs
`KickEngine` and `RoundLedger` in one module.
