---------------------------- MODULE MCScanStages ----------------------------
(***************************************************************************)
(* The two services of the server that sign transactions and keep their    *)
(* rows in kick_txs, and the deployment of auctions.  Either scans: a      *)
(* first one against two moves of the chain, or one move if it both        *)
(* settles and enables, and a second one, without settlement, after a      *)
(* first one that met one move or wrote rows.  Or the kick engine: two     *)
(* runs, of which the first may be a dry one.  Or auctions: the migration  *)
(* beside one other deployment or one move, or two requests for the        *)
(* deployment slots, or the mapping of what one request deploys and two    *)
(* moves of others deploy or change.                                       *)
(***************************************************************************)
EXTENDS ScanStages

CONSTANTS
    Procs, MaxRuns, MaxSends, MaxElsewhere,                   \* of the engine
    Requests, Slots, MaxDeployments, MaxScripts, MaxStrangers, \* of the fleet
    a2, t2, \* an auction and a token that the engine does not pair
    p2,     \* the second process of the engine
    q1, q2  \* the two requests to deploy

VARIABLES
    lots, open, sent, others, kickTxs, txnRuns, lock, proc, unrecorded,
    legacy, created, deployments, strangers, file, script, scripts, requests, slots, mapped

engineVars == <<lots, open, sent, others, kickTxs, txnRuns, lock, proc, unrecorded>>
fleetVars  == <<legacy, created, deployments, strangers, file, script, scripts, requests, slots, mapped>>

\* Two tokens of one auction, one of another.
Traded == Pairs \ {<<a2, t2>>}

Engine == INSTANCE KickEngine WITH
    Pairs <- Traded,
    lot <- lots, pool <- sent, moves <- others, rows <- kickTxs, runs <- txnRuns, lost <- unrecorded,
    MaxTx <- MaxSends, MaxMoves <- MaxElsewhere

Fleet == INSTANCE AuctionFleet WITH
    auctions <- created, pool <- deployments, others <- strangers,
    MaxTx <- MaxDeployments, MaxOthers <- MaxStrangers

ScansWithin ==
    /\ scan.settle /\ scan.enable => moves <= 1
    /\ Len(runs) = 2 => /\ moves <= 1 /\ Len(pool) <= 1
                        /\ moves = 0 \/ \A r \in rows : r.run = 2
                        /\ ~scan.settle
                        /\ \A p \in Pairs : lot[p] = "clean"

\* The first run is of one process and the second of the other, as good as the
\* first when that is idle; beside a dry run at most one transaction or move is
\* explored.  Others do not move after the last transaction is sent.
EngineWithin ==
    /\ \A p \in Procs : proc[p].run # IF p = p2 THEN 1 ELSE 2
    /\ \A n \in DOMAIN txnRuns : txnRuns[n].live \/ (n = 1 /\ Len(sent) + others <= 1)
OthersInTime == others' = others \/ Len(sent) < MaxSends

Unmapped == \A s \in Sources : mapped[s] = None
FleetWithin ==
    \/ /\ Unmapped
       /\ requests[q2].at = "new" /\ requests[q1].at \in {"new", "over"}
       /\ strangers = 0 \/ (strangers = 1 /\ requests[q1].at = "new")
    \/ scripts = 0 /\ strangers = 0 /\ Unmapped
    \/ scripts = 0 /\ requests[q2].at = "new"

ScansUnused  == runs = <<>> /\ moves = 0 /\ \A s \in Sources : listed[s] = None
                /\ \A a \in Auctions : enabled[a] = {}
EngineUnused == txnRuns = <<>> /\ others = 0
FleetUnused  == /\ scripts = 0 /\ strangers = 0 /\ deployments = <<>> /\ Unmapped
                /\ \A r \in Requests : requests[r].at = "new"
                /\ \A s \in Sources : legacy[s] = 0

MCInit == Init /\ Engine!Init /\ Fleet!Init
MCNext ==
    \/ /\ EngineUnused /\ FleetUnused
       /\ Next /\ ScansWithin' /\ UNCHANGED <<engineVars, fleetVars>>
    \/ /\ ScansUnused /\ FleetUnused
       /\ Engine!Next /\ EngineWithin' /\ OthersInTime /\ UNCHANGED <<vars, fleetVars>>
    \/ /\ ScansUnused /\ EngineUnused
       /\ Fleet!Next /\ FleetWithin' /\ UNCHANGED <<vars, engineVars>>
MCSpec == MCInit /\ [][MCNext]_<<vars, engineVars, fleetVars>>

\* The types of the scanner's and the fleet's variables.
MCTypeOK == TypeOK /\ Fleet!TypeOK

\* After the plan of an engine's run a kick goes out only if each earlier kick of
\* its pair is over, as KickEngine says of the lock and the guard.
KicksFollowClosedRounds == [][Engine!OnlyDueKicks]_engineVars

\* Rows and totals of an engine's runs tell what they did, as KickEngine says of
\* _insert_operation_tx, finalize_receipt and finalize.
RunsAreRecorded == Engine!RunsAreRecorded

\* A legacy auction is recreated at most once, what the cache file calls verified is
\* there, and slots come back, as AuctionFleet says of build_salt,
\* verify_entry_against_auction and run_deployment_rpc.
FleetIsSound == Fleet!FleetIsSound

\* An auction that only an old mapping knows gets no transaction that enables
\* tokens, and a mapping never leaves a governed auction for an older one, as
\* ScanStages says of factory_verified and AuctionFleet of refresh_for_strategies.
MappingIsTrusted == EnablesOnlyListed /\ [][Fleet!NeverOlder]_fleetVars
=============================================================================
