----------------------------- MODULE AuctionFleet -----------------------------
(***************************************************************************)
(* How auctions come to exist and how a source gets its auction: the       *)
(* migration script that recreates legacy auctions (deploy_new_auctions),  *)
(* deployments prepared by the API or by the interactive script, and the   *)
(* mapping a scan reads back from the factories (StrategyAuctionMapper).   *)
(*                                                                         *)
(* An auction is the clone its factory creates at an address fixed by the  *)
(* salt, so a salt is used at most once.  Factories are open to everybody, *)
(* and governance can be handed over.  Kicks, which change the starting    *)
(* price of an auction, are left out.                                      *)
(***************************************************************************)
EXTENDS Naturals, Sequences, FiniteSets, SequencesExt

CONSTANTS Sources,   \* strategies
          Requests,  \* deployments asked for by operators
          None,
          Slots,     \* deployment jobs admitted at a time
          MaxTx,     \* bound: deployment transactions
          MaxScripts,\* bound: runs of the migration script
          MaxOthers  \* bound: auctions and legacy auctions of others

VARIABLES
    legacy,   \* chain: how many auctions the legacy factory has for a source
    auctions, \* chain: auctions of the approved factories in creation order
    pool,     \* deployment transactions in the order sent
    others,   \* moves of others so far
    file,     \* the migration's cache file: an entry for a source, or None
    script,   \* the migration script
    scripts,  \* runs of the script so far
    requests, \* deployment requests
    slots,    \* free slots of the semaphore
    mapped    \* strategies.auction_address

chainVars  == <<legacy, auctions, pool, others>>
scriptVars == <<file, script, scripts>>
vars == <<chainVars, scriptVars, requests, slots, mapped>>

Factories  == <<"v1.0.4", "v1.0.5">>  \* by mapping_priority
NewFactory == Factories[1]            \* the only target of the migration
Order      == SetToSeq(Sources)
NoEntries  == [s \in Sources |-> None]
Quiet == [at |-> "idle", live |-> FALSE, entries |-> NoEntries, index |-> {}, i |-> 1, tx |-> 0]
Asked == [at |-> "new", source |-> None, factory |-> NewFactory, price |-> 1, salt |-> <<>>,
          kind |-> "prepare", waits |-> FALSE, shown |-> {}]

Init ==
    /\ legacy \in [Sources -> 0..1] /\ auctions = <<>> /\ pool = <<>> /\ others = 0
    /\ file = NoEntries /\ script = Quiet /\ scripts = 0
    /\ requests = [r \in Requests |-> Asked] /\ slots = Slots
    /\ mapped = [s \in Sources |-> None]

----------------------------------------------------------------------------
(* The factories.                                                          *)

Address(a)   == <<a.factory, a.salt>>
Exists(addr) == \E i \in DOMAIN auctions : Address(auctions[i]) = addr
Deployment(factory, s, price, salt) ==
    [factory |-> factory, source |-> s, price |-> price, good |-> TRUE, salt |-> salt, state |-> "pending"]

\* A second creation at the same address reverts.
Mine(n) ==
    /\ pool[n].state = "pending"
    /\ \/ pool' = [pool EXCEPT ![n].state = "reverted"] /\ UNCHANGED auctions
       \/ /\ ~Exists(Address(pool[n]))
          /\ pool' = [pool EXCEPT ![n].state = "ok"]
          /\ auctions' = Append(auctions, pool'[n])
    /\ UNCHANGED <<legacy, others, scriptVars, requests, slots, mapped>>

\* Somebody else creates an auction, good if governed by the trade handler, or
\* one on the legacy factory.
OthersDeploy(s) ==
    /\ others < MaxOthers /\ others' = others + 1
    /\ \/ /\ \E f \in ToSet(Factories), good \in BOOLEAN :
               auctions' = Append(auctions,
                   [Deployment(f, s, 1, <<"other", s, others>>) EXCEPT !.good = good, !.state = "ok"])
          /\ UNCHANGED legacy
       \/ legacy' = [legacy EXCEPT ![s] = @ + 1] /\ UNCHANGED auctions
    /\ UNCHANGED <<pool, scriptVars, requests, slots, mapped>>

\* The governance of an auction is handed over, or back to the trade handler.
GovernanceMoves(i) ==
    /\ others < MaxOthers /\ others' = others + 1
    /\ auctions' = [auctions EXCEPT ![i].good = ~@]
    /\ UNCHANGED <<legacy, pool, scriptVars, requests, slots, mapped>>

----------------------------------------------------------------------------
(* The migration script.                                                   *)

\* Mutation: the salt of a manual deployment, which holds the time.
SaltOfTheMoment(s, old) == <<"migration", s, Len(pool)>>

\* build_salt: the strategy and its legacy auction.
Salt(s, old) == <<"migration", s, old>>

\* A legacy auction stands for its starting price too.
Price(e)  == e.legacy
Entry(old) == [status |-> "planned", legacy |-> old, addr |-> None, tx |-> 0]
AddressFor(s, e) == <<NewFactory, Salt(s, e.legacy)>>

\* A strategy whose want cannot be read is left out; of its legacy auctions the
\* newest that can be read counts.
PlannedFor(s) == {None} \union {Entry(old) : old \in 1..legacy[s]}
BuiltPlans == {plan \in [Sources -> UNION {PlannedFor(s) : s \in Sources}] :
                  \A s \in Sources : plan[s] \in PlannedFor(s)}

\* load_or_build_plan, with or without --refresh-plan, which forgets all statuses.
StartScript ==
    /\ script.at = "idle" /\ scripts < MaxScripts /\ scripts' = scripts + 1
    /\ \E refresh, live \in BOOLEAN :
         /\ IF refresh \/ file = NoEntries THEN file' \in BuiltPlans ELSE UNCHANGED file
         /\ script' = [Quiet EXCEPT !.at = "index", !.live = live, !.entries = file']
    /\ UNCHANGED <<chainVars, requests, slots, mapped>>

Fits(a, s, e)    == a.factory = NewFactory /\ a.source = s /\ a.price = Price(e)
Matches(a, s, e) == a.good /\ Fits(a, s, e)

\* Auctions with a field that cannot be read are missing.
Indexes == SUBSET {i \in DOMAIN auctions : auctions[i].good /\ auctions[i].factory = NewFactory}

\* read_new_factory_index; what it read of an auction is not read again.
ReadIndex ==
    /\ script.at = "index"
    /\ \E index \in Indexes : script' = [script EXCEPT !.at = "entries", !.index = index]
    /\ UNCHANGED <<chainVars, file, scripts, requests, slots, mapped>>

Source == Order[script.i]
Here   == script.entries[Source]
InIndex(s, e) == {i \in script.index : Fits(auctions[i], s, e)}

\* Each entry is written back with all others when it is done with (persist_entries).
Written(e) ==
    LET entries == [script.entries EXCEPT ![Source] = e]
    IN  /\ script' = [script EXCEPT !.at = "entries", !.entries = entries, !.i = @ + 1]
        /\ file' = entries

Verifies(s, e, addr) ==
    \E i \in DOMAIN auctions : Address(auctions[i]) = addr /\ Matches(auctions[i], s, e)
Finalised(s, e, addr) ==
    IF Verifies(s, e, addr) THEN [e EXCEPT !.status = "verified", !.addr = addr]
    ELSE [e EXCEPT !.status = "error"]

OnEntry == script.at = "entries" /\ script.i <= Len(Order) /\ Here # None
Handled == Here.status = "submitted" /\ Here.tx # 0

SkipEntry ==
    /\ script.at = "entries" /\ script.i <= Len(Order)
    /\ Here # None => Here.status = "verified"
    /\ script' = [script EXCEPT !.i = @ + 1]
    /\ UNCHANGED <<chainVars, file, scripts, requests, slots, mapped>>

\* Mutation: a transaction without a receipt counts as done.
OutcomePending(s, e, n) ==
    CASE pool[n].state = "pending"  -> [e EXCEPT !.status = "verified"]
      [] pool[n].state = "reverted" -> [e EXCEPT !.status = "error"]
      [] OTHER                      -> Finalised(s, e, e.addr)

\* handle_submitted_entry: without a receipt the entry stays as it is.
Outcome(s, e, n) ==
    CASE pool[n].state = "pending"  -> e
      [] pool[n].state = "reverted" -> [e EXCEPT !.status = "error"]
      [] OTHER                      -> Finalised(s, e, e.addr)

CheckSubmitted ==
    /\ OnEntry /\ Handled
    /\ Written(Outcome(Source, Here, Here.tx))
    /\ UNCHANGED <<chainVars, scripts, requests, slots, mapped>>

\* The last of the auctions with the entry's want, receiver, governance and price.
TakeExisting ==
    /\ OnEntry /\ Here.status \notin {"verified", "submitted"}
    /\ InIndex(Source, Here) # {}
    /\ \E i \in InIndex(Source, Here) :
         /\ \A j \in InIndex(Source, Here) : j <= i
         /\ Written(Finalised(Source, Here, Address(auctions[i])))
    /\ UNCHANGED <<chainVars, scripts, requests, slots, mapped>>

New == /\ OnEntry /\ Here.status \notin {"verified", "submitted"}
       /\ InIndex(Source, Here) = {} /\ ~Exists(AddressFor(Source, Here))

\* An entry keeps its status, an error too, when its simulation succeeds.
SimulateOnly ==
    /\ New /\ ~script.live
    /\ Written([Here EXCEPT !.addr = AddressFor(Source, Here)])
    /\ UNCHANGED <<chainVars, scripts, requests, slots, mapped>>

SendDeployment ==
    /\ New /\ script.live /\ Len(pool) < MaxTx
    /\ pool' = Append(pool, Deployment(NewFactory, Source, Price(Here), Salt(Source, Here.legacy)))
    /\ script' = [script EXCEPT !.at = "sent", !.tx = Len(pool) + 1]
    /\ UNCHANGED <<legacy, auctions, others, file, scripts, requests, slots, mapped>>

\* Mutation: the hash is added with the receipt.
SubmittedBare(e) == [e EXCEPT !.status = "submitted", !.addr = AddressFor(Source, e)]

Submitted(e) == [e EXCEPT !.status = "submitted", !.addr = AddressFor(Source, e), !.tx = script.tx]

\* persist_submitted_state; had the process died before, the hash would be lost.
PersistSubmitted ==
    /\ script.at = "sent"
    /\ script' = [script EXCEPT !.at = "wait", !.entries[Source] = Submitted(Here)]
    /\ file' = script'.entries
    /\ UNCHANGED <<chainVars, scripts, requests, slots, mapped>>

\* wait_for_receipt_with_progress: the receipt, or a timeout or a failed read, an
\* error although the transaction may still be mined.
AwaitDeployment ==
    /\ script.at = "wait"
    /\ \/ Written([Here EXCEPT !.status = "error"])
       \/ pool[script.tx].state = "ok" /\ Written(Finalised(Source, Here, Here.addr))
    /\ UNCHANGED <<chainVars, scripts, requests, slots, mapped>>

\* Any read, the simulation, the estimate or the send may raise; the node may have
\* taken the transaction all the same.
EntryFails ==
    /\ OnEntry /\ Here.status # "verified"
    /\ \/ UNCHANGED pool
       \/ /\ New /\ script.live /\ Len(pool) < MaxTx
          /\ pool' = Append(pool, Deployment(NewFactory, Source, Price(Here), Salt(Source, Here.legacy)))
    /\ Written([Here EXCEPT !.status = "error"])
    /\ UNCHANGED <<legacy, auctions, others, scripts, requests, slots, mapped>>

\* The end of the list, --limit, an error outside the loop, or a kill.
StopScript ==
    /\ script.at # "idle"
    /\ script' = Quiet
    /\ UNCHANGED <<chainVars, file, scripts, requests, slots, mapped>>

Script == \/ StartScript \/ ReadIndex \/ SkipEntry \/ CheckSubmitted \/ TakeExisting \/ SimulateOnly
          \/ SendDeployment \/ PersistSubmitted \/ AwaitDeployment \/ EntryFails \/ StopScript

----------------------------------------------------------------------------
(* Deployments asked for one by one.                                       *)

\* Sources and factories are given; build_default_salt holds the second, but a salt
\* may be given too, as the one that load_strategy_deploy_defaults came up with.
Input(s, f, second) == [Asked EXCEPT !.source = s, !.factory = f, !.salt = <<"manual", s, second>>]
Inputs == {Input(s, f, second) : s \in Sources, f \in ToSet(Factories), second \in 0..1}

\* run_deployment_rpc: without a free slot the request is refused at once (503).
Admit(r) ==
    /\ requests[r].at \in {"new", "known"}
    /\ \/ /\ slots = 0
          /\ requests' = [requests EXCEPT ![r].at = "over"] /\ UNCHANGED slots
       \/ /\ slots > 0 /\ slots' = slots - 1
          /\ \E given \in IF requests[r].at = "new" THEN Inputs ELSE {requests[r]},
                kind \in IF requests[r].at = "new" THEN {"defaults", "prepare"} ELSE {"prepare"} :
               requests' = [requests EXCEPT ![r] =
                   [given EXCEPT !.at = "reading", !.kind = kind, !.waits = TRUE]]
    /\ UNCHANGED <<chainVars, scriptVars, mapped>>

\* Mutation: the slot goes with the caller.
DisconnectFreesSlot(r) ==
    /\ requests[r].at = "reading" /\ requests[r].waits
    /\ requests' = [requests EXCEPT ![r].waits = FALSE] /\ slots' = slots + 1
    /\ UNCHANGED <<chainVars, scriptVars, mapped>>

\* The caller is cancelled; the thread and its slot go on (asyncio.shield).
Disconnect(r) ==
    /\ requests[r].at = "reading" /\ requests[r].waits
    /\ requests' = [requests EXCEPT ![r].waits = FALSE] /\ UNCHANGED slots
    /\ UNCHANGED <<chainVars, scriptVars, mapped>>

\* read_existing_matches: of the chosen factory only, and only what can be read.
Matching(asked) ==
    {i \in DOMAIN auctions : auctions[i].good /\ auctions[i].source = asked.source
                             /\ auctions[i].factory = asked.factory}
Shown(asked) == SUBSET Matching(asked)
Simulates(asked) == ~Exists(Address(asked))

\* preview_deployment ends, or raises; only to prepare has its simulation to succeed
\* (409).  With no caller left the answer goes nowhere.
FinishRead(r) ==
    /\ requests[r].at = "reading" /\ slots' = slots + 1
    /\ \/ requests' = [requests EXCEPT ![r].at = "over"]
       \/ /\ requests[r].waits
          /\ requests[r].kind = "prepare" => Simulates(requests[r])
          /\ \E shown \in Shown(requests[r]) :
               requests' = [requests EXCEPT ![r].shown = shown,
                   ![r].at = IF requests[r].kind = "defaults" THEN "known" ELSE "prepared"]
    /\ UNCHANGED <<chainVars, scriptVars, mapped>>

\* The operator signs what was prepared, later or never, whatever was shown.
Sign(r) ==
    /\ requests[r].at = "prepared" /\ Len(pool) < MaxTx
    /\ pool' = Append(pool, Deployment(requests[r].factory, requests[r].source, 1, requests[r].salt))
    /\ requests' = [requests EXCEPT ![r].at = "over"]
    /\ UNCHANGED <<legacy, auctions, others, scriptVars, slots, mapped>>

\* deploy_single_auction: matches and simulation are only shown, but the gas
\* estimate has to succeed.
DeploySingle(r) ==
    /\ requests[r].at = "new" /\ Len(pool) < MaxTx
    /\ \E given \in Inputs : \E shown \in Shown(given) :
         /\ Simulates(given)
         /\ pool' = Append(pool, Deployment(given.factory, given.source, 1, given.salt))
         /\ requests' = [requests EXCEPT ![r] = [given EXCEPT !.at = "over", !.shown = shown]]
    /\ UNCHANGED <<legacy, auctions, others, scriptVars, slots, mapped>>

----------------------------------------------------------------------------
(* The mapping stage of a scan.                                            *)

Rank(i) == CHOOSE n \in DOMAIN Factories : Factories[n] = auctions[i].factory
Newer(i, j) == Rank(i) > Rank(j) \/ (Rank(i) = Rank(j) /\ i > j)
Valid(s) == {i \in DOMAIN auctions : auctions[i].good /\ auctions[i].source = s}
Latest(S) == IF S = {} THEN None ELSE CHOOSE i \in S : \A j \in S : j = i \/ Newer(i, j)

\* Mutation: auctions that cannot be read are passed over, as the migration does.
RefreshMappingReadable ==
    /\ \E read \in SUBSET DOMAIN auctions, wants \in SUBSET Sources :
         mapped' = [s \in Sources |-> IF s \in wants THEN Latest(Valid(s) \cap read) ELSE None]
    /\ UNCHANGED <<chainVars, scriptVars, requests, slots>>

\* Any factory or auction that cannot be read keeps the old mapping as it is; a
\* source whose want cannot be read loses its auction.
RefreshMapping ==
    /\ \E wants \in SUBSET Sources :
         mapped' = [s \in Sources |-> IF s \in wants THEN Latest(Valid(s)) ELSE None]
    /\ UNCHANGED <<chainVars, scriptVars, requests, slots>>

Next ==
    \/ Script \/ RefreshMapping
    \/ \E n \in DOMAIN pool : Mine(n)
    \/ \E s \in Sources : OthersDeploy(s)
    \/ \E i \in DOMAIN auctions : GovernanceMoves(i)
    \/ \E r \in Requests : Admit(r) \/ Disconnect(r) \/ FinishRead(r) \/ Sign(r) \/ DeploySingle(r)

Spec == Init /\ [][Next]_vars

----------------------------------------------------------------------------
(* Properties.                                                             *)

\* The types of the migration's entries, of the requests and of the mapping; what was
\* submitted has its transaction.
EntryOK(e) ==
    e # None => /\ e.status \in {"planned", "submitted", "verified", "error"}
                /\ e.legacy \in 1..(1 + MaxOthers) /\ e.tx \in 0..Len(pool)
                /\ e.addr # None => e.addr[1] = NewFactory
                /\ e.status = "submitted" => e.tx # 0 /\ e.addr # None
TypeOK ==
    /\ \A s \in Sources : EntryOK(file[s]) /\ EntryOK(script.entries[s])
    /\ script.at \in {"idle", "index", "entries", "sent", "wait"} /\ script.tx \in 0..Len(pool)
    /\ script.index \subseteq DOMAIN auctions /\ script.i \in 1..(Len(Order) + 1)
    /\ \A r \in Requests : /\ requests[r].at \in {"new", "reading", "known", "prepared", "over"}
                          /\ requests[r].shown \subseteq DOMAIN auctions
    /\ \A s \in Sources : mapped[s] \in {None} \union DOMAIN auctions

\* However often the migration is run, killed, timed out or replanned, and whatever
\* the index misses, a legacy auction is recreated at most once: build_salt holds
\* nothing but the strategy and its legacy auction (here told apart by its price).
RecreatedOnce ==
    \A i, j \in DOMAIN auctions :
        /\ auctions[i].salt[1] = "migration" /\ auctions[j].salt[1] = "migration"
        /\ auctions[i].source = auctions[j].source /\ auctions[i].price = auctions[j].price
        => i = j

\* An entry the cache file calls verified has an auction on the new factory, of its
\* source and price, at its address (verify_entry_against_auction), whichever run
\* wrote it and whatever became of the transaction it was submitted with.  Only the
\* governance, right when it was verified, may have moved since.
IsThere(s, e, addr) ==
    \E i \in DOMAIN auctions : Address(auctions[i]) = addr /\ Fits(auctions[i], s, e)
VerifiedIsTrue ==
    \A s \in Sources :
        file[s] # None /\ file[s].status = "verified" => IsThere(s, file[s], file[s].addr)

\* The API's thread pool never runs more deployment reads than there are slots, the
\* reads of callers that have gone away included, and each slot comes back once.
SlotsAccounted ==
    slots + Cardinality({r \in Requests : requests[r].at = "reading"}) = Slots

\* Nothing is deployed twice, believed deployed that is not, or left holding a slot:
\* RecreatedOnce, VerifiedIsTrue and SlotsAccounted.
FleetIsSound == RecreatedOnce /\ VerifiedIsTrue /\ SlotsAccounted

\* As long as the auction of a source has its governance, no scan takes the source to
\* an older one, of the same or of an older factory, also when governance was lost and
\* regained between two scans: a failed read keeps the mapping or clears it.
NeverOlder ==
    \A s \in Sources :
        mapped[s] \in Valid(s) /\ mapped'[s] \notin {None, mapped[s]} => Newer(mapped'[s], mapped[s])
MappingNeverFallsBack == [][NeverOlder]_vars
=============================================================================
