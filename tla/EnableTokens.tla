----------------------------- MODULE EnableTokens -----------------------------
(***************************************************************************)
(* tidal auction enable-tokens: the API looks the auction up, probes the   *)
(* tokens of its source one by one, cuts the eligible ones into            *)
(* transactions below the operator's gas limit and stores them as an       *)
(* action; the operator's client sends them one after the other.           *)
(*                                                                         *)
(* An auction bears the name of the fee burner that is its receiver.  All  *)
(* fee burners have the same want, an alias that names them all.           *)
(***************************************************************************)
EXTENDS Integers, Sequences, FiniteSets, SequencesExt

CONSTANTS Burners, Tokens, None,
          GasCap,   \* txn_max_gas_limit of the operator
          MaxGas,   \* bound: gas of one enable call
          MaxMoves  \* bound: moves of others

VARIABLES
    configured, \* settings.monitored_fee_burners
    rows,       \* fee_burners: "absent", None, or the auction of the burner
    standard,   \* chain: auctions governed by the trade handler
    gas,        \* chain: gas of the enable call of each token
    enabled,    \* chain: enabled tokens of each auction
    moves,      \* auction and token of each move of others, in order
    action,     \* the request, and the action it prepares
    pool        \* transactions of the action in the order sent

chainVars == <<standard, gas, enabled, moves>>
dbVars    == <<configured, rows>>
vars == <<chainVars, dbVars, action, pool>>

\* A request: what is left to do, what was selected, the batch being built with its
\* estimate, and the batches that are cut.
Asked(alias) == [at |-> "resolve", alias |-> alias, auction |-> None, listed |-> {},
                 found |-> {}, todo |-> <<>>, selected |-> <<>>, tokens |-> <<>>, plan |-> None, batches |-> <<>>]

Init ==
    /\ configured \in SUBSET Burners /\ standard \in SUBSET Burners
    /\ rows \in {r \in [Burners -> {"absent", None} \union Burners] : \A b \in Burners : r[b] \in {"absent", None, b}}
    /\ gas \in [Tokens -> 1..MaxGas]
    /\ \E E \in SUBSET Tokens : enabled = [b \in Burners |-> E]
    /\ moves = <<>> /\ pool = <<>>
    /\ \E alias \in {"auction", "burner"} \X Burners \union {<<"want", None>>} : action = Asked(alias)

At(place) == action.at = place
Goto(place) == action' = [action EXCEPT !.at = place]
Total(cost, ts) == FoldLeft(LAMBDA sum, t : sum + cost[t], 0, ts)

----------------------------------------------------------------------------
(* The chain and the scanner.                                              *)

\* AuctionKicker.enableTokens stands or falls as a whole; enabling twice reverts.
Mine(n) ==
    /\ pool[n].state = "pending"
    /\ IF \E t \in ToSet(pool[n].tokens) : t \in enabled[action.auction]
       THEN pool' = [pool EXCEPT ![n].state = "reverted"] /\ UNCHANGED enabled
       ELSE /\ pool' = [pool EXCEPT ![n].state = "ok"]
            /\ enabled' = [enabled EXCEPT ![action.auction] = @ \union ToSet(pool[n].tokens)]
    /\ UNCHANGED <<standard, gas, moves, dbVars, action>>

\* The scanner enables a token too, or governance enables or disables one.
Elsewhere ==
    /\ Len(moves) < MaxMoves
    /\ \E b \in Burners, t \in Tokens :
         /\ moves' = Append(moves, <<b, t>>)
         /\ enabled' = [enabled EXCEPT ![b] = IF t \in @ THEN @ \ {t} ELSE @ \union {t}]
    /\ UNCHANGED <<standard, gas, dbVars, action, pool>>

\* A scan finds the auction of a burner that has a row, or no longer finds it.
Remap(b) ==
    /\ At("resolve") /\ rows[b] # "absent"
    /\ rows' = [rows EXCEPT ![b] = IF @ = None THEN b ELSE None]
    /\ UNCHANGED <<chainVars, configured, action, pool>>

----------------------------------------------------------------------------
(* prepare_enable_tokens_action.                                           *)

Named(b) == action.alias \in {<<"burner", b>>, <<"want", None>>}

\* Mutation: of several fee burners the first with an auction will do.
ResolvesFirst(candidates, known) ==
    {b \in candidates : b \in known /\ rows[b] = b}

\* One candidate, and the row has its auction.
Resolves(candidates, known) ==
    {b \in candidates : candidates = {b} /\ b \in known /\ rows[b] = b}

\* _resolve_enable_tokens_auction_alias; a table that cannot be read is empty.  An
\* address that names no fee burner is an auction.
Resolve ==
    /\ At("resolve")
    /\ \E known \in {{}, {b \in Burners : rows[b] # "absent"}} :
         LET candidates == {b \in configured \union known : Named(b)}
         IN  \/ /\ candidates = {} /\ action.alias[1] = "auction"
                /\ action' = [action EXCEPT !.at = "inspect", !.auction = action.alias[2]]
             \/ \E b \in Resolves(candidates, known) :
                   action' = [action EXCEPT !.at = "inspect", !.auction = b]
             \/ /\ Resolves(candidates, known) = {}
                /\ candidates # {} \/ action.alias[1] # "auction"
                /\ Goto("error")
    /\ UNCHANGED <<chainVars, dbVars, pool>>

\* inspect_auction and discover_tokens: the enabled tokens are an empty list if they
\* cannot be read, and a source that cannot be read adds no token.
Inspect ==
    /\ At("inspect")
    /\ \E listed \in {{}, enabled[action.auction]}, found \in SUBSET Tokens :
         action' = [action EXCEPT !.at = "states", !.listed = listed, !.found = found]
    /\ UNCHANGED <<chainVars, dbVars, pool>>

\* _read_auction_token_enabled_many; a token that cannot be read counts as missing.
ReadStates ==
    /\ At("states")
    /\ \E read \in SUBSET (enabled[action.auction] \ action.listed) :
         action' = [action EXCEPT !.at = "probe", !.listed = @ \union read,
                       !.todo = SetToSeq(action.found)]
    /\ UNCHANGED <<chainVars, dbVars, pool>>

\* Mutation: enable() is not simulated.
SimulationSkipped(t) == TRUE

\* enable() called from governance.
Simulation(t) == t \notin enabled[action.auction]

\* probe_tokens: decimals, balance and simulation may fail, or the balance be zero.
Probe ==
    /\ At("probe") /\ action.todo # <<>>
    /\ LET t == Head(action.todo)
       IN  \/ action' = [action EXCEPT !.todo = Tail(@)]
           \/ /\ t \notin action.listed /\ Simulation(t)
              /\ action' = [action EXCEPT !.todo = Tail(@), !.selected = Append(@, t)]
    /\ UNCHANGED <<chainVars, dbVars, pool>>

\* Something is selected, or there is nothing to do.
Probed ==
    /\ At("probe") /\ action.todo = <<>>
    /\ IF action.selected = <<>> THEN Goto("noop")
       ELSE action' = [action EXCEPT !.at = "batch", !.todo = action.selected]
    /\ UNCHANGED <<chainVars, dbVars, pool>>

\* build_execution_plan: the estimate fails if the call would revert, or when a read
\* does.  Without an estimate nothing is cut.
Estimates(ts) == {None} \union (IF ToSet(ts) \cap enabled[action.auction] # {} THEN {} ELSE {Total(gas, ts)})
Above(plan) == plan # None /\ ~(plan <= GasCap)
Cut == Append(action.batches, [tokens |-> action.tokens, gas |-> action.plan])

\* Mutation: the token that did not fit is dropped.
JoinOrDrop(t, ts, plan) ==
    \/ ~Above(plan) /\ action' = [action EXCEPT !.todo = Tail(@), !.tokens = ts, !.plan = plan]
    \/ /\ Above(plan) /\ action.tokens # <<>>
       /\ action' = [action EXCEPT !.todo = Tail(@), !.batches = Cut, !.tokens = <<>>, !.plan = None]
    \/ Above(plan) /\ action.tokens = <<>> /\ Goto("error")

\* Mutation: the estimate that was too large is kept for the token alone.
JoinStale(t, ts, plan) ==
    \/ ~Above(plan) /\ action' = [action EXCEPT !.todo = Tail(@), !.tokens = ts, !.plan = plan]
    \/ /\ Above(plan) /\ action.tokens # <<>>
       /\ action' = [action EXCEPT !.todo = Tail(@), !.batches = Cut, !.tokens = <<t>>, !.plan = plan]
    \/ Above(plan) /\ action.tokens = <<>> /\ Goto("error")

\* The token joins the others, or they are cut off and it is estimated again on its
\* own, or it is too large for any transaction.
Join(t, ts, plan) ==
    \/ ~Above(plan) /\ action' = [action EXCEPT !.todo = Tail(@), !.tokens = ts, !.plan = plan]
    \/ Above(plan) /\ action.tokens # <<>> /\ action' = [action EXCEPT !.batches = Cut, !.tokens = <<>>]
    \/ Above(plan) /\ action.tokens = <<>> /\ Goto("error")

\* _build_enable_token_batches, one estimate after the other; the auction of another
\* governance has no plan.
Grow ==
    /\ At("batch") /\ action.todo # <<>>
    /\ IF action.auction \notin standard THEN Goto("error")
       ELSE LET ts == Append(action.tokens, Head(action.todo))
            IN  \E plan \in Estimates(ts) : Join(Head(action.todo), ts, plan)
    /\ UNCHANGED <<chainVars, dbVars, pool>>

\* The last batch, and the action with all of them.
Store ==
    /\ At("batch") /\ action.todo = <<>>
    /\ action' = [action EXCEPT !.at = "prepared", !.batches = Cut, !.tokens = <<>>]
    /\ UNCHANGED <<chainVars, dbVars, pool>>

\* Any read may raise: no action is stored.
Raises ==
    /\ action.at \in {"inspect", "states", "probe", "batch"}
    /\ Goto("error")
    /\ UNCHANGED <<chainVars, dbVars, pool>>

\* The client goes on after each confirmed transaction, or stops, or is told not to
\* send at all.  Without a gas limit it estimates first.
Send ==
    /\ At("prepared") /\ Len(pool) < Len(action.batches)
    /\ \A n \in DOMAIN pool : pool[n].state = "ok"
    /\ LET batch == action.batches[Len(pool) + 1]
       IN  /\ batch.gas = None => ToSet(batch.tokens) \cap enabled[action.auction] = {}
           /\ pool' = Append(pool, [tokens |-> batch.tokens, state |-> "pending"])
    /\ UNCHANGED <<chainVars, dbVars, action>>

Next ==
    \/ Resolve \/ Inspect \/ ReadStates \/ Probe \/ Probed \/ Grow \/ Store \/ Raises \/ Send \/ Elsewhere
    \/ \E n \in DOMAIN pool : Mine(n)
    \/ \E b \in Burners : Remap(b)

Spec == Init /\ [][Next]_vars

----------------------------------------------------------------------------
(* Properties.                                                             *)

Touched(t) == <<action.auction, t>> \in ToSet(moves)

\* When all transactions of an action are confirmed each selected token is enabled,
\* unless somebody else touched it: _build_enable_token_batches loses no token where
\* it cuts.
SelectionTakesEffect ==
    /\ At("prepared") /\ Len(pool) = Len(action.batches)
    /\ \A n \in DOMAIN pool : pool[n].state = "ok"
    => \A t \in ToSet(action.selected) : t \in enabled[action.auction] \/ Touched(t)

\* A transaction of an action reverts, or cannot be sent since its estimate fails,
\* only over a token that somebody else touched since the request: none was enabled
\* before, whichever reads of probe_tokens failed, nor by another of its batches.
OnlyOthersStopIt ==
    \A i \in DOMAIN action.batches :
        \/ i <= Len(pool) /\ pool[i].state # "reverted"
        \/ \A t \in ToSet(action.batches[i].tokens) : t \in enabled[action.auction] => Touched(t)

\* No action is prepared for an alias that more than one configured or stored fee
\* burner answers to, and none for another burner's auction, though the table could
\* not be read (_resolve_enable_tokens_auction_alias).
AliasNamesOne ==
    /\ action.alias[1] = "want" /\ action.auction # None
    => configured \union {b \in Burners : rows[b] # "absent"} = {action.auction}

\* A known estimate is that of the transaction's own tokens, and within the limit
\* the operator sent.
BatchesFit ==
    \A i \in DOMAIN action.batches :
        LET batch == action.batches[i]
        IN  batch.gas # None => batch.gas = Total(gas, batch.tokens) /\ batch.gas <= GasCap

\* An action enables what was selected, of the auction that was meant, in
\* transactions that fit: the four properties above.
EnablingIsSound == SelectionTakesEffect /\ OnlyOthersStopIt /\ AliasNamesOne /\ BatchesFit
=============================================================================
