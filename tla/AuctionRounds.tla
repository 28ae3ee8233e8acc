---------------------------- MODULE AuctionRounds ----------------------------
(***************************************************************************)
(* Canonical auction-round classification and the bounded no-fill retry    *)
(* policy of tidal/auction_rounds.py, for the operation rows of one        *)
(* (auction, token) pair.                                                  *)
(*                                                                         *)
(* A row of kick_txs is a record:                                          *)
(*   id      primary key                                                   *)
(*   op      "kick", "resolve", "sweep" (operator transactions) or         *)
(*           "settled" (an observed AuctionSettled log)                    *)
(*   status  "SUBMITTED", "CONFIRMED" or "REVERTED"                        *)
(*   pos     place in the chain (block number, transaction index, mined_at *)
(*           together), NoPos while unknown                                *)
(*   path    resolution_path of a resolve, NoPath while unknown            *)
(*   req, amt  requested_sell_amount and sell_amount, NoAmount if missing  *)
(*   link    round_kick_id, NoLink if null                                 *)
(*   created rank of created_at                                            *)
(*   base    historical_baseline and its reason: "no", "cleared" or        *)
(*           "repaired"                                                    *)
(* All rows belong to the pair, so _same_pair always holds here.           *)
(***************************************************************************)
EXTENDS Integers, FiniteSets

CONSTANT RetryTotal   \* number of configured retry delays

ASSUME RetryTotalAssumption == RetryTotal \in Nat

NoPos    == 0
NoPath   == -1
NoAmount == -1
NoLink   == 0

ClosingPaths == {1, 3, 4, 5}   \* ROUND_CLOSING_PATHS
AllPaths     == 0 .. 5         \* ROUND_RESOLUTION_PATHS

ClosesRound(r) == r.op = "settled" \/ (r.op = "resolve" /\ r.path \in ClosingPaths)

\* The amounts of the rows, token by token.
Total(rows) == Cardinality(UNION {{r} \X (1 .. r.amt) : r \in rows})

----------------------------------------------------------------------------
(* classify_round.                                                         *)

Linked(k, rows)    == {r \in rows : r.link = k.id}
Confirmed(k, rows) == {r \in Linked(k, rows) : r.status = "CONFIRMED"}
Sweeps(k, rows)    == {r \in Confirmed(k, rows) : r.op = "sweep"}
Resolves(k, rows)  == {r \in Confirmed(k, rows) : r.op = "resolve"}
Closes(k, rows)    == {r \in Confirmed(k, rows) : ClosesRound(r)}
\* Recoveries that do not close the round.
Partials(k, rows)  == Sweeps(k, rows) \union {r \in Resolves(k, rows) : r.path = 2}

AwaitingReceipt(k, rows) ==
    \/ k.status = "SUBMITTED"
    \/ \E r \in Linked(k, rows) : r.status = "SUBMITTED"

Unprovable(k, rows) ==
    \/ k.req = NoAmount \/ k.amt <= 0 \/ k.req # k.amt \/ k.pos = NoPos
    \/ \E r \in Confirmed(k, rows) : r.pos = NoPos \/ r.pos <= k.pos
    \/ \E r \in Resolves(k, rows) : r.path \notin AllPaths
    \/ \E r \in Partials(k, rows) : r.amt = NoAmount

Contradictory(k, rows) ==
    \/ Cardinality(Closes(k, rows)) # 1
    \/ \E c \in Closes(k, rows) :
         \/ \E r \in Sweeps(k, rows) : r.pos > c.pos
         \/ c.amt = NoAmount
         \/ c.op = "settled" /\ c.amt # 0
    \/ Total(Partials(k, rows) \union Closes(k, rows)) > k.amt

\* Mutation: any recovery of tokens is taken for a failed round.
PartlyRecovered(k, rows) == Total(Partials(k, rows) \union Closes(k, rows)) > 0

FullyRecovered(k, rows) == Total(Partials(k, rows) \union Closes(k, rows)) = k.amt

ClassifyRound(k, rows) ==
    IF AwaitingReceipt(k, rows) THEN "INCOMPLETE"
    ELSE IF Unprovable(k, rows) THEN "UNKNOWN"
    ELSE IF Closes(k, rows) = {} THEN "INCOMPLETE"
    ELSE IF Contradictory(k, rows) THEN "UNKNOWN"
    ELSE IF FullyRecovered(k, rows) THEN "NO_FILL" ELSE "PRODUCTIVE"

----------------------------------------------------------------------------
(* _classify_pair_rounds: kicks newest first, by (created_at, id).         *)

Kicks(rows) == {r \in rows : r.op = "kick" /\ r.status \in {"CONFIRMED", "SUBMITTED"}}

NewerThan(a, b) == a.created > b.created \/ (a.created = b.created /\ a.id > b.id)

Newer(k, rows) == {j \in Kicks(rows) : NewerThan(j, k)}

UnlinkedCloses(rows) ==
    {r \in rows : /\ r.op \in {"resolve", "settled"}
                  /\ r.link = NoLink
                  /\ r.status = "SUBMITTED" \/ (r.status = "CONFIRMED" /\ ClosesRound(r))}

\* has_unlinked_close: a close nobody owns falls between k and the next kick;
\* by chain position where both are known, otherwise by creation time.
HasUnlinkedClose(k, rows) ==
    LET next == {n \in Newer(k, rows) : \A j \in Newer(k, rows) : ~NewerThan(n, j)}
    IN  \E c \in UnlinkedCloses(rows) :
          IF k.pos # NoPos /\ c.pos # NoPos
            THEN /\ c.pos > k.pos
                 /\ \A n \in next : n.pos = NoPos \/ c.pos < n.pos
            ELSE /\ c.created > k.created
                 /\ \A n \in next : c.created < n.created

Outcome(k, rows) ==
    IF HasUnlinkedClose(k, rows) THEN "UNKNOWN" ELSE ClassifyRound(k, rows)

----------------------------------------------------------------------------
(* _current_pair_rounds and classify_pair_operations.                      *)

\* The rounds newer than the newest reviewed baseline.
Current(rows) ==
    {k \in Kicks(rows) : \A b \in Kicks(rows) : b.base # "no" => NewerThan(k, b)}

Latest(rows) == {k \in Current(rows) : Newer(k, rows) = {}}

\* The unbroken run of no-fills at the newest end.
NoFillRun(rows) ==
    {k \in Current(rows) :
        \A j \in Newer(k, rows) \union {k} : Outcome(j, rows) = "NO_FILL"}

\* The round that ends the run, if any.
Terminal(rows) ==
    {k \in Current(rows) \ NoFillRun(rows) : Newer(k, rows) \subseteq NoFillRun(rows)}

\* Mutation: the newest round becomes the baseline.
LatestAfterNoFill(rows) ==
    {k \in Latest(rows) : \E j \in Current(rows) : Outcome(j, rows) = "NO_FILL"}

\* plan_no_fill_suspension_clear: the newest completed no-fill, unless there is
\* anything but incomplete rounds after it.
ClearableNoFill(rows) ==
    {k \in Current(rows) : /\ Outcome(k, rows) = "NO_FILL"
                           /\ \A j \in Newer(k, rows) : Outcome(j, rows) = "INCOMPLETE"}

----------------------------------------------------------------------------
(* NoFillGuard.decide: due says whether the retry delay of the latest      *)
(* no-fill has passed, override is allow_exhausted_retry.                  *)

\* Mutation: an incomplete round does not stop the pair.
DecideIgnoringIncomplete(rows, due, override) ==
    LET count == Cardinality(NoFillRun(rows))
        Is(S, outcomes) == \E k \in S : Outcome(k, rows) \in outcomes
    IN  IF Latest(rows) = {} \/ Is(Latest(rows), {"PRODUCTIVE"}) THEN "ALLOW"
        ELSE IF Is(Terminal(rows), {"UNKNOWN"}) THEN "BLOCK"
        ELSE IF count > RetryTotal THEN IF override THEN "ALLOW" ELSE "BLOCK"
        ELSE IF due THEN "ALLOW" ELSE "DEFER"

Decide(rows, due, override) ==
    LET count == Cardinality(NoFillRun(rows))
        Is(S, outcomes) == \E k \in S : Outcome(k, rows) \in outcomes
    IN  IF Latest(rows) = {} \/ Is(Latest(rows), {"PRODUCTIVE"}) THEN "ALLOW"
        ELSE IF Is(Terminal(rows), {"UNKNOWN", "INCOMPLETE"}) THEN "BLOCK"
        ELSE IF count > RetryTotal THEN IF override THEN "ALLOW" ELSE "BLOCK"
        ELSE IF due THEN "ALLOW" ELSE "DEFER"

----------------------------------------------------------------------------
(* KickTxRepository.latest_confirmed_unclosed_kick: the confirmed kick     *)
(* with no confirmed close, latest in the chain, before a position.        *)

UnclosedKicks(rows) ==
    {k \in rows : /\ k.op = "kick" /\ k.status = "CONFIRMED"
                  /\ ~ \E c \in rows : /\ c.link = k.id /\ c.status = "CONFIRMED"
                                       /\ ClosesRound(c)}

\* Mutation: the kick recorded last, not the one mined last.
LatestOfById(kicks) ==
    IF kicks = {} THEN NoLink
    ELSE CHOOSE id \in {k.id : k \in kicks} : \A j \in kicks : id >= j.id

LatestOf(kicks) ==
    IF kicks = {} THEN NoLink
    ELSE (CHOOSE k \in kicks :
            \A j \in kicks : k.pos > j.pos \/ (k.pos = j.pos /\ k.id >= j.id)).id

LatestUnclosed(rows) == LatestOf(UnclosedKicks(rows))

LatestUnclosedBefore(rows, pos) ==
    LatestOf({k \in UnclosedKicks(rows) : k.pos # NoPos /\ k.pos < pos})
=============================================================================
