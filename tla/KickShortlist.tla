--------------------------- MODULE KickShortlist ---------------------------
(***************************************************************************)
(* Which candidates a kick run gets to see (evaluator.build_shortlist and  *)
(* the policies of kick_policy.py).  A candidate is a source, the auction  *)
(* it is mapped to and a token it holds; a market is what the tables and   *)
(* the kick config say about the candidates:                               *)
(*                                                                         *)
(*   usd      cached value of a candidate, 0 where its row does not        *)
(*            qualify (no auction, want or price, below the threshold)     *)
(*   scanned  auctions whose enabled tokens were read; listed: the enabled *)
(*            (auction, token) pairs of the cache                          *)
(*   ignored  rules: sources, auctions and (auction, token) pairs          *)
(*   cooling  pairs that are in their cooldown all along                   *)
(*   killed   strategies whose gauge is killed                             *)
(*   limit    number of candidates asked for, 0 for all                    *)
(***************************************************************************)
EXTENDS Integers, Sequences, FiniteSets, SequencesExt

SourceOf(cand)  == cand[1]
AuctionIn(cand) == cand[2]
PairOf(cand)    == <<cand[2], cand[3]>>

\* _filter_by_cached_auction_enablement: an auction that was never read is trusted.
CachedEnabled(m, cand) == AuctionIn(cand) \in m.scanned => PairOf(cand) \in m.listed

\* IgnorePolicy.match.
Ignored(m, cand) == {PairOf(cand), AuctionIn(cand), SourceOf(cand)} \intersect m.ignored # {}

\* _apply_cooldown_policy.
Cooling(m, cand) == PairOf(cand) \in m.cooling

\* The rows that qualify, within the options of the command.
Eligible(m, scope) == {cand \in scope \intersect DOMAIN m.usd : m.usd[cand] > 0 /\ CachedEnabled(m, cand)}

\* candidate_sort_key: the most valuable first; addresses break ties.
Before(m, x, y) ==
    LET place == SetToSeq(DOMAIN m.usd)
        At(cand) == CHOOSE n \in DOMAIN place : place[n] = cand
    IN  m.usd[x] > m.usd[y] \/ (m.usd[x] = m.usd[y] /\ At(x) < At(y))
SortCandidates(m, S) ==
    [n \in 1 .. Cardinality(S) |-> CHOOSE x \in S : Cardinality({y \in S : Before(m, y, x)}) = n - 1]

BestCandidatePerAuction(m, S) ==
    {cand \in S : \A other \in S : AuctionIn(other) = AuctionIn(cand) => cand = other \/ Before(m, cand, other)}

\* _apply_no_fill_policy; unfilled are the pairs whose latest rounds forbid a kick
\* (NoFillGuard.decide).
Unfilled(S, unfilled) == {cand \in S : PairOf(cand) \in unfilled}

\* The policies in their order.
BuildShortlist(m, scope, unfilled) ==
    LET eligible  == Eligible(m, scope)
        ignored   == {cand \in eligible : Ignored(m, cand)}
        noFill    == Unfilled(eligible \ ignored, unfilled)
        cooldown  == {cand \in eligible \ (ignored \union noFill) : Cooling(m, cand)}
        passing   == eligible \ (ignored \union noFill \union cooldown)
        ranked    == SortCandidates(m, BestCandidatePerAuction(m, passing))
        shown     == IF m.limit = 0 \/ m.limit > Len(ranked) THEN Len(ranked) ELSE m.limit
    IN  [noFill   |-> noFill,
         selected |-> SubSeq(ranked, 1, shown),
         deferred |-> SortCandidates(m, passing \ ToSet(ranked))]

\* _filter_kick_guard_disabled_candidates, which looks at what was selected.
GaugeAlive(m, cand) == SourceOf(cand) \notin m.killed
=============================================================================
