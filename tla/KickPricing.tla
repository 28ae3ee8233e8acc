---------------------------- MODULE KickPricing ----------------------------
(***************************************************************************)
(* How a kick is sized and priced (KickPreparer.prepare_kick and           *)
(* auction_price_units.py).  A view is what the preparer reads about a     *)
(* candidate: the auction, the tokens, the quote, and the policy of the    *)
(* pair.  Amounts are in the smallest unit of their token, prices in       *)
(* dollars per whole token; Decimals are exact and kept as integers by     *)
(* scaling.  10^18, 10^27 and 10_000 are parameters, to be small where TLC *)
(* counts.  None is no cap, or no quote that can be used: none at all, one *)
(* that resolves to the want token, lacks the Curve quote that is          *)
(* required, or has other decimals than the token.                         *)
(***************************************************************************)
EXTENDS Integers, Sequences, FiniteSets, SequencesExt

CONSTANTS Wad,        \* 10^18
          Ray,        \* 10^27
          Bps,        \* 10_000
          Dust,       \* 10^9, the least starting price of version 1.0.5
          Threshold,  \* txn_usd_threshold
          None

ASSUME ScalesAssumption ==
    /\ Wad \in Nat \ {0} /\ Ray \in Nat \ {0} /\ Bps \in Nat \ {0} /\ Ray % Bps = 0
    /\ Dust \in Nat /\ Threshold \in Nat

\* The amounts that chain and tables give: decimals are between 0 and 18.
Readable(v) ==
    /\ v.sellUnit \in 1 .. Wad /\ v.wantUnit \in 1 .. Wad /\ Wad % v.wantUnit = 0
    /\ v.balance \in Nat /\ v.price \in Nat /\ v.cap \in Nat \union {None}
    /\ v.quote \in Nat \union {None} /\ v.startBuffer \in Nat

CeilDiv(n, d) == (n + d - 1) \div d
Least(a, b)   == IF a < b THEN a ELSE b
SellScaler(v) == Wad \div v.sellUnit
WantScaler(v) == Wad \div v.wantUnit

----------------------------------------------------------------------------
(* The auction, the balance and the amount to sell.                        *)

\* starting_price_encoding of the approved versions.
Encoding == [version \in {"1.0.4", "1.0.5"} |-> IF version = "1.0.4" THEN "whole want" ELSE "wad want"]
InWholeWant(v) == Encoding[v.version] = "whole want"

\* inspect_candidates: every version stored for the auction is the approved one
\* that its contract reports.
Compatible(v) == v.version \in DOMAIN Encoding /\ v.stored = {v.version}

\* _select_sell_size; no cap is None.
SellAmount(v) ==
    IF v.cap = None THEN v.balance ELSE Least(v.balance, (v.cap * v.sellUnit) \div v.price)

\* The balance, and what the cap leaves of it, must be worth a kick.
Sellable(v) ==
    /\ v.length > 0 /\ v.step > 0
    /\ v.price > 0 \/ v.cap = None
    /\ SellAmount(v) > 0
    /\ SellAmount(v) * v.price >= Threshold * v.sellUnit

----------------------------------------------------------------------------
(* The quote.                                                              *)

\* Whether the quote can be used.
Quoted(v) == v.quote # None

MedianInt(s) ==
    LET ordered == SortSeq(s, <)
        mid     == Len(s) \div 2
    IN  IF Len(s) % 2 = 1 THEN ordered[mid + 1] ELSE (ordered[mid] + ordered[mid + 1]) \div 2

\* Mutation: the highest quote is trusted.
TrustHighest(v) == v.quote

\* _select_floor_quote_amount_raw: the median of the other quotes, unless
\* another provider comes close to the highest one.
FloorQuote(v) ==
    LET successful == SelectSeq(v.providers, LAMBDA amount : amount > 0)
        others     == SelectSeq(successful, LAMBDA amount : amount < v.quote)
        Near(amount) == LET gap == IF amount < v.quote THEN v.quote - amount ELSE amount - v.quote
                        IN  0 < gap /\ gap * Bps <= v.quote * v.minBuffer
        vouched == \/ Len(SelectSeq(successful, LAMBDA amount : amount = v.quote)) > 1
                   \/ SelectSeq(successful, Near) # <<>>
    IN  IF v.quote <= 0 \/ ~v.outlierFloor \/ Len(others) < 2 \/ vouched THEN v.quote
        ELSE MedianInt(others)

----------------------------------------------------------------------------
(* auction_price_units.py.                                                 *)

BufferedQuote(v) == v.quote * (Bps + v.startBuffer)  \* times Bps

\* Mutation: the encoded price is rounded down.
StartingPriceDown(v) ==
    IF InWholeWant(v) THEN BufferedQuote(v) \div (Bps * v.wantUnit)
    ELSE (BufferedQuote(v) * WantScaler(v)) \div Bps

\* encode_starting_price_raw: in whole want tokens, or in units of 1/Wad.
StartingPrice(v) ==
    IF InWholeWant(v) THEN CeilDiv(BufferedQuote(v), Bps * v.wantUnit)
    ELSE CeilDiv(BufferedQuote(v) * WantScaler(v), Bps)

WDiv(x, y) == (x * Wad + y \div 2) \div y
RMul(x, y) == (x * y + Ray \div 2) \div Ray

\* _rpow: x^n by repeated squaring; product[b] has used the lowest b bits of n.
RPow(x, n) ==
    LET bits == CHOOSE b \in 0 .. n : 2^b > n /\ (b = 0 \/ 2^(b - 1) <= n)
        square[b \in 0 .. bits] == IF b = 0 THEN x ELSE RMul(square[b - 1], square[b - 1])
        product[b \in 0 .. bits] ==
            IF b = 0 THEN Ray
            ELSE IF (n \div 2^(b - 1)) % 2 = 0 THEN product[b - 1]
            ELSE IF b = 1 THEN x ELSE RMul(product[b - 1], square[b - 1])
    IN  product[bits]

\* The lot, in units of 1/Wad.
Available(v)    == SellAmount(v) * SellScaler(v)
LotAt(v, price) == ((Available(v) * price) \div Wad) \div WantScaler(v)

\* What the auction asks for the whole lot after n steps.
LotAsk(v, start, n) ==
    LET initial == WDiv(IF InWholeWant(v) THEN start * Wad ELSE start, Available(v))
    IN  LotAt(v, RMul(initial, RPow(Ray - v.decay * (Ray \div Bps), n)))

Steps(v) == v.length \div v.step

\* latent_terminal_full_lot_ask_raw: the ask of its last step.
TerminalAsk(v) == LotAsk(v, StartingPrice(v), Steps(v))

\* compute_floor_rate and compute_minimum_price_scaled_1e18, with exact quotients: those
\* of the code are Decimals of 28 digits, so its price may differ in the last place.
MinimumPrice(v) ==
    IF v.minBuffer >= Bps THEN 0
    ELSE (FloorQuote(v) * v.sellUnit * (Bps - v.minBuffer) * Wad) \div (v.wantUnit * SellAmount(v) * Bps)

----------------------------------------------------------------------------
(* prepare_kick.                                                           *)

\* Mutation: the price an unsold auction ends with is not looked at.
PriceableWithoutAsk(v) == v.quote > 0 /\ StartingPrice(v) > 0 /\ LotAt(v, MinimumPrice(v)) < FloorQuote(v)

\* A quote that cannot be encoded, a minimum that is not below the quote, and an
\* auction that would not come down to the quote are given up.
Priceable(v) ==
    /\ v.quote > 0 /\ StartingPrice(v) > (IF InWholeWant(v) THEN 0 ELSE Dust)
    /\ v.decay \in 1 .. Bps - 1
    /\ LotAt(v, MinimumPrice(v)) < FloorQuote(v)
    /\ TerminalAsk(v) <= FloorQuote(v)

PrepareKick(v) ==
    IF ~(Compatible(v) /\ Sellable(v) /\ Quoted(v)) THEN None
    ELSE IF ~Priceable(v) THEN None
    ELSE [sell |-> SellAmount(v), start |-> StartingPrice(v), minimum |-> MinimumPrice(v)]
=============================================================================
