---------------------------- MODULE KickRunProofs ----------------------------
(***************************************************************************)
(* What kick runs, settlements and sweeps guarantee for any number of      *)
(* clients, pairs, markets, transactions and commands.                     *)
(*                                                                         *)
(* The argument: what a client is doing is tied to what it has sent under  *)
(* its current command.  Each transaction of the command is on an auction  *)
(* that is done with, or is one of the calls of the action at hand, as far *)
(* as it got; as long as every record says confirmed, each of them has     *)
(* succeeded.  And what a client is about to kick was permitted by the     *)
(* policies, and is not on unsold tokens unless that is known to happen.   *)
(*                                                                         *)
(* Streaks without a fill come next.  Their invariant counts, per pair,    *)
(* the kicks that have no fill or may get none, and the clients with an    *)
(* allowed kick in their hands; when the guard allows a kick, the former   *)
(* are recent rounds it has seen, or unreported, or were in the pool when  *)
(* an older round was filled: at most one of each client.                  *)
(*                                                                         *)
(* Last, what a kick that is offered starts at: what each division of the  *)
(* encoding, the initial price and the ask of the lot can lose.            *)
(***************************************************************************)
EXTENDS KickRun, SequenceLemmas

----------------------------------------------------------------------------
(* The inductive invariant: what a client is doing.                        *)

Places  == {"idle", "next", "lots", "quote", "estimate", "review", "check", "send", "report", "wait",
            "finish", "done"}
Acting  == {"review", "check", "send", "report", "wait"}
Outcomes == {"CONFIRMED", "REVERTED", "PENDING"}
Calls   == [op : {"kick", "resolve", "sweep"}, pair : Pairs, force : BOOLEAN]
Fields(r) ==
    r = [at |-> r.at, cmd |-> r.cmd, mode |-> r.mode, run |-> r.run, queue |-> r.queue,
         done |-> r.done, pair |-> r.pair, busy |-> r.busy, ops |-> r.ops, kick |-> r.kick,
         next |-> r.next, aged |-> r.aged, why |-> r.why, results |-> r.results,
         records |-> r.records, expected |-> r.expected, verdict |-> r.verdict]

AllConfirmed(results) == \A n \in DOMAIN results : results[n] = "CONFIRMED"

\* The calls of an action: one, or resolutions of different lots of an auction; a
\* kick is of the pair that was prepared.
OneAction(r) ==
    /\ r.ops \in Seq(Calls)
    /\ \A n \in DOMAIN r.ops : /\ AuctionOf(r.ops[n].pair) = AuctionOf(r.pair)
                               /\ r.ops[n].op = "kick" => r.cmd = "kick" /\ r.ops[n].pair = r.pair
    /\ \A n, k \in DOMAIN r.ops : n # k => /\ r.ops[n].op = "resolve" /\ r.ops[k].op = "resolve"
                                           /\ r.ops[n].pair # r.ops[k].pair

WellFormed(r) ==
    /\ Fields(r)
    /\ r.at \in Places /\ r.run \in Nat /\ r.why \subseteq Reasons
    /\ r.results \in Seq(Outcomes) /\ r.records \in Seq(Outcomes) /\ r.expected \in Nat
    /\ OneAction(r) /\ AllConfirmed(r.results)
    /\ IF r.at \in Acting THEN r.ops # <<>> /\ r.next \in 1 .. Len(r.ops)
                          ELSE r.ops = <<>> /\ r.next = 1 /\ r.results = <<>>
    /\ r.at \in {"review", "check"} => r.next = 1 /\ r.results = <<>>
    /\ r.at \in {"next", "lots", "quote", "estimate"} => r.cmd = "kick"
    /\ r.at \in {"lots", "quote", "estimate"} => r.pair \in Pairs
    /\ r.at \in {"lots", "quote", "estimate"} \union Acting => AuctionOf(r.pair) \notin r.done
    /\ r.verdict # "none" => r.at = "done"

\* What it has sent.  T are the transactions, and S those of the command at hand.
SentBy(c, r, T) == {t \in DOMAIN T : T[t].by = c /\ T[t].run = r.run}
IsCall(tx, call) == tx.op = call.op /\ tx.pair = call.pair
Got(r) == IF r.at \in {"report", "wait"} THEN r.next ELSE r.next - 1
Latest(c, t, T) == \A u \in DOMAIN T : T[u].by = c => u <= t

OneByOne(c, r, T) ==
    /\ r.at \notin {"idle", "finish", "done"} =>
         \A t \in SentBy(c, r, T) : \/ AuctionOf(T[t].pair) \in r.done
                                    \/ \E n \in 1 .. Got(r) : IsCall(T[t], r.ops[n])
    /\ r.at = "send" => \A t \in DOMAIN T : T[t].by = c => T[t].state # "pool"
    /\ r.at \in {"report", "wait"} => \E t \in SentBy(c, r, T) : Latest(c, t, T)

\* The records tell what became of it, the last transaction excepted while the
\* client waits for it.
Recorded(c, r, T) ==
    LET S == SentBy(c, r, T) IN
    /\ S = {} => r.records = <<>>
    /\ r.records = <<>> /\ r.results = <<>> /\ r.at \notin {"report", "wait"} => S = {}
    /\ AllConfirmed(r.records) =>
         \A t \in S : T[t].state = "ok" \/ (r.at \in {"report", "wait"} /\ Latest(c, t, T))

TellsTheTruth(c, r, T) ==
    /\ r.at \notin {"idle", "finish", "done"} => Recorded(c, r, T)
    /\ r.at = "finish" => r.expected > Len(r.records) \/ Recorded(c, r, T)
    /\ r.verdict = "confirmed" => SentBy(c, r, T) # {} /\ \A t \in SentBy(c, r, T) : T[t].state = "ok"
    /\ r.verdict = "noop" => SentBy(c, r, T) = {}

----------------------------------------------------------------------------
(* The inductive invariant: what may be kicked.                            *)

\* What policies say of a pair.  m is the market.
Allowed(m, p, why) ==
    \E cand \in DOMAIN m.usd :
        /\ PairOf(cand) = p /\ cand \in Eligible(m, DOMAIN m.usd)
        /\ ~Ignored(m, cand) /\ ~Cooling(m, cand)
        /\ GaugeAlive(m, cand) \/ "gauge" \in why
Permitted(r, m) ==
    /\ r.at \in {"lots", "quote", "estimate"} => Allowed(m, r.pair, r.why)
    /\ \A n \in DOMAIN r.ops : r.ops[n].op = "kick" => Allowed(m, r.ops[n].pair, r.why)

\* What may be kicked over unsold tokens.  L are the lots.
Excused(why) == why \intersect {"late", "unread"} # {}
Covered(r, L) ==
    /\ r.at \in {"quote", "estimate"} => L[r.pair] # "leftover" \/ "unread" \in r.why
    /\ \A n \in DOMAIN r.ops : (r.ops[n].op = "kick" /\ L[r.ops[n].pair] = "leftover") =>
         Excused(r.why) \/ (r.at = "review" /\ r.aged)

\* All of it: n commands have been started.
Honest(c, r, n, T, m, L) ==
    /\ WellFormed(r) /\ r.run <= n
    /\ OneByOne(c, r, T) /\ TellsTheTruth(c, r, T)
    /\ Permitted(r, m) /\ Covered(r, L)

----------------------------------------------------------------------------
(* The inductive invariant: transactions and lots.                         *)

LotStates == {"clean", "live", "sold", "leftover", "empty", "donated"}
TxType ==
    [op : {"kick", "resolve", "sweep"}, pair : Pairs, force : BOOLEAN, by : Clients, run : Nat,
     state : {"pool", "ok", "reverted"}, known : BOOLEAN,
     round : {"none", "unclear", "open", "bought", "filled", "unfilled"},
     over : LotStates \union {"none"}, why : SUBSET Reasons]

TxsTrue ==
    /\ txs \in Seq(TxType)
    /\ \A t \in DOMAIN txs :
         /\ txs[t].run <= started
         /\ txs[t].round # "none" => txs[t].op = "kick" /\ txs[t].state = "ok"
         /\ txs[t].round \in {"open", "bought"} => lot[txs[t].pair] \notin {"clean", "donated"}
         /\ (txs[t].op = "kick" /\ txs[t].state = "pool" /\ lot[txs[t].pair] = "leftover") =>
              Excused(txs[t].why)
    /\ NoKickOverLeftovers /\ OneActionPerAuction /\ StopsWhilePending /\ PolicyRespected

RunInv ==
    /\ market \in Markets /\ started \in Nat /\ lot \in [Pairs -> LotStates]
    /\ DOMAIN client = Clients /\ \A c \in Clients : Honest(c, client[c], started, txs, market, lot)
    /\ TxsTrue

----------------------------------------------------------------------------
(* Frames: what a step leaves alone.                                       *)

\* Transactions go on: they keep what they are, and their outcome once there is one.
Follows(T, T2) ==
    \A t \in DOMAIN T :
        /\ t \in DOMAIN T2 /\ T2[t].by = T[t].by /\ T2[t].run = T[t].run
        /\ T2[t].op = T[t].op /\ T2[t].pair = T[t].pair
        /\ T[t].state # "pool" => T2[t].state = T[t].state

\* A client is not concerned by what others send.
LEMMA Steady ==
    ASSUME NEW c, NEW r, NEW T, NEW T2, Follows(T, T2),
           \A t \in DOMAIN T2 : T2[t].by = c => t \in DOMAIN T,
           OneByOne(c, r, T), TellsTheTruth(c, r, T)
    PROVE  OneByOne(c, r, T2) /\ TellsTheTruth(c, r, T2)
<1>1. SentBy(c, r, T2) = SentBy(c, r, T)
  BY DEF SentBy, Follows
<1>2. \A t \in DOMAIN T : Latest(c, t, T2) <=> Latest(c, t, T)
  BY DEF Latest, Follows
<1>3. \A t \in SentBy(c, r, T) : t \in DOMAIN T /\ T2[t].op = T[t].op /\ T2[t].pair = T[t].pair
                                 /\ (T[t].state = "ok" => T2[t].state = "ok")
  BY DEF SentBy, Follows
<1>4. r.at = "send" => \A t \in DOMAIN T2 : T2[t].by = c => T2[t].state # "pool"
  BY DEF OneByOne, Follows
<1>5. OneByOne(c, r, T2)
  BY <1>1, <1>2, <1>3, <1>4 DEF OneByOne, IsCall
<1>6. Recorded(c, r, T) => Recorded(c, r, T2)
  BY <1>1, <1>2, <1>3 DEF Recorded
<1>7. TellsTheTruth(c, r, T2)
  BY <1>1, <1>3, <1>6 DEF TellsTheTruth
<1> QED BY <1>5, <1>7

\* Transactions that have only been reported.
LEMMA TxsKept ==
    ASSUME TxsTrue, UNCHANGED <<market, lot>>, started \in Nat, started' \in Nat, started <= started',
           txs' \in Seq(TxType), DOMAIN txs' = DOMAIN txs,
           \A t \in DOMAIN txs :
               /\ txs'[t].op = txs[t].op /\ txs'[t].pair = txs[t].pair /\ txs'[t].by = txs[t].by
               /\ txs'[t].run = txs[t].run /\ txs'[t].state = txs[t].state
               /\ txs'[t].round = txs[t].round /\ txs'[t].over = txs[t].over /\ txs'[t].why = txs[t].why
    PROVE  TxsTrue'
<1>1. \A t \in DOMAIN txs' : txs'[t].run <= started'
  <2>1. \A t \in DOMAIN txs : txs[t].run \in Nat /\ txs[t].run <= started
    <3>1. \A t \in DOMAIN txs : txs[t] \in TxType /\ txs[t].run <= started
      BY DEF TxsTrue
    <3> QED BY <3>1 DEF TxType
  <2> QED BY <2>1
<1>2. \A t \in DOMAIN txs' :
         /\ txs'[t].round # "none" => txs'[t].op = "kick" /\ txs'[t].state = "ok"
         /\ txs'[t].round \in {"open", "bought"} => lot'[txs'[t].pair] \notin {"clean", "donated"}
         /\ (txs'[t].op = "kick" /\ txs'[t].state = "pool" /\ lot'[txs'[t].pair] = "leftover") =>
              Excused(txs'[t].why)
  BY DEF TxsTrue
<1>3. NoKickOverLeftovers' /\ StopsWhilePending'
  BY DEF TxsTrue, NoKickOverLeftovers, StopsWhilePending
<1>4. OneActionPerAuction'
  BY DEF TxsTrue, OneActionPerAuction
<1>5. PolicyRespected'
  BY DEF TxsTrue, PolicyRespected, Candidates
<1> QED BY <1>1, <1>2, <1>3, <1>4, <1>5 DEF TxsTrue

\* A step of a client that sends nothing.
LEMMA ClientStep ==
    ASSUME RunInv, NEW c \in Clients, NEW new, Become(c, new), UNCHANGED <<market, lot, txs>>,
           started' \in Nat, started <= started', Honest(c, new, started', txs, market, lot)
    PROVE  RunInv'
<1>1. DOMAIN client' = Clients /\ client'[c] = new /\ \A d \in Clients : d # c => client'[d] = client[d]
  BY DEF RunInv, Become
<1>2. \A d \in Clients : Honest(d, client'[d], started', txs, market, lot)
  <2> TAKE d \in Clients
  <2>1. CASE d = c
    BY <1>1, <2>1
  <2>2. CASE d # c
    <3>1. client'[d] = client[d] /\ Honest(d, client[d], started, txs, market, lot)
      BY <1>1, <2>2 DEF RunInv
    <3>2. client[d].run \in Nat /\ client[d].run <= started /\ started \in Nat
      BY <3>1 DEF Honest, WellFormed, RunInv
    <3>3. client[d].run <= started'
      BY <3>2
    <3> QED BY <3>1, <3>3 DEF Honest
  <2> QED BY <2>1, <2>2
<1>3. TxsTrue'
  BY TxsKept DEF RunInv, TxsTrue
<1> QED BY <1>1, <1>2, <1>3 DEF RunInv

\* A client has a record, and what can be said of it.
LEMMA ClientFacts ==
    ASSUME RunInv, NEW c \in Clients, NEW r, r = client[c]
    PROVE  /\ Honest(c, r, started, txs, market, lot)
           /\ WellFormed(r) /\ Fields(r) /\ r.run \in Nat /\ r.run <= started /\ started \in Nat
BY DEF RunInv, Honest, WellFormed

----------------------------------------------------------------------------
(* Steps of a client that send nothing.                                    *)

\* A record whose action is over.
LEMMA OnwardIs ==
    ASSUME NEW r, Fields(r)
    PROVE  LET s == Onward(r) IN
           /\ Fields(s) /\ s.at = "next" /\ s.ops = <<>> /\ s.next = 1 /\ s.results = <<>>
           /\ s.why = r.why \intersect Flags /\ s.aged = FALSE
           /\ s.cmd = r.cmd /\ s.run = r.run /\ s.done = r.done /\ s.pair = r.pair
           /\ s.records = r.records /\ s.expected = r.expected /\ s.verdict = r.verdict
           /\ s.mode = r.mode /\ s.queue = r.queue
<1>1. PICK s : s = Onward(r)
  OBVIOUS
<1>2. /\ Fields(s) /\ s.at = "next" /\ s.ops = <<>> /\ s.next = 1 /\ s.results = <<>>
      /\ s.why = r.why \intersect Flags /\ s.aged = FALSE
      /\ s.cmd = r.cmd /\ s.run = r.run /\ s.done = r.done /\ s.pair = r.pair
      /\ s.records = r.records /\ s.expected = r.expected /\ s.verdict = r.verdict
      /\ s.mode = r.mode /\ s.queue = r.queue
  BY <1>1 DEF Fields, Onward
<1> QED BY <1>1, <1>2

\* Nothing to do has no calls.
LEMMA NoCalls ==
    ASSUME NEW r, r.ops = <<>>
    PROVE  OneAction(r) /\ (\A n : n \notin DOMAIN r.ops) /\ Len(r.ops) = 0
<1>1. <<>> \in Seq(Calls) /\ DOMAIN <<>> = {} /\ Len(<<>>) = 0
  OBVIOUS
<1> QED BY <1>1 DEF OneAction

LEMMA NoResults ==
    <<>> \in Seq(Outcomes) /\ AllConfirmed(<<>>)
<1>1. <<>> \in Seq(Outcomes) /\ DOMAIN <<>> = {}
  OBVIOUS
<1> QED BY <1>1 DEF AllConfirmed

\* A client that has nothing in hand is fine, if what it has sent is.
LEMMA EmptyHanded ==
    ASSUME NEW c, NEW r, NEW n, NEW T, NEW m, NEW L, NEW s, Honest(c, r, n, T, m, L),
           r.verdict = "none", Fields(s), s.at = "next", s.cmd = "kick",
           s.ops = <<>>, s.next = 1, s.results = <<>>, s.why \subseteq Reasons,
           s.run = r.run, s.records = r.records, s.expected = r.expected, s.verdict = r.verdict,
           OneByOne(c, s, T), Recorded(c, s, T)
    PROVE  Honest(c, s, n, T, m, L)
<1>1. OneAction(s) /\ (\A k : k \notin DOMAIN s.ops) /\ AllConfirmed(s.results)
  BY NoCalls, NoResults
<1>2. WellFormed(s)
  BY <1>1, NoResults DEF Honest, WellFormed, Places, Acting
<1>3. Permitted(s, m) /\ Covered(s, L)
  BY <1>1 DEF Permitted, Covered
<1>4. TellsTheTruth(c, s, T)
  BY DEF TellsTheTruth
<1> QED BY <1>2, <1>3, <1>4 DEF Honest

\* A candidate that is given up, before anything of it has been sent.
LEMMA SkipIsFine ==
    ASSUME RunInv, NEW c \in Clients, client[c].cmd = "kick",
           client[c].at \in {"next", "lots", "quote", "estimate", "review", "check"}
    PROVE  Honest(c, Onward(client[c]), started, txs, market, lot)
<1>1. PICK r, s : r = client[c] /\ s = Onward(r)
  OBVIOUS
<1>2. Honest(c, r, started, txs, market, lot) /\ WellFormed(r) /\ Fields(r)
  BY <1>1, ClientFacts
<1>3. /\ Fields(s) /\ s.at = "next" /\ s.ops = <<>> /\ s.next = 1 /\ s.results = <<>>
      /\ s.why = r.why \intersect Flags
      /\ s.cmd = r.cmd /\ s.run = r.run /\ s.done = r.done
      /\ s.records = r.records /\ s.expected = r.expected /\ s.verdict = r.verdict
  BY <1>1, <1>2, OnwardIs
<1>4. r.next = 1 /\ r.results = <<>> /\ r.why \subseteq Reasons /\ r.verdict = "none"
  BY <1>1, <1>2 DEF WellFormed, Acting
<1>5. SentBy(c, s, txs) = SentBy(c, r, txs)
  BY <1>3 DEF SentBy
<1>6. OneByOne(c, s, txs)
  <2>1. \A t \in SentBy(c, r, txs) : AuctionOf(txs[t].pair) \in r.done
    <3>1. Got(r) = 0
      BY <1>1, <1>4 DEF Got
    <3> QED BY <1>1, <1>2, <3>1 DEF Honest, OneByOne
  <2> QED BY <1>3, <1>5, <2>1 DEF OneByOne
<1>7. Recorded(c, s, txs)
  BY <1>1, <1>2, <1>3, <1>4, <1>5 DEF Honest, TellsTheTruth, Recorded
<1>8. s.why \subseteq Reasons
  BY <1>3, <1>4
<1> QED BY <1>1, <1>2, <1>3, <1>4, <1>6, <1>7, <1>8, EmptyHanded

LEMMA PassOverKeepsInv ==
    ASSUME RunInv, NEW c \in Clients, PassOver(c), UNCHANGED market
    PROVE  RunInv'
<1>1. PICK r, queue, s : r = client[c] /\ queue = Tail(r.queue) /\ s = [r EXCEPT !.queue = queue]
  OBVIOUS
<1>2. Become(c, s) /\ r.at = "next" /\ UNCHANGED <<lot, txs, started>>
  BY <1>1 DEF PassOver, At
<1>3. Honest(c, r, started, txs, market, lot) /\ WellFormed(r) /\ Fields(r) /\ started \in Nat
  BY <1>1, ClientFacts
<1>4. /\ Fields(s) /\ s.at = "next" /\ s.ops = r.ops /\ s.next = r.next /\ s.results = r.results
      /\ s.why = r.why /\ s.cmd = r.cmd /\ s.run = r.run /\ s.done = r.done
      /\ s.records = r.records /\ s.expected = r.expected /\ s.verdict = r.verdict
  BY <1>1, <1>2, <1>3 DEF Fields
<1>5. r.next = 1 /\ r.results = <<>> /\ r.ops = <<>> /\ r.why \subseteq Reasons /\ r.verdict = "none"
      /\ r.cmd = "kick"
  BY <1>2, <1>3 DEF WellFormed, Acting
<1>6. OneByOne(c, s, txs) /\ Recorded(c, s, txs)
  BY <1>2, <1>3, <1>4 DEF Honest, OneByOne, TellsTheTruth, Recorded, SentBy, Got
<1>7. Honest(c, s, started, txs, market, lot)
  BY <1>3, <1>4, <1>5, <1>6, EmptyHanded
<1> QED BY <1>2, <1>3, <1>7, ClientStep

----------------------------------------------------------------------------
(* What the shortlist lets through.                                        *)

LEMMA NothingToSort ==
    ASSUME NEW m
    PROVE  SortCandidates(m, {}) = <<>>
<1>1. Cardinality({}) = 0
  BY FS_EmptySet
<1>2. 1 .. Cardinality({}) = {}
  BY <1>1
<1> QED BY <1>2 DEF SortCandidates

\* The one candidate that a request names is on its shortlist only if every policy
\* passes it.
LEMMA SelectedIsAllowed ==
    ASSUME NEW m \in Markets, NEW cand, NEW unfilled,
           BuildShortlist(m, {cand}, unfilled).selected = <<cand>>
    PROVE  /\ cand \in DOMAIN m.usd /\ cand \in Eligible(m, DOMAIN m.usd)
           /\ ~Ignored(m, cand) /\ ~Cooling(m, cand)
<1>1. PICK eligible, ignored, noFill, cooldown, passing, ranked, shown :
        /\ eligible = Eligible(m, {cand})
        /\ ignored = {x \in eligible : Ignored(m, x)}
        /\ cooldown = {x \in eligible \ (ignored \union noFill) : Cooling(m, x)}
        /\ passing = eligible \ (ignored \union noFill \union cooldown)
        /\ ranked = SortCandidates(m, BestCandidatePerAuction(m, passing))
        /\ shown = IF m.limit = 0 \/ m.limit > Len(ranked) THEN Len(ranked) ELSE m.limit
        /\ SubSeq(ranked, 1, shown) = <<cand>>
  BY DEF BuildShortlist
<1>2. passing # {}
  <2> SUFFICES ASSUME passing = {}  PROVE FALSE
    OBVIOUS
  <2>1. BestCandidatePerAuction(m, passing) = {}
    BY DEF BestCandidatePerAuction
  <2>2. SortCandidates(m, {}) = <<>>
    BY NothingToSort
  <2>3. ranked = SortCandidates(m, {})
    BY <1>1, <2>1
  <2>4. ranked = <<>>
    BY <2>2, <2>3
  <2>5. Len(ranked) = 0 /\ m.limit \in Nat
    BY <2>4, MarketsAssumption
  <2>6. shown = 0
    BY <1>1, <2>5
  <2>7. SubSeq(<<>>, 1, 0) = <<cand>>
    BY <1>1, <2>4, <2>6
  <2>8. Len(SubSeq(<<>>, 1, 0)) = 0 /\ Len(<<cand>>) = 1
    <3>1. <<>> \in Seq({})
      OBVIOUS
    <3> QED BY <3>1
  <2> QED BY <2>7, <2>8
<1>3. cand \in passing
  BY <1>1, <1>2 DEF Eligible
<1>4. cand \in eligible /\ ~Ignored(m, cand) /\ ~Cooling(m, cand)
  BY <1>1, <1>3
<1>5. cand \in DOMAIN m.usd /\ cand \in Eligible(m, DOMAIN m.usd)
  BY <1>1, <1>4 DEF Eligible
<1> QED BY <1>4, <1>5

----------------------------------------------------------------------------
(* From a candidate to what an operator is asked to confirm.               *)

Planning == {"next", "lots", "quote", "estimate"}

\* A client that has planned more, or less, is fine if what it has planned is.
LEMMA PlannedIsFine ==
    ASSUME NEW c, NEW r, NEW n, NEW T, NEW m, NEW L, NEW s, Honest(c, r, n, T, m, L),
           r.at \in Planning, Fields(s), s.at \in Planning, s.cmd = r.cmd, s.done = r.done,
           s.ops = r.ops, s.next = r.next, s.results = r.results, s.why \subseteq Reasons,
           s.run = r.run, s.records = r.records, s.expected = r.expected, s.verdict = r.verdict,
           s.at # "next" => /\ s.pair \in Pairs /\ AuctionOf(s.pair) \notin s.done
                            /\ Allowed(m, s.pair, s.why),
           s.at \in {"quote", "estimate"} => L[s.pair] # "leftover" \/ "unread" \in s.why
    PROVE  Honest(c, s, n, T, m, L)
<1>1. r.ops = <<>> /\ r.next = 1 /\ r.results = <<>> /\ r.verdict = "none"
  BY DEF Honest, WellFormed, Acting, Planning
<1>2. OneAction(s) /\ (\A k : k \notin DOMAIN s.ops) /\ AllConfirmed(s.results)
  BY <1>1, NoCalls, NoResults
<1>3. WellFormed(s)
  BY <1>1, <1>2, NoResults DEF Honest, WellFormed, Places, Acting, Planning
<1>4. OneByOne(c, s, T) /\ TellsTheTruth(c, s, T)
  BY <1>1 DEF Honest, OneByOne, TellsTheTruth, Recorded, SentBy, Got, Planning
<1>5. Permitted(s, m) /\ Covered(s, L)
  BY <1>2 DEF Permitted, Covered
<1> QED BY <1>3, <1>4, <1>5 DEF Honest

\* So is one with an action for the operator to confirm.
LEMMA OfferIsFine ==
    ASSUME NEW c, NEW r, NEW n, NEW T, NEW m, NEW L, NEW calls, Honest(c, r, n, T, m, L),
           r.at \in {"lots", "estimate"}, calls # <<>>, OneAction([r EXCEPT !.ops = calls]),
           \A k \in DOMAIN calls : calls[k].op = "kick" =>
               Allowed(m, calls[k].pair, r.why) /\ (L[calls[k].pair] # "leftover" \/ Excused(r.why))
    PROVE  Honest(c, Offer(r, calls), n, T, m, L)
<1>1. PICK s : s = Offer(r, calls)
  OBVIOUS
<1>2. Fields(r) /\ WellFormed(r)
  BY DEF Honest, WellFormed
<1>3. /\ Fields(s) /\ s.at = "review" /\ s.ops = calls /\ s.cmd = r.cmd /\ s.done = r.done
      /\ s.next = r.next /\ s.results = r.results /\ s.why = r.why /\ s.run = r.run /\ s.pair = r.pair
      /\ s.records = r.records /\ s.expected = r.expected /\ s.verdict = r.verdict
  BY <1>1, <1>2 DEF Fields, Offer
<1>4. r.next = 1 /\ r.results = <<>> /\ r.verdict = "none" /\ r.cmd = "kick"
  BY <1>2 DEF WellFormed, Acting
<1>5. OneAction(s)
  <2>1. PICK r2 : r2 = [r EXCEPT !.ops = calls]
    OBVIOUS
  <2>2. r2.ops = calls /\ r2.cmd = r.cmd /\ r2.pair = r.pair /\ OneAction(r2)
    BY <1>2, <2>1 DEF Fields
  <2> QED BY <1>3, <2>2 DEF OneAction
<1>6. Len(calls) \in Nat \ {0}
  BY <1>3, <1>5 DEF OneAction
<1>7. WellFormed(s)
  BY <1>2, <1>3, <1>4, <1>5, <1>6 DEF WellFormed, Places, Acting
<1>8. OneByOne(c, s, T) /\ TellsTheTruth(c, s, T)
  BY <1>3, <1>4 DEF Honest, OneByOne, TellsTheTruth, Recorded, SentBy, Got
<1>9. Permitted(s, m) /\ Covered(s, L)
  BY <1>3 DEF Permitted, Covered
<1> QED BY <1>1, <1>3, <1>7, <1>8, <1>9 DEF Honest

LEMMA PrepareKeepsInv ==
    ASSUME RunInv, NEW c \in Clients, Prepare(c), UNCHANGED market
    PROVE  RunInv'
<1>1. PICK r, cand, queue : r = client[c] /\ cand = Head(r.queue) /\ queue = Tail(r.queue)
  OBVIOUS
<1>2. Honest(c, r, started, txs, market, lot) /\ WellFormed(r) /\ Fields(r) /\ started \in Nat
  BY <1>1, ClientFacts
<1>3. r.at = "next" /\ AuctionIn(cand) \notin r.done /\ UNCHANGED <<lot, txs, started>>
  BY <1>1 DEF Prepare, At
<1>4. CASE Become(c, [r EXCEPT !.queue = queue])
  <2>1. PICK s : s = [r EXCEPT !.queue = queue]
    OBVIOUS
  <2>2. /\ Fields(s) /\ s.at = "next" /\ s.ops = r.ops /\ s.next = r.next /\ s.results = r.results
        /\ s.why = r.why /\ s.cmd = r.cmd /\ s.run = r.run /\ s.done = r.done
        /\ s.records = r.records /\ s.expected = r.expected /\ s.verdict = r.verdict
    BY <1>2, <1>3, <2>1 DEF Fields
  <2>3. r.at \in Planning /\ s.at \in Planning /\ r.why \subseteq Reasons
    BY <1>2, <1>3, <2>2 DEF Planning, WellFormed
  <2>4. Honest(c, s, started, txs, market, lot)
    BY <1>2, <2>2, <2>3, PlannedIsFine
  <2> QED BY <1>2, <1>3, <1>4, <2>1, <2>4, ClientStep
<1>5. ASSUME NEW busy, Accepts(r, cand),
             Become(c, [r EXCEPT !.at = "lots", !.queue = queue, !.pair = PairOf(cand), !.busy = busy])
      PROVE  RunInv'
  <2>1. PICK s : s = [r EXCEPT !.at = "lots", !.queue = queue, !.pair = PairOf(cand), !.busy = busy]
    OBVIOUS
  <2>2. /\ Fields(s) /\ s.at = "lots" /\ s.ops = r.ops /\ s.next = r.next /\ s.results = r.results
        /\ s.why = r.why /\ s.cmd = r.cmd /\ s.run = r.run /\ s.done = r.done /\ s.pair = PairOf(cand)
        /\ s.records = r.records /\ s.expected = r.expected /\ s.verdict = r.verdict
    BY <1>2, <1>3, <2>1 DEF Fields
  <2>3. PICK unfilled : BuildShortlist(market, {cand}, unfilled).selected = <<cand>>
    BY <1>5 DEF Accepts, Shortlist
  <2>4. market \in Markets
    BY DEF RunInv
  <2>5. /\ cand \in DOMAIN market.usd /\ cand \in Eligible(market, DOMAIN market.usd)
        /\ ~Ignored(market, cand) /\ ~Cooling(market, cand)
    BY <2>3, <2>4, SelectedIsAllowed
  <2>6. GaugeAlive(market, cand) \/ "gauge" \in r.why
    BY <1>5 DEF Accepts
  <2>7. Allowed(market, s.pair, s.why)
    BY <2>2, <2>5, <2>6 DEF Allowed
  <2>8. s.pair \in Pairs /\ AuctionOf(s.pair) = AuctionIn(cand)
    BY <2>2, <2>4, <2>5, MarketsAssumption DEF AuctionOf, PairOf, AuctionIn
  <2>9. r.at \in Planning /\ s.at \in Planning /\ r.why \subseteq Reasons
    BY <1>2, <1>3, <2>2 DEF Planning, WellFormed
  <2>10. Honest(c, s, started, txs, market, lot)
    BY <1>2, <1>3, <2>2, <2>7, <2>8, <2>9, PlannedIsFine
  <2> QED BY <1>2, <1>3, <1>5, <2>1, <2>10, ClientStep
<1> QED
  <2>1. \/ Become(c, [r EXCEPT !.queue = queue])
        \/ /\ Accepts(r, cand)
           /\ Become(c, [r EXCEPT !.at = "lots", !.queue = queue, !.pair = PairOf(cand),
                                  !.busy = IsAnActiveAuction(AuctionIn(cand))])
    BY <1>1 DEF Prepare
  <2> QED BY <1>4, <1>5, <2>1

\* The resolutions of several lots: one call each.
LEMMA ResolutionsAre ==
    ASSUME NEW S \in SUBSET Pairs, S # {}
    PROVE  LET calls == SetToSeq({Call("resolve", p, FALSE) : p \in S}) IN
           /\ calls \in Seq(Calls) /\ calls # <<>>
           /\ \A n \in DOMAIN calls : calls[n].op = "resolve" /\ calls[n].pair \in S
           /\ \A n, k \in DOMAIN calls : n # k => calls[n].pair # calls[k].pair
<1> DEFINE T == {Call("resolve", p, FALSE) : p \in S}
           f == [p \in S |-> Call("resolve", p, FALSE)]
           calls == SetToSeq(T)
<1>1. IsFiniteSet(S)
  BY MarketsAssumption, FS_Subset
<1>2. f \in [S -> T] /\ \A y \in T : \E x \in S : f[x] = y
  OBVIOUS
<1>3. IsFiniteSet(T)
  BY <1>1, <1>2, FS_Surjection DEF Surjection
<1>4. calls \in Seq(T) /\ ToSet(calls) = T /\ Distinct(calls)
  BY <1>3, SetToSeqLists
<1>5. \A call \in T : call \in Calls /\ call.op = "resolve" /\ call.pair \in S
                      /\ call = Call("resolve", call.pair, FALSE)
  <2> SUFFICES ASSUME NEW p \in S
               PROVE  LET call == Call("resolve", p, FALSE) IN
                      call \in Calls /\ call.op = "resolve" /\ call.pair = p
    OBVIOUS
  <2>1. p \in Pairs
    OBVIOUS
  <2> QED BY <2>1 DEF Calls, Call
<1>6. T # {}
  OBVIOUS
<1> HIDE DEF T, calls
<1>7. DOMAIN calls = 1 .. Len(calls) /\ \A n \in DOMAIN calls : calls[n] \in T
  BY <1>4
<1>8. calls \in Seq(Calls)
  <2>1. T \subseteq Calls
    BY <1>5
  <2> QED BY <1>4, <2>1
<1>9. calls # <<>>
  BY <1>4, <1>6, ToSetShort
<1>10. \A n, k \in DOMAIN calls : n # k => calls[n].pair # calls[k].pair
  <2>1. \A x, y \in T : x.pair = y.pair => x = y
    BY <1>5
  <2> QED BY <1>4, <1>7, <2>1 DEF Distinct
<1>11. \A n \in DOMAIN calls : calls[n].op = "resolve" /\ calls[n].pair \in S
  BY <1>5, <1>7
<1> QED BY <1>8, <1>9, <1>10, <1>11 DEF calls, T

LEMMA InspectLotsKeepsInv ==
    ASSUME RunInv, NEW c \in Clients, InspectLots(c), UNCHANGED market
    PROVE  RunInv'
<1>1. PICK r : r = client[c]
  OBVIOUS
<1>2. Honest(c, r, started, txs, market, lot) /\ WellFormed(r) /\ Fields(r) /\ started \in Nat
  BY <1>1, ClientFacts
<1>3. r.at = "lots" /\ UNCHANGED <<lot, txs, started>>
  BY <1>1 DEF InspectLots, At
<1>4. /\ r.cmd = "kick" /\ r.pair \in Pairs /\ AuctionOf(r.pair) \notin r.done /\ r.why \subseteq Reasons
      /\ Allowed(market, r.pair, r.why)
  BY <1>2, <1>3 DEF Honest, WellFormed, Permitted
<1>5. ASSUME NEW S \in (SUBSET DueLots(AuctionOf(r.pair))) \ {{}},
             Become(c, Offer(r, SetToSeq({Call("resolve", p, FALSE) : p \in S})))
      PROVE  RunInv'
  <2>1. S \in SUBSET Pairs /\ S # {} /\ \A p \in S : AuctionOf(p) = AuctionOf(r.pair)
    BY <1>5 DEF DueLots, LotsOf
  <2>2. PICK calls : calls = SetToSeq({Call("resolve", p, FALSE) : p \in S})
    OBVIOUS
  <2>3. /\ calls \in Seq(Calls) /\ calls # <<>>
        /\ \A n \in DOMAIN calls : calls[n].op = "resolve" /\ calls[n].pair \in S
        /\ \A n, k \in DOMAIN calls : n # k => calls[n].pair # calls[k].pair
    BY <2>1, <2>2, ResolutionsAre
  <2>4. OneAction([r EXCEPT !.ops = calls])
    <3>1. PICK r2 : r2 = [r EXCEPT !.ops = calls]
      OBVIOUS
    <3>2. r2.ops = calls /\ r2.cmd = r.cmd /\ r2.pair = r.pair
      BY <1>2, <3>1 DEF Fields
    <3> QED BY <2>1, <2>3, <3>1, <3>2 DEF OneAction
  <2>5. Honest(c, Offer(r, calls), started, txs, market, lot)
    BY <1>2, <1>3, <2>3, <2>4, OfferIsFine
  <2> QED BY <1>2, <1>3, <1>5, <2>2, <2>5, ClientStep
<1>6. CASE Skip(c)
  BY <1>1, <1>2, <1>3, <1>4, <1>6, SkipIsFine, ClientStep DEF Skip
<1>7. ASSUME NEW why, why \in {r.why, r.why \union {"unread"}},
             lot[r.pair] # "leftover" \/ "unread" \in why,
             Become(c, [r EXCEPT !.at = "quote", !.why = why])
      PROVE  RunInv'
  <2>1. PICK s : s = [r EXCEPT !.at = "quote", !.why = why]
    OBVIOUS
  <2>2. /\ Fields(s) /\ s.at = "quote" /\ s.ops = r.ops /\ s.next = r.next /\ s.results = r.results
        /\ s.why = why /\ s.cmd = r.cmd /\ s.run = r.run /\ s.done = r.done /\ s.pair = r.pair
        /\ s.records = r.records /\ s.expected = r.expected /\ s.verdict = r.verdict
    BY <1>2, <2>1 DEF Fields
  <2>3. why \subseteq Reasons /\ Allowed(market, r.pair, why)
    BY <1>4, <1>7 DEF Reasons, Allowed
  <2>4. r.at \in Planning /\ s.at \in Planning
    BY <1>3, <2>2 DEF Planning
  <2>5. Honest(c, s, started, txs, market, lot)
    BY <1>2, <1>4, <1>7, <2>2, <2>3, <2>4, PlannedIsFine
  <2> QED BY <1>2, <1>3, <1>7, <2>1, <2>5, ClientStep
<1>8. \/ \E S \in (SUBSET DueLots(AuctionOf(r.pair))) \ {{}} :
            Become(c, Offer(r, SetToSeq({Call("resolve", p, FALSE) : p \in S})))
      \/ Skip(c)
      \/ /\ \A p \in LotsOf(AuctionOf(r.pair)) : ~Actionable(lot[p]) /\ ~NeedsForce(lot[p])
         /\ Become(c, [r EXCEPT !.at = "quote"])
      \/ Become(c, [r EXCEPT !.at = "quote", !.why = r.why \union {"unread"}])
  BY <1>1 DEF InspectLots
<1>9. CASE /\ \A p \in LotsOf(AuctionOf(r.pair)) : ~Actionable(lot[p]) /\ ~NeedsForce(lot[p])
           /\ Become(c, [r EXCEPT !.at = "quote"])
  <2>1. lot[r.pair] # "leftover"
    BY <1>4, <1>9 DEF LotsOf, Actionable
  <2>2. [r EXCEPT !.at = "quote"] = [r EXCEPT !.at = "quote", !.why = r.why]
    BY <1>2 DEF Fields
  <2> QED BY <1>7, <1>9, <2>1, <2>2
<1>10. CASE Become(c, [r EXCEPT !.at = "quote", !.why = r.why \union {"unread"}])
  BY <1>7, <1>10
<1> QED BY <1>5, <1>6, <1>8, <1>9, <1>10

LEMMA QuoteKeepsInv ==
    ASSUME RunInv, NEW c \in Clients, Quote(c), UNCHANGED market
    PROVE  RunInv'
<1>1. PICK r, kick : r = client[c] /\ kick = PrepareKick(market.view)
  OBVIOUS
<1>2. Honest(c, r, started, txs, market, lot) /\ WellFormed(r) /\ Fields(r) /\ started \in Nat
  BY <1>1, ClientFacts
<1>3. r.at = "quote" /\ UNCHANGED <<lot, txs, started>>
  BY <1>1 DEF Quote, At
<1>4. /\ r.cmd = "kick" /\ r.pair \in Pairs /\ AuctionOf(r.pair) \notin r.done /\ r.why \subseteq Reasons
      /\ Allowed(market, r.pair, r.why) /\ (lot[r.pair] # "leftover" \/ "unread" \in r.why)
  BY <1>2, <1>3 DEF Honest, WellFormed, Permitted, Covered
<1>5. CASE Become(c, [r EXCEPT !.at = "estimate", !.kick = kick])
  <2>1. PICK s : s = [r EXCEPT !.at = "estimate", !.kick = kick]
    OBVIOUS
  <2>2. /\ Fields(s) /\ s.at = "estimate" /\ s.ops = r.ops /\ s.next = r.next /\ s.results = r.results
        /\ s.why = r.why /\ s.cmd = r.cmd /\ s.run = r.run /\ s.done = r.done /\ s.pair = r.pair
        /\ s.records = r.records /\ s.expected = r.expected /\ s.verdict = r.verdict
    BY <1>2, <2>1 DEF Fields
  <2>3. r.at \in Planning /\ s.at \in Planning
    BY <1>3, <2>2 DEF Planning
  <2>4. Honest(c, s, started, txs, market, lot)
    BY <1>2, <1>4, <2>2, <2>3, PlannedIsFine
  <2> QED BY <1>2, <1>3, <1>5, <2>1, <2>4, ClientStep
<1>6. CASE Skip(c)
  BY <1>1, <1>2, <1>3, <1>4, <1>6, SkipIsFine, ClientStep DEF Skip
<1> QED BY <1>1, <1>5, <1>6 DEF Quote

LEMMA EstimateKeepsInv ==
    ASSUME RunInv, NEW c \in Clients, Estimate(c), UNCHANGED market
    PROVE  RunInv'
<1>1. PICK r, calls : r = client[c] /\ calls = <<Call("kick", r.pair, FALSE)>>
  OBVIOUS
<1>2. Honest(c, r, started, txs, market, lot) /\ WellFormed(r) /\ Fields(r) /\ started \in Nat
  BY <1>1, ClientFacts
<1>3. r.at = "estimate" /\ UNCHANGED <<lot, txs, started>>
  BY <1>1 DEF Estimate, At
<1>4. /\ r.cmd = "kick" /\ r.pair \in Pairs /\ AuctionOf(r.pair) \notin r.done /\ r.why \subseteq Reasons
      /\ Allowed(market, r.pair, r.why) /\ (lot[r.pair] # "leftover" \/ "unread" \in r.why)
  BY <1>2, <1>3 DEF Honest, WellFormed, Permitted, Covered
<1>5. CASE Become(c, Offer(r, calls))
  <2>1. calls \in Seq(Calls) /\ calls # <<>> /\ DOMAIN calls = {1}
        /\ calls[1].op = "kick" /\ calls[1].pair = r.pair
    BY <1>1, <1>4 DEF Calls, Call
  <2>2. OneAction([r EXCEPT !.ops = calls])
    <3>1. PICK r2 : r2 = [r EXCEPT !.ops = calls]
      OBVIOUS
    <3>2. r2.ops = calls /\ r2.cmd = r.cmd /\ r2.pair = r.pair
      BY <1>2, <3>1 DEF Fields
    <3> QED BY <1>4, <2>1, <3>1, <3>2 DEF OneAction
  <2>3. \A k \in DOMAIN calls : calls[k].op = "kick" =>
          Allowed(market, calls[k].pair, r.why) /\ (lot[calls[k].pair] # "leftover" \/ Excused(r.why))
    BY <1>4, <2>1 DEF Excused
  <2>4. Honest(c, Offer(r, calls), started, txs, market, lot)
    BY <1>2, <1>3, <2>1, <2>2, <2>3, OfferIsFine
  <2> QED BY <1>2, <1>3, <1>5, <2>4, ClientStep
<1>6. CASE Skip(c)
  BY <1>1, <1>2, <1>3, <1>4, <1>6, SkipIsFine, ClientStep DEF Skip
<1> QED BY <1>1, <1>5, <1>6 DEF Estimate

LEMMA DeclineKeepsInv ==
    ASSUME RunInv, NEW c \in Clients, Decline(c), UNCHANGED market
    PROVE  RunInv'
<1>1. started \in Nat
  BY DEF RunInv
<1> QED BY <1>1, SkipIsFine, ClientStep DEF Decline, At, Skip

\* An action that is taken on is not too old, so that its kick is not on tokens that
\* were left since it was prepared.
LEMMA AcceptKeepsInv ==
    ASSUME RunInv, NEW c \in Clients, Accept(c), UNCHANGED market
    PROVE  RunInv'
<1>1. PICK r, s : r = client[c] /\ s = [r EXCEPT !.at = "check"]
  OBVIOUS
<1>2. Honest(c, r, started, txs, market, lot) /\ WellFormed(r) /\ Fields(r) /\ started \in Nat
  BY <1>1, ClientFacts
<1>3. r.at = "review" /\ ~TooOld(r) /\ Become(c, s) /\ UNCHANGED <<lot, txs, started>>
  BY <1>1 DEF Accept, At
<1>4. /\ Fields(s) /\ s.at = "check" /\ s.ops = r.ops /\ s.next = r.next /\ s.results = r.results
      /\ s.why = r.why /\ s.cmd = r.cmd /\ s.run = r.run /\ s.done = r.done /\ s.pair = r.pair
      /\ s.records = r.records /\ s.expected = r.expected /\ s.verdict = r.verdict
  BY <1>1, <1>2 DEF Fields
<1>5. WellFormed(s)
  BY <1>2, <1>3, <1>4 DEF WellFormed, OneAction, Places, Acting
<1>6. OneByOne(c, s, txs) /\ TellsTheTruth(c, s, txs)
  BY <1>2, <1>3, <1>4 DEF Honest, WellFormed, OneByOne, TellsTheTruth, Recorded, SentBy, Got
<1>7. Permitted(s, market)
  BY <1>2, <1>4 DEF Honest, Permitted
<1>8. Covered(s, lot)
  <2>1. ASSUME NEW n \in DOMAIN r.ops, r.ops[n].op = "kick"
        PROVE  ~r.aged
    BY <1>2, <1>3, <2>1 DEF WellFormed, OneAction, TooOld
  <2> QED BY <1>2, <1>4, <2>1 DEF Honest, Covered
<1>9. Honest(c, s, started, txs, market, lot)
  BY <1>2, <1>4, <1>5, <1>6, <1>7, <1>8 DEF Honest
<1> QED BY <1>2, <1>3, <1>9, ClientStep

----------------------------------------------------------------------------
(* The beginning and the end of a command.                                 *)

\* A command that has begun has sent nothing: its number is new.
LEMMA NewCommandIsFine ==
    ASSUME RunInv, NEW c \in Clients, NEW s, Fields(s), s.at \in {"next", "review"},
           s.run = started + 1, s.next = 1, s.results = <<>>, s.records = <<>>, s.expected = 0,
           s.verdict = "none", s.why \subseteq Reasons, s.done = {}, OneAction(s),
           IF s.at = "review" THEN s.ops # <<>> ELSE s.ops = <<>> /\ s.cmd = "kick",
           \A n \in DOMAIN s.ops : s.ops[n].op # "kick"
    PROVE  Honest(c, s, started + 1, txs, market, lot)
<1>1. started \in Nat /\ \A t \in DOMAIN txs : txs[t].run <= started
  BY DEF RunInv, TxsTrue
<1>2. SentBy(c, s, txs) = {}
  <2>1. \A t \in DOMAIN txs : txs[t] \in TxType
    BY DEF RunInv, TxsTrue
  <2>2. \A t \in DOMAIN txs : txs[t].run \in Nat
    BY <2>1 DEF TxType
  <2>3. \A t \in DOMAIN txs : txs[t].run # started + 1
    BY <1>1, <2>2
  <2> QED BY <2>3 DEF SentBy
<1>3. Len(s.ops) \in Nat /\ (s.ops # <<>> => Len(s.ops) >= 1)
  BY DEF OneAction
<1>4. WellFormed(s)
  BY <1>1, <1>3, NoResults DEF WellFormed, Places, Acting
<1>5. OneByOne(c, s, txs)
  BY <1>2 DEF OneByOne
<1>6. AllConfirmed(s.records)
  BY NoResults
<1>7. Recorded(c, s, txs)
  BY <1>2 DEF Recorded
<1>8. TellsTheTruth(c, s, txs)
  BY <1>7 DEF TellsTheTruth
<1>9. Permitted(s, market) /\ Covered(s, lot)
  BY DEF Permitted, Covered
<1> QED BY <1>1, <1>4, <1>5, <1>8, <1>9 DEF Honest

LEMMA IdleFields ==
    /\ Fields(Idle) /\ Idle.at = "idle" /\ Idle.cmd = "none" /\ Idle.run = 0 /\ Idle.done = {}
    /\ Idle.ops = <<>> /\ Idle.next = 1 /\ Idle.why = {} /\ Idle.results = <<>>
    /\ Idle.records = <<>> /\ Idle.expected = 0 /\ Idle.verdict = "none"
BY DEF Idle, Fields

LEMMA StartKickRunKeepsInv ==
    ASSUME RunInv, NEW c \in Clients, StartKickRun(c), UNCHANGED market
    PROVE  RunInv'
<1>1. started \in Nat /\ started' = started + 1 /\ UNCHANGED <<lot, txs>>
  BY DEF RunInv, StartKickRun
<1>2. PICK mode, queue, flags, s :
        /\ flags \subseteq Flags
        /\ s = [Idle EXCEPT !.at = "next", !.cmd = "kick", !.mode = mode, !.run = started + 1,
                            !.queue = queue, !.why = flags]
        /\ Become(c, s)
  BY <1>1 DEF StartKickRun
<1>3. PICK i : i = Idle
  OBVIOUS
<1>4. /\ Fields(i) /\ i.done = {} /\ i.ops = <<>> /\ i.next = 1 /\ i.results = <<>>
      /\ i.records = <<>> /\ i.expected = 0 /\ i.verdict = "none"
  BY <1>3, IdleFields
<1>5. /\ Fields(s) /\ s.at = "next" /\ s.cmd = "kick" /\ s.run = started + 1 /\ s.done = {}
      /\ s.ops = <<>> /\ s.next = 1 /\ s.why = flags /\ s.results = <<>> /\ s.records = <<>>
      /\ s.expected = 0 /\ s.verdict = "none"
  BY <1>2, <1>3, <1>4 DEF Fields
<1>6. OneAction(s) /\ \A n : n \notin DOMAIN s.ops
  BY <1>5, NoCalls
<1>7. s.why \subseteq Reasons
  BY <1>2, <1>5 DEF Reasons
<1>8. Honest(c, s, started + 1, txs, market, lot)
  BY <1>5, <1>6, <1>7, NewCommandIsFine
<1> QED BY <1>1, <1>2, <1>8, ClientStep

\* Commands that are about one action from the start.
LEMMA OneActionCommand ==
    ASSUME RunInv, NEW c \in Clients, NEW cmd \in {"settle", "sweep"}, NEW p \in Pairs, NEW calls,
           started' = started + 1, UNCHANGED <<market, lot, txs>>,
           calls \in Seq(Calls), calls # <<>>,
           \A n \in DOMAIN calls : calls[n].op # "kick" /\ AuctionOf(calls[n].pair) = AuctionOf(p),
           \A n, k \in DOMAIN calls : n # k => /\ calls[n].op = "resolve" /\ calls[k].op = "resolve"
                                               /\ calls[n].pair # calls[k].pair,
           Become(c, Offer(Command(cmd, p), calls))
    PROVE  RunInv'
<1>1. PICK i, r, s : /\ i = Idle /\ r = [i EXCEPT !.cmd = cmd, !.run = started + 1, !.pair = p]
                     /\ s = [r EXCEPT !.at = "review", !.ops = calls]
  OBVIOUS
<1>2. Become(c, s)
  BY <1>1 DEF Offer, Command
<1>3. /\ Fields(i) /\ i.done = {} /\ i.ops = <<>> /\ i.next = 1 /\ i.results = <<>> /\ i.why = {}
      /\ i.records = <<>> /\ i.expected = 0 /\ i.verdict = "none"
  BY <1>1, IdleFields
<1>4. /\ Fields(s) /\ s.at = "review" /\ s.cmd = cmd /\ s.run = started + 1 /\ s.done = {}
      /\ s.ops = calls /\ s.next = 1 /\ s.why = {} /\ s.results = <<>> /\ s.records = <<>>
      /\ s.expected = 0 /\ s.verdict = "none" /\ s.pair = p
  BY <1>1, <1>3 DEF Fields
<1>5. OneAction(s)
  BY <1>4 DEF OneAction
<1>6. Honest(c, s, started + 1, txs, market, lot)
  BY <1>4, <1>5, NewCommandIsFine
<1>7. started \in Nat
  BY DEF RunInv
<1> QED BY <1>2, <1>6, <1>7, ClientStep

LEMMA StartSettleKeepsInv ==
    ASSUME RunInv, NEW c \in Clients, StartSettle(c), UNCHANGED market
    PROVE  RunInv'
<1>1. started' = started + 1 /\ UNCHANGED <<lot, txs>>
  BY DEF StartSettle
<1>2. PICK p \in Pairs :
        \/ /\ DueLots(AuctionOf(p)) # {}
           /\ Become(c, Offer(Command("settle", p),
                              SetToSeq({Call("resolve", q, FALSE) : q \in DueLots(AuctionOf(p))})))
        \/ Become(c, Offer(Command("settle", p), Resolution(p)))
  BY DEF StartSettle
<1>3. PICK S : S = DueLots(AuctionOf(p))
  OBVIOUS
<1>4. S \in SUBSET Pairs /\ \A q \in S : AuctionOf(q) = AuctionOf(p)
  BY <1>3 DEF DueLots, LotsOf
<1>5. ASSUME S # {}, Become(c, Offer(Command("settle", p), SetToSeq({Call("resolve", q, FALSE) : q \in S})))
      PROVE  RunInv'
  <2>1. PICK calls : calls = SetToSeq({Call("resolve", q, FALSE) : q \in S})
    OBVIOUS
  <2>2. /\ calls \in Seq(Calls) /\ calls # <<>>
        /\ \A n \in DOMAIN calls : calls[n].op = "resolve" /\ calls[n].pair \in S
        /\ \A n, k \in DOMAIN calls : n # k => calls[n].pair # calls[k].pair
    BY <1>4, <1>5, <2>1, ResolutionsAre
  <2>3. Become(c, Offer(Command("settle", p), calls))
    BY <1>5, <2>1
  <2> QED BY <1>1, <1>4, <2>2, <2>3, OneActionCommand
<1>6. CASE Become(c, Offer(Command("settle", p), Resolution(p)))
  <2>1. PICK calls : calls = Resolution(p)
    OBVIOUS
  <2>2. NeedsForce(lot[p]) \in BOOLEAN
    BY DEF NeedsForce
  <2>3. calls \in Seq(Calls) /\ calls # <<>> /\ DOMAIN calls = {1}
        /\ calls[1].op = "resolve" /\ calls[1].pair = p
    BY <2>1, <2>2 DEF Resolution, Call, Calls
  <2>4. Become(c, Offer(Command("settle", p), calls))
    BY <1>6, <2>1
  <2> QED BY <1>1, <2>3, <2>4, OneActionCommand
<1> QED BY <1>2, <1>3, <1>5, <1>6

LEMMA StartSweepKeepsInv ==
    ASSUME RunInv, NEW c \in Clients, StartSweep(c), UNCHANGED market
    PROVE  RunInv'
<1>1. started' = started + 1 /\ UNCHANGED <<lot, txs>>
  BY DEF StartSweep
<1>2. PICK p, calls : /\ p \in Pairs /\ calls = <<Call("sweep", p, FALSE)>>
                      /\ Become(c, Offer(Command("sweep", p), calls))
  BY DEF StartSweep
<1>3. calls \in Seq(Calls) /\ calls # <<>> /\ DOMAIN calls = {1}
      /\ calls[1].op = "sweep" /\ calls[1].pair = p
  BY <1>2 DEF Call, Calls
<1>4. /\ \A n \in DOMAIN calls : calls[n].op # "kick" /\ AuctionOf(calls[n].pair) = AuctionOf(p)
      /\ \A n, k \in DOMAIN calls : n = k
  BY <1>3
<1>5. p \in Pairs /\ calls \in Seq(Calls) /\ calls # <<>> /\ Become(c, Offer(Command("sweep", p), calls))
  BY <1>2, <1>3
<1> QED BY <1>1, <1>4, <1>5, OneActionCommand

\* An error leaves more expected than recorded.
LEMMA RaiseKeepsInv ==
    ASSUME RunInv, NEW c \in Clients, Raise(c), UNCHANGED market
    PROVE  RunInv'
<1>1. PICK r, o : r = client[c] /\ o = Onward(r)
  OBVIOUS
<1>2. Honest(c, r, started, txs, market, lot) /\ WellFormed(r) /\ Fields(r) /\ started \in Nat
  BY <1>1, ClientFacts
<1>3. /\ r.at \in {"next", "check", "send"} /\ UNCHANGED <<lot, txs, started>>
      /\ Become(c, [o EXCEPT !.at = "finish", !.expected =
             IF @ > Len(r.records) THEN @ ELSE Len(r.records) + 1])
  BY <1>1 DEF Raise
<1>4. PICK s : s = [o EXCEPT !.at = "finish", !.expected =
             IF @ > Len(r.records) THEN @ ELSE Len(r.records) + 1]
  OBVIOUS
<1>5. /\ Fields(o) /\ o.ops = <<>> /\ o.next = 1 /\ o.results = <<>> /\ o.why = r.why \intersect Flags
      /\ o.run = r.run /\ o.records = r.records /\ o.expected = r.expected /\ o.verdict = r.verdict
  BY <1>1, <1>2, OnwardIs
<1>6. /\ Fields(s) /\ s.at = "finish" /\ s.ops = <<>> /\ s.next = 1 /\ s.results = <<>>
      /\ s.why = r.why \intersect Flags /\ s.run = r.run /\ s.records = r.records
      /\ s.expected = (IF r.expected > Len(r.records) THEN r.expected ELSE Len(r.records) + 1)
      /\ s.verdict = r.verdict
  BY <1>4, <1>5 DEF Fields
<1>7. r.expected \in Nat /\ Len(r.records) \in Nat /\ r.verdict = "none" /\ r.why \subseteq Reasons
      /\ r.records \in Seq(Outcomes)
  BY <1>2, <1>3 DEF WellFormed
<1>8. OneAction(s) /\ (\A n : n \notin DOMAIN s.ops) /\ AllConfirmed(s.results)
  BY <1>6, NoCalls, NoResults
<1>9. s.expected \in Nat /\ s.expected > Len(s.records)
  BY <1>6, <1>7
<1>10. WellFormed(s)
  BY <1>2, <1>6, <1>7, <1>8, <1>9, NoResults DEF WellFormed, Places, Acting
<1>11. OneByOne(c, s, txs) /\ TellsTheTruth(c, s, txs)
  BY <1>6, <1>7, <1>9 DEF OneByOne, TellsTheTruth
<1>12. Permitted(s, market) /\ Covered(s, lot)
  BY <1>6, <1>8 DEF Permitted, Covered
<1>13. Honest(c, s, started, txs, market, lot)
  BY <1>2, <1>6, <1>10, <1>11, <1>12 DEF Honest
<1> QED BY <1>2, <1>3, <1>4, <1>13, ClientStep

\* What the two verdicts that promise something promise.
LEMMA VerdictIs ==
    ASSUME NEW records \in Seq(Outcomes), NEW expected \in Nat
    PROVE  LET verdict == SummarizeExecution(records, expected) IN
           /\ verdict = "confirmed" => /\ AllConfirmed(records) /\ records # <<>>
                                       /\ ~(expected > Len(records))
           /\ verdict = "noop" => records = <<>> /\ ~(expected > Len(records))
<1> DEFINE Having(statuses) == {n \in DOMAIN records : records[n] \in statuses}
<1>1. DOMAIN records = 1 .. Len(records) /\ Len(records) \in Nat
      /\ \A n \in DOMAIN records : records[n] \in Outcomes
  OBVIOUS
<1>2. \A statuses : Count(records, statuses) \in Nat
                    /\ (Count(records, statuses) = 0 <=> Having(statuses) = {})
  <2> TAKE statuses
  <2>1. IsFiniteSet(1 .. Len(records))
    BY <1>1, FS_Interval
  <2>2. IsFiniteSet(Having(statuses))
    BY <1>1, <2>1, FS_Subset
  <2>3. Cardinality(Having(statuses)) \in Nat
        /\ (Cardinality(Having(statuses)) = 0 <=> Having(statuses) = {})
    BY <2>2, FS_CardinalityType, FS_EmptySet
  <2> QED BY <2>3 DEF Count
<1>3. PICK confirmed, failed, pending \in Nat :
        /\ confirmed = Count(records, {"CONFIRMED"}) /\ failed = Count(records, {"REVERTED"})
        /\ pending = Count(records, {"PENDING"})
  BY <1>2
<1>4. PICK verdict : verdict = SummarizeExecution(records, expected)
  OBVIOUS
<1>5. verdict = "confirmed" =>
        confirmed > 0 /\ pending = 0 /\ failed = 0 /\ ~(expected > Len(records))
  BY <1>3, <1>4 DEF SummarizeExecution
<1>6. verdict = "noop" => records = <<>> /\ expected = 0
  BY <1>3, <1>4 DEF SummarizeExecution
<1>7. ASSUME confirmed > 0, pending = 0, failed = 0
      PROVE  AllConfirmed(records) /\ records # <<>>
  <2>1. Having({"CONFIRMED"}) # {} /\ Having({"PENDING"}) = {} /\ Having({"REVERTED"}) = {}
    <3>1. confirmed # 0
      BY <1>7
    <3> QED BY <1>2, <1>3, <1>7, <3>1
  <2>2. \A n \in DOMAIN records : records[n] = "CONFIRMED"
    BY <1>1, <2>1 DEF Outcomes
  <2>3. DOMAIN records # {} /\ DOMAIN <<>> = {}
    BY <2>1
  <2> QED BY <2>2, <2>3 DEF AllConfirmed
<1>8. records = <<>> /\ expected = 0 => ~(expected > Len(records))
  OBVIOUS
<1> QED BY <1>4, <1>5, <1>6, <1>7, <1>8

LEMMA FinishKeepsInv ==
    ASSUME RunInv, NEW c \in Clients, Finish(c), UNCHANGED market
    PROVE  RunInv'
<1>1. PICK r, i, verdict : r = client[c] /\ i = Idle /\ verdict = SummarizeExecution(r.records, r.expected)
  OBVIOUS
<1>2. Honest(c, r, started, txs, market, lot) /\ WellFormed(r) /\ Fields(r) /\ started \in Nat
      /\ r.run \in Nat /\ r.run <= started
  BY <1>1, ClientFacts
<1>3. /\ r.at \in {"finish", "next"} /\ UNCHANGED <<lot, txs, started>>
      /\ Become(c, [i EXCEPT !.at = "done", !.run = r.run, !.verdict = verdict])
  BY <1>1 DEF Finish, At
<1>4. PICK s : s = [i EXCEPT !.at = "done", !.run = r.run, !.verdict = verdict]
  OBVIOUS
<1>5. /\ Fields(i) /\ i.ops = <<>> /\ i.next = 1 /\ i.results = <<>> /\ i.why = {}
      /\ i.records = <<>> /\ i.expected = 0 /\ i.cmd = "none"
  BY <1>1, IdleFields
<1>6. /\ Fields(s) /\ s.at = "done" /\ s.run = r.run /\ s.verdict = verdict
      /\ s.ops = <<>> /\ s.next = 1 /\ s.results = <<>> /\ s.why = {}
      /\ s.records = <<>> /\ s.expected = 0 /\ s.cmd = "none"
  BY <1>4, <1>5 DEF Fields
<1>7. r.expected \in Nat /\ r.records \in Seq(Outcomes) /\ r.results = <<>>
  BY <1>2, <1>3 DEF WellFormed, Acting
<1>8. /\ verdict = "confirmed" => AllConfirmed(r.records) /\ r.records # <<>> /\ ~(r.expected > Len(r.records))
      /\ verdict = "noop" => r.records = <<>> /\ ~(r.expected > Len(r.records))
  BY <1>1, <1>7, VerdictIs
<1>9. r.expected > Len(r.records) \/ Recorded(c, r, txs)
  BY <1>2, <1>3 DEF Honest, TellsTheTruth
<1>10. SentBy(c, s, txs) = SentBy(c, r, txs)
  BY <1>6 DEF SentBy
<1>11. TellsTheTruth(c, s, txs)
  BY <1>3, <1>6, <1>7, <1>8, <1>9, <1>10 DEF TellsTheTruth, Recorded
<1>12. OneAction(s) /\ (\A n : n \notin DOMAIN s.ops) /\ AllConfirmed(s.results)
  BY <1>6, NoCalls, NoResults
<1>13. WellFormed(s)
  BY <1>2, <1>6, <1>12, NoResults DEF WellFormed, Places, Acting
<1>14. OneByOne(c, s, txs) /\ Permitted(s, market) /\ Covered(s, lot)
  BY <1>6, <1>12 DEF OneByOne, Permitted, Covered
<1>15. Honest(c, s, started, txs, market, lot)
  BY <1>2, <1>6, <1>11, <1>13, <1>14 DEF Honest
<1> QED BY <1>2, <1>3, <1>4, <1>15, ClientStep

\* A client without a command promises nothing.
LEMMA IdleIsFine ==
    ASSUME NEW c, NEW n \in Nat, NEW T, NEW m, NEW L
    PROVE  Honest(c, Idle, n, T, m, L)
<1>1. PICK i : i = Idle
  OBVIOUS
<1>2. /\ Fields(i) /\ i.at = "idle" /\ i.cmd = "none" /\ i.run = 0
      /\ i.ops = <<>> /\ i.next = 1 /\ i.why = {} /\ i.results = <<>>
      /\ i.records = <<>> /\ i.expected = 0 /\ i.verdict = "none"
  BY <1>1, IdleFields
<1>3. OneAction(i) /\ (\A k : k \notin DOMAIN i.ops) /\ AllConfirmed(i.results)
  BY <1>2, NoCalls, NoResults
<1>4. WellFormed(i)
  BY <1>2, <1>3, NoResults DEF WellFormed, Places, Acting
<1>5. OneByOne(c, i, T) /\ TellsTheTruth(c, i, T) /\ Permitted(i, m) /\ Covered(i, L)
  BY <1>2, <1>3 DEF OneByOne, TellsTheTruth, Permitted, Covered
<1> QED BY <1>1, <1>2, <1>4, <1>5 DEF Honest

LEMMA QuitKeepsInv ==
    ASSUME RunInv, NEW c \in Clients, Quit(c), UNCHANGED market
    PROVE  RunInv'
<1>1. started \in Nat /\ Become(c, Idle) /\ UNCHANGED <<lot, txs, started>>
  BY DEF RunInv, Quit
<1> QED BY <1>1, IdleIsFine, ClientStep

----------------------------------------------------------------------------
(* Sending, and what is heard of it.                                       *)

\* A step of a client and of the transactions.
LEMMA SenderStep ==
    ASSUME RunInv, NEW c \in Clients, NEW new, NEW T, Become(c, new), txs' = T,
           UNCHANGED <<market, lot, started>>, Follows(txs, T),
           \A t \in DOMAIN T : T[t].by # c => t \in DOMAIN txs,
           Honest(c, new, started, T, market, lot), TxsTrue'
    PROVE  RunInv'
<1>1. DOMAIN client' = Clients /\ client'[c] = new /\ \A d \in Clients : d # c => client'[d] = client[d]
  BY DEF RunInv, Become
<1>2. \A d \in Clients : Honest(d, client'[d], started, T, market, lot)
  <2> TAKE d \in Clients
  <2>1. CASE d = c
    BY <1>1, <2>1
  <2>2. CASE d # c
    <3>1. client'[d] = client[d] /\ Honest(d, client[d], started, txs, market, lot)
      BY <1>1, <2>2 DEF RunInv
    <3>2. \A t \in DOMAIN T : T[t].by = d => t \in DOMAIN txs
      BY <2>2
    <3>3. OneByOne(d, client[d], T) /\ TellsTheTruth(d, client[d], T)
      BY <3>1, <3>2, Steady DEF Honest
    <3> QED BY <3>1, <3>3 DEF Honest
  <2> QED BY <2>1, <2>2
<1> QED BY <1>1, <1>2 DEF RunInv

\* Transactions of which the server has heard more.
LEMMA KnownOnly ==
    ASSUME RunInv, UNCHANGED <<market, lot, started>>, NEW known \in [DOMAIN txs -> BOOLEAN],
           txs' = [t \in DOMAIN txs |-> [txs[t] EXCEPT !.known = known[t]]]
    PROVE  /\ TxsTrue' /\ DOMAIN txs' = DOMAIN txs
           /\ \A t \in DOMAIN txs :
                /\ txs'[t].by = txs[t].by /\ txs'[t].run = txs[t].run /\ txs'[t].op = txs[t].op
                /\ txs'[t].pair = txs[t].pair /\ txs'[t].state = txs[t].state
<1>1. txs \in Seq(TxType) /\ DOMAIN txs = 1 .. Len(txs) /\ Len(txs) \in Nat /\ started \in Nat
      /\ \A t \in DOMAIN txs : txs[t] \in TxType
  BY DEF RunInv, TxsTrue
<1>2. \A t \in DOMAIN txs :
         /\ txs'[t] \in TxType
         /\ txs'[t].op = txs[t].op /\ txs'[t].pair = txs[t].pair /\ txs'[t].by = txs[t].by
         /\ txs'[t].run = txs[t].run /\ txs'[t].state = txs[t].state
         /\ txs'[t].round = txs[t].round /\ txs'[t].over = txs[t].over /\ txs'[t].why = txs[t].why
  <2> TAKE t \in DOMAIN txs
  <2>1. txs'[t] = [txs[t] EXCEPT !.known = known[t]] /\ txs[t] \in TxType /\ known[t] \in BOOLEAN
    BY <1>1
  <2> QED BY <2>1 DEF TxType
<1>3. DOMAIN txs' = DOMAIN txs
  OBVIOUS
<1>4. txs' \in Seq(TxType)
  BY <1>1, <1>2, <1>3
<1>5. TxsTrue'
  BY <1>1, <1>2, <1>3, <1>4, TxsKept DEF RunInv
<1> QED BY <1>2, <1>3, <1>5

\* The reports of a client are delivered.
LEMMA OutboxDelivered ==
    ASSUME RunInv, UNCHANGED <<market, lot, started>>, NEW c,
           txs' = [t \in DOMAIN txs |-> IF txs[t].by = c THEN [txs[t] EXCEPT !.known = TRUE] ELSE txs[t]]
    PROVE  /\ TxsTrue' /\ DOMAIN txs' = DOMAIN txs
           /\ \A t \in DOMAIN txs :
                /\ txs'[t].by = txs[t].by /\ txs'[t].run = txs[t].run /\ txs'[t].op = txs[t].op
                /\ txs'[t].pair = txs[t].pair /\ txs'[t].state = txs[t].state
<1> DEFINE known == [t \in DOMAIN txs |-> txs[t].by = c \/ txs[t].known]
<1>1. \A t \in DOMAIN txs : txs[t] \in TxType
  BY DEF RunInv, TxsTrue
<1>2. known \in [DOMAIN txs -> BOOLEAN]
  BY <1>1 DEF TxType
<1>3. \A t \in DOMAIN txs :
        (IF txs[t].by = c THEN [txs[t] EXCEPT !.known = TRUE] ELSE txs[t])
          = [txs[t] EXCEPT !.known = known[t]]
  <2> TAKE t \in DOMAIN txs
  <2>1. CASE txs[t].by = c
    BY <2>1
  <2>2. CASE txs[t].by # c
    <3>1. txs[t] \in TxType /\ known[t] = txs[t].known
      BY <1>1, <2>2 DEF TxType
    <3> QED BY <2>2, <3>1 DEF TxType
  <2> QED BY <2>1, <2>2
<1> HIDE DEF known
<1>4. txs' = [t \in DOMAIN txs |-> [txs[t] EXCEPT !.known = known[t]]]
  BY <1>3
<1> QED BY <1>2, <1>4, KnownOnly

\* Transactions of which others have only heard are followed.
LEMMA HeardOf ==
    ASSUME NEW T, NEW T2, DOMAIN T2 = DOMAIN T,
           \A t \in DOMAIN T : /\ T2[t].by = T[t].by /\ T2[t].run = T[t].run /\ T2[t].op = T[t].op
                               /\ T2[t].pair = T[t].pair /\ T2[t].state = T[t].state
    PROVE  Follows(T, T2) /\ \A t \in DOMAIN T2 : t \in DOMAIN T
BY DEF Follows

LEMMA CheckOutboxKeepsInv ==
    ASSUME RunInv, NEW c \in Clients, CheckOutbox(c), UNCHANGED market
    PROVE  RunInv'
<1>1. PICK r, s, T : r = client[c] /\ s = [r EXCEPT !.at = "send"] /\ T = txs'
  OBVIOUS
<1>2. Honest(c, r, started, txs, market, lot) /\ WellFormed(r) /\ Fields(r) /\ started \in Nat
  BY <1>1, ClientFacts
<1>3. r.at = "check" /\ Unresolved(c) = {} /\ Become(c, s) /\ UNCHANGED <<lot, started>>
  BY <1>1 DEF CheckOutbox, At
<1>4. /\ TxsTrue' /\ DOMAIN T = DOMAIN txs
      /\ \A t \in DOMAIN txs : /\ T[t].by = txs[t].by /\ T[t].run = txs[t].run /\ T[t].op = txs[t].op
                               /\ T[t].pair = txs[t].pair /\ T[t].state = txs[t].state
  BY <1>1, OutboxDelivered DEF CheckOutbox
<1>5. Follows(txs, T) /\ \A t \in DOMAIN T : t \in DOMAIN txs
  BY <1>4, HeardOf
<1>6. /\ Fields(s) /\ s.at = "send" /\ s.ops = r.ops /\ s.next = r.next /\ s.results = r.results
      /\ s.why = r.why /\ s.cmd = r.cmd /\ s.run = r.run /\ s.done = r.done /\ s.pair = r.pair
      /\ s.records = r.records /\ s.expected = r.expected /\ s.verdict = r.verdict
  BY <1>1, <1>2 DEF Fields
<1>7. OneByOne(c, r, T) /\ TellsTheTruth(c, r, T)
  BY <1>2, <1>5, Steady DEF Honest
<1>8. \A t \in DOMAIN T : T[t].by = c => T[t].state # "pool"
  BY <1>3, <1>4 DEF Unresolved, Own
<1>9. OneByOne(c, s, T) /\ TellsTheTruth(c, s, T)
  BY <1>2, <1>3, <1>6, <1>7, <1>8 DEF WellFormed, OneByOne, TellsTheTruth, Recorded, SentBy, Got
<1>10. WellFormed(s)
  BY <1>2, <1>3, <1>6 DEF WellFormed, OneAction, Places, Acting
<1>11. Permitted(s, market) /\ Covered(s, lot)
  BY <1>2, <1>3, <1>6 DEF Honest, Permitted, Covered
<1>12. Honest(c, s, started, T, market, lot)
  BY <1>2, <1>6, <1>9, <1>10, <1>11 DEF Honest
<1>13. \A t \in DOMAIN T : T[t].by # c => t \in DOMAIN txs
  BY <1>5
<1>14. txs' = T
  BY <1>1
<1> QED BY <1>3, <1>4, <1>5, <1>12, <1>13, <1>14, SenderStep

LEMMA BaseFeeCapSkipKeepsInv ==
    ASSUME RunInv, NEW c \in Clients, BaseFeeCapSkip(c), UNCHANGED market
    PROVE  RunInv'
<1>1. PICK s, T : s = Onward(client[c]) /\ T = txs'
  OBVIOUS
<1>2. /\ client[c].at = "check" /\ client[c].cmd = "kick" /\ Become(c, s) /\ UNCHANGED <<lot, started>>
  BY <1>1 DEF BaseFeeCapSkip, At, Skip
<1>3. Honest(c, s, started, txs, market, lot)
  BY <1>1, <1>2, SkipIsFine
<1>4. /\ TxsTrue' /\ DOMAIN T = DOMAIN txs
      /\ \A t \in DOMAIN txs : /\ T[t].by = txs[t].by /\ T[t].run = txs[t].run /\ T[t].op = txs[t].op
                               /\ T[t].pair = txs[t].pair /\ T[t].state = txs[t].state
  BY <1>1, OutboxDelivered DEF BaseFeeCapSkip
<1>5. Follows(txs, T) /\ \A t \in DOMAIN T : t \in DOMAIN txs
  BY <1>4, HeardOf
<1>6. OneByOne(c, s, T) /\ TellsTheTruth(c, s, T)
  BY <1>3, <1>5, Steady DEF Honest
<1>7. Honest(c, s, started, T, market, lot)
  BY <1>3, <1>6 DEF Honest
<1>8. \A t \in DOMAIN T : T[t].by # c => t \in DOMAIN txs
  BY <1>5
<1>9. txs' = T
  BY <1>1
<1> QED BY <1>2, <1>4, <1>5, <1>7, <1>8, <1>9, SenderStep

\* The latest transaction of a client that has one.
LEMMA LastOfIs ==
    ASSUME NEW c, \E t \in DOMAIN txs : txs[t].by = c /\ Latest(c, t, txs)
    PROVE  LastOf(c) \in DOMAIN txs /\ txs[LastOf(c)].by = c /\ Latest(c, LastOf(c), txs)
<1>1. \E t \in Own(c) : \A u \in Own(c) : u <= t
  BY DEF Own, Latest
<1>2. LastOf(c) \in Own(c) /\ \A u \in Own(c) : u <= LastOf(c)
  BY <1>1 DEF LastOf
<1> QED BY <1>2 DEF Own, Latest

LEMMA ReportKeepsInv ==
    ASSUME RunInv, NEW c \in Clients, Report(c), UNCHANGED market
    PROVE  RunInv'
<1>1. PICK r, s, T, last : r = client[c] /\ s = [r EXCEPT !.at = "wait"] /\ T = txs' /\ last = LastOf(c)
  OBVIOUS
<1>2. Honest(c, r, started, txs, market, lot) /\ WellFormed(r) /\ Fields(r) /\ started \in Nat
  BY <1>1, ClientFacts
<1>3. PICK delivered \in BOOLEAN : txs' = [txs EXCEPT ![last].known = delivered]
  BY <1>1 DEF Report
<1>4. r.at = "report" /\ Become(c, s) /\ UNCHANGED <<lot, started>>
  BY <1>1 DEF Report, At
<1>5. last \in DOMAIN txs
  <2>1. \E t \in DOMAIN txs : txs[t].by = c /\ Latest(c, t, txs)
    BY <1>2, <1>4 DEF Honest, OneByOne, SentBy
  <2> QED BY <1>1, <2>1, LastOfIs
<1>6. /\ TxsTrue' /\ DOMAIN T = DOMAIN txs
      /\ \A t \in DOMAIN txs : /\ T[t].by = txs[t].by /\ T[t].run = txs[t].run /\ T[t].op = txs[t].op
                               /\ T[t].pair = txs[t].pair /\ T[t].state = txs[t].state
  <2> DEFINE known == [t \in DOMAIN txs |-> IF t = last THEN delivered ELSE txs[t].known]
  <2>1. \A t \in DOMAIN txs : txs[t] \in TxType
    BY DEF RunInv, TxsTrue
  <2>2. known \in [DOMAIN txs -> BOOLEAN]
    BY <2>1 DEF TxType
  <2>3. \A t \in DOMAIN txs : txs'[t] = [txs[t] EXCEPT !.known = known[t]]
    <3> TAKE t \in DOMAIN txs
    <3>1. CASE t = last
      BY <1>3, <3>1
    <3>2. CASE t # last
      <4>1. txs'[t] = txs[t] /\ known[t] = txs[t].known /\ txs[t] \in TxType
        BY <1>3, <2>1, <3>2
      <4> QED BY <4>1 DEF TxType
    <3> QED BY <3>1, <3>2
  <2> HIDE DEF known
  <2>4. txs' = [t \in DOMAIN txs |-> txs'[t]]
    BY <1>3
  <2>5. txs' = [t \in DOMAIN txs |-> [txs[t] EXCEPT !.known = known[t]]]
    BY <2>3, <2>4
  <2> QED BY <1>1, <1>4, <2>2, <2>5, KnownOnly
<1>7. Follows(txs, T) /\ \A t \in DOMAIN T : t \in DOMAIN txs
  BY <1>6, HeardOf
<1>8. /\ Fields(s) /\ s.at = "wait" /\ s.ops = r.ops /\ s.next = r.next /\ s.results = r.results
      /\ s.why = r.why /\ s.cmd = r.cmd /\ s.run = r.run /\ s.done = r.done /\ s.pair = r.pair
      /\ s.records = r.records /\ s.expected = r.expected /\ s.verdict = r.verdict
  BY <1>1, <1>2 DEF Fields
<1>9. OneByOne(c, r, T) /\ TellsTheTruth(c, r, T)
  BY <1>2, <1>7, Steady DEF Honest
<1>10. OneByOne(c, s, T) /\ TellsTheTruth(c, s, T)
  BY <1>4, <1>8, <1>9 DEF OneByOne, TellsTheTruth, Recorded, SentBy, Got
<1>11. WellFormed(s)
  BY <1>2, <1>4, <1>8 DEF WellFormed, OneAction, Places, Acting
<1>12. Permitted(s, market) /\ Covered(s, lot)
  BY <1>2, <1>4, <1>8 DEF Honest, Permitted, Covered
<1>13. Honest(c, s, started, T, market, lot)
  BY <1>2, <1>8, <1>10, <1>11, <1>12 DEF Honest
<1>14. (\A t \in DOMAIN T : T[t].by # c => t \in DOMAIN txs) /\ txs' = T
  BY <1>1, <1>7
<1> QED BY <1>4, <1>6, <1>7, <1>13, <1>14, SenderStep

\* The next call goes out: everything the client has sent before is resolved, what
\* it has sent on this auction under this command are the calls before this one,
\* and a kick is still permitted.
LEMMA SendKeepsInv ==
    ASSUME RunInv, NEW c \in Clients, Send(c), UNCHANGED market
    PROVE  RunInv'
<1>1. PICK r, s, call, tx, N, T :
        /\ r = client[c] /\ s = [r EXCEPT !.at = "report"] /\ call = r.ops[r.next]
        /\ tx = [op |-> call.op, pair |-> call.pair, force |-> call.force, by |-> c,
                 run |-> r.run, state |-> "pool", known |-> FALSE,
                 round |-> "none", over |-> "none", why |-> r.why]
        /\ N = Len(txs) + 1 /\ T = Append(txs, tx)
  OBVIOUS
<1>2. /\ Honest(c, r, started, txs, market, lot) /\ WellFormed(r) /\ Fields(r) /\ started \in Nat
      /\ r.run \in Nat /\ r.run <= started
  BY <1>1, ClientFacts
<1>3. r.at = "send" /\ Become(c, s) /\ txs' = T /\ UNCHANGED <<lot, started>>
  BY <1>1 DEF Send, At
<1>4. /\ Fields(s) /\ s.at = "report" /\ s.ops = r.ops /\ s.next = r.next /\ s.results = r.results
      /\ s.why = r.why /\ s.cmd = r.cmd /\ s.run = r.run /\ s.done = r.done /\ s.pair = r.pair
      /\ s.records = r.records /\ s.expected = r.expected /\ s.verdict = r.verdict
  BY <1>1, <1>2 DEF Fields
<1>5. r.next \in DOMAIN r.ops /\ r.next \in Nat /\ OneAction(r) /\ AuctionOf(r.pair) \notin r.done
  BY <1>2, <1>3 DEF WellFormed, Acting, OneAction
<1>6. call \in Calls /\ AuctionOf(call.pair) = AuctionOf(r.pair)
  BY <1>1, <1>5 DEF OneAction
<1>7. tx \in TxType /\ tx.op = call.op /\ tx.pair = call.pair /\ tx.by = c /\ tx.run = r.run
      /\ tx.state = "pool" /\ tx.round = "none" /\ tx.over = "none" /\ tx.why = r.why
  <2>1. /\ call.op \in {"kick", "resolve", "sweep"} /\ call.pair \in Pairs /\ call.force \in BOOLEAN
        /\ r.run \in Nat /\ r.why \subseteq Reasons
    BY <1>2, <1>6 DEF Calls, WellFormed
  <2>2. tx = [op |-> call.op, pair |-> call.pair, force |-> call.force, by |-> c,
              run |-> r.run, state |-> "pool", known |-> FALSE,
              round |-> "none", over |-> "none", why |-> r.why]
    BY <1>1
  <2>3. tx \in TxType
    BY ONLY <2>1, <2>2, c \in Clients DEF TxType
  <2> QED BY ONLY <2>2, <2>3
<1>8. /\ txs \in Seq(TxType) /\ T \in Seq(TxType) /\ N \in Nat /\ N \notin DOMAIN txs
      /\ DOMAIN T = DOMAIN txs \union {N} /\ T[N] = tx
      /\ \A t \in DOMAIN txs : T[t] = txs[t] /\ t \in Nat /\ t < N
  <2>1. txs \in Seq(TxType)
    BY DEF RunInv, TxsTrue
  <2>2. tx \in TxType /\ N = Len(txs) + 1 /\ T = Append(txs, tx)
    BY <1>1, <1>7
  <2> QED BY ONLY <2>1, <2>2
<1>9. Follows(txs, T) /\ \A t \in DOMAIN T : T[t].by # c => t \in DOMAIN txs
  BY <1>7, <1>8 DEF Follows
<1>10. SentBy(c, s, T) = SentBy(c, r, txs) \union {N}
  BY <1>4, <1>7, <1>8 DEF SentBy
<1>11. Latest(c, N, T)
  BY <1>8 DEF Latest
<1>12. \A t \in SentBy(c, r, txs) : /\ t \in DOMAIN txs
                                    /\ \/ AuctionOf(txs[t].pair) \in r.done
                                       \/ \E n \in 1 .. r.next - 1 : IsCall(txs[t], r.ops[n])
  BY <1>2, <1>3 DEF Honest, OneByOne, SentBy, Got
<1>13. OneByOne(c, s, T)
  <2>1. \A t \in SentBy(c, r, txs) : \/ AuctionOf(T[t].pair) \in s.done
                                     \/ \E n \in 1 .. Got(s) : IsCall(T[t], s.ops[n])
    <3> TAKE t \in SentBy(c, r, txs)
    <3>1. T[t] = txs[t] /\ Got(s) = r.next
      BY <1>4, <1>8, <1>12 DEF Got
    <3>2. \A n \in 1 .. r.next - 1 : n \in 1 .. r.next
      BY <1>5
    <3> QED BY <1>4, <1>12, <3>1, <3>2
  <2>2. IsCall(T[N], s.ops[r.next]) /\ r.next \in 1 .. Got(s)
    <3>1. r.next >= 1
      BY <1>2, <1>3 DEF WellFormed, Acting, OneAction
    <3>2. T[N].op = call.op /\ T[N].pair = call.pair /\ call = s.ops[r.next]
      <4>1. T[N] = tx /\ tx.op = call.op /\ tx.pair = call.pair
        BY <1>7, <1>8
      <4>2. call = r.ops[r.next] /\ s.ops = r.ops
        BY <1>1, <1>4
      <4> QED BY ONLY <4>1, <4>2
    <3>3. Got(s) = r.next
      BY <1>4 DEF Got
    <3>4. r.next \in 1 .. r.next
      BY <3>1, <1>5
    <3> QED BY <3>2, <3>3, <3>4 DEF IsCall
  <2> QED BY <1>4, <1>10, <1>11, <2>1, <2>2 DEF OneByOne
<1>14. TellsTheTruth(c, s, T)
  <2>1. Recorded(c, r, txs)
    BY <1>2, <1>3 DEF Honest, TellsTheTruth
  <2>2. AllConfirmed(s.records) => \A t \in SentBy(c, s, T) : T[t].state = "ok" \/ Latest(c, t, T)
    BY <1>3, <1>4, <1>8, <1>10, <1>11, <1>12, <2>1 DEF Recorded
  <2>3. Recorded(c, s, T)
    BY <1>4, <1>10, <2>2 DEF Recorded
  <2>4. s.verdict = "none"
    BY <1>2, <1>3, <1>4 DEF WellFormed
  <2> QED BY <1>4, <2>3, <2>4 DEF TellsTheTruth
<1>15. WellFormed(s)
  BY <1>2, <1>3, <1>4 DEF WellFormed, OneAction, Places, Acting
<1>16. Permitted(s, market) /\ Covered(s, lot)
  BY <1>2, <1>3, <1>4 DEF Honest, Permitted, Covered
<1>17. Honest(c, s, started, T, market, lot)
  BY <1>2, <1>4, <1>13, <1>14, <1>15, <1>16 DEF Honest
<1>18. TxsTrue'
  <2>1. \A t \in DOMAIN T :
         /\ T[t].run <= started
         /\ T[t].round # "none" => T[t].op = "kick" /\ T[t].state = "ok"
         /\ T[t].round \in {"open", "bought"} => lot[T[t].pair] \notin {"clean", "donated"}
         /\ (T[t].op = "kick" /\ T[t].state = "pool" /\ lot[T[t].pair] = "leftover") => Excused(T[t].why)
    <3>1. (call.op = "kick" /\ lot[call.pair] = "leftover") => Excused(r.why)
      BY <1>1, <1>2, <1>3, <1>5 DEF Honest, Covered
    <3>2. /\ tx.run <= started
          /\ tx.round # "none" => tx.op = "kick" /\ tx.state = "ok"
          /\ tx.round \in {"open", "bought"} => lot[tx.pair] \notin {"clean", "donated"}
          /\ (tx.op = "kick" /\ tx.state = "pool" /\ lot[tx.pair] = "leftover") => Excused(tx.why)
      BY <1>2, <1>7, <3>1
    <3> QED BY <1>8, <3>2 DEF RunInv, TxsTrue
  <2>2. NoKickOverLeftovers'
    BY <1>3, <1>7, <1>8 DEF RunInv, TxsTrue, NoKickOverLeftovers
  <2>3. StopsWhilePending'
    <3>1. \A t \in DOMAIN txs : txs[t].by = c => txs[t].state # "pool"
      BY <1>2, <1>3 DEF Honest, OneByOne
    <3>2. \A t, u \in DOMAIN T : t < u /\ T[t].by = T[u].by => T[t].state # "pool"
      <4> TAKE t, u \in DOMAIN T
      <4>1. CASE u \in DOMAIN txs /\ t \in DOMAIN txs
        BY <1>8, <4>1 DEF RunInv, TxsTrue, StopsWhilePending
      <4>2. CASE u = N /\ t \in DOMAIN txs
        BY <1>7, <1>8, <3>1, <4>2
      <4>3. CASE t = N
        BY <1>8, <4>3
      <4> QED BY <1>8, <4>1, <4>2, <4>3
    <3> QED BY <1>3, <3>2 DEF StopsWhilePending
  <2>4. OneActionPerAuction'
    <3>1. \A t \in DOMAIN txs :
            (txs[t].by = c /\ txs[t].run = r.run /\ AuctionOf(txs[t].pair) = AuctionOf(tx.pair)) =>
               txs[t].op = "resolve" /\ tx.op = "resolve" /\ txs[t].pair # tx.pair
      <4> SUFFICES ASSUME NEW t \in DOMAIN txs, txs[t].by = c, txs[t].run = r.run,
                          AuctionOf(txs[t].pair) = AuctionOf(tx.pair)
                   PROVE  txs[t].op = "resolve" /\ tx.op = "resolve" /\ txs[t].pair # tx.pair
        OBVIOUS
      <4>1. t \in SentBy(c, r, txs)
        BY DEF SentBy
      <4>2. PICK n \in 1 .. r.next - 1 : IsCall(txs[t], r.ops[n])
        BY <1>5, <1>6, <1>7, <1>12, <4>1
      <4>3. n \in DOMAIN r.ops /\ n # r.next
        BY <1>5 DEF OneAction
      <4> QED BY <1>1, <1>5, <1>7, <4>2, <4>3 DEF OneAction, IsCall
    <3>2. \A t, u \in DOMAIN T :
            (t < u /\ T[t].by = T[u].by /\ T[t].run = T[u].run /\ AuctionOf(T[t].pair) = AuctionOf(T[u].pair)) =>
               T[t].op = "resolve" /\ T[u].op = "resolve" /\ T[t].pair # T[u].pair
      <4> TAKE t, u \in DOMAIN T
      <4>1. CASE u \in DOMAIN txs /\ t \in DOMAIN txs
        BY <1>8, <4>1 DEF RunInv, TxsTrue, OneActionPerAuction
      <4>2. CASE u = N /\ t \in DOMAIN txs
        BY <1>7, <1>8, <3>1, <4>2
      <4>3. CASE t = N
        BY <1>8, <4>3
      <4> QED BY <1>8, <4>1, <4>2, <4>3
    <3> QED BY <1>3, <3>2 DEF OneActionPerAuction
  <2>5. PolicyRespected'
    <3>1. call.op = "kick" => Allowed(market, call.pair, r.why)
      BY <1>1, <1>2, <1>5 DEF Honest, Permitted
    <3>2. \A t \in DOMAIN T : T[t].op = "kick" => Allowed(market, T[t].pair, T[t].why)
      BY <1>7, <1>8, <3>1 DEF RunInv, TxsTrue, PolicyRespected, Allowed, Candidates
    <3> QED BY <1>3, <3>2 DEF PolicyRespected, Allowed, Candidates
  <2> QED BY <1>3, <1>8, <2>1, <2>2, <2>3, <2>4, <2>5 DEF TxsTrue
<1> QED BY <1>3, <1>9, <1>17, <1>18, SenderStep

\* Lists of outcomes that are put together.
LEMMA OutcomesAdded ==
    ASSUME NEW a \in Seq(Outcomes), NEW e \in Outcomes
    PROVE  /\ Append(a, e) \in Seq(Outcomes) /\ Append(a, e) # <<>>
           /\ AllConfirmed(Append(a, e)) <=> AllConfirmed(a) /\ e = "CONFIRMED"
<1>1. /\ Append(a, e) \in Seq(Outcomes) /\ Append(a, e) # <<>> /\ Len(a) \in Nat
      /\ DOMAIN a = 1 .. Len(a) /\ DOMAIN Append(a, e) = 1 .. Len(a) + 1
      /\ Append(a, e)[Len(a) + 1] = e
      /\ \A n \in 1 .. Len(a) : Append(a, e)[n] = a[n]
  OBVIOUS
<1> QED BY <1>1 DEF AllConfirmed

LEMMA OutcomesJoined ==
    ASSUME NEW a \in Seq(Outcomes), NEW b \in Seq(Outcomes), b # <<>>
    PROVE  /\ a \o b \in Seq(Outcomes) /\ a \o b # <<>>
           /\ AllConfirmed(a \o b) => AllConfirmed(a) /\ AllConfirmed(b)
<1>1. /\ a \o b \in Seq(Outcomes) /\ Len(a) \in Nat /\ Len(b) \in Nat /\ Len(b) > 0
      /\ Len(a \o b) = Len(a) + Len(b)
      /\ DOMAIN a = 1 .. Len(a) /\ DOMAIN b = 1 .. Len(b) /\ DOMAIN (a \o b) = 1 .. Len(a) + Len(b)
      /\ \A n \in 1 .. Len(a) : (a \o b)[n] = a[n]
      /\ \A n \in 1 .. Len(b) : (a \o b)[Len(a) + n] = b[n]
  OBVIOUS
<1>2. a \o b # <<>>
  BY <1>1
<1>3. ASSUME AllConfirmed(a \o b)
      PROVE  AllConfirmed(a) /\ AllConfirmed(b)
  <2>1. \A n \in DOMAIN a : n \in DOMAIN (a \o b)
    BY <1>1
  <2>2. \A n \in DOMAIN b : Len(a) + n \in DOMAIN (a \o b)
    BY <1>1
  <2> QED BY <1>1, <1>3, <2>1, <2>2 DEF AllConfirmed
<1> QED BY <1>1, <1>2, <1>3

\* The result of the transaction that was waited for is true, or says that there is
\* none; what has been recorded of the others was true before.
LEMMA AwaitKeepsInv ==
    ASSUME RunInv, NEW c \in Clients, Await(c), UNCHANGED market
    PROVE  RunInv'
<1>1. PICK r, o, last : r = client[c] /\ o = Onward(r) /\ last = LastOf(c)
  OBVIOUS
<1>2. Honest(c, r, started, txs, market, lot) /\ WellFormed(r) /\ Fields(r) /\ started \in Nat
  BY <1>1, ClientFacts
<1>3. r.at = "wait" /\ UNCHANGED <<lot, txs, started>>
  BY <1>1 DEF Await, At
<1>4. PICK state, results :
        /\ state \in {txs[last].state, "pool"} /\ results = Append(r.results, ResultOf(state))
        /\ Become(c, IF state = "ok" /\ r.next < Len(r.ops)
                     THEN [r EXCEPT !.at = "send", !.next = @ + 1, !.results = results]
                     ELSE Concluded(r, results))
  BY <1>1 DEF Await
<1>5. last \in SentBy(c, r, txs) /\ Latest(c, last, txs)
      /\ \A t \in DOMAIN txs : txs[t].by = c /\ Latest(c, t, txs) => t = last
  <2>1. PICK t \in SentBy(c, r, txs) : Latest(c, t, txs)
    BY <1>2, <1>3 DEF Honest, OneByOne
  <2>2. last \in DOMAIN txs /\ txs[last].by = c /\ Latest(c, last, txs)
    BY <1>1, <2>1, LastOfIs DEF SentBy
  <2>3. DOMAIN txs \subseteq Nat
    BY DEF RunInv, TxsTrue
  <2>4. \A u \in DOMAIN txs : txs[u].by = c /\ Latest(c, u, txs) => u = last
    BY <2>2, <2>3 DEF Latest
  <2>5. t = last
    BY <2>1, <2>4 DEF SentBy
  <2> QED BY <2>1, <2>2, <2>4, <2>5
<1>6. txs[last].state \in {"pool", "ok", "reverted"}
  <2>1. last \in DOMAIN txs /\ txs \in Seq(TxType)
    BY <1>5 DEF RunInv, TxsTrue, SentBy
  <2>2. txs[last] \in TxType
    BY <2>1
  <2> QED BY <2>2 DEF TxType
<1>7. ResultOf(state) \in Outcomes /\ (ResultOf(state) = "CONFIRMED" => txs[last].state = "ok")
      /\ (state = "ok" => txs[last].state = "ok" /\ ResultOf(state) = "CONFIRMED")
  BY <1>4, <1>6 DEF ResultOf, Outcomes
<1>8. /\ r.results \in Seq(Outcomes) /\ r.records \in Seq(Outcomes) /\ r.expected \in Nat
      /\ AllConfirmed(r.results) /\ r.why \subseteq Reasons /\ r.verdict = "none"
      /\ r.next \in DOMAIN r.ops /\ r.next \in Nat /\ OneAction(r) /\ Len(r.ops) \in Nat
      /\ r.next \in 1 .. Len(r.ops)
  BY <1>2, <1>3 DEF WellFormed, Acting, OneAction
<1>9. /\ results \in Seq(Outcomes) /\ results # <<>>
      /\ AllConfirmed(results) <=> ResultOf(state) = "CONFIRMED"
  BY <1>4, <1>7, <1>8, OutcomesAdded
<1>10. /\ Recorded(c, r, txs)
       /\ \A t \in SentBy(c, r, txs) : \/ AuctionOf(txs[t].pair) \in r.done
                                       \/ \E n \in 1 .. r.next : IsCall(txs[t], r.ops[n])
  BY <1>2, <1>3 DEF Honest, OneByOne, TellsTheTruth, Got
<1>11. AllConfirmed(r.records) /\ txs[last].state = "ok" => \A t \in SentBy(c, r, txs) : txs[t].state = "ok"
  BY <1>5, <1>10 DEF Recorded, SentBy
<1>12. ASSUME state = "ok", r.next < Len(r.ops),
              Become(c, [r EXCEPT !.at = "send", !.next = @ + 1, !.results = results])
       PROVE  RunInv'
  <2>1. PICK s : s = [r EXCEPT !.at = "send", !.next = @ + 1, !.results = results]
    OBVIOUS
  <2>2. /\ Fields(s) /\ s.at = "send" /\ s.ops = r.ops /\ s.next = r.next + 1 /\ s.results = results
        /\ s.why = r.why /\ s.cmd = r.cmd /\ s.run = r.run /\ s.done = r.done /\ s.pair = r.pair
        /\ s.records = r.records /\ s.expected = r.expected /\ s.verdict = r.verdict
    BY <1>2, <2>1 DEF Fields
  <2>3. SentBy(c, s, txs) = SentBy(c, r, txs) /\ Got(s) = r.next
    BY <1>8, <2>2 DEF SentBy, Got
  <2>4. \A t \in DOMAIN txs : txs[t].by = c => txs[t].state # "pool"
    <3> SUFFICES ASSUME NEW t \in DOMAIN txs, txs[t].by = c  PROVE txs[t].state # "pool"
      OBVIOUS
    <3>1. CASE t = last
      BY <1>7, <1>12, <3>1
    <3>2. CASE t # last
      <4>1. t <= last /\ t \in Nat /\ last \in Nat /\ last \in DOMAIN txs /\ txs[last].by = c
        BY <1>5 DEF Latest, SentBy, RunInv, TxsTrue
      <4>2. t < last
        BY <3>2, <4>1
      <4> QED BY <4>1, <4>2 DEF RunInv, TxsTrue, StopsWhilePending
    <3> QED BY <3>1, <3>2
  <2>5. OneByOne(c, s, txs)
    BY <1>10, <2>2, <2>3, <2>4 DEF OneByOne
  <2>6. TellsTheTruth(c, s, txs)
    <3>1. Recorded(c, s, txs)
      BY <1>5, <1>7, <1>9, <1>10, <1>11, <1>12, <2>2, <2>3 DEF Recorded
    <3> QED BY <1>8, <2>2, <3>1 DEF TellsTheTruth
  <2>7. WellFormed(s)
    <3>1. s.next \in 1 .. Len(s.ops)
      BY <1>8, <1>12, <2>2
    <3>2. AllConfirmed(s.results)
      BY <1>7, <1>9, <1>12, <2>2
    <3> QED BY <1>2, <1>3, <1>9, <2>2, <3>1, <3>2 DEF WellFormed, OneAction, Places, Acting
  <2>8. Permitted(s, market) /\ Covered(s, lot)
    BY <1>2, <1>3, <2>2 DEF Honest, Permitted, Covered
  <2>9. Honest(c, s, started, txs, market, lot)
    BY <1>2, <2>2, <2>5, <2>6, <2>7, <2>8 DEF Honest
  <2> QED BY <1>2, <1>3, <1>12, <2>1, <2>9, ClientStep
<1>13. ASSUME Become(c, Concluded(r, results))
       PROVE  RunInv'
  <2>1. PICK after, s :
          /\ after = [o EXCEPT !.records = @ \o results, !.expected = @ + Len(r.ops),
                               !.done = @ \union {AuctionOf(r.pair)}]
          /\ s = IF "PENDING" \in ToSet(results) \/ r.cmd # "kick" \/ r.mode = "unattended"
                 THEN [after EXCEPT !.at = "finish"] ELSE after
          /\ Become(c, s)
    BY <1>1, <1>13 DEF Concluded
  <2>2. /\ Fields(o) /\ o.at = "next" /\ o.ops = <<>> /\ o.next = 1 /\ o.results = <<>>
        /\ o.why = r.why \intersect Flags /\ o.run = r.run /\ o.records = r.records /\ o.cmd = r.cmd
        /\ o.expected = r.expected /\ o.verdict = r.verdict /\ o.done = r.done
    BY <1>1, <1>2, OnwardIs
  <2>3. /\ Fields(after) /\ after.at = "next" /\ after.ops = <<>> /\ after.next = 1 /\ after.results = <<>>
        /\ after.why = r.why \intersect Flags /\ after.run = r.run /\ after.records = r.records \o results
        /\ after.expected = r.expected + Len(r.ops) /\ after.verdict = r.verdict /\ after.cmd = r.cmd
        /\ after.done = r.done \union {AuctionOf(r.pair)}
    BY <2>1, <2>2 DEF Fields
  <2>4. /\ Fields(s) /\ s.at \in {"next", "finish"} /\ s.ops = <<>> /\ s.next = 1 /\ s.results = <<>>
        /\ s.why = r.why \intersect Flags /\ s.run = r.run /\ s.records = r.records \o results
        /\ s.expected = r.expected + Len(r.ops) /\ s.verdict = r.verdict
        /\ s.done = r.done \union {AuctionOf(r.pair)} /\ (s.at = "next" => s.cmd = "kick")
    <3>1. CASE s = after /\ r.cmd = "kick"
      BY <2>3, <3>1
    <3>2. CASE s = [after EXCEPT !.at = "finish"]
      BY <2>3, <3>2 DEF Fields
    <3> QED BY <2>1, <3>1, <3>2
  <2>5. /\ s.records \in Seq(Outcomes) /\ s.records # <<>>
        /\ AllConfirmed(s.records) => AllConfirmed(r.records) /\ AllConfirmed(results)
    BY <1>8, <1>9, <2>4, OutcomesJoined
  <2>6. SentBy(c, s, txs) = SentBy(c, r, txs)
    BY <2>4 DEF SentBy
  <2>7. Recorded(c, s, txs)
    BY <1>5, <1>7, <1>9, <1>11, <2>4, <2>5, <2>6 DEF Recorded
  <2>8. TellsTheTruth(c, s, txs)
    BY <1>8, <2>4, <2>7 DEF TellsTheTruth
  <2>9. OneByOne(c, s, txs)
    <3>1. \A t \in SentBy(c, r, txs) : AuctionOf(txs[t].pair) \in s.done
      <4>1. \A n \in 1 .. r.next : AuctionOf(r.ops[n].pair) = AuctionOf(r.pair)
        BY <1>8 DEF OneAction
      <4> QED BY <1>10, <2>4, <4>1 DEF IsCall
    <3> QED BY <2>4, <2>6, <3>1 DEF OneByOne
  <2>10. OneAction(s) /\ (\A n : n \notin DOMAIN s.ops) /\ AllConfirmed(s.results)
    BY <2>4, NoCalls, NoResults
  <2>11. WellFormed(s)
    <3>1. s.expected \in Nat /\ s.why \subseteq Reasons
      BY <1>8, <2>4
    <3> QED BY <1>2, <1>8, <2>4, <2>5, <2>10, <3>1, NoResults DEF WellFormed, Places, Acting
  <2>12. Permitted(s, market) /\ Covered(s, lot)
    BY <2>4, <2>10 DEF Permitted, Covered
  <2>13. Honest(c, s, started, txs, market, lot)
    BY <1>2, <2>4, <2>8, <2>9, <2>11, <2>12 DEF Honest
  <2> QED BY <1>2, <1>3, <2>1, <2>13, ClientStep
<1> QED BY <1>4, <1>12, <1>13

----------------------------------------------------------------------------
(* The chain.                                                              *)

\* What clients do is not concerned by what becomes of transactions and lots, as long
\* as no lot is left unsold.
LEMMA ChainStep ==
    ASSUME RunInv, NEW T, NEW L, txs' = T, lot' = L, UNCHANGED <<market, client, started>>,
           DOMAIN T = DOMAIN txs, Follows(txs, T), L \in [Pairs -> LotStates],
           \A p \in Pairs : L[p] = "leftover" => lot[p] = "leftover", TxsTrue'
    PROVE  RunInv'
<1>1. \A c \in Clients : Honest(c, client[c], started, T, market, L)
  <2> TAKE c \in Clients
  <2>1. PICK r : r = client[c]
    OBVIOUS
  <2>2. Honest(c, r, started, txs, market, lot) /\ WellFormed(r)
    BY <2>1, ClientFacts
  <2>3. \A t \in DOMAIN T : T[t].by = c => t \in DOMAIN txs
    OBVIOUS
  <2>4. OneByOne(c, r, T) /\ TellsTheTruth(c, r, T)
    BY <2>2, <2>3, Steady DEF Honest
  <2>5. Covered(r, L)
    <3>1. \A n \in DOMAIN r.ops : r.ops[n].pair \in Pairs
      <4>1. r.ops \in Seq(Calls)
        BY <2>2 DEF WellFormed, OneAction
      <4>2. \A n \in DOMAIN r.ops : r.ops[n] \in Calls
        BY <4>1
      <4> QED BY <4>2 DEF Calls
    <3>2. r.at \in {"quote", "estimate"} => r.pair \in Pairs
      BY <2>2 DEF WellFormed
    <3> QED BY <2>2, <3>1, <3>2 DEF Honest, Covered
  <2> QED BY <2>1, <2>2, <2>4, <2>5 DEF Honest
<1> QED BY <1>1 DEF RunInv

\* Transactions and what they are on, without what else is known of them.
LEMMA TxFacts ==
    ASSUME RunInv
    PROVE  /\ txs \in Seq(TxType) /\ DOMAIN txs = 1 .. Len(txs) /\ Len(txs) \in Nat
           /\ lot \in [Pairs -> LotStates] /\ started \in Nat
           /\ \A t \in DOMAIN txs :
                /\ txs[t] \in TxType /\ t \in Nat /\ txs[t].pair \in Pairs
                /\ txs[t].run <= started
                /\ txs[t].round # "none" => txs[t].op = "kick" /\ txs[t].state = "ok"
                /\ txs[t].round \in {"open", "bought"} => lot[txs[t].pair] \notin {"clean", "donated"}
                /\ (txs[t].op = "kick" /\ txs[t].state = "pool" /\ lot[txs[t].pair] = "leftover") =>
                     Excused(txs[t].why)
                /\ txs[t].over = "leftover" => Excused(txs[t].why)
<1>1. txs \in Seq(TxType) /\ DOMAIN txs = 1 .. Len(txs) /\ Len(txs) \in Nat
      /\ \A t \in DOMAIN txs : txs[t] \in TxType /\ t \in Nat
  BY DEF RunInv, TxsTrue
<1>2. \A t \in DOMAIN txs : txs[t].pair \in Pairs
  BY <1>1 DEF TxType
<1> QED BY <1>1, <1>2 DEF RunInv, TxsTrue, NoKickOverLeftovers, Excused

\* A transaction after a step of the chain: what it is does not change, and what it
\* says is right.  L are the lots after the step.
GoesOn(tx, new, L) ==
    /\ new \in TxType
    /\ new.op = tx.op /\ new.pair = tx.pair /\ new.by = tx.by /\ new.run = tx.run
    /\ tx.why \subseteq new.why
    /\ tx.state # "pool" => new.state = tx.state
    /\ new.round # "none" => new.op = "kick" /\ new.state = "ok"
    /\ new.round \in {"open", "bought"} => L[new.pair] \notin {"clean", "donated"}
    /\ (new.op = "kick" /\ new.state = "pool" /\ L[new.pair] = "leftover") => Excused(new.why)
    /\ new.over = "leftover" => Excused(new.why)

\* So they all go on.
LEMMA TxsGoOn ==
    ASSUME RunInv, NEW T, NEW L, txs' = T, lot' = L, UNCHANGED <<market, started>>,
           T = [t \in DOMAIN txs |-> T[t]],
           \A t \in DOMAIN txs : GoesOn(txs[t], T[t], L)
    PROVE  TxsTrue' /\ DOMAIN T = DOMAIN txs /\ Follows(txs, T)
<1>1. DOMAIN T = DOMAIN txs
  OBVIOUS
<1>2. Follows(txs, T)
  BY <1>1 DEF Follows, GoesOn
<1>3. T \in Seq(TxType)
  <2>1. DOMAIN txs = 1 .. Len(txs) /\ Len(txs) \in Nat
    BY TxFacts
  <2> QED BY <1>1, <2>1 DEF GoesOn
<1>4. \A t \in DOMAIN T :
         /\ T[t].run <= started
         /\ T[t].round # "none" => T[t].op = "kick" /\ T[t].state = "ok"
         /\ T[t].round \in {"open", "bought"} => L[T[t].pair] \notin {"clean", "donated"}
         /\ (T[t].op = "kick" /\ T[t].state = "pool" /\ L[T[t].pair] = "leftover") => Excused(T[t].why)
  BY <1>1, TxFacts DEF GoesOn
<1>5. NoKickOverLeftovers'
  BY <1>1 DEF GoesOn, NoKickOverLeftovers, Excused
<1>6. OneActionPerAuction'
  BY <1>1 DEF GoesOn, RunInv, TxsTrue, OneActionPerAuction
<1>7. StopsWhilePending'
  BY <1>1 DEF GoesOn, RunInv, TxsTrue, StopsWhilePending
<1>8. PolicyRespected'
  BY <1>1 DEF GoesOn, RunInv, TxsTrue, PolicyRespected, Candidates
<1> QED BY <1>1, <1>2, <1>3, <1>4, <1>5, <1>6, <1>7, <1>8 DEF TxsTrue

\* The rounds of a pair are closed: none of them is open on it any more.
LEMMA ClosedIs ==
    ASSUME RunInv, NEW p \in Pairs, NEW ts, DOMAIN ts = DOMAIN txs, NEW t \in DOMAIN txs,
           ts[t] \in TxType, ts[t].pair = txs[t].pair, ts[t].round = txs[t].round
    PROVE  LET new == Closed(p, ts)[t] IN
           /\ new \in TxType /\ new.op = ts[t].op /\ new.pair = ts[t].pair /\ new.by = ts[t].by
           /\ new.run = ts[t].run /\ new.why = ts[t].why /\ new.state = ts[t].state /\ new.over = ts[t].over
           /\ new.round # "none" => txs[t].round # "none"
           /\ new.round \in {"open", "bought"} => txs[t].round \in {"open", "bought"} /\ txs[t].pair # p
<1>1. PICK new : new = Closed(p, ts)[t]
  OBVIOUS
<1>2. CASE t \notin OpenRounds(p)
  <2>1. new = ts[t]
    BY <1>1, <1>2 DEF Closed
  <2>2. new.round \in {"open", "bought"} => txs[t].pair # p
    BY <1>2, <2>1 DEF OpenRounds
  <2> QED BY <1>1, <2>1, <2>2
<1>3. CASE t \in OpenRounds(p)
  <2>1. PICK round \in {"filled", "unfilled"} : new = [ts[t] EXCEPT !.round = round]
    <3>1. new = [ts[t] EXCEPT !.round = IF ts[t].round = "bought" THEN "filled" ELSE "unfilled"]
      BY <1>1, <1>3 DEF Closed
    <3> QED BY <3>1
  <2>2. txs[t].round \in {"open", "bought"}
    BY <1>3 DEF OpenRounds
  <2>3. /\ new \in TxType /\ new.op = ts[t].op /\ new.pair = ts[t].pair /\ new.by = ts[t].by
        /\ new.run = ts[t].run /\ new.why = ts[t].why /\ new.state = ts[t].state /\ new.over = ts[t].over
        /\ new.round = round
    BY <2>1 DEF TxType
  <2> QED BY <1>1, <2>2, <2>3
<1> QED BY <1>2, <1>3

LEMMA ClosedDomain ==
    ASSUME NEW p, NEW ts
    PROVE  /\ Closed(p, ts) = [t \in DOMAIN ts |-> Closed(p, ts)[t]]
           /\ DOMAIN Closed(p, ts) = DOMAIN ts
BY DEF Closed

\* A lot that is resolved: what was on it is over.
LEMMA ResolveElsewhereKeepsInv ==
    ASSUME RunInv, NEW p \in Pairs, ResolveElsewhere(p), UNCHANGED market
    PROVE  RunInv'
<1>1. PICK T, L : T = Closed(p, txs) /\ L = [lot EXCEPT ![p] = "clean"]
  OBVIOUS
<1>2. txs' = T /\ lot' = L /\ UNCHANGED <<client, started>>
  BY <1>1 DEF ResolveElsewhere
<1>3. T = [t \in DOMAIN txs |-> T[t]]
  BY <1>1, ClosedDomain
<1>4. L \in [Pairs -> LotStates] /\ L[p] = "clean" /\ \A q \in Pairs : q # p => L[q] = lot[q]
  BY <1>1, TxFacts DEF LotStates
<1>5. \A t \in DOMAIN txs :
        /\ T[t] \in TxType
        /\ T[t].op = txs[t].op /\ T[t].pair = txs[t].pair /\ T[t].by = txs[t].by
        /\ T[t].run = txs[t].run /\ T[t].why = txs[t].why /\ T[t].state = txs[t].state
        /\ T[t].over = txs[t].over
        /\ T[t].round # "none" => txs[t].round # "none"
        /\ T[t].round \in {"open", "bought"} => txs[t].round \in {"open", "bought"} /\ txs[t].pair # p
  BY <1>1, TxFacts, ClosedIs
<1>6. \A t \in DOMAIN txs : GoesOn(txs[t], T[t], L)
  BY <1>4, <1>5, TxFacts DEF GoesOn
<1>7. TxsTrue' /\ DOMAIN T = DOMAIN txs /\ Follows(txs, T)
  BY <1>2, <1>3, <1>6, TxsGoOn
<1>8. \A q \in Pairs : L[q] = "leftover" => lot[q] = "leftover"
  BY <1>4
<1> QED BY <1>2, <1>4, <1>7, <1>8, ChainStep

LEMMA DonateKeepsInv ==
    ASSUME RunInv, NEW p \in Pairs, Donate(p), UNCHANGED market
    PROVE  RunInv'
<1>1. PICK T, L : T = txs /\ L = [lot EXCEPT ![p] = "donated"]
  OBVIOUS
<1>2. txs' = T /\ lot' = L /\ lot[p] = "clean" /\ UNCHANGED <<client, started>>
  BY <1>1 DEF Donate
<1>3. L \in [Pairs -> LotStates] /\ L[p] = "donated" /\ \A q \in Pairs : q # p => L[q] = lot[q]
  BY <1>1, TxFacts DEF LotStates
<1>4. T = [t \in DOMAIN txs |-> T[t]]
  BY <1>1, TxFacts
<1>5. \A t \in DOMAIN txs : GoesOn(txs[t], T[t], L)
  BY <1>1, <1>2, <1>3, TxFacts DEF GoesOn
<1>6. TxsTrue' /\ DOMAIN T = DOMAIN txs /\ Follows(txs, T)
  BY <1>2, <1>4, <1>5, TxsGoOn
<1>7. \A q \in Pairs : L[q] = "leftover" => lot[q] = "leftover"
  BY <1>3
<1> QED BY <1>2, <1>3, <1>6, <1>7, ChainStep

LEMMA BuyKeepsInv ==
    ASSUME RunInv, NEW p \in Pairs, Buy(p), UNCHANGED market
    PROVE  RunInv'
<1>1. PICK T, left, L :
        /\ T = [t \in DOMAIN txs |->
                  IF t \in OpenRounds(p) THEN [txs[t] EXCEPT !.round = "bought"] ELSE txs[t]]
        /\ left \in {"live", "sold"} /\ L = [lot EXCEPT ![p] = left]
        /\ txs' = T /\ lot' = L
  BY DEF Buy
<1>2. lot[p] = "live" /\ UNCHANGED <<client, started>>
  BY DEF Buy
<1>3. L \in [Pairs -> LotStates] /\ L[p] = left /\ \A q \in Pairs : q # p => L[q] = lot[q]
  BY <1>1, TxFacts DEF LotStates
<1>4. \A t \in DOMAIN txs :
        /\ T[t] \in TxType
        /\ T[t].op = txs[t].op /\ T[t].pair = txs[t].pair /\ T[t].by = txs[t].by
        /\ T[t].run = txs[t].run /\ T[t].why = txs[t].why /\ T[t].state = txs[t].state
        /\ T[t].over = txs[t].over
        /\ T[t].round # "none" => txs[t].round # "none"
        /\ T[t].round \in {"open", "bought"} => txs[t].round \in {"open", "bought"}
  <2> TAKE t \in DOMAIN txs
  <2>1. txs[t] \in TxType
    BY TxFacts
  <2>2. CASE t \in OpenRounds(p)
    <3>1. T[t] = [txs[t] EXCEPT !.round = "bought"] /\ txs[t].round \in {"open", "bought"}
      BY <1>1, <2>2 DEF OpenRounds
    <3> QED BY <2>1, <3>1 DEF TxType
  <2>3. CASE t \notin OpenRounds(p)
    BY <1>1, <2>1, <2>3
  <2> QED BY <2>2, <2>3
<1>5. T = [t \in DOMAIN txs |-> T[t]]
  BY <1>1
<1>6. \A t \in DOMAIN txs : GoesOn(txs[t], T[t], L)
  BY <1>1, <1>2, <1>3, <1>4, TxFacts DEF GoesOn
<1>7. TxsTrue' /\ DOMAIN T = DOMAIN txs /\ Follows(txs, T)
  BY <1>1, <1>2, <1>5, <1>6, TxsGoOn
<1>8. \A q \in Pairs : L[q] = "leftover" => lot[q] = "leftover"
  BY <1>1, <1>3
<1> QED BY <1>1, <1>2, <1>3, <1>7, <1>8, ChainStep

\* A transaction is mined.  A kick that lands on unsold tokens was excused before.
LEMMA MineKeepsInv ==
    ASSUME RunInv, NEW t \in DOMAIN txs, Mine(t), UNCHANGED market
    PROVE  RunInv'
<1>1. PICK tx, p, T, L : tx = txs[t] /\ p = tx.pair /\ T = txs' /\ L = lot'
  OBVIOUS
<1>2. PICK mined : mined = [txs EXCEPT ![t].state = "ok"]
  OBVIOUS
<1>3. /\ tx.state = "pool" /\ UNCHANGED <<client, started>>
      /\ \/ T = [txs EXCEPT ![t].state = "reverted"] /\ L = lot
         \/ /\ tx.op = "kick" /\ L = [lot EXCEPT ![p] = "live"]
            /\ T = [mined EXCEPT ![t].over = lot[p],
                                 ![t].round = IF HasBalance(lot[p]) THEN "unclear" ELSE "open"]
         \/ T = Closed(p, mined) /\ L = [lot EXCEPT ![p] = "clean"]
         \/ /\ HasBalance(lot[p]) /\ T = mined
            /\ L = [lot EXCEPT ![p] = CASE @ = "live" -> "sold" [] @ = "leftover" -> "empty"
                                        [] @ = "donated" -> "clean"]
  BY <1>1, <1>2 DEF Mine, Succeeds
<1>4. tx \in TxType /\ p \in Pairs /\ txs' = T /\ lot' = L /\ lot[p] \in LotStates /\ tx.round = "none"
      /\ (tx.over = "leftover" => Excused(tx.why))
      /\ (tx.op = "kick" /\ lot[p] = "leftover" => Excused(tx.why))
  BY <1>1, <1>3, TxFacts
<1>5. /\ DOMAIN mined = DOMAIN txs /\ \A u \in DOMAIN txs : u # t => mined[u] = txs[u]
      /\ mined[t] = [tx EXCEPT !.state = "ok"]
  BY <1>1, <1>2
<1>6. /\ mined[t] \in TxType /\ mined[t].op = tx.op /\ mined[t].pair = p /\ mined[t].by = tx.by
      /\ mined[t].run = tx.run /\ mined[t].why = tx.why /\ mined[t].state = "ok"
      /\ mined[t].over = tx.over /\ mined[t].round = tx.round
  BY <1>1, <1>4, <1>5 DEF TxType
<1>7. CASE T = [txs EXCEPT ![t].state = "reverted"] /\ L = lot
  <2>1. /\ T = [u \in DOMAIN txs |-> T[u]] /\ \A u \in DOMAIN txs : u # t => T[u] = txs[u]
        /\ T[t] = [tx EXCEPT !.state = "reverted"]
    BY <1>1, <1>7
  <2>2. /\ T[t] \in TxType /\ T[t].op = tx.op /\ T[t].pair = p /\ T[t].by = tx.by
        /\ T[t].run = tx.run /\ T[t].why = tx.why /\ T[t].state = "reverted"
        /\ T[t].over = tx.over /\ T[t].round = tx.round
    BY <1>1, <1>4, <2>1 DEF TxType
  <2>3. \A u \in DOMAIN txs : GoesOn(txs[u], T[u], L)
    <3> TAKE u \in DOMAIN txs
    <3>1. CASE u = t
      BY <1>1, <1>3, <1>4, <2>2, <3>1 DEF GoesOn
    <3>2. CASE u # t
      BY <1>7, <2>1, <3>2, TxFacts DEF GoesOn
    <3> QED BY <3>1, <3>2
  <2>4. TxsTrue' /\ DOMAIN T = DOMAIN txs /\ Follows(txs, T)
    BY <1>3, <1>4, <2>1, <2>3, TxsGoOn
  <2> QED BY <1>3, <1>4, <1>7, <2>4, TxFacts, ChainStep
<1>8. CASE /\ tx.op = "kick" /\ L = [lot EXCEPT ![p] = "live"]
           /\ T = [mined EXCEPT ![t].over = lot[p],
                                ![t].round = IF HasBalance(lot[p]) THEN "unclear" ELSE "open"]
  <2>1. PICK round \in {"unclear", "open"} :
          T = [mined EXCEPT ![t].over = lot[p], ![t].round = round]
    BY <1>8
  <2>2. /\ T = [u \in DOMAIN txs |-> T[u]] /\ \A u \in DOMAIN txs : u # t => T[u] = txs[u]
        /\ T[t] = [mined[t] EXCEPT !.over = lot[p], !.round = round]
    BY <1>5, <2>1
  <2>3. /\ T[t] \in TxType /\ T[t].op = tx.op /\ T[t].pair = p /\ T[t].by = tx.by
        /\ T[t].run = tx.run /\ T[t].why = tx.why /\ T[t].state = "ok"
        /\ T[t].over = lot[p] /\ T[t].round = round
    <3>1. lot[p] \in LotStates
      BY <1>4, TxFacts
    <3>2. [mined[t] EXCEPT !.over = lot[p], !.round = round] \in TxType
      BY ONLY <1>6, <2>1, <3>1 DEF TxType
    <3>3. /\ T[t].op = mined[t].op /\ T[t].pair = mined[t].pair /\ T[t].by = mined[t].by
          /\ T[t].run = mined[t].run /\ T[t].why = mined[t].why /\ T[t].state = mined[t].state
          /\ T[t].over = lot[p] /\ T[t].round = round
      BY ONLY <1>6, <2>2 DEF TxType
    <3> HIDE DEF TxType
    <3> QED BY <1>4, <1>6, <2>2, <3>2, <3>3
  <2>4. L \in [Pairs -> LotStates] /\ L[p] = "live" /\ \A q \in Pairs : q # p => L[q] = lot[q]
    BY <1>4, <1>8, TxFacts DEF LotStates
  <2>5. \A u \in DOMAIN txs : GoesOn(txs[u], T[u], L)
    <3> TAKE u \in DOMAIN txs
    <3>1. CASE u = t
      BY <1>1, <1>3, <1>4, <1>8, <2>3, <2>4, <3>1 DEF GoesOn
    <3>2. CASE u # t
      BY <2>2, <2>4, <3>2, TxFacts DEF GoesOn
    <3> QED BY <3>1, <3>2
  <2>6. TxsTrue' /\ DOMAIN T = DOMAIN txs /\ Follows(txs, T)
    BY <1>3, <1>4, <2>2, <2>5, TxsGoOn
  <2>7. \A q \in Pairs : L[q] = "leftover" => lot[q] = "leftover"
    BY <2>4
  <2> QED BY <1>3, <1>4, <2>4, <2>6, <2>7, ChainStep
<1>9. CASE T = Closed(p, mined) /\ L = [lot EXCEPT ![p] = "clean"]
  <2>1. T = [u \in DOMAIN txs |-> T[u]]
    BY <1>5, <1>9, ClosedDomain
  <2>2. L \in [Pairs -> LotStates] /\ L[p] = "clean" /\ \A q \in Pairs : q # p => L[q] = lot[q]
    BY <1>4, <1>9, TxFacts DEF LotStates
  <2>3. \A u \in DOMAIN txs : mined[u] \in TxType /\ mined[u].pair = txs[u].pair /\ mined[u].round = txs[u].round
    BY <1>1, <1>5, <1>6, TxFacts
  <2>4. \A u \in DOMAIN txs :
          /\ T[u] \in TxType
          /\ T[u].op = mined[u].op /\ T[u].pair = mined[u].pair /\ T[u].by = mined[u].by
          /\ T[u].run = mined[u].run /\ T[u].why = mined[u].why /\ T[u].state = mined[u].state
          /\ T[u].over = mined[u].over
          /\ T[u].round # "none" => txs[u].round # "none"
          /\ T[u].round \in {"open", "bought"} => txs[u].round \in {"open", "bought"} /\ txs[u].pair # p
    BY <1>4, <1>5, <1>9, <2>3, ClosedIs
  <2>5. \A u \in DOMAIN txs : GoesOn(txs[u], T[u], L)
    <3> TAKE u \in DOMAIN txs
    <3>1. CASE u = t
      BY <1>1, <1>3, <1>4, <1>6, <2>2, <2>4, <3>1 DEF GoesOn
    <3>2. CASE u # t
      BY <1>5, <2>2, <2>4, <3>2, TxFacts DEF GoesOn
    <3> QED BY <3>1, <3>2
  <2>6. TxsTrue' /\ DOMAIN T = DOMAIN txs /\ Follows(txs, T)
    BY <1>3, <1>4, <2>1, <2>5, TxsGoOn
  <2>7. \A q \in Pairs : L[q] = "leftover" => lot[q] = "leftover"
    BY <2>2
  <2> QED BY <1>3, <1>4, <2>2, <2>6, <2>7, ChainStep
<1>10. CASE /\ HasBalance(lot[p]) /\ T = mined
            /\ L = [lot EXCEPT ![p] = CASE @ = "live" -> "sold" [] @ = "leftover" -> "empty"
                                        [] @ = "donated" -> "clean"]
  <2>1. PICK left : /\ left = CASE lot[p] = "live" -> "sold" [] lot[p] = "leftover" -> "empty"
                                [] lot[p] = "donated" -> "clean"
                    /\ L = [lot EXCEPT ![p] = left]
    BY <1>10
  <2>2. /\ left \in {"sold", "empty", "clean"}
        /\ left = "clean" => lot[p] = "donated"
    BY <1>10, <2>1 DEF HasBalance
  <2>3. L \in [Pairs -> LotStates] /\ L[p] = left /\ \A q \in Pairs : q # p => L[q] = lot[q]
    BY <1>4, <2>1, <2>2, TxFacts DEF LotStates
  <2>4. T = [u \in DOMAIN txs |-> T[u]]
    BY <1>2, <1>10
  <2>5. \A u \in DOMAIN txs : GoesOn(txs[u], T[u], L)
    <3> TAKE u \in DOMAIN txs
    <3>1. CASE u = t
      BY <1>1, <1>3, <1>4, <1>6, <1>10, <3>1 DEF GoesOn
    <3>2. CASE u # t
      <4>1. T[u] = txs[u]
        BY <1>5, <1>10, <3>2
      <4>2. /\ txs[u].round \in {"open", "bought"} => L[txs[u].pair] \notin {"clean", "donated"}
            /\ L[txs[u].pair] = "leftover" => lot[txs[u].pair] = "leftover"
        BY <2>2, <2>3, TxFacts
      <4> QED BY <4>1, <4>2, TxFacts DEF GoesOn
    <3> QED BY <3>1, <3>2
  <2>6. TxsTrue' /\ DOMAIN T = DOMAIN txs /\ Follows(txs, T)
    BY <1>3, <1>4, <2>4, <2>5, TxsGoOn
  <2>7. \A q \in Pairs : L[q] = "leftover" => lot[q] = "leftover"
    BY <2>2, <2>3
  <2> QED BY <1>3, <1>4, <2>3, <2>6, <2>7, ChainStep
<1> QED BY <1>3, <1>7, <1>8, <1>9, <1>10

\* A round's window ends: what is left of the lot is unsold.  A kick at the prompt is
\* too old from now on, and one that is past it, or in the pool, is late.
LEMMA ExpireKeepsInv ==
    ASSUME RunInv, NEW p \in Pairs, Expire(p), UNCHANGED market
    PROVE  RunInv'
<1>1. PICK T, left, L :
        /\ T = [t \in DOMAIN txs |->
                  IF txs[t].state = "pool" THEN [txs[t] EXCEPT !.why = @ \union {"late"}] ELSE txs[t]]
        /\ left \in {"leftover", "empty"} /\ L = [lot EXCEPT ![p] = left]
        /\ txs' = T /\ lot' = L
  BY DEF Expire
<1>2. /\ Active(lot[p]) /\ started' = started /\ DOMAIN client' = Clients
      /\ \A c \in Clients : client[c].at \notin {"lots", "quote", "estimate"}
      /\ \A c \in Clients : client'[c] =
           IF client[c].ops = <<>> \/ AuctionOf(client[c].pair) # AuctionOf(p) THEN client[c]
           ELSE IF client[c].at = "review" THEN [client[c] EXCEPT !.aged = TRUE]
           ELSE [client[c] EXCEPT !.why = @ \union {"late"}]
  BY DEF Expire, At
<1>3. L \in [Pairs -> LotStates] /\ L[p] = left /\ \A q \in Pairs : q # p => L[q] = lot[q]
  BY <1>1, TxFacts DEF LotStates
<1>4. \A t \in DOMAIN txs :
        /\ T[t] \in TxType
        /\ T[t].op = txs[t].op /\ T[t].pair = txs[t].pair /\ T[t].by = txs[t].by
        /\ T[t].run = txs[t].run /\ T[t].state = txs[t].state /\ T[t].over = txs[t].over
        /\ T[t].round = txs[t].round /\ txs[t].why \subseteq T[t].why
        /\ T[t].state = "pool" => "late" \in T[t].why
  <2> TAKE t \in DOMAIN txs
  <2>1. txs[t] \in TxType
    BY TxFacts
  <2>2. CASE txs[t].state = "pool"
    <3>1. PICK why : why = txs[t].why \union {"late"}
      OBVIOUS
    <3>2. why \subseteq Reasons
      BY <2>1, <3>1 DEF TxType, Reasons
    <3>3. T[t] = [txs[t] EXCEPT !.why = why]
      BY <1>1, <2>2, <3>1
    <3>4. /\ T[t] \in TxType /\ T[t].why = why
          /\ T[t].op = txs[t].op /\ T[t].pair = txs[t].pair /\ T[t].by = txs[t].by
          /\ T[t].run = txs[t].run /\ T[t].state = txs[t].state /\ T[t].over = txs[t].over
          /\ T[t].round = txs[t].round
      BY <2>1, <3>2, <3>3 DEF TxType
    <3> QED BY <3>1, <3>4
  <2>3. CASE txs[t].state # "pool"
    BY <1>1, <2>1, <2>3
  <2> QED BY <2>2, <2>3
<1>5. T = [t \in DOMAIN txs |-> T[t]] /\ DOMAIN T = DOMAIN txs
  BY <1>1
<1>6. \A t \in DOMAIN txs : GoesOn(txs[t], T[t], L)
  <2> TAKE t \in DOMAIN txs
  <2>1. T[t].round \in {"open", "bought"} => L[T[t].pair] \notin {"clean", "donated"}
    BY <1>1, <1>3, <1>4, TxFacts
  <2>2. T[t].state = "pool" => Excused(T[t].why)
    BY <1>4 DEF Excused
  <2>3. T[t].over = "leftover" => Excused(T[t].why)
    BY <1>4, TxFacts DEF Excused
  <2>4. T[t].round # "none" => T[t].op = "kick" /\ T[t].state = "ok"
    BY <1>4, TxFacts
  <2> QED BY <1>4, <2>1, <2>2, <2>3, <2>4 DEF GoesOn
<1>7. Follows(txs, T)
  BY <1>4, <1>5 DEF Follows
<1>8. \A c \in Clients : Honest(c, client'[c], started, T, market, L)
  <2> TAKE c \in Clients
  <2>1. PICK r, s : r = client[c] /\ s = client'[c]
    OBVIOUS
  <2>2. /\ Honest(c, r, started, txs, market, lot) /\ WellFormed(r) /\ Fields(r)
        /\ r.at \notin {"lots", "quote", "estimate"}
    BY <1>2, <2>1, ClientFacts
  <2>3. OneByOne(c, r, T) /\ TellsTheTruth(c, r, T)
    <3>1. \A t \in DOMAIN T : T[t].by = c => t \in DOMAIN txs
      BY <1>5
    <3> QED BY <1>7, <2>2, <3>1, Steady DEF Honest
  <2>4. /\ Fields(s) /\ s.at = r.at /\ s.ops = r.ops /\ s.next = r.next /\ s.results = r.results
        /\ s.why \in {r.why, r.why \union {"late"}} /\ s.cmd = r.cmd /\ s.run = r.run /\ s.done = r.done
        /\ s.pair = r.pair /\ s.records = r.records /\ s.expected = r.expected /\ s.verdict = r.verdict
        /\ (r.aged => s.aged)
        /\ \/ r.ops = <<>> \/ AuctionOf(r.pair) # AuctionOf(p)
           \/ r.at = "review" /\ s.aged = TRUE
           \/ "late" \in s.why
    <3>1. CASE s = r /\ (r.ops = <<>> \/ AuctionOf(r.pair) # AuctionOf(p))
      BY <2>2, <3>1
    <3>2. CASE r.at = "review" /\ s = [r EXCEPT !.aged = TRUE]
      BY <2>2, <3>2 DEF Fields
    <3>3. CASE s = [r EXCEPT !.why = r.why \union {"late"}]
      BY <2>2, <3>3 DEF Fields
    <3> QED BY <1>2, <2>1, <3>1, <3>2, <3>3
  <2>5. WellFormed(s)
    <3>1. s.why \subseteq Reasons
      BY <2>2, <2>4 DEF WellFormed, Reasons
    <3> QED BY <2>2, <2>4, <3>1 DEF WellFormed, OneAction
  <2>6. OneByOne(c, s, T) /\ TellsTheTruth(c, s, T)
    BY <2>3, <2>4 DEF OneByOne, TellsTheTruth, Recorded, SentBy, Got
  <2>7. Permitted(s, market)
    BY <2>2, <2>4 DEF Honest, Permitted, Allowed
  <2>8. Covered(s, L)
    <3> SUFFICES ASSUME NEW n \in DOMAIN r.ops, r.ops[n].op = "kick", L[r.ops[n].pair] = "leftover"
                 PROVE  Excused(s.why) \/ (r.at = "review" /\ s.aged)
      BY <2>2, <2>4 DEF Covered
    <3>1. r.ops[n] \in Calls /\ AuctionOf(r.ops[n].pair) = AuctionOf(r.pair) /\ r.ops # <<>>
      BY <2>2 DEF WellFormed, OneAction
    <3>2. r.ops[n].pair \in Pairs
      BY <3>1 DEF Calls
    <3>3. CASE AuctionOf(r.pair) # AuctionOf(p)
      <4>1. lot[r.ops[n].pair] = "leftover"
        BY <1>3, <3>1, <3>2, <3>3
      <4> QED BY <2>2, <2>4, <4>1 DEF Honest, Covered, Excused
    <3>4. CASE AuctionOf(r.pair) = AuctionOf(p)
      BY <2>4, <3>1, <3>4 DEF Excused
    <3> QED BY <3>3, <3>4
  <2> QED BY <2>1, <2>2, <2>4, <2>5, <2>6, <2>7, <2>8 DEF Honest
<1> QED
  <2>1. UNCHANGED <<market, started>>
    BY <1>2
  <2>2. TxsTrue'
    BY <1>1, <1>5, <1>6, <2>1, TxsGoOn
  <2> QED BY <1>1, <1>2, <1>3, <1>8, <2>1, <2>2 DEF RunInv

----------------------------------------------------------------------------
(* The theorems.                                                           *)

LEMMA InitIsHonest ==
    ASSUME Init
    PROVE  RunInv
<1>1. started = 0 /\ txs = <<>> /\ market \in Markets /\ lot \in [Pairs -> LotStates]
      /\ DOMAIN client = Clients /\ \A c \in Clients : client[c] = Idle
  BY DEF Init, LotStates
<1>2. \A c \in Clients : Honest(c, client[c], started, txs, market, lot)
  BY <1>1, IdleIsFine
<1>3. txs \in Seq(TxType) /\ DOMAIN txs = {}
  BY <1>1
<1>4. TxsTrue
  BY <1>3 DEF TxsTrue, NoKickOverLeftovers, OneActionPerAuction, StopsWhilePending, PolicyRespected
<1> QED BY <1>1, <1>2, <1>4 DEF RunInv

LEMMA StepKeepsInv ==
    ASSUME RunInv, [Next]_vars
    PROVE  RunInv'
<1>1. CASE UNCHANGED vars
  <2>1. UNCHANGED <<market, lot, txs, client, started>>
    BY <1>1 DEF vars
  <2> QED BY <2>1 DEF RunInv, TxsTrue, NoKickOverLeftovers, OneActionPerAuction, StopsWhilePending,
                      PolicyRespected, Candidates
<1>2. ASSUME UNCHANGED market, NEW c \in Clients, Step(c)
      PROVE  RunInv'
  <2>1. CASE StartKickRun(c)
    BY <1>2, <2>1, StartKickRunKeepsInv
  <2>2. CASE PassOver(c)
    BY <1>2, <2>2, PassOverKeepsInv
  <2>3. CASE Prepare(c)
    BY <1>2, <2>3, PrepareKeepsInv
  <2>4. CASE InspectLots(c)
    BY <1>2, <2>4, InspectLotsKeepsInv
  <2>5. CASE Quote(c)
    BY <1>2, <2>5, QuoteKeepsInv
  <2>6. CASE Estimate(c)
    BY <1>2, <2>6, EstimateKeepsInv
  <2>7. CASE Decline(c)
    BY <1>2, <2>7, DeclineKeepsInv
  <2>8. CASE Accept(c)
    BY <1>2, <2>8, AcceptKeepsInv
  <2>9. CASE StartSettle(c)
    BY <1>2, <2>9, StartSettleKeepsInv
  <2>10. CASE StartSweep(c)
    BY <1>2, <2>10, StartSweepKeepsInv
  <2>11. CASE CheckOutbox(c)
    BY <1>2, <2>11, CheckOutboxKeepsInv
  <2>12. CASE BaseFeeCapSkip(c)
    BY <1>2, <2>12, BaseFeeCapSkipKeepsInv
  <2>13. CASE Send(c)
    BY <1>2, <2>13, SendKeepsInv
  <2>14. CASE Report(c)
    BY <1>2, <2>14, ReportKeepsInv
  <2>15. CASE Await(c)
    BY <1>2, <2>15, AwaitKeepsInv
  <2>16. CASE Raise(c)
    BY <1>2, <2>16, RaiseKeepsInv
  <2>17. CASE Finish(c)
    BY <1>2, <2>17, FinishKeepsInv
  <2>18. CASE Quit(c)
    BY <1>2, <2>18, QuitKeepsInv
  <2> QED BY <1>2, <2>1, <2>2, <2>3, <2>4, <2>5, <2>6, <2>7, <2>8, <2>9, <2>10, <2>11, <2>12, <2>13,
             <2>14, <2>15, <2>16, <2>17, <2>18 DEF Step
<1>3. CASE UNCHANGED market /\ \E t \in DOMAIN txs : Mine(t)
  BY <1>3, MineKeepsInv
<1>4. CASE UNCHANGED market /\ \E p \in Pairs : Buy(p)
  BY <1>4, BuyKeepsInv
<1>5. CASE UNCHANGED market /\ \E p \in Pairs : Expire(p)
  BY <1>5, ExpireKeepsInv
<1>6. CASE UNCHANGED market /\ \E p \in Pairs : ResolveElsewhere(p)
  BY <1>6, ResolveElsewhereKeepsInv
<1>7. CASE UNCHANGED market /\ \E p \in Pairs : Donate(p)
  BY <1>7, DonateKeepsInv
<1> QED BY <1>1, <1>2, <1>3, <1>4, <1>5, <1>6, <1>7 DEF Next

\* What is said above of clients, transactions and lots holds all along: at every
\* point of the client's loop (kick_cli.kick_run) and of a settle or sweep command.
THEOREM RunInvariant == Spec => []RunInv
<1>1. Init => RunInv
  BY InitIsHonest
<1>2. RunInv /\ [Next]_vars => RunInv'
  BY StepKeepsInv
<1> QED BY <1>1, <1>2, PTL DEF Spec

\* The types; a pair with an open round is never taken for clean, and a client that
\* acts is at one of its calls.
THEOREM RunTypes == Spec => []TypeOK
<1>1. RunInv => TypeOK
  <2> SUFFICES ASSUME RunInv  PROVE TypeOK
    OBVIOUS
  <2>1. lot \in [Pairs -> {"clean", "live", "sold", "leftover", "empty", "donated"}]
    BY DEF RunInv, LotStates
  <2>2. \A t \in DOMAIN txs :
          /\ txs[t].op \in {"kick", "resolve", "sweep"} /\ txs[t].pair \in Pairs
          /\ txs[t].state \in {"pool", "ok", "reverted"} /\ txs[t].why \subseteq Reasons
          /\ txs[t].round # "none" => txs[t].op = "kick" /\ txs[t].state = "ok"
    <3> TAKE t \in DOMAIN txs
    <3>1. txs[t] \in TxType /\ (txs[t].round # "none" => txs[t].op = "kick" /\ txs[t].state = "ok")
      BY TxFacts
    <3> QED BY <3>1 DEF TxType
  <2>3. \A p \in Pairs : Cardinality(OpenRounds(p)) > 0 => lot[p] # "clean"
    <3> SUFFICES ASSUME NEW p \in Pairs, Cardinality(OpenRounds(p)) > 0  PROVE lot[p] # "clean"
      OBVIOUS
    <3>1. Cardinality({}) = 0
      BY FS_EmptySet
    <3>2. PICK t : t \in OpenRounds(p)
      BY <3>1
    <3> QED BY <3>2, TxFacts DEF OpenRounds
  <2>4. \A c \in Clients : client[c].next \in 1 .. Len(client[c].ops) \union {1}
    <3> TAKE c \in Clients
    <3>1. WellFormed(client[c])
      BY DEF RunInv, Honest
    <3> QED BY <3>1 DEF WellFormed
  <2> QED BY <2>1, <2>2, <2>3, <2>4 DEF TypeOK
<1> QED BY <1>1, RunInvariant, PTL

\* A kick lands on unsold tokens only if it was late or the lots could not be read,
\* for any number of clients (inspect_auction_settlements, the age check of kick run).
THEOREM NoKickOverLeftoversHolds == Spec => []NoKickOverLeftovers
<1>1. RunInv => NoKickOverLeftovers
  BY DEF RunInv, TxsTrue
<1> QED BY <1>1, RunInvariant, PTL

\* A run acts on an auction once (terminal_auction_addresses), however long its queue.
THEOREM OneActionPerAuctionHolds == Spec => []OneActionPerAuction
<1>1. RunInv => OneActionPerAuction
  BY DEF RunInv, TxsTrue
<1> QED BY <1>1, RunInvariant, PTL

\* A client never sends over an unresolved transaction of its own
\* (flush_pending and the check of the outbox), through restarts and new commands.
THEOREM StopsWhilePendingHolds == Spec => []StopsWhilePending
<1>1. RunInv => StopsWhilePending
  BY DEF RunInv, TxsTrue
<1> QED BY <1>1, RunInvariant, PTL

\* The verdicts behind the exit codes are true (summarize_execution), however many
\* actions a run went through and wherever it was interrupted.
THEOREM VerdictsHold == Spec => []VerdictsAreTrue
<1>1. RunInv => VerdictsAreTrue
  <2> SUFFICES ASSUME RunInv, NEW c \in Clients
               PROVE  LET sent == {t \in Own(c) : txs[t].run = client[c].run} IN
                      /\ client[c].verdict = "confirmed" => sent # {} /\ \A t \in sent : txs[t].state = "ok"
                      /\ client[c].verdict = "noop" => sent = {}
    BY DEF VerdictsAreTrue
  <2>1. TellsTheTruth(c, client[c], txs)
    BY DEF RunInv, Honest
  <2>2. SentBy(c, client[c], txs) = {t \in Own(c) : txs[t].run = client[c].run}
    BY DEF SentBy, Own
  <2> QED BY <2>1, <2>2 DEF TellsTheTruth
<1> QED BY <1>1, RunInvariant, PTL

\* Policies hold for every kick that is sent (build_shortlist), for any tables.
THEOREM PoliciesHold == Spec => []PolicyRespected
<1>1. RunInv => PolicyRespected
  BY DEF RunInv, TxsTrue
<1> QED BY <1>1, RunInvariant, PTL

----------------------------------------------------------------------------
(* Rounds without a fill, in a row.                                        *)

\* A kick of p that counts, and one whose round is not over.
Counts(tx, p) == tx.op = "kick" /\ tx.pair = p /\ "override" \notin tx.why
Undecided(tx) == tx.state = "pool" \/ tx.round \in {"open", "bought"}

\* The kicks of p that count and had no fill since the last one, or may have none.
\* S is the streak of p.
May(p, T, S)    == S \union {t \in DOMAIN T : Counts(T[t], p) /\ Undecided(T[t])}
KicksOf(p, T)   == {t \in DOMAIN T : T[t].op = "kick" /\ T[t].pair = p}
KickersOf(p, T) == {T[t].by : t \in KicksOf(p, T)}
Filled(p, T)    == {t \in KicksOf(p, T) : T[t].round = "filled"}

\* A client has a kick of p in its hands that the guard has allowed.
Holds(r, p) ==
    /\ "override" \notin r.why
    /\ \/ r.at = "estimate" /\ r.pair = p
       \/ /\ r.at \in {"review", "check", "send"}
          /\ \E n \in DOMAIN r.ops : r.ops[n].op = "kick" /\ r.ops[n].pair = p
Hands(p) == {c \in Clients : Holds(client[c], p)}

\* A kick in a streak was in the pool when an older round was filled, at most one
\* of each client, and none of the client whose round that was.
StreakTrue(p, T, S) ==
    /\ \A t \in S : t \in DOMAIN T /\ Counts(T[t], p) /\ T[t].round = "unfilled"
    /\ \A t \in May(p, T, S), u \in Filled(p, T) : T[t].by = T[u].by => u < t
    /\ \A t, v \in May(p, T, S), u \in Filled(p, T) : (t < u /\ v < u /\ T[t].by = T[v].by) => t = v
Bounded(M, H, K) == M = {} \/ Cardinality(M) + Cardinality(H \intersect K) < RetryTotal + 3 * Cardinality(K)

\* What has been heard of the kicks of a client.
HeardAll(c, T) == \A t \in DOMAIN T : T[t].by = c /\ T[t].op = "kick" => T[t].known
Hears(c, r, T) ==
    /\ r.at = "send" => HeardAll(c, T)
    /\ r.at \in {"report", "wait"} /\ Len(r.ops) > 1 => HeardAll(c, T)
    /\ r.at = "report" => \A t \in DOMAIN T : (T[t].by = c /\ Latest(c, t, T)) => T[t].op = r.ops[r.next].op
OneUnheard(T) == \A t, u \in DOMAIN T : (t < u /\ T[t].by = T[u].by /\ T[t].op = "kick") => T[t].known

StreakInv ==
    /\ OneUnheard(txs) /\ \A c \in Clients : Hears(c, client[c], txs)
    /\ DOMAIN streak = Pairs
    /\ \A p \in Pairs : /\ StreakTrue(p, txs, streak[p])
                        /\ Bounded(May(p, txs, streak[p]), Hands(p), KickersOf(p, txs))

----------------------------------------------------------------------------
(* Counting.                                                               *)

\* Of a finite set of transactions no two are of the same client.
LEMMA OnePerClient ==
    ASSUME NEW B, NEW K, NEW T, IsFiniteSet(K), \A t \in B : T[t].by \in K,
           \A t, u \in B : T[t].by = T[u].by => t = u
    PROVE  IsFiniteSet(B) /\ Cardinality(B) <= Cardinality(K)
<1> DEFINE f == [t \in B |-> T[t].by]
<1>1. f \in Injection(B, K)
  BY DEF Injection, IsInjective
<1> QED BY <1>1, FS_Injection

\* Fewer kicks and fewer hands stay within the bound.
LEMMA FewerAreBounded ==
    ASSUME NEW M, NEW M2, NEW H, NEW H2, NEW K, IsFiniteSet(M), IsFiniteSet(K), M2 \subseteq M,
           H2 \intersect K \subseteq H, Bounded(M, H, K)
    PROVE  Bounded(M2, H2, K)
<1>1. IsFiniteSet(M2) /\ Cardinality(M2) <= Cardinality(M)
  BY FS_Subset
<1>2. IsFiniteSet(H \intersect K) /\ IsFiniteSet(H2 \intersect K)
  BY FS_Subset
<1>3. Cardinality(H2 \intersect K) <= Cardinality(H \intersect K)
  BY <1>2, FS_Subset
<1>4. /\ Cardinality(M) \in Nat /\ Cardinality(M2) \in Nat /\ Cardinality(H \intersect K) \in Nat
      /\ Cardinality(H2 \intersect K) \in Nat /\ Cardinality(K) \in Nat
  BY <1>1, <1>2, FS_CardinalityType
<1>5. CASE M = {}
  BY <1>5 DEF Bounded
<1>6. CASE M # {}
  BY <1>1, <1>3, <1>4, <1>6, BoundsAssumption DEF Bounded
<1> QED BY <1>5, <1>6

\* Kicks and kickers are finite.
LEMMA KicksAreFinite ==
    ASSUME RunInv, NEW T, DOMAIN T = DOMAIN txs, NEW p, NEW S, \A t \in S : t \in DOMAIN T
    PROVE  IsFiniteSet(May(p, T, S)) /\ IsFiniteSet(KickersOf(p, T)) /\ IsFiniteSet(DOMAIN T)
<1>1. IsFiniteSet(DOMAIN T)
  BY TxFacts, FS_Interval
<1>2. May(p, T, S) \subseteq DOMAIN T /\ KicksOf(p, T) \subseteq DOMAIN T
  BY DEF May, KicksOf
<1>3. IsFiniteSet(KicksOf(p, T))
  BY <1>1, <1>2, FS_Subset
<1>4. IsFiniteSet(KickersOf(p, T))
  <2> DEFINE f == [t \in KicksOf(p, T) |-> T[t].by]
  <2>1. f \in Surjection(KicksOf(p, T), KickersOf(p, T))
    BY DEF KickersOf, Surjection
  <2> QED BY <1>3, <2>1, FS_Surjection
<1> QED BY <1>1, <1>2, <1>4, FS_Subset

\* prepare_kick_action: the guard allows a kick, on what the server has heard of.
LEMMA DecisionIsBounded ==
    ASSUME RunInv, StreakInv, NEW p \in Pairs, NoFillAllows(p, FALSE), NEW H
    PROVE  Bounded(May(p, txs, streak[p]), H, KickersOf(p, txs))
<1>1. PICK M, K : M = May(p, txs, streak[p]) /\ K = KickersOf(p, txs)
  OBVIOUS
<1> DEFINE A == {t \in M : t \in Recent(p)}
           B == {t \in M : ~txs[t].known}
           E == {t \in M : \E u \in Filled(p, txs) : t < u}
<1>2. /\ StreakTrue(p, txs, streak[p]) /\ OneUnheard(txs)
      /\ \A t \in M : t \in DOMAIN txs /\ Counts(txs[t], p) /\ t \in KicksOf(p, txs)
                      /\ txs[t].round # "filled" /\ txs[t].state # "reverted"
  <2>1. StreakTrue(p, txs, streak[p]) /\ OneUnheard(txs)
    BY DEF StreakInv
  <2>2. ASSUME NEW t \in M
        PROVE  t \in DOMAIN txs /\ Counts(txs[t], p) /\ txs[t].round # "filled" /\ txs[t].state # "reverted"
    <3>1. t \in DOMAIN txs /\ Counts(txs[t], p) /\ (Undecided(txs[t]) \/ txs[t].round = "unfilled")
      BY <1>1, <2>1 DEF May, StreakTrue
    <3> QED BY <3>1, TxFacts DEF Undecided
  <2> QED BY <2>1, <2>2 DEF Counts, KicksOf
<1>3. IsFiniteSet(M) /\ IsFiniteSet(K) /\ M \subseteq DOMAIN txs /\ IsFiniteSet(DOMAIN txs)
  BY <1>1, <1>2, KicksAreFinite DEF StreakTrue
<1>4. \A t \in KicksOf(p, txs) : txs[t].by \in K
  BY <1>1 DEF KickersOf
<1>5. IsFiniteSet(A) /\ Cardinality(A) <= RetryTotal
  <2>1. Recent(p) \subseteq DOMAIN txs
    BY DEF Recent, Known
  <2>2. IsFiniteSet(Recent(p)) /\ A \subseteq Recent(p)
    BY <1>3, <2>1, FS_Subset
  <2>3. Cardinality(Recent(p)) <= RetryTotal
    BY DEF NoFillAllows
  <2>4. IsFiniteSet(A) /\ Cardinality(A) <= Cardinality(Recent(p))
    BY <2>2, FS_Subset
  <2>5. Cardinality(A) \in Nat /\ Cardinality(Recent(p)) \in Nat
    BY <2>2, <2>4, FS_CardinalityType
  <2> HIDE DEF A
  <2> QED BY <2>3, <2>4, <2>5, BoundsAssumption
<1>6. IsFiniteSet(B) /\ Cardinality(B) <= Cardinality(K)
  <2>1. \A t \in B : txs[t].by \in K
    BY <1>2, <1>4
  <2>2. \A t, u \in B : txs[t].by = txs[u].by => t = u
    <3> SUFFICES ASSUME NEW t \in B, NEW u \in B, txs[t].by = txs[u].by, t # u
                 PROVE  FALSE
      OBVIOUS
    <3>1. t \in DOMAIN txs /\ u \in DOMAIN txs /\ t \in Nat /\ u \in Nat /\ ~txs[t].known /\ ~txs[u].known
          /\ txs[t].op = "kick" /\ txs[u].op = "kick"
      BY <1>2, TxFacts DEF Counts
    <3>2. t < u \/ u < t
      BY <3>1
    <3> QED BY <1>2, <3>1, <3>2 DEF OneUnheard
  <2> HIDE DEF B
  <2> QED BY <1>3, <2>1, <2>2, OnePerClient
<1>7. IsFiniteSet(E) /\ (E = {} \/ Cardinality(E) < Cardinality(K))
  <2>1. CASE E = {}
    BY <2>1, FS_EmptySet
  <2>2. CASE E # {}
    <3> DEFINE F == Filled(p, txs)
    <3>1. F \in SUBSET Nat /\ F # {} /\ Len(txs) \in Nat /\ \A r \in F : r <= Len(txs)
      BY <2>2, TxFacts DEF Filled, KicksOf
    <3>2. \E u \in F : \A v \in F : v <= u
      <4> HIDE DEF F
      <4> QED BY <3>1, GreatestNumber
    <3>3. PICK u \in F : \A v \in F : v <= u
      BY <3>2
    <3>4. \A t \in E : t < u
      <4> TAKE t \in E
      <4>1. PICK v \in F : t < v
        OBVIOUS
      <4>2. t \in Nat /\ v \in Nat /\ u \in Nat /\ v <= u
        BY <1>2, <3>1, <3>3, <4>1, TxFacts
      <4> QED BY <4>1, <4>2
    <3>5. u \in Nat /\ txs[u].by \in K /\ \A t \in E : t \in Nat
      BY <1>2, <1>4, <3>1, TxFacts DEF Filled
    <3>6. \A t \in E : txs[t].by \in K \ {txs[u].by}
      <4> TAKE t \in E
      <4>1. txs[t].by = txs[u].by => u < t
        BY <1>1, <1>2 DEF StreakTrue
      <4> QED BY <1>2, <1>4, <3>4, <3>5, <4>1
    <3>7. \A t, v \in E : txs[t].by = txs[v].by => t = v
      BY <1>1, <1>2, <3>4 DEF StreakTrue
    <3>8. IsFiniteSet(K \ {txs[u].by}) /\ Cardinality(K \ {txs[u].by}) = Cardinality(K) - 1
      BY <1>3, <3>5, FS_RemoveElement
    <3>9. IsFiniteSet(E) /\ Cardinality(E) <= Cardinality(K \ {txs[u].by})
      <4> HIDE DEF E
      <4> QED BY <3>6, <3>7, <3>8, OnePerClient
    <3>10. Cardinality(E) \in Nat /\ Cardinality(K) \in Nat
      <4> HIDE DEF E
      <4> QED BY <1>3, <3>9, FS_CardinalityType
    <3> HIDE DEF E
    <3> QED BY <3>8, <3>9, <3>10
  <2> QED BY <2>1, <2>2
<1>8. M \subseteq A \union B \union E
  <2> SUFFICES ASSUME NEW t \in M, t \notin Recent(p), txs[t].known
               PROVE  \E u \in Filled(p, txs) : t < u
    OBVIOUS
  <2>1. t \in Known(p)
    BY <1>2 DEF Known, Counts
  <2>2. PICK u \in Known(p) : u >= t /\ txs[u].round = "filled"
    BY <2>1 DEF Recent
  <2>3. u \in Filled(p, txs) /\ u # t /\ u \in Nat /\ t \in Nat
    BY <1>2, <2>2, TxFacts DEF Known, Filled, KicksOf
  <2> QED BY <2>2, <2>3
<1> HIDE DEF A, B, E
<1>9. Cardinality(M) <= Cardinality(A) + Cardinality(B) + Cardinality(E)
  <2>1. IsFiniteSet(A \union B) /\ Cardinality(A \union B) = Cardinality(A) + Cardinality(B) - Cardinality(A \intersect B)
    BY <1>5, <1>6, FS_Union
  <2>2. /\ IsFiniteSet((A \union B) \union E)
        /\ Cardinality((A \union B) \union E) = Cardinality(A \union B) + Cardinality(E) - Cardinality((A \union B) \intersect E)
    BY <1>7, <2>1, FS_Union
  <2>3. Cardinality(M) <= Cardinality((A \union B) \union E)
    BY <1>8, <2>2, FS_Subset
  <2>4. IsFiniteSet(A \intersect B) /\ IsFiniteSet((A \union B) \intersect E)
    BY <1>5, <1>7, FS_Subset
  <2>5. /\ Cardinality(A) \in Nat /\ Cardinality(B) \in Nat /\ Cardinality(E) \in Nat /\ Cardinality(M) \in Nat
        /\ Cardinality(A \intersect B) \in Nat /\ Cardinality((A \union B) \intersect E) \in Nat
        /\ Cardinality(A \union B) \in Nat /\ Cardinality((A \union B) \union E) \in Nat
    BY <1>3, <1>5, <1>6, <1>7, <2>1, <2>2, <2>4, FS_CardinalityType
  <2> QED BY ONLY <2>1, <2>2, <2>3, <2>5
<1>10. IsFiniteSet(H \intersect K) /\ Cardinality(H \intersect K) <= Cardinality(K)
  BY <1>3, FS_Subset
<1>11. M # {} => Cardinality(K) > 0
  <2>1. M # {} => K # {}
    BY <1>2, <1>4
  <2> QED BY <1>3, <2>1, FS_EmptySet, FS_CardinalityType
<1>12. /\ Cardinality(A) \in Nat /\ Cardinality(B) \in Nat /\ Cardinality(E) \in Nat /\ Cardinality(M) \in Nat
       /\ Cardinality(K) \in Nat /\ Cardinality(H \intersect K) \in Nat /\ RetryTotal \in Nat
  BY <1>3, <1>5, <1>6, <1>7, <1>10, FS_CardinalityType, BoundsAssumption
<1>13. E = {} => Cardinality(E) = 0
  BY FS_EmptySet
<1>14. M = {} \/ Cardinality(M) + Cardinality(H \intersect K) < RetryTotal + 3 * Cardinality(K)
  BY ONLY <1>5, <1>6, <1>7, <1>9, <1>10, <1>11, <1>12, <1>13
<1> QED BY <1>1, <1>14 DEF Bounded

----------------------------------------------------------------------------
(* Steps that put no kick into anybody's hands.                            *)

\* Transactions keep what they are.
SameKicks(T, T2) ==
    /\ DOMAIN T2 = DOMAIN T
    /\ \A t \in DOMAIN T : /\ T2[t].by = T[t].by /\ T2[t].op = T[t].op /\ T2[t].pair = T[t].pair
                           /\ "override" \in T2[t].why <=> "override" \in T[t].why

LEMMA SameKickers ==
    ASSUME NEW p, NEW T, NEW T2, SameKicks(T, T2)
    PROVE  KicksOf(p, T2) = KicksOf(p, T) /\ KickersOf(p, T2) = KickersOf(p, T)
           /\ \A t \in DOMAIN T : Counts(T2[t], p) <=> Counts(T[t], p)
<1>1. KicksOf(p, T2) = KicksOf(p, T)
  BY DEF SameKicks, KicksOf
<1>2. \A t \in KicksOf(p, T) : T2[t].by = T[t].by
  BY DEF SameKicks, KicksOf
<1> QED BY <1>1, <1>2 DEF KickersOf, SameKicks, Counts

\* No round is filled.
LEMMA CalmStep ==
    ASSUME RunInv, NEW p, NEW T2, NEW S, NEW S2, NEW H, NEW H2, SameKicks(txs, T2),
           StreakTrue(p, txs, S), Bounded(May(p, txs, S), H, KickersOf(p, txs)),
           \A t \in S2 : t \in DOMAIN txs /\ Counts(txs[t], p) /\ T2[t].round = "unfilled",
           May(p, T2, S2) \subseteq May(p, txs, S), Filled(p, T2) = Filled(p, txs), H2 \subseteq H
    PROVE  StreakTrue(p, T2, S2) /\ Bounded(May(p, T2, S2), H2, KickersOf(p, T2))
<1>1. KickersOf(p, T2) = KickersOf(p, txs) /\ \A t \in DOMAIN txs : Counts(T2[t], p) <=> Counts(txs[t], p)
  BY SameKickers
<1>2. IsFiniteSet(May(p, txs, S)) /\ IsFiniteSet(KickersOf(p, txs))
  BY KicksAreFinite DEF StreakTrue
<1>3. Bounded(May(p, T2, S2), H2, KickersOf(p, T2))
  BY <1>1, <1>2, FewerAreBounded
<1>4. \A t \in May(p, T2, S2) \union Filled(p, T2) : t \in DOMAIN txs /\ T2[t].by = txs[t].by
  BY DEF SameKicks, StreakTrue, May, Filled, KicksOf
<1>5. StreakTrue(p, T2, S2)
  <2>1. \A t \in S2 : t \in DOMAIN T2 /\ Counts(T2[t], p) /\ T2[t].round = "unfilled"
    BY <1>1 DEF SameKicks
  <2>2. \A t \in May(p, T2, S2), u \in Filled(p, T2) : T2[t].by = T2[u].by => u < t
    BY <1>4 DEF StreakTrue
  <2>3. \A t, v \in May(p, T2, S2), u \in Filled(p, T2) :
          (t < u /\ v < u /\ T2[t].by = T2[v].by) => t = v
    BY <1>4 DEF StreakTrue
  <2> QED BY <2>1, <2>2, <2>3 DEF StreakTrue
<1> QED BY <1>3, <1>5

\* A round is filled: what may still have no fill is in the pool.
LEMMA FillStep ==
    ASSUME RunInv, NEW p, NEW T2, NEW S, NEW H, NEW H2, SameKicks(txs, T2),
           StreakTrue(p, txs, S), Bounded(May(p, txs, S), H, KickersOf(p, txs)),
           \A t \in DOMAIN T2 : /\ T2[t].state = "pool" => txs[t].state = "pool"
                                /\ T2[t].round \in {"open", "bought"} => T2[t].pair # p,
           TxsTrue', txs' = T2, H2 \subseteq H
    PROVE  StreakTrue(p, T2, {}) /\ Bounded(May(p, T2, {}), H2, KickersOf(p, T2))
<1>1. KickersOf(p, T2) = KickersOf(p, txs) /\ \A t \in DOMAIN txs : Counts(T2[t], p) <=> Counts(txs[t], p)
  BY SameKickers
<1>2. \A t \in May(p, T2, {}) : t \in DOMAIN txs /\ Counts(txs[t], p) /\ T2[t].state = "pool" /\ txs[t].state = "pool"
  BY <1>1 DEF May, Undecided, SameKicks, Counts
<1>3. May(p, T2, {}) \subseteq May(p, txs, S)
  BY <1>2 DEF May, Undecided
<1>4. IsFiniteSet(May(p, txs, S)) /\ IsFiniteSet(KickersOf(p, txs))
  BY KicksAreFinite DEF StreakTrue
<1>5. Bounded(May(p, T2, {}), H2, KickersOf(p, T2))
  BY <1>1, <1>3, <1>4, FewerAreBounded
<1>6. \A t, u \in DOMAIN T2 : t < u /\ T2[t].by = T2[u].by => T2[t].state # "pool"
  BY DEF TxsTrue, StopsWhilePending
<1>7. \A t \in DOMAIN T2 : t \in Nat
  BY TxFacts DEF SameKicks
<1>8. \A t \in May(p, T2, {}), u \in Filled(p, T2) :
        t \in DOMAIN T2 /\ u \in DOMAIN T2 /\ T2[t].state = "pool" /\ T2[u].state # "pool"
  <2>1. \A u \in DOMAIN T2 : T2[u].round # "none" => T2[u].state = "ok"
    BY DEF TxsTrue
  <2> QED BY <1>2, <2>1 DEF Filled, KicksOf, SameKicks
<1>9. \A t \in May(p, T2, {}), u \in Filled(p, T2) : T2[t].by = T2[u].by => u < t
  <2> TAKE t \in May(p, T2, {}), u \in Filled(p, T2)
  <2>1. t \in Nat /\ u \in Nat /\ t # u
    BY <1>7, <1>8
  <2>2. t < u \/ u < t
    BY <2>1
  <2> QED BY <1>6, <1>8, <2>2
<1>10. \A t, v \in May(p, T2, {}) : T2[t].by = T2[v].by => t = v
  <2> TAKE t, v \in May(p, T2, {})
  <2>1. t \in DOMAIN T2 /\ v \in DOMAIN T2 /\ T2[t].state = "pool" /\ T2[v].state = "pool"
    BY <1>2 DEF SameKicks
  <2>2. t < v \/ v < t \/ t = v
    BY <1>7, <2>1
  <2> QED BY <1>6, <2>1, <2>2
<1> QED BY <1>5, <1>9, <1>10 DEF StreakTrue

\* What a client has heard when others move on.
LEMMA StillHears ==
    ASSUME NEW c, NEW r, NEW T, NEW T2, SameKicks(T, T2), Hears(c, r, T),
           \A t \in DOMAIN T : T[t].by = c /\ T[t].known => T2[t].known
    PROVE  Hears(c, r, T2)
<1>1. HeardAll(c, T) => HeardAll(c, T2)
  BY DEF HeardAll, SameKicks
<1>2. \A t \in DOMAIN T : Latest(c, t, T2) <=> Latest(c, t, T)
  BY DEF Latest, SameKicks
<1> QED BY <1>1, <1>2 DEF Hears, SameKicks

\* A step of a client that sends nothing.  What it takes into its hands the guard
\* has just allowed.
LEMMA QuietStep ==
    ASSUME RunInv, StreakInv, NEW c \in Clients, NEW s, NEW T, Become(c, s), txs' = T, UNCHANGED streak,
           SameKicks(txs, T),
           \A t \in DOMAIN txs : /\ T[t].state = txs[t].state /\ T[t].round = txs[t].round
                                 /\ T[t].by # c => T[t].known = txs[t].known,
           OneUnheard(T), Hears(c, s, T),
           \A p \in Pairs : Holds(s, p) =>
               \/ Holds(client[c], p)
               \/ Bounded(May(p, txs, streak[p]), Hands(p) \union {c}, KickersOf(p, txs))
    PROVE  StreakInv'
<1>1. DOMAIN client' = Clients /\ client'[c] = s /\ \A d \in Clients : d # c => client'[d] = client[d]
  BY DEF RunInv, Become
<1>2. \A d \in Clients : Hears(d, client'[d], T)
  <2> TAKE d \in Clients
  <2>1. CASE d = c
    BY <1>1, <2>1
  <2>2. CASE d # c
    <3>1. Hears(d, client[d], txs)
      BY DEF StreakInv
    <3>2. \A t \in DOMAIN txs : txs[t].by = d /\ txs[t].known => T[t].known
      BY <2>2 DEF SameKicks
    <3> QED BY <1>1, <2>2, <3>1, <3>2, StillHears
  <2> QED BY <2>1, <2>2
<1>3. ASSUME NEW p \in Pairs
      PROVE  StreakTrue(p, T, streak[p]) /\ Bounded(May(p, T, streak[p]), Hands(p)', KickersOf(p, T))
  <2>1. PICK S, H, H2 : S = streak[p] /\ H = Hands(p) /\ H2 = Hands(p)'
    OBVIOUS
  <2>2. StreakTrue(p, txs, S) /\ Bounded(May(p, txs, S), H, KickersOf(p, txs))
    BY <2>1 DEF StreakInv
  <2>3. May(p, T, S) \subseteq May(p, txs, S) /\ Filled(p, T) = Filled(p, txs)
    <3>1. KicksOf(p, T) = KicksOf(p, txs) /\ \A t \in DOMAIN txs : Counts(T[t], p) <=> Counts(txs[t], p)
      BY SameKickers
    <3>2. \A t \in DOMAIN txs : Undecided(T[t]) <=> Undecided(txs[t])
      BY DEF Undecided
    <3>3. DOMAIN T = DOMAIN txs /\ \A t \in KicksOf(p, txs) : T[t].round = txs[t].round
      BY DEF SameKicks, KicksOf
    <3> QED BY <3>1, <3>2, <3>3 DEF May, Filled
  <2>4. \A t \in S : t \in DOMAIN txs /\ Counts(txs[t], p) /\ T[t].round = "unfilled"
    BY <2>2 DEF StreakTrue
  <2>5. H2 \subseteq H \/ (Holds(s, p) /\ ~Holds(client[c], p) /\ H2 \subseteq H \union {c})
    BY <1>1, <2>1 DEF Hands
  <2>6. CASE H2 \subseteq H
    <3>1. StreakTrue(p, T, S) /\ Bounded(May(p, T, S), H2, KickersOf(p, T))
      BY <2>2, <2>3, <2>4, <2>6, CalmStep
    <3> QED BY <2>1, <3>1
  <2>7. CASE Holds(s, p) /\ ~Holds(client[c], p) /\ H2 \subseteq H \union {c}
    <3>1. Bounded(May(p, txs, S), H \union {c}, KickersOf(p, txs))
      BY <2>1, <2>7
    <3>2. StreakTrue(p, T, S) /\ Bounded(May(p, T, S), H2, KickersOf(p, T))
      BY <2>2, <2>3, <2>4, <2>7, <3>1, CalmStep
    <3> QED BY <2>1, <3>2
  <2> QED BY <2>5, <2>6, <2>7
<1>4. DOMAIN streak = Pairs
  BY DEF StreakInv
<1> QED BY <1>2, <1>3, <1>4 DEF StreakInv

LEMMA SameTxs ==
    SameKicks(txs, txs)
BY DEF SameKicks

LEMMA ClientQuiet ==
    ASSUME RunInv, StreakInv, NEW c \in Clients, NEW s, Become(c, s), UNCHANGED <<txs, streak>>,
           Hears(c, s, txs),
           \A p \in Pairs : Holds(s, p) =>
               \/ Holds(client[c], p)
               \/ Bounded(May(p, txs, streak[p]), Hands(p) \union {c}, KickersOf(p, txs))
    PROVE  StreakInv'
<1>1. PICK T : T = txs
  OBVIOUS
<1>2. txs' = T /\ SameKicks(txs, T) /\ Hears(c, s, T) /\ OneUnheard(T)
  BY <1>1, SameTxs DEF StreakInv
<1> QED BY <1>1, <1>2, QuietStep

\* A client that has no kick in its hands, and nothing to hear of.
Unburdened(s) ==
    \/ s.at \in {"idle", "next", "lots", "quote", "finish", "done"}
    \/ s.at = "review" /\ \A n \in DOMAIN s.ops : s.ops[n].op # "kick"

LEMMA UnburdenedStep ==
    ASSUME RunInv, StreakInv, NEW c \in Clients, NEW s, Become(c, s), UNCHANGED <<txs, streak>>,
           Unburdened(s)
    PROVE  StreakInv'
<1>1. Hears(c, s, txs) /\ \A p \in Pairs : ~Holds(s, p)
  BY DEF Unburdened, Hears, Holds
<1> QED BY <1>1, ClientQuiet

----------------------------------------------------------------------------
(* The steps of clients.                                                   *)

LEMMA SkipKeepsStreak ==
    ASSUME RunInv, StreakInv, NEW c \in Clients, Skip(c), UNCHANGED <<txs, streak>>
    PROVE  StreakInv'
<1>1. PICK s : s = Onward(client[c])
  OBVIOUS
<1>2. s.at = "next" /\ Become(c, s)
  BY <1>1, ClientFacts, OnwardIs DEF Skip
<1> QED BY <1>2, UnburdenedStep DEF Unburdened

LEMMA StartKickRunKeepsStreak ==
    ASSUME RunInv, StreakInv, NEW c \in Clients, StartKickRun(c)
    PROVE  StreakInv'
<1>1. PICK mode, queue, flags, run, s :
        /\ s = [Idle EXCEPT !.at = "next", !.cmd = "kick", !.mode = mode, !.run = run,
                            !.queue = queue, !.why = flags]
        /\ Become(c, s) /\ UNCHANGED <<txs, streak>>
  BY DEF StartKickRun
<1>2. s.at = "next"
  BY <1>1, IdleFields DEF Fields
<1> QED BY <1>1, <1>2, UnburdenedStep DEF Unburdened

LEMMA PassOverKeepsStreak ==
    ASSUME RunInv, StreakInv, NEW c \in Clients, PassOver(c)
    PROVE  StreakInv'
<1>1. PICK r, queue, s : r = client[c] /\ queue = Tail(r.queue) /\ s = [r EXCEPT !.queue = queue]
  OBVIOUS
<1>2. Become(c, s) /\ r.at = "next" /\ UNCHANGED <<txs, streak>>
  BY <1>1 DEF PassOver, At
<1>3. s.at = "next"
  BY <1>1, <1>2, ClientFacts DEF Fields
<1> QED BY <1>2, <1>3, UnburdenedStep DEF Unburdened

LEMMA PrepareKeepsStreak ==
    ASSUME RunInv, StreakInv, NEW c \in Clients, Prepare(c)
    PROVE  StreakInv'
<1>1. PICK r, cand, queue, busy : r = client[c] /\ cand = Head(r.queue) /\ queue = Tail(r.queue)
                                  /\ busy = IsAnActiveAuction(AuctionIn(cand))
  OBVIOUS
<1>2. Fields(r)
  BY <1>1, ClientFacts
<1>3. PICK s : /\ \/ s = [r EXCEPT !.at = "lots", !.queue = queue, !.pair = PairOf(cand), !.busy = busy]
                  \/ s = [r EXCEPT !.queue = queue]
               /\ Become(c, s)
  BY <1>1 DEF Prepare
<1>4. r.at = "next" /\ UNCHANGED <<txs, streak>>
  BY <1>1 DEF Prepare, At
<1>5. s.at \in {"next", "lots"}
  BY <1>2, <1>3, <1>4 DEF Fields
<1> QED BY <1>3, <1>4, <1>5, UnburdenedStep DEF Unburdened

\* Lots to resolve are not kicks.
LEMMA InspectLotsKeepsStreak ==
    ASSUME RunInv, StreakInv, NEW c \in Clients, InspectLots(c)
    PROVE  StreakInv'
<1>1. PICK r : r = client[c]
  OBVIOUS
<1>2. Fields(r) /\ UNCHANGED <<txs, streak>>
  BY <1>1, ClientFacts DEF InspectLots
<1>3. ASSUME NEW S \in (SUBSET DueLots(AuctionOf(r.pair))) \ {{}},
             Become(c, Offer(r, SetToSeq({Call("resolve", p, FALSE) : p \in S})))
      PROVE  StreakInv'
  <2>1. PICK calls, s : calls = SetToSeq({Call("resolve", p, FALSE) : p \in S})
                        /\ s = [r EXCEPT !.at = "review", !.ops = calls]
    OBVIOUS
  <2>2. S \in SUBSET Pairs /\ S # {}
    BY <1>3 DEF DueLots, LotsOf
  <2>3. \A n \in DOMAIN calls : calls[n].op = "resolve"
    BY <2>1, <2>2, ResolutionsAre
  <2>4. s.at = "review" /\ s.ops = calls
    BY <1>2, <2>1 DEF Fields
  <2>5. Become(c, s)
    BY <1>3, <2>1 DEF Offer
  <2>6. Unburdened(s)
    BY <2>3, <2>4 DEF Unburdened
  <2> QED BY <1>2, <2>5, <2>6, UnburdenedStep
<1>4. CASE Skip(c)
  BY <1>2, <1>4, SkipKeepsStreak
<1>5. ASSUME NEW why, Become(c, [r EXCEPT !.at = "quote", !.why = why])
      PROVE  StreakInv'
  <2>1. PICK s : s = [r EXCEPT !.at = "quote", !.why = why]
    OBVIOUS
  <2>2. s.at = "quote"
    BY <1>2, <2>1 DEF Fields
  <2> QED BY <1>2, <1>5, <2>1, <2>2, UnburdenedStep DEF Unburdened
<1>6. CASE Become(c, [r EXCEPT !.at = "quote"])
  <2>1. [r EXCEPT !.at = "quote"] = [r EXCEPT !.at = "quote", !.why = r.why]
    BY <1>2 DEF Fields
  <2> QED BY <1>5, <1>6, <2>1
<1>7. CASE Become(c, [r EXCEPT !.at = "quote", !.why = r.why \union {"unread"}])
  BY <1>5, <1>7
<1> QED BY <1>1, <1>3, <1>4, <1>6, <1>7 DEF InspectLots

\* The guard decides (KickPlanner.plan).
LEMMA QuoteKeepsStreak ==
    ASSUME RunInv, StreakInv, NEW c \in Clients, Quote(c)
    PROVE  StreakInv'
<1>1. PICK r, kick : r = client[c] /\ kick = PrepareKick(market.view)
  OBVIOUS
<1>2. Fields(r) /\ WellFormed(r) /\ r.at = "quote" /\ UNCHANGED <<txs, streak>>
  BY <1>1, ClientFacts DEF Quote, At
<1>3. CASE NoFillAllows(r.pair, "override" \in r.why) /\ Become(c, [r EXCEPT !.at = "estimate", !.kick = kick])
  <2>1. PICK s : s = [r EXCEPT !.at = "estimate", !.kick = kick]
    OBVIOUS
  <2>2. s.at = "estimate" /\ s.pair = r.pair /\ s.why = r.why
    BY <1>2, <2>1 DEF Fields
  <2>3. ASSUME NEW p \in Pairs, Holds(s, p)
        PROVE  Bounded(May(p, txs, streak[p]), Hands(p) \union {c}, KickersOf(p, txs))
    <3>1. p = r.pair /\ "override" \notin r.why
      BY <2>2, <2>3 DEF Holds
    <3>2. NoFillAllows(p, FALSE)
      BY <1>3, <3>1 DEF NoFillAllows
    <3> QED BY <3>2, DecisionIsBounded
  <2>4. Hears(c, s, txs)
    BY <2>2 DEF Hears
  <2> QED BY <1>2, <1>3, <2>1, <2>3, <2>4, ClientQuiet
<1>4. CASE Skip(c)
  BY <1>2, <1>4, SkipKeepsStreak
<1> QED BY <1>1, <1>3, <1>4 DEF Quote, Retry

LEMMA EstimateKeepsStreak ==
    ASSUME RunInv, StreakInv, NEW c \in Clients, Estimate(c)
    PROVE  StreakInv'
<1>1. PICK r, calls : r = client[c] /\ calls = <<Call("kick", r.pair, FALSE)>>
  OBVIOUS
<1>2. Fields(r) /\ r.at = "estimate" /\ UNCHANGED <<txs, streak>>
  BY <1>1, ClientFacts DEF Estimate, At
<1>3. CASE Become(c, Offer(r, calls))
  <2>1. PICK s : s = [r EXCEPT !.at = "review", !.ops = calls]
    OBVIOUS
  <2>2. s.at = "review" /\ s.ops = calls /\ s.why = r.why /\ Become(c, s)
    BY <1>2, <1>3, <2>1 DEF Fields, Offer
  <2>3. DOMAIN calls = {1} /\ calls[1].pair = r.pair
    BY <1>1 DEF Call
  <2>4. \A p \in Pairs : Holds(s, p) => Holds(client[c], p)
    BY <1>1, <1>2, <2>2, <2>3 DEF Holds
  <2>5. Hears(c, s, txs)
    BY <2>2 DEF Hears
  <2> QED BY <1>2, <2>2, <2>4, <2>5, ClientQuiet
<1>4. CASE Skip(c)
  BY <1>2, <1>4, SkipKeepsStreak
<1> QED BY <1>1, <1>3, <1>4 DEF Estimate

LEMMA AcceptKeepsStreak ==
    ASSUME RunInv, StreakInv, NEW c \in Clients, Accept(c)
    PROVE  StreakInv'
<1>1. PICK r, s : r = client[c] /\ s = [r EXCEPT !.at = "check"]
  OBVIOUS
<1>2. Fields(r) /\ r.at = "review" /\ Become(c, s) /\ UNCHANGED <<txs, streak>>
  BY <1>1, ClientFacts DEF Accept, At
<1>3. s.at = "check" /\ s.ops = r.ops /\ s.why = r.why
  BY <1>1, <1>2 DEF Fields
<1>4. Hears(c, s, txs) /\ \A p \in Pairs : Holds(s, p) => Holds(client[c], p)
  BY <1>1, <1>2, <1>3 DEF Holds, Hears
<1> QED BY <1>2, <1>4, ClientQuiet

\* Commands that are about one action from the start do not kick.
LEMMA CommandOffers ==
    ASSUME RunInv, StreakInv, NEW c \in Clients, NEW cmd, NEW p, NEW calls,
           Become(c, Offer(Command(cmd, p), calls)), UNCHANGED <<txs, streak>>,
           \A n \in DOMAIN calls : calls[n].op # "kick"
    PROVE  StreakInv'
<1>1. PICK i, run, r, s : /\ i = Idle /\ run = started' /\ r = [i EXCEPT !.cmd = cmd, !.run = run, !.pair = p]
                          /\ s = [r EXCEPT !.at = "review", !.ops = calls]
  OBVIOUS
<1>2. Become(c, s)
  BY <1>1 DEF Offer, Command
<1>3. s.at = "review" /\ s.ops = calls
  BY <1>1, IdleFields DEF Fields
<1> QED BY <1>2, <1>3, UnburdenedStep DEF Unburdened

LEMMA StartSettleKeepsStreak ==
    ASSUME RunInv, StreakInv, NEW c \in Clients, StartSettle(c)
    PROVE  StreakInv'
<1>1. UNCHANGED <<txs, streak>>
  BY DEF StartSettle
<1>2. PICK p \in Pairs :
        \/ /\ DueLots(AuctionOf(p)) # {}
           /\ Become(c, Offer(Command("settle", p),
                              SetToSeq({Call("resolve", q, FALSE) : q \in DueLots(AuctionOf(p))})))
        \/ Become(c, Offer(Command("settle", p), Resolution(p)))
  BY DEF StartSettle
<1>3. PICK S : S = DueLots(AuctionOf(p))
  OBVIOUS
<1>4. S \in SUBSET Pairs
  BY <1>3 DEF DueLots, LotsOf
<1>5. ASSUME S # {}, Become(c, Offer(Command("settle", p), SetToSeq({Call("resolve", q, FALSE) : q \in S})))
      PROVE  StreakInv'
  <2>1. PICK calls : calls = SetToSeq({Call("resolve", q, FALSE) : q \in S})
    OBVIOUS
  <2>2. \A n \in DOMAIN calls : calls[n].op = "resolve"
    BY <1>4, <1>5, <2>1, ResolutionsAre
  <2>3. Become(c, Offer(Command("settle", p), calls))
    BY <1>5, <2>1
  <2>4. \A n \in DOMAIN calls : calls[n].op # "kick"
    BY <2>2
  <2> QED BY <1>1, <2>3, <2>4, CommandOffers
<1>6. CASE Become(c, Offer(Command("settle", p), Resolution(p)))
  <2>1. PICK calls : calls = Resolution(p)
    OBVIOUS
  <2>2. \A n \in DOMAIN calls : calls[n].op # "kick"
    BY <2>1 DEF Resolution, Call
  <2>3. Become(c, Offer(Command("settle", p), calls))
    BY <1>6, <2>1
  <2> QED BY <1>1, <2>2, <2>3, CommandOffers
<1> QED BY <1>2, <1>3, <1>5, <1>6

LEMMA StartSweepKeepsStreak ==
    ASSUME RunInv, StreakInv, NEW c \in Clients, StartSweep(c)
    PROVE  StreakInv'
<1>1. PICK p, calls : /\ p \in Pairs /\ calls = <<Call("sweep", p, FALSE)>>
                      /\ Become(c, Offer(Command("sweep", p), calls)) /\ UNCHANGED <<txs, streak>>
  BY DEF StartSweep
<1>2. \A n \in DOMAIN calls : calls[n].op # "kick"
  BY <1>1 DEF Call
<1>3. Become(c, Offer(Command("sweep", p), calls)) /\ UNCHANGED <<txs, streak>>
  BY <1>1
<1> QED BY <1>2, <1>3, CommandOffers

LEMMA EndKeepsStreak ==
    ASSUME RunInv, StreakInv, NEW c \in Clients, Raise(c) \/ Finish(c) \/ Quit(c)
    PROVE  StreakInv'
<1>1. CASE Raise(c)
  <2>1. PICK o, expected, s : o = Onward(client[c]) /\ s = [o EXCEPT !.at = "finish", !.expected = expected]
                              /\ Become(c, s) /\ UNCHANGED <<txs, streak>>
    BY <1>1 DEF Raise
  <2>2. Fields(o)
    BY <2>1, ClientFacts, OnwardIs
  <2>3. s.at = "finish"
    BY <2>1, <2>2 DEF Fields
  <2> QED BY <2>1, <2>3, UnburdenedStep DEF Unburdened
<1>2. CASE Finish(c)
  <2>1. PICK i, run, verdict, s : i = Idle /\ s = [i EXCEPT !.at = "done", !.run = run, !.verdict = verdict]
                                  /\ Become(c, s) /\ UNCHANGED <<txs, streak>>
    BY <1>2 DEF Finish
  <2>2. s.at = "done"
    BY <2>1, IdleFields DEF Fields
  <2> QED BY <2>1, <2>2, UnburdenedStep DEF Unburdened
<1>3. CASE Quit(c)
  <2>1. PICK i : i = Idle
    OBVIOUS
  <2>2. Become(c, i) /\ i.at = "idle" /\ UNCHANGED <<txs, streak>>
    BY <1>3, <2>1, IdleFields DEF Quit
  <2> QED BY <2>2, UnburdenedStep DEF Unburdened
<1> QED BY <1>1, <1>2, <1>3

\* Once its reports are delivered, everything a client has sent is known.
LEMMA AllIsHeard ==
    ASSUME RunInv, StreakInv, NEW c \in Clients, CheckOutbox(c) \/ BaseFeeCapSkip(c), NEW T, T = txs'
    PROVE  /\ SameKicks(txs, T) /\ OneUnheard(T) /\ HeardAll(c, T)
           /\ \A t \in DOMAIN txs : /\ T[t].state = txs[t].state /\ T[t].round = txs[t].round
                                    /\ T[t].by # c => T[t].known = txs[t].known
<1>0. T = [t \in DOMAIN txs |-> IF txs[t].by = c THEN [txs[t] EXCEPT !.known = TRUE] ELSE txs[t]]
  BY DEF CheckOutbox, BaseFeeCapSkip
<1>1. DOMAIN T = DOMAIN txs
  BY <1>0
<1>2. \A t \in DOMAIN txs :
        /\ T[t].by = txs[t].by /\ T[t].op = txs[t].op /\ T[t].pair = txs[t].pair /\ T[t].why = txs[t].why
        /\ T[t].state = txs[t].state /\ T[t].round = txs[t].round
        /\ IF txs[t].by = c THEN T[t].known = TRUE ELSE T[t].known = txs[t].known
  <2> TAKE t \in DOMAIN txs
  <2>1. txs[t] \in TxType
    BY TxFacts
  <2>2. CASE txs[t].by = c
    <3>1. T[t] = [txs[t] EXCEPT !.known = TRUE]
      BY <1>0, <2>2
    <3> QED BY <2>1, <2>2, <3>1 DEF TxType
  <2>3. CASE txs[t].by # c
    BY <1>0, <2>3
  <2> QED BY <2>2, <2>3
<1>3. OneUnheard(T)
  BY <1>1, <1>2 DEF StreakInv, OneUnheard
<1> QED BY <1>1, <1>2, <1>3 DEF SameKicks, HeardAll

LEMMA CheckOutboxKeepsStreak ==
    ASSUME RunInv, StreakInv, NEW c \in Clients, CheckOutbox(c)
    PROVE  StreakInv'
<1>1. PICK r, s, T : r = client[c] /\ s = [r EXCEPT !.at = "send"] /\ T = txs'
  OBVIOUS
<1>2. Fields(r) /\ r.at = "check" /\ Become(c, s) /\ UNCHANGED streak /\ txs' = T
  BY <1>1, ClientFacts DEF CheckOutbox, At
<1>4. /\ SameKicks(txs, T) /\ OneUnheard(T) /\ HeardAll(c, T)
      /\ \A t \in DOMAIN txs : /\ T[t].state = txs[t].state /\ T[t].round = txs[t].round
                               /\ T[t].by # c => T[t].known = txs[t].known
  BY <1>1, AllIsHeard
<1>5. s.at = "send" /\ s.ops = r.ops /\ s.why = r.why
  BY <1>1, <1>2 DEF Fields
<1>6. Hears(c, s, T) /\ \A p \in Pairs : Holds(s, p) => Holds(client[c], p)
  BY <1>1, <1>2, <1>4, <1>5 DEF Holds, Hears
<1> QED BY <1>2, <1>4, <1>6, QuietStep

LEMMA BaseFeeCapSkipKeepsStreak ==
    ASSUME RunInv, StreakInv, NEW c \in Clients, BaseFeeCapSkip(c)
    PROVE  StreakInv'
<1>1. PICK s, T : s = Onward(client[c]) /\ T = txs'
  OBVIOUS
<1>2. Become(c, s) /\ UNCHANGED streak /\ txs' = T
  BY <1>1 DEF BaseFeeCapSkip, Skip
<1>4. /\ SameKicks(txs, T) /\ OneUnheard(T)
      /\ \A t \in DOMAIN txs : /\ T[t].state = txs[t].state /\ T[t].round = txs[t].round
                               /\ T[t].by # c => T[t].known = txs[t].known
  BY <1>1, AllIsHeard
<1>5. s.at = "next"
  BY <1>1, ClientFacts, OnwardIs
<1>6. Hears(c, s, T) /\ \A p \in Pairs : ~Holds(s, p)
  BY <1>5 DEF Holds, Hears
<1> QED BY <1>2, <1>4, <1>6, QuietStep

\* A kick is an action of its own.
LEMMA KickIsAlone ==
    ASSUME NEW r, OneAction(r), NEW n \in DOMAIN r.ops, r.ops[n].op = "kick"
    PROVE  Len(r.ops) <= 1
<1>1. DOMAIN r.ops = 1 .. Len(r.ops) /\ Len(r.ops) \in Nat
  BY DEF OneAction
<1>2. \A k \in DOMAIN r.ops : k = n
  BY DEF OneAction
<1>3. Len(r.ops) > 1 => 1 \in DOMAIN r.ops /\ 2 \in DOMAIN r.ops
  BY <1>1
<1> QED BY <1>1, <1>2, <1>3

\* What a report may leave unheard is the client's latest.
LEMMA ReportKeepsStreak ==
    ASSUME RunInv, StreakInv, NEW c \in Clients, Report(c)
    PROVE  StreakInv'
<1>1. PICK r, s, T, last : r = client[c] /\ s = [r EXCEPT !.at = "wait"] /\ T = txs' /\ last = LastOf(c)
  OBVIOUS
<1>2. Honest(c, r, started, txs, market, lot) /\ WellFormed(r) /\ Fields(r)
  BY <1>1, ClientFacts
<1>3. PICK delivered \in BOOLEAN : T = [txs EXCEPT ![last].known = delivered]
  BY <1>1 DEF Report
<1>4. r.at = "report" /\ Become(c, s) /\ UNCHANGED streak /\ txs' = T
  BY <1>1 DEF Report, At
<1>5. last \in DOMAIN txs /\ txs[last].by = c /\ Latest(c, last, txs)
  <2>1. \E t \in DOMAIN txs : txs[t].by = c /\ Latest(c, t, txs)
    BY <1>2, <1>4 DEF Honest, OneByOne, SentBy
  <2> QED BY <1>1, <2>1, LastOfIs
<1>6. DOMAIN T = DOMAIN txs /\ \A t \in DOMAIN txs :
        /\ T[t].by = txs[t].by /\ T[t].op = txs[t].op /\ T[t].pair = txs[t].pair /\ T[t].why = txs[t].why
        /\ T[t].state = txs[t].state /\ T[t].round = txs[t].round
        /\ t # last => T[t].known = txs[t].known
  <2>1. DOMAIN T = DOMAIN txs
    BY <1>3
  <2>2. \A t \in DOMAIN txs : t # last => T[t] = txs[t]
    BY <1>3
  <2>3. txs[last] \in TxType /\ T[last] = [txs[last] EXCEPT !.known = delivered]
    BY <1>3, <1>5, TxFacts
  <2>4. /\ T[last].by = txs[last].by /\ T[last].op = txs[last].op /\ T[last].pair = txs[last].pair
        /\ T[last].why = txs[last].why /\ T[last].state = txs[last].state /\ T[last].round = txs[last].round
    BY <2>3 DEF TxType
  <2> QED BY <2>1, <2>2, <2>4
<1>7. SameKicks(txs, T)
  BY <1>6 DEF SameKicks
<1>8. s.at = "wait" /\ s.ops = r.ops
  BY <1>1, <1>2 DEF Fields
<1>9. OneUnheard(T)
  <2> SUFFICES ASSUME NEW t \in DOMAIN T, NEW u \in DOMAIN T, t < u, T[t].by = T[u].by, T[t].op = "kick"
               PROVE  T[t].known
    BY DEF OneUnheard
  <2>1. txs[t].known
    BY <1>6 DEF StreakInv, OneUnheard
  <2>2. t # last
    <3>1. t \in Nat /\ u \in Nat
      BY <1>6, TxFacts
    <3> QED BY <1>5, <1>6, <3>1 DEF Latest
  <2> QED BY <1>6, <2>1, <2>2
<1>10. Hears(c, s, T)
  <2> SUFFICES ASSUME Len(r.ops) > 1  PROVE HeardAll(c, T)
    BY <1>8 DEF Hears
  <2>1. HeardAll(c, txs) /\ txs[last].op = r.ops[r.next].op
    BY <1>1, <1>4, <1>5 DEF StreakInv, Hears
  <2>2. OneAction(r) /\ r.next \in DOMAIN r.ops /\ Len(r.ops) \in Nat
    BY <1>2, <1>4 DEF WellFormed, Acting, OneAction
  <2>3. txs[last].op # "kick"
    BY <2>1, <2>2, KickIsAlone
  <2> QED BY <1>6, <2>1, <2>3 DEF HeardAll
<1>11. \A p \in Pairs : ~Holds(s, p)
  BY <1>8 DEF Holds
<1>12. \A t \in DOMAIN txs : T[t].by # c => T[t].known = txs[t].known
  BY <1>5, <1>6
<1> QED BY <1>4, <1>6, <1>7, <1>9, <1>10, <1>11, <1>12, QuietStep

\* Only an action of several calls goes on; they are not kicks.
LEMMA AwaitKeepsStreak ==
    ASSUME RunInv, StreakInv, NEW c \in Clients, Await(c)
    PROVE  StreakInv'
<1>1. PICK r, o, last : r = client[c] /\ o = Onward(r) /\ last = LastOf(c)
  OBVIOUS
<1>2. WellFormed(r) /\ Fields(r) /\ r.at = "wait" /\ UNCHANGED <<txs, streak>>
  BY <1>1, ClientFacts DEF Await, At
<1>3. PICK state, results :
        Become(c, IF state = "ok" /\ r.next < Len(r.ops)
                  THEN [r EXCEPT !.at = "send", !.next = @ + 1, !.results = results]
                  ELSE Concluded(r, results))
  BY <1>1 DEF Await
<1>4. CASE state = "ok" /\ r.next < Len(r.ops)
  <2>1. PICK next, s : next = r.next + 1 /\ s = [r EXCEPT !.at = "send", !.next = next, !.results = results]
    OBVIOUS
  <2>2. Become(c, s)
    BY <1>3, <1>4, <2>1
  <2>3. s.at = "send" /\ s.ops = r.ops
    BY <1>2, <2>1 DEF Fields
  <2>4. r.next \in 1 .. Len(r.ops) /\ Len(r.ops) \in Nat /\ OneAction(r)
    BY <1>2 DEF WellFormed, Acting, OneAction
  <2>5. Len(r.ops) > 1
    BY <1>4, <2>4
  <2>6. HeardAll(c, txs)
    BY <1>1, <1>2, <2>5 DEF StreakInv, Hears
  <2>7. \A n \in DOMAIN r.ops : r.ops[n].op # "kick"
    <3>1. ~(Len(r.ops) <= 1)
      BY <2>4, <2>5
    <3> QED BY <2>4, <3>1, KickIsAlone
  <2>8. Hears(c, s, txs) /\ \A p \in Pairs : ~Holds(s, p)
    BY <2>3, <2>6, <2>7 DEF Hears, Holds
  <2> QED BY <1>2, <2>2, <2>8, ClientQuiet
<1>5. CASE ~(state = "ok" /\ r.next < Len(r.ops))
  <2>1. PICK records, expected, done, after, s :
          /\ after = [o EXCEPT !.records = records, !.expected = expected, !.done = done]
          /\ s \in {after, [after EXCEPT !.at = "finish"]} /\ s = Concluded(r, results)
    BY <1>1 DEF Concluded
  <2>2. Fields(o) /\ o.at = "next"
    BY <1>1, <1>2, OnwardIs
  <2>3. Fields(after) /\ after.at = "next"
    BY <2>1, <2>2 DEF Fields
  <2>4. s.at \in {"next", "finish"}
    BY <2>1, <2>3 DEF Fields
  <2>5. Become(c, s)
    BY <1>3, <1>5, <2>1
  <2> QED BY <1>2, <2>4, <2>5, UnburdenedStep DEF Unburdened
<1> QED BY <1>4, <1>5

\* A kick leaves the hands of the client and counts from now on.  Everything that the
\* client has sent before has been heard of.
LEMMA SendKeepsStreak ==
    ASSUME RunInv, StreakInv, NEW c \in Clients, Send(c)
    PROVE  StreakInv'
<1>1. PICK r, s, call, tx, N, T :
        /\ r = client[c] /\ s = [r EXCEPT !.at = "report"] /\ call = r.ops[r.next]
        /\ tx = [op |-> call.op, pair |-> call.pair, force |-> call.force, by |-> c,
                 run |-> r.run, state |-> "pool", known |-> FALSE,
                 round |-> "none", over |-> "none", why |-> r.why]
        /\ N = Len(txs) + 1 /\ T = Append(txs, tx)
  OBVIOUS
<1>2. WellFormed(r) /\ Fields(r) /\ r.at = "send" /\ Become(c, s) /\ txs' = T /\ UNCHANGED streak
  BY <1>1, ClientFacts DEF Send, At
<1>3. s.at = "report" /\ s.ops = r.ops /\ s.next = r.next
  BY <1>1, <1>2 DEF Fields
<1>4. r.next \in DOMAIN r.ops /\ OneAction(r) /\ Len(r.ops) \in Nat
  BY <1>2 DEF WellFormed, Acting, OneAction
<1>5. tx.op = call.op /\ tx.pair = call.pair /\ tx.by = c /\ tx.round = "none" /\ tx.state = "pool" /\ tx.why = r.why
  BY ONLY <1>1
<1>6. /\ N \notin DOMAIN txs /\ DOMAIN T = DOMAIN txs \union {N} /\ T[N] = tx /\ N \in Nat
      /\ \A t \in DOMAIN txs : T[t] = txs[t] /\ t \in Nat /\ t < N
  BY <1>1, TxFacts
<1>7. HeardAll(c, txs)
  BY <1>1, <1>2 DEF StreakInv, Hears
<1>8. OneUnheard(T)
  <2> SUFFICES ASSUME NEW t \in DOMAIN T, NEW u \in DOMAIN T, t < u, T[t].by = T[u].by, T[t].op = "kick"
               PROVE  T[t].known
    BY DEF OneUnheard
  <2>1. t # N
    BY <1>6
  <2>2. CASE u \in DOMAIN txs
    BY <1>6, <2>1, <2>2 DEF StreakInv, OneUnheard
  <2>3. CASE u = N
    BY <1>5, <1>6, <1>7, <2>1, <2>3 DEF HeardAll
  <2> QED BY <1>6, <2>2, <2>3
<1>9. DOMAIN client' = Clients /\ client'[c] = s /\ \A d \in Clients : d # c => client'[d] = client[d]
  BY <1>2 DEF RunInv, Become
<1>10. \A d \in Clients : Hears(d, client'[d], T)
  <2> TAKE d \in Clients
  <2>1. CASE d = c
    <3>1. Len(r.ops) > 1 => HeardAll(c, T)
      <4>1. Len(r.ops) > 1 => tx.op # "kick"
        BY <1>1, <1>4, <1>5, KickIsAlone
      <4> QED BY <1>6, <1>7, <4>1 DEF HeardAll
    <3>2. \A t \in DOMAIN T : Latest(c, t, T) => t = N
      <4>1. \A t \in DOMAIN txs : ~(N <= t)
        BY <1>6
      <4> QED BY <1>5, <1>6, <4>1 DEF Latest
    <3>3. T[N].op = r.ops[r.next].op
      BY <1>1, <1>5, <1>6
    <3>4. Hears(c, s, T)
      BY <1>3, <3>1, <3>2, <3>3 DEF Hears
    <3> QED BY <1>9, <2>1, <3>4
  <2>2. CASE d # c
    <3>1. Hears(d, client[d], txs)
      BY DEF StreakInv
    <3>2. \A t \in DOMAIN T : T[t].by = d => t \in DOMAIN txs /\ T[t] = txs[t]
      BY <1>5, <1>6, <2>2
    <3>3. HeardAll(d, txs) => HeardAll(d, T)
      BY <3>2 DEF HeardAll
    <3>4. \A t \in DOMAIN txs : Latest(d, t, T) => Latest(d, t, txs)
      BY <1>6 DEF Latest
    <3>5. Hears(d, client[d], T)
      BY <3>1, <3>2, <3>3, <3>4 DEF Hears
    <3> QED BY <1>9, <2>2, <3>5
  <2> QED BY <2>1, <2>2
<1>11. ASSUME NEW p \in Pairs
       PROVE  StreakTrue(p, T, streak[p]) /\ Bounded(May(p, T, streak[p]), Hands(p)', KickersOf(p, T))
  <2>1. PICK S, H, H2, M, M2, K, K2, F :
          /\ S = streak[p] /\ H = Hands(p) /\ H2 = Hands(p)' /\ M = May(p, txs, S) /\ M2 = May(p, T, S)
          /\ K = KickersOf(p, txs) /\ K2 = KickersOf(p, T) /\ F = Filled(p, txs)
    OBVIOUS
  <2>2. StreakTrue(p, txs, S) /\ Bounded(M, H, K)
    BY <2>1 DEF StreakInv
  <2>3. IsFiniteSet(M) /\ IsFiniteSet(K) /\ M \subseteq DOMAIN txs
    BY <2>1, <2>2, KicksAreFinite DEF StreakTrue, May
  <2>4. M2 = IF Counts(tx, p) THEN M \union {N} ELSE M
    <3>1. Undecided(tx)
      BY <1>5 DEF Undecided
    <3> QED BY <1>6, <2>1, <3>1 DEF May
  <2>5. Filled(p, T) = F /\ F \subseteq DOMAIN txs
    <3>1. tx.round # "filled"
      BY <1>5
    <3> QED BY <1>6, <2>1, <3>1 DEF Filled, KicksOf
  <2>6. K \subseteq K2 /\ K2 \subseteq K \union {c} /\ (Counts(tx, p) => c \in K2)
    <3>1. \A t \in KicksOf(p, txs) : t \in KicksOf(p, T) /\ T[t].by = txs[t].by
      BY <1>6 DEF KicksOf
    <3>2. \A t \in KicksOf(p, T) : t = N \/ (t \in KicksOf(p, txs) /\ T[t].by = txs[t].by)
      BY <1>6 DEF KicksOf
    <3>3. Counts(tx, p) => N \in KicksOf(p, T)
      BY <1>6 DEF KicksOf, Counts
    <3>4. T[N].by = c
      BY <1>5, <1>6
    <3>5. K = {txs[t].by : t \in KicksOf(p, txs)} /\ K2 = {T[t].by : t \in KicksOf(p, T)}
      BY <2>1 DEF KickersOf
    <3> QED BY <3>1, <3>2, <3>3, <3>4, <3>5
  <2>7. H2 \subseteq H /\ c \notin H2 /\ (Counts(tx, p) => c \in H)
    <3>1. ~Holds(s, p)
      BY <1>3 DEF Holds
    <3>2. Counts(tx, p) => Holds(r, p)
      BY <1>1, <1>2, <1>4, <1>5 DEF Counts, Holds
    <3>3. c \notin H2 /\ (Counts(tx, p) => c \in H)
      BY <1>1, <1>9, <2>1, <3>1, <3>2 DEF Hands
    <3>4. H2 \subseteq H
      BY <1>9, <2>1, <3>3 DEF Hands
    <3> QED BY <3>3, <3>4
  <2>8. StreakTrue(p, T, S)
    <3>1. \A t \in S : t \in DOMAIN T /\ Counts(T[t], p) /\ T[t].round = "unfilled"
      BY <1>6, <2>2 DEF StreakTrue
    <3>2. \A t \in M2 : t = N \/ (t \in M /\ t \in DOMAIN txs /\ T[t] = txs[t])
      BY <1>6, <2>3, <2>4
    <3>3. \A u \in F : u \in DOMAIN txs /\ T[u] = txs[u] /\ u < N /\ u \in Nat
      BY <1>6, <2>5
    <3>4. \A t \in M2, u \in F : T[t].by = T[u].by => u < t
      BY <2>1, <2>2, <3>2, <3>3 DEF StreakTrue
    <3>5. \A t, v \in M2, u \in F : (t < u /\ v < u /\ T[t].by = T[v].by) => t = v
      <4> TAKE t, v \in M2, u \in F
      <4>1. ~(N < u)
        BY <1>6, <3>3
      <4> QED BY <2>1, <2>2, <3>2, <3>3, <4>1 DEF StreakTrue
    <3> QED BY <2>1, <2>5, <3>1, <3>4, <3>5 DEF StreakTrue
  <2>9. /\ IsFiniteSet(K2) /\ Cardinality(K2) = IF c \in K2 /\ c \notin K THEN Cardinality(K) + 1 ELSE Cardinality(K)
    <3>1. K2 = IF c \in K2 /\ c \notin K THEN K \union {c} ELSE K
      BY <2>6
    <3> QED BY <2>3, <3>1, FS_AddElement
  <2>10. /\ IsFiniteSet(M2) /\ Cardinality(M2) = IF Counts(tx, p) THEN Cardinality(M) + 1 ELSE Cardinality(M)
    <3>1. N \notin M
      BY <1>6, <2>3
    <3> QED BY <2>3, <2>4, <3>1, FS_AddElement
  <2>11. /\ IsFiniteSet(H \intersect K) /\ IsFiniteSet(H2 \intersect K2)
         /\ Cardinality(H2 \intersect K2) <= Cardinality(H \intersect K)
         /\ (c \in H /\ c \in K) => Cardinality(H2 \intersect K2) <= Cardinality(H \intersect K) - 1
         /\ Cardinality(H \intersect K) <= Cardinality(K)
    <3>1. IsFiniteSet(H \intersect K) /\ Cardinality(H \intersect K) <= Cardinality(K)
      BY <2>3, FS_Subset
    <3>2. H2 \intersect K2 \subseteq (H \intersect K) \ {c}
      BY <2>6, <2>7
    <3>3. IsFiniteSet((H \intersect K) \ {c})
          /\ Cardinality((H \intersect K) \ {c}) = IF c \in H \intersect K THEN Cardinality(H \intersect K) - 1
                                                                          ELSE Cardinality(H \intersect K)
      BY <3>1, FS_RemoveElement
    <3>4. IsFiniteSet(H2 \intersect K2) /\ Cardinality(H2 \intersect K2) <= Cardinality((H \intersect K) \ {c})
      BY <3>2, <3>3, FS_Subset
    <3>5. Cardinality(H \intersect K) \in Nat /\ Cardinality(H2 \intersect K2) \in Nat
      BY <3>1, <3>4, FS_CardinalityType
    <3> QED BY <3>1, <3>3, <3>4, <3>5
  <2>12. /\ Cardinality(M) \in Nat /\ Cardinality(K) \in Nat /\ Cardinality(K2) \in Nat /\ Cardinality(M2) \in Nat
         /\ Cardinality(H \intersect K) \in Nat /\ Cardinality(H2 \intersect K2) \in Nat /\ RetryTotal \in Nat
         /\ (M = {} => Cardinality(M) = 0)
         /\ (c \in K => Cardinality(K) > 0)
    <3>1. c \in K => Cardinality(K) # 0
      BY <2>3, FS_EmptySet
    <3> QED BY <2>3, <2>9, <2>10, <2>11, <3>1, FS_CardinalityType, FS_EmptySet, BoundsAssumption
  <2>13. Bounded(M2, H2, K2)
    <3>1. M = {} \/ Cardinality(M) + Cardinality(H \intersect K) < RetryTotal + 3 * Cardinality(K)
      BY <2>2 DEF Bounded
    <3>2. CASE Counts(tx, p)
      <4>1. CASE c \in K
        BY <2>7, <2>9, <2>10, <2>11, <2>12, <3>1, <3>2, <4>1 DEF Bounded
      <4>2. CASE c \notin K
        BY <2>6, <2>7, <2>9, <2>10, <2>11, <2>12, <3>1, <3>2, <4>2 DEF Bounded
      <4> QED BY <4>1, <4>2
    <3>3. CASE ~Counts(tx, p)
      BY <2>4, <2>9, <2>10, <2>11, <2>12, <3>1, <3>3 DEF Bounded
    <3> QED BY <3>2, <3>3
  <2> QED BY <2>1, <2>8, <2>13
<1>12. DOMAIN streak = Pairs
  BY DEF StreakInv
<1> QED BY <1>2, <1>8, <1>10, <1>11, <1>12 DEF StreakInv

----------------------------------------------------------------------------
(* The steps of the chain.                                                 *)

\* Clients go on with what they are doing.
LEMMA ChainKeepsStreak ==
    ASSUME RunInv, StreakInv, NEW T, txs' = T, SameKicks(txs, T),
           \A t \in DOMAIN txs : T[t].known = txs[t].known,
           DOMAIN client' = Clients,
           \A c \in Clients : /\ client'[c].at = client[c].at /\ client'[c].ops = client[c].ops
                              /\ client'[c].next = client[c].next /\ client'[c].pair = client[c].pair
                              /\ "override" \in client'[c].why <=> "override" \in client[c].why,
           DOMAIN streak' = Pairs,
           \A p \in Pairs : /\ StreakTrue(p, T, streak'[p])
                            /\ Bounded(May(p, T, streak'[p]), Hands(p), KickersOf(p, T))
    PROVE  StreakInv'
<1>1. DOMAIN T = DOMAIN txs
  BY DEF SameKicks
<1>2. OneUnheard(T)
  BY <1>1 DEF StreakInv, OneUnheard, SameKicks
<1>3. \A c \in Clients : Hears(c, client'[c], T)
  <2> TAKE c \in Clients
  <2>1. Hears(c, client[c], T)
    BY StillHears DEF StreakInv
  <2> QED BY <2>1 DEF Hears
<1>4. \A p \in Pairs : Hands(p)' = Hands(p)
  BY DEF Hands, Holds
<1> QED BY <1>2, <1>3, <1>4 DEF StreakInv

\* No round of the pair is filled, nor opened again.
CalmFor(p, T) ==
    \A t \in KicksOf(p, txs) :
        /\ Undecided(T[t]) => Undecided(txs[t])
        /\ T[t].round = "filled" <=> txs[t].round = "filled"
        /\ txs[t].round = "unfilled" => T[t].round = "unfilled"

LEMMA CalmPair ==
    ASSUME RunInv, StreakInv, NEW p \in Pairs, NEW T, SameKicks(txs, T), CalmFor(p, T)
    PROVE  /\ StreakTrue(p, T, streak[p])
           /\ Bounded(May(p, T, streak[p]), Hands(p), KickersOf(p, T))
<1>1. PICK S, H : S = streak[p] /\ H = Hands(p)
  OBVIOUS
<1>2. StreakTrue(p, txs, S) /\ Bounded(May(p, txs, S), H, KickersOf(p, txs))
  BY <1>1 DEF StreakInv
<1>3. /\ KicksOf(p, T) = KicksOf(p, txs) /\ DOMAIN T = DOMAIN txs
      /\ \A t \in DOMAIN txs : Counts(T[t], p) <=> Counts(txs[t], p)
  BY SameKickers DEF SameKicks
<1>4. \A t \in DOMAIN txs : Counts(txs[t], p) => t \in KicksOf(p, txs)
  BY DEF Counts, KicksOf
<1>5. May(p, T, S) \subseteq May(p, txs, S)
  BY <1>3, <1>4 DEF May, CalmFor
<1>6. Filled(p, T) = Filled(p, txs)
  BY <1>3 DEF Filled, CalmFor
<1>7. \A t \in S : t \in DOMAIN txs /\ Counts(txs[t], p) /\ T[t].round = "unfilled"
  BY <1>2, <1>4 DEF StreakTrue, CalmFor
<1>8. StreakTrue(p, T, S) /\ Bounded(May(p, T, S), H, KickersOf(p, T))
  BY <1>2, <1>5, <1>6, <1>7, CalmStep
<1> QED BY <1>1, <1>8

\* A step that closes no round.
LEMMA CalmChain ==
    ASSUME RunInv, StreakInv, NEW T, txs' = T, SameKicks(txs, T),
           \A t \in DOMAIN txs : T[t].known = txs[t].known,
           DOMAIN client' = Clients,
           \A c \in Clients : /\ client'[c].at = client[c].at /\ client'[c].ops = client[c].ops
                              /\ client'[c].next = client[c].next /\ client'[c].pair = client[c].pair
                              /\ "override" \in client'[c].why <=> "override" \in client[c].why,
           UNCHANGED streak, \A p \in Pairs : CalmFor(p, T)
    PROVE  StreakInv'
<1>1. \A p \in Pairs : /\ StreakTrue(p, T, streak[p])
                       /\ Bounded(May(p, T, streak[p]), Hands(p), KickersOf(p, T))
  BY CalmPair
<1>2. DOMAIN streak = Pairs
  BY DEF StreakInv
<1> QED BY <1>1, <1>2, ChainKeepsStreak

\* A step that closes the rounds of a pair.  ts are the transactions before that.
LEMMA CloseKeepsStreak ==
    ASSUME RunInv, StreakInv, RunInv', NEW p \in Pairs, NEW ts, SameKicks(txs, ts),
           \A t \in DOMAIN txs : /\ ts[t] \in TxType /\ ts[t].known = txs[t].known
                                 /\ ts[t].round = txs[t].round
                                 /\ ts[t].state = "pool" => txs[t].state = "pool",
           txs' = Closed(p, ts), streak' = StreakClosed(p), UNCHANGED client
    PROVE  StreakInv'
<1>1. PICK T : T = Closed(p, ts)
  OBVIOUS
<1>2. DOMAIN T = DOMAIN txs /\ DOMAIN ts = DOMAIN txs /\ txs' = T
  BY <1>1, ClosedDomain DEF SameKicks
<1>3. \A t \in DOMAIN txs :
        /\ T[t].by = txs[t].by /\ T[t].op = txs[t].op /\ T[t].pair = txs[t].pair /\ T[t].known = txs[t].known
        /\ "override" \in T[t].why <=> "override" \in txs[t].why
        /\ T[t].state = "pool" => txs[t].state = "pool"
        /\ T[t].round = IF t \notin OpenRounds(p) THEN txs[t].round
                        ELSE IF txs[t].round = "bought" THEN "filled" ELSE "unfilled"
  <2> TAKE t \in DOMAIN txs
  <2>1. /\ ts[t] \in TxType /\ ts[t].known = txs[t].known /\ ts[t].round = txs[t].round
        /\ ts[t].state = "pool" => txs[t].state = "pool"
        /\ ts[t].by = txs[t].by /\ ts[t].op = txs[t].op /\ ts[t].pair = txs[t].pair
        /\ "override" \in ts[t].why <=> "override" \in txs[t].why
    BY DEF SameKicks
  <2>2. CASE t \notin OpenRounds(p)
    <3>1. T[t] = ts[t]
      BY <1>1, <1>2, <2>2 DEF Closed
    <3> QED BY <2>1, <2>2, <3>1
  <2>3. CASE t \in OpenRounds(p)
    <3>1. PICK round : /\ round = IF txs[t].round = "bought" THEN "filled" ELSE "unfilled"
                       /\ T[t] = [ts[t] EXCEPT !.round = round]
      BY <1>1, <1>2, <2>1, <2>3 DEF Closed
    <3>2. /\ T[t].by = ts[t].by /\ T[t].op = ts[t].op /\ T[t].pair = ts[t].pair /\ T[t].known = ts[t].known
          /\ T[t].why = ts[t].why /\ T[t].state = ts[t].state /\ T[t].round = round
      BY <2>1, <3>1 DEF TxType
    <3> QED BY <2>1, <2>3, <3>1, <3>2
  <2> QED BY <2>2, <2>3
<1>4. SameKicks(txs, T)
  BY <1>2, <1>3 DEF SameKicks
<1>5. \A t \in DOMAIN txs : Undecided(T[t]) => Undecided(txs[t]) /\ (T[t].pair = p => T[t].state = "pool")
  <2>1. \A t \in DOMAIN txs : T[t].round \in {"open", "bought"} => T[t].round = txs[t].round /\ t \notin OpenRounds(p)
    BY <1>3
  <2> QED BY <1>3, <2>1 DEF Undecided, OpenRounds
<1>6. DOMAIN streak = Pairs /\ DOMAIN streak' = Pairs /\ \A q \in Pairs : q # p => streak'[q] = streak[q]
  BY DEF StreakInv, StreakClosed
<1>7. ASSUME NEW q \in Pairs
      PROVE  /\ StreakTrue(q, T, streak'[q])
             /\ Bounded(May(q, T, streak'[q]), Hands(q), KickersOf(q, T))
  <2>1. CASE q # p
    <3>1. \A t \in KicksOf(q, txs) : t \in DOMAIN txs /\ t \notin OpenRounds(p)
      BY <2>1 DEF KicksOf, OpenRounds
    <3>2. CalmFor(q, T)
      BY <1>3, <1>5, <3>1 DEF CalmFor
    <3>3. /\ StreakTrue(q, T, streak[q])
          /\ Bounded(May(q, T, streak[q]), Hands(q), KickersOf(q, T))
      BY <1>4, <3>2, CalmPair
    <3> QED BY <1>6, <2>1, <3>3
  <2>2. CASE q = p
    <3>1. PICK S, S2, H : S = streak[p] /\ S2 = streak'[p] /\ H = Hands(p)
      OBVIOUS
    <3>2. StreakTrue(p, txs, S) /\ Bounded(May(p, txs, S), H, KickersOf(p, txs))
      BY <3>1 DEF StreakInv
    <3>3. CASE \E t \in OpenRounds(p) : txs[t].round = "bought"
      <4>1. S2 = {}
        BY <1>6, <3>1, <3>3 DEF StreakClosed
      <4>2. TxsTrue'
        BY DEF RunInv
      <4>3. \A t \in DOMAIN T : /\ T[t].state = "pool" => txs[t].state = "pool"
                                /\ T[t].round \in {"open", "bought"} => T[t].pair # p
        BY <1>2, <1>3 DEF OpenRounds
      <4>4. StreakTrue(p, T, {}) /\ Bounded(May(p, T, {}), H, KickersOf(p, T))
        BY <1>2, <1>4, <3>2, <4>2, <4>3, FillStep
      <4> QED BY <2>2, <3>1, <4>1, <4>4
    <3>4. CASE ~ \E t \in OpenRounds(p) : txs[t].round = "bought"
      <4>1. S2 = S \union {t \in OpenRounds(p) : "override" \notin txs[t].why}
        BY <1>6, <3>1, <3>4 DEF StreakClosed
      <4>2. \A t \in OpenRounds(p) : t \in DOMAIN txs /\ txs[t].pair = p /\ txs[t].op = "kick"
                                     /\ T[t].round = "unfilled" /\ Undecided(txs[t]) /\ txs[t].round # "filled"
        BY <1>3, <3>4, TxFacts DEF OpenRounds, Undecided
      <4>3. \A t \in S2 : t \in DOMAIN txs /\ Counts(txs[t], p) /\ T[t].round = "unfilled"
        <5>1. \A t \in S : t \in DOMAIN txs /\ Counts(txs[t], p) /\ T[t].round = "unfilled"
          BY <1>3, <3>2 DEF StreakTrue
        <5> QED BY <4>1, <4>2, <5>1 DEF Counts
      <4>4. May(p, T, S2) \subseteq May(p, txs, S)
        <5>1. \A t \in DOMAIN txs : Counts(T[t], p) <=> Counts(txs[t], p)
          BY <1>4, SameKickers
        <5>2. \A t \in S2 : t \in S \/ (t \in DOMAIN txs /\ Counts(txs[t], p) /\ Undecided(txs[t]))
          BY <4>1, <4>2, <4>3
        <5> QED BY <1>2, <1>5, <5>1, <5>2 DEF May
      <4>5. Filled(p, T) = Filled(p, txs)
        <5>1. KicksOf(p, T) = KicksOf(p, txs)
          BY <1>4, SameKickers
        <5>2. \A t \in KicksOf(p, txs) : T[t].round = "filled" <=> txs[t].round = "filled"
          BY <1>3, <4>2 DEF KicksOf
        <5> QED BY <5>1, <5>2 DEF Filled
      <4>6. StreakTrue(p, T, S2) /\ Bounded(May(p, T, S2), H, KickersOf(p, T))
        BY <1>4, <3>2, <4>3, <4>4, <4>5, CalmStep
      <4> QED BY <2>2, <3>1, <4>6
    <3> QED BY <3>3, <3>4
  <2> QED BY <2>1, <2>2
<1>8. DOMAIN client = Clients
  BY DEF RunInv
<1> QED BY <1>2, <1>3, <1>4, <1>6, <1>7, <1>8, ChainKeepsStreak

LEMMA ResolveElsewhereKeepsStreak ==
    ASSUME RunInv, StreakInv, RunInv', NEW p \in Pairs, ResolveElsewhere(p)
    PROVE  StreakInv'
<1>1. PICK ts : ts = txs
  OBVIOUS
<1>2. txs' = Closed(p, ts) /\ streak' = StreakClosed(p) /\ UNCHANGED client
  BY <1>1 DEF ResolveElsewhere
<1>3. SameKicks(txs, ts) /\ \A t \in DOMAIN txs : ts[t] \in TxType
  BY <1>1, SameTxs, TxFacts
<1> QED BY <1>1, <1>2, <1>3, CloseKeepsStreak

LEMMA DonateKeepsStreak ==
    ASSUME RunInv, StreakInv, NEW p \in Pairs, Donate(p)
    PROVE  StreakInv'
<1>1. PICK T : T = txs
  OBVIOUS
<1>2. txs' = T /\ UNCHANGED <<client, streak>> /\ DOMAIN client = Clients
  BY <1>1 DEF Donate, RunInv
<1>3. SameKicks(txs, T) /\ \A q \in Pairs : CalmFor(q, T)
  BY <1>1, SameTxs DEF CalmFor
<1> QED BY <1>1, <1>2, <1>3, CalmChain

LEMMA BuyKeepsStreak ==
    ASSUME RunInv, StreakInv, NEW p \in Pairs, Buy(p)
    PROVE  StreakInv'
<1>1. PICK T : T = [t \in DOMAIN txs |-> IF t \in OpenRounds(p) THEN [txs[t] EXCEPT !.round = "bought"] ELSE txs[t]]
  OBVIOUS
<1>2. txs' = T /\ UNCHANGED <<client, streak>> /\ DOMAIN client = Clients /\ DOMAIN T = DOMAIN txs
  BY <1>1 DEF Buy, RunInv
<1>3. \A t \in DOMAIN txs :
        /\ T[t].op = txs[t].op /\ T[t].pair = txs[t].pair /\ T[t].by = txs[t].by /\ T[t].why = txs[t].why
        /\ T[t].state = txs[t].state /\ T[t].known = txs[t].known
        /\ \/ T[t].round = txs[t].round
           \/ T[t].round = "bought" /\ txs[t].round \in {"open", "bought"}
  <2> TAKE t \in DOMAIN txs
  <2>1. txs[t] \in TxType
    BY TxFacts
  <2>2. CASE t \in OpenRounds(p)
    <3>1. T[t] = [txs[t] EXCEPT !.round = "bought"] /\ txs[t].round \in {"open", "bought"}
      BY <1>1, <2>2 DEF OpenRounds
    <3> QED BY <2>1, <3>1 DEF TxType
  <2>3. CASE t \notin OpenRounds(p)
    BY <1>1, <2>3
  <2> QED BY <2>2, <2>3
<1>4. SameKicks(txs, T)
  BY <1>2, <1>3 DEF SameKicks
<1>5. \A q \in Pairs : CalmFor(q, T)
  BY <1>3 DEF CalmFor, Undecided, KicksOf
<1> QED BY <1>2, <1>3, <1>4, <1>5, CalmChain

LEMMA ExpireKeepsStreak ==
    ASSUME RunInv, StreakInv, NEW p \in Pairs, Expire(p)
    PROVE  StreakInv'
<1>1. PICK T : T = [t \in DOMAIN txs |->
                      IF txs[t].state = "pool" THEN [txs[t] EXCEPT !.why = @ \union {"late"}] ELSE txs[t]]
  OBVIOUS
<1>2. /\ txs' = T /\ UNCHANGED streak /\ DOMAIN client' = Clients /\ DOMAIN T = DOMAIN txs
      /\ \A c \in Clients : client'[c] =
           IF client[c].ops = <<>> \/ AuctionOf(client[c].pair) # AuctionOf(p) THEN client[c]
           ELSE IF client[c].at = "review" THEN [client[c] EXCEPT !.aged = TRUE]
           ELSE [client[c] EXCEPT !.why = @ \union {"late"}]
  BY <1>1 DEF Expire, At
<1>3. \A t \in DOMAIN txs :
        /\ T[t].op = txs[t].op /\ T[t].pair = txs[t].pair /\ T[t].by = txs[t].by
        /\ T[t].state = txs[t].state /\ T[t].known = txs[t].known /\ T[t].round = txs[t].round
        /\ "override" \in T[t].why <=> "override" \in txs[t].why
  <2> TAKE t \in DOMAIN txs
  <2>1. txs[t] \in TxType
    BY TxFacts
  <2>2. CASE txs[t].state = "pool"
    <3>1. PICK why : why = txs[t].why \union {"late"}
      OBVIOUS
    <3>2. T[t] = [txs[t] EXCEPT !.why = why]
      BY <1>1, <2>2, <3>1
    <3>3. /\ T[t].op = txs[t].op /\ T[t].pair = txs[t].pair /\ T[t].by = txs[t].by
          /\ T[t].state = txs[t].state /\ T[t].known = txs[t].known /\ T[t].round = txs[t].round
          /\ T[t].why = why
      BY <2>1, <3>2 DEF TxType
    <3> QED BY <3>1, <3>3
  <2>3. CASE txs[t].state # "pool"
    BY <1>1, <2>3
  <2> QED BY <2>2, <2>3
<1>4. \A c \in Clients : /\ client'[c].at = client[c].at /\ client'[c].ops = client[c].ops
                         /\ client'[c].next = client[c].next /\ client'[c].pair = client[c].pair
                         /\ "override" \in client'[c].why <=> "override" \in client[c].why
  <2> TAKE c \in Clients
  <2>1. PICK r, s : r = client[c] /\ s = client'[c]
    OBVIOUS
  <2>2. Fields(r)
    BY <2>1, ClientFacts
  <2>3. CASE s = r
    BY <2>1, <2>3
  <2>4. CASE s = [r EXCEPT !.aged = TRUE]
    BY <2>1, <2>2, <2>4 DEF Fields
  <2>5. CASE s = [r EXCEPT !.why = r.why \union {"late"}]
    <3>1. s.at = r.at /\ s.ops = r.ops /\ s.next = r.next /\ s.pair = r.pair /\ s.why = r.why \union {"late"}
      BY <2>2, <2>5 DEF Fields
    <3> QED BY <2>1, <3>1
  <2> QED BY <1>2, <2>1, <2>3, <2>4, <2>5
<1>5. SameKicks(txs, T)
  BY <1>2, <1>3 DEF SameKicks
<1>6. \A q \in Pairs : CalmFor(q, T)
  BY <1>3 DEF CalmFor, Undecided, KicksOf
<1>7. \A t \in DOMAIN txs : T[t].known = txs[t].known
  BY <1>3
<1> QED BY <1>2, <1>4, <1>5, <1>6, <1>7, CalmChain

LEMMA MineKeepsStreak ==
    ASSUME RunInv, StreakInv, RunInv', NEW t \in DOMAIN txs, Mine(t)
    PROVE  StreakInv'
<1>1. PICK tx, p, T, mined : tx = txs[t] /\ p = tx.pair /\ T = txs' /\ mined = [txs EXCEPT ![t].state = "ok"]
  OBVIOUS
<1>2. /\ tx.state = "pool" /\ UNCHANGED client /\ DOMAIN client = Clients
      /\ \/ T = [txs EXCEPT ![t].state = "reverted"] /\ UNCHANGED streak
         \/ /\ T = [mined EXCEPT ![t].over = lot[p],
                                 ![t].round = IF HasBalance(lot[p]) THEN "unclear" ELSE "open"]
            /\ UNCHANGED streak
         \/ T = Closed(p, mined) /\ streak' = StreakClosed(p)
         \/ T = mined /\ UNCHANGED streak
  BY <1>1 DEF Mine, RunInv
<1>3. tx \in TxType /\ p \in Pairs /\ txs' = T /\ tx.round = "none"
  BY <1>1, <1>2, TxFacts
<1>4. /\ DOMAIN mined = DOMAIN txs /\ \A u \in DOMAIN txs : u # t => mined[u] = txs[u]
      /\ mined[t] = [tx EXCEPT !.state = "ok"]
  BY <1>1
<1>5. /\ mined[t] \in TxType /\ mined[t].op = tx.op /\ mined[t].pair = p /\ mined[t].by = tx.by
      /\ mined[t].why = tx.why /\ mined[t].state = "ok" /\ mined[t].known = tx.known
      /\ mined[t].round = tx.round
  BY <1>1, <1>3, <1>4 DEF TxType
<1>6. ASSUME UNCHANGED streak, DOMAIN T = DOMAIN txs, \A u \in DOMAIN txs : u # t => T[u] = txs[u],
             T[t].op = tx.op, T[t].pair = p, T[t].by = tx.by, T[t].why = tx.why, T[t].known = tx.known,
             T[t].round # "filled"
      PROVE  StreakInv'
  <2>1. SameKicks(txs, T) /\ \A u \in DOMAIN txs : T[u].known = txs[u].known
    BY <1>1, <1>6 DEF SameKicks
  <2>2. \A q \in Pairs : CalmFor(q, T)
    <3> SUFFICES ASSUME NEW u \in DOMAIN txs
                 PROVE  /\ Undecided(T[u]) => Undecided(txs[u])
                        /\ T[u].round = "filled" <=> txs[u].round = "filled"
                        /\ txs[u].round = "unfilled" => T[u].round = "unfilled"
      BY DEF CalmFor, KicksOf
    <3>1. CASE u = t
      BY <1>1, <1>2, <1>3, <1>6, <3>1 DEF Undecided
    <3>2. CASE u # t
      BY <1>6, <3>2
    <3> QED BY <3>1, <3>2
  <2> QED BY <1>2, <1>3, <1>6, <2>1, <2>2, CalmChain
<1>7. CASE T = [txs EXCEPT ![t].state = "reverted"] /\ UNCHANGED streak
  <2>1. /\ DOMAIN T = DOMAIN txs /\ \A u \in DOMAIN txs : u # t => T[u] = txs[u]
        /\ T[t] = [tx EXCEPT !.state = "reverted"]
    BY <1>1, <1>7
  <2>2. /\ T[t].op = tx.op /\ T[t].pair = p /\ T[t].by = tx.by /\ T[t].why = tx.why /\ T[t].known = tx.known
        /\ T[t].round = tx.round
    BY <1>1, <1>3, <2>1 DEF TxType
  <2> QED BY <1>3, <1>6, <1>7, <2>1, <2>2
<1>8. CASE /\ T = [mined EXCEPT ![t].over = lot[p],
                                ![t].round = IF HasBalance(lot[p]) THEN "unclear" ELSE "open"]
           /\ UNCHANGED streak
  <2>1. PICK over, round : /\ T = [mined EXCEPT ![t] = [mined[t] EXCEPT !.over = over, !.round = round]]
                           /\ round \in {"unclear", "open"}
    <3>1. PICK over, round : over = lot[p] /\ round = IF HasBalance(lot[p]) THEN "unclear" ELSE "open"
      OBVIOUS
    <3>2. T = [mined EXCEPT ![t].over = over, ![t].round = round] /\ round \in {"unclear", "open"}
      BY <1>8, <3>1
    <3> QED BY <1>4, <3>2
  <2>2. PICK new : new = [mined[t] EXCEPT !.over = over, !.round = round]
    OBVIOUS
  <2>3. /\ DOMAIN T = DOMAIN txs /\ T[t] = new /\ \A u \in DOMAIN txs : u # t => T[u] = txs[u]
    BY <1>4, <2>1, <2>2
  <2>4. /\ new.op = tx.op /\ new.pair = p /\ new.by = tx.by /\ new.why = tx.why /\ new.known = tx.known
        /\ new.round = round
    BY <1>5, <2>2 DEF TxType
  <2>5. round # "filled"
    BY <2>1
  <2> QED BY <1>6, <1>8, <2>3, <2>4, <2>5
<1>9. CASE T = Closed(p, mined) /\ streak' = StreakClosed(p)
  <2>1. SameKicks(txs, mined)
    BY <1>1, <1>4, <1>5 DEF SameKicks
  <2>2. \A u \in DOMAIN txs : /\ mined[u] \in TxType /\ mined[u].known = txs[u].known
                              /\ mined[u].round = txs[u].round
                              /\ mined[u].state = "pool" => txs[u].state = "pool"
    BY <1>1, <1>4, <1>5, TxFacts
  <2>3. txs' = Closed(p, mined)
    BY <1>3, <1>9
  <2> QED BY <1>2, <1>3, <1>9, <2>1, <2>2, <2>3, CloseKeepsStreak
<1>10. CASE T = mined /\ UNCHANGED streak
  BY <1>3, <1>4, <1>5, <1>6, <1>10
<1> QED BY <1>2, <1>7, <1>8, <1>9, <1>10

----------------------------------------------------------------------------
(* The bound holds all along.                                              *)

LEMMA InitIsBounded ==
    ASSUME Init
    PROVE  StreakInv
<1>1. txs = <<>> /\ DOMAIN txs = {} /\ streak = [p \in Pairs |-> {}] /\ \A c \in Clients : client[c] = Idle
  BY DEF Init
<1>2. OneUnheard(txs) /\ \A c \in Clients : Hears(c, client[c], txs)
  BY <1>1, IdleFields DEF OneUnheard, Hears
<1>3. \A p \in Pairs : streak[p] = {} /\ May(p, txs, streak[p]) = {}
  BY <1>1 DEF May
<1>4. \A p \in Pairs : /\ StreakTrue(p, txs, streak[p])
                       /\ Bounded(May(p, txs, streak[p]), Hands(p), KickersOf(p, txs))
  BY <1>3 DEF StreakTrue, Bounded
<1> QED BY <1>1, <1>2, <1>4 DEF StreakInv

LEMMA StepKeepsStreak ==
    ASSUME RunInv, StreakInv, RunInv', [Next]_vars
    PROVE  StreakInv'
<1>1. CASE UNCHANGED vars
  <2>1. UNCHANGED <<txs, client, streak>>
    BY <1>1 DEF vars
  <2> QED BY <2>1 DEF StreakInv, Hands
<1>2. ASSUME NEW c \in Clients, Step(c)
      PROVE  StreakInv'
  <2>1. CASE StartKickRun(c)
    BY <2>1, StartKickRunKeepsStreak
  <2>2. CASE PassOver(c)
    BY <2>2, PassOverKeepsStreak
  <2>3. CASE Prepare(c)
    BY <2>3, PrepareKeepsStreak
  <2>4. CASE InspectLots(c)
    BY <2>4, InspectLotsKeepsStreak
  <2>5. CASE Quote(c)
    BY <2>5, QuoteKeepsStreak
  <2>6. CASE Estimate(c)
    BY <2>6, EstimateKeepsStreak
  <2>7. CASE Decline(c)
    BY <2>7, SkipKeepsStreak DEF Decline
  <2>8. CASE Accept(c)
    BY <2>8, AcceptKeepsStreak
  <2>9. CASE StartSettle(c)
    BY <2>9, StartSettleKeepsStreak
  <2>10. CASE StartSweep(c)
    BY <2>10, StartSweepKeepsStreak
  <2>11. CASE CheckOutbox(c)
    BY <2>11, CheckOutboxKeepsStreak
  <2>12. CASE BaseFeeCapSkip(c)
    BY <2>12, BaseFeeCapSkipKeepsStreak
  <2>13. CASE Send(c)
    BY <2>13, SendKeepsStreak
  <2>14. CASE Report(c)
    BY <2>14, ReportKeepsStreak
  <2>15. CASE Await(c)
    BY <2>15, AwaitKeepsStreak
  <2>16. CASE Raise(c) \/ Finish(c) \/ Quit(c)
    BY <2>16, EndKeepsStreak
  <2> QED BY <1>2, <2>1, <2>2, <2>3, <2>4, <2>5, <2>6, <2>7, <2>8, <2>9, <2>10, <2>11, <2>12, <2>13,
             <2>14, <2>15, <2>16 DEF Step
<1>3. CASE \E t \in DOMAIN txs : Mine(t)
  BY <1>3, MineKeepsStreak
<1>4. CASE \E p \in Pairs : Buy(p)
  BY <1>4, BuyKeepsStreak
<1>5. CASE \E p \in Pairs : Expire(p)
  BY <1>5, ExpireKeepsStreak
<1>6. CASE \E p \in Pairs : ResolveElsewhere(p)
  BY <1>6, ResolveElsewhereKeepsStreak
<1>7. CASE \E p \in Pairs : Donate(p)
  BY <1>7, DonateKeepsStreak
<1> QED BY <1>1, <1>2, <1>3, <1>4, <1>5, <1>6, <1>7 DEF Next

\* Rounds without a fill in a row: the guard (KickPlanner.plan, no_fill_policy) and
\* what is unreported, at a prompt or left over from before a fill bound them, for
\* any number of clients and kicks.
THEOREM StreaksAreBounded == Spec => []StreakBounded
<1>1. Init => RunInv /\ StreakInv
  BY InitIsHonest, InitIsBounded
<1>2. (RunInv /\ StreakInv) /\ [Next]_vars => (RunInv /\ StreakInv)'
  BY StepKeepsInv, StepKeepsStreak
<1>3. RunInv /\ StreakInv => StreakBounded
  <2> SUFFICES ASSUME RunInv, StreakInv, NEW p \in Pairs, streak[p] # {}
               PROVE  Cardinality(streak[p]) < RetryTotal + 3 * Cardinality(Kickers(p))
    BY DEF StreakBounded
  <2>1. PICK S, M, H, K : S = streak[p] /\ M = May(p, txs, S) /\ H = Hands(p) /\ K = KickersOf(p, txs)
    OBVIOUS
  <2>2. StreakTrue(p, txs, S) /\ Bounded(M, H, K)
    BY <2>1 DEF StreakInv
  <2>3. IsFiniteSet(M) /\ IsFiniteSet(K) /\ S \subseteq M
    <3>1. \A t \in S : t \in DOMAIN txs
      BY <2>2 DEF StreakTrue
    <3>2. IsFiniteSet(M) /\ IsFiniteSet(K)
      BY <2>1, <3>1, KicksAreFinite
    <3> QED BY <2>1, <3>2 DEF May
  <2>4. IsFiniteSet(S) /\ Cardinality(S) <= Cardinality(M) /\ IsFiniteSet(H \intersect K)
    BY <2>3, FS_Subset
  <2>5. /\ Cardinality(S) \in Nat /\ Cardinality(M) \in Nat /\ Cardinality(H \intersect K) \in Nat
        /\ Cardinality(K) \in Nat /\ RetryTotal \in Nat
    BY <2>3, <2>4, FS_CardinalityType, BoundsAssumption
  <2>6. Cardinality(M) + Cardinality(H \intersect K) < RetryTotal + 3 * Cardinality(K)
    BY <2>1, <2>2, <2>3 DEF Bounded
  <2>7. Cardinality(S) < RetryTotal + 3 * Cardinality(K)
    BY ONLY <2>4, <2>5, <2>6
  <2>8. Kickers(p) = K
    BY <2>1 DEF Kickers, KickersOf, KicksOf
  <2> QED BY <2>1, <2>7, <2>8
<1> QED BY <1>1, <1>2, <1>3, PTL DEF Spec

----------------------------------------------------------------------------
(* The opening ask: how much the encoding and the rounding can lose.       *)

LEMMA Division ==
    ASSUME NEW n \in Nat, NEW d \in Nat \ {0}
    PROVE  n \div d \in Nat /\ d * (n \div d) <= n /\ n < d * (n \div d) + d
OBVIOUS

LEMMA ProductsGrow ==
    ASSUME NEW a \in Int, NEW b \in Int, NEW k \in Nat, a <= b
    PROVE  k * a <= k * b /\ k * a \in Int /\ k * b \in Int
OBVIOUS

LEMMA ProductsShrink ==
    ASSUME NEW a \in Int, NEW b \in Int, NEW k \in Nat \ {0}, k * a <= k * b
    PROVE  a <= b
OBVIOUS

LEMMA CeilDivCovers ==
    ASSUME NEW n \in Nat, NEW d \in Nat \ {0}
    PROVE  CeilDiv(n, d) \in Nat /\ n <= d * CeilDiv(n, d)
<1>1. n + d - 1 \in Nat
  OBVIOUS
<1>2. PICK q : q = (n + d - 1) \div d
  OBVIOUS
<1>3. q \in Nat /\ n + d - 1 < d * q + d
  BY <1>1, <1>2, Division
<1>4. d * q \in Nat
  BY <1>3
<1> QED BY <1>2, <1>3, <1>4 DEF CeilDiv

\* Nothing is lost before the first step of the price.
LEMMA NoDecayYet ==
    ASSUME NEW x \in Nat, NEW p \in Nat, Ray \in Nat \ {0}
    PROVE  RMul(p, RPow(x, 0)) = p
<1>1. 0 .. 0 = {0}
  OBVIOUS
<1> DEFINE bits == CHOOSE b \in 0 .. 0 : 2^b > 0 /\ (b = 0 \/ 2^(b - 1) <= 0)
<1>2. bits = 0
  <2>1. 2^0 > 0
    BY SMT
  <2>2. \E b \in 0 .. 0 : 2^b > 0 /\ (b = 0 \/ 2^(b - 1) <= 0)
    BY <1>1, <2>1
  <2>3. bits \in 0 .. 0
    BY <2>2
  <2> QED BY <1>1, <2>3
<1>3. RPow(x, 0) = Ray
  <2> DEFINE square[b \in 0 .. bits] == IF b = 0 THEN x ELSE RMul(square[b - 1], square[b - 1])
             product[b \in 0 .. bits] ==
               IF b = 0 THEN Ray
               ELSE IF (0 \div 2^(b - 1)) % 2 = 0 THEN product[b - 1]
               ELSE IF b = 1 THEN x ELSE RMul(product[b - 1], square[b - 1])
  <2> HIDE DEF bits
  <2>1. [b \in 0 .. bits |-> Ray] = [b \in 0 .. bits |->
               IF b = 0 THEN Ray
               ELSE IF (0 \div 2^(b - 1)) % 2 = 0 THEN [k \in 0 .. bits |-> Ray][b - 1]
               ELSE IF b = 1 THEN x ELSE RMul([k \in 0 .. bits |-> Ray][b - 1], square[b - 1])]
    <3> HIDE DEF square
    <3> QED BY <1>1, <1>2
  <2>2. product = [b \in 0 .. bits |->
               IF b = 0 THEN Ray
               ELSE IF (0 \div 2^(b - 1)) % 2 = 0 THEN product[b - 1]
               ELSE IF b = 1 THEN x ELSE RMul(product[b - 1], square[b - 1])]
    <3> HIDE DEF square
    <3> QED BY <2>1
  <2>3. product[0] = Ray
    <3> HIDE DEF square, product
    <3> QED BY <1>1, <1>2, <2>2
  <2>4. RPow(x, 0) = product[bits]
    BY DEF RPow, bits
  <2> HIDE DEF product
  <2> QED BY <1>2, <2>3, <2>4
<1>4. (p * Ray + Ray \div 2) \div Ray = p
  <2>1. PICK h : h = Ray \div 2
    OBVIOUS
  <2>2. h \in Nat /\ h < Ray
    BY <2>1
  <2>3. PICK n : n = p * Ray + h
    OBVIOUS
  <2>4. PICK q : q = n \div Ray
    OBVIOUS
  <2>5. n \in Nat /\ p * Ray \in Nat
    BY <2>2, <2>3
  <2>6. q \in Nat /\ Ray * q <= n /\ n < Ray * q + Ray
    BY <2>4, <2>5, Division
  <2>7. q <= p
    <3>1. ~ (p + 1 <= q)
      <4> SUFFICES ASSUME p + 1 <= q  PROVE FALSE
        OBVIOUS
      <4>1. Ray * (p + 1) <= Ray * q
        BY <2>6, ProductsGrow
      <4>2. Ray * (p + 1) = p * Ray + Ray
        OBVIOUS
      <4>3. Ray * q \in Int
        BY <2>6
      <4> QED BY <2>2, <2>3, <2>5, <2>6, <4>1, <4>2, <4>3
    <3> QED BY <2>6, <3>1
  <2>8. p <= q
    <3>1. ~ (q + 1 <= p)
      <4> SUFFICES ASSUME q + 1 <= p  PROVE FALSE
        OBVIOUS
      <4>1. Ray * (q + 1) <= Ray * p
        BY <2>6, ProductsGrow
      <4>2. Ray * (q + 1) = Ray * q + Ray
        BY <2>6
      <4>3. Ray * p = p * Ray
        OBVIOUS
      <4>4. Ray * q \in Int
        BY <2>6
      <4> QED BY <2>2, <2>3, <2>5, <2>6, <4>1, <4>2, <4>3, <4>4
    <3> QED BY <2>6, <3>1
  <2> QED BY <2>1, <2>3, <2>4, <2>6, <2>7, <2>8
<1> QED BY <1>3, <1>4 DEF RMul

\* A lot of A units at the price that is encoded as X of the smallest units, where W
\* units make a whole and a unit of the want token has S of them.
LEMMA AskLoses ==
    ASSUME NEW X \in Nat, NEW A \in Nat \ {0}, NEW W \in Nat \ {0}, NEW S \in Nat \ {0},
           NEW p, p = (X * W + A \div 2) \div A, NEW ask, ask = ((A * p) \div W) \div S
    PROVE  p \in Nat /\ ask \in Nat /\ X <= S * (ask + 1 + CeilDiv(A, 2 * W * S))
<1>1. PICK h : h = A \div 2
  OBVIOUS
<1>2. h \in Nat /\ A <= 2 * h + 1
  BY <1>1
<1>3. PICK n : n = X * W + h
  OBVIOUS
<1>4. X * W \in Nat /\ n \in Nat
  BY <1>2, <1>3
<1>5. p \in Nat /\ n < A * p + A
  BY <1>1, <1>3, <1>4, Division
<1>6. PICK m : m = A * p
  OBVIOUS
<1>7. m \in Nat /\ 2 * (X * W) <= 2 * m + A
  <2>1. m \in Nat
    BY <1>5, <1>6
  <2>2. X * W + h < m + A
    BY <1>3, <1>5, <1>6
  <2> QED BY <1>2, <1>4, <2>1, <2>2
<1>8. PICK q : q = m \div W
  OBVIOUS
<1>9. q \in Nat /\ m < W * q + W /\ W * q \in Nat
  BY <1>7, <1>8, Division
<1>10. ask \in Nat /\ q < S * ask + S /\ S * ask \in Nat
  BY <1>6, <1>8, <1>9, Division
<1>11. m <= W * (S * ask + S)
  <2>1. q + 1 <= S * ask + S
    BY <1>9, <1>10
  <2>2. W * (q + 1) <= W * (S * ask + S)
    BY <1>9, <1>10, <2>1, ProductsGrow
  <2>3. W * (q + 1) = W * q + W
    BY <1>9
  <2>4. W * (S * ask + S) \in Int
    BY <1>10
  <2> QED BY <1>7, <1>9, <2>2, <2>3, <2>4
<1>12. PICK d, e : d = 2 * W * S /\ e = CeilDiv(A, d)
  OBVIOUS
<1>13. d \in Nat \ {0} /\ e \in Nat /\ A <= d * e
  <2>1. W * S \in Nat \ {0}
    OBVIOUS
  <2>2. d \in Nat \ {0}
    BY <1>12, <2>1
  <2> QED BY <1>12, <2>2, CeilDivCovers
<1>14. (2 * W) * X <= (2 * W) * (S * (ask + 1 + e))
  <2>1. PICK k : k = W * (S * ask + S)
    OBVIOUS
  <2>2. k \in Nat /\ d * e \in Nat
    BY <1>10, <1>13, <2>1
  <2>3. 2 * (X * W) <= 2 * k + d * e
    BY <1>4, <1>7, <1>11, <1>13, <2>1, <2>2
  <2>4. 2 * k + d * e = (2 * W) * (S * (ask + 1 + e))
    BY <1>10, <1>12, <1>13, <2>1
  <2>5. 2 * (X * W) = (2 * W) * X
    OBVIOUS
  <2> QED BY <2>3, <2>4, <2>5
<1>15. X <= S * (ask + 1 + e)
  <2>1. S * (ask + 1 + e) \in Int /\ 2 * W \in Nat \ {0}
    BY <1>10, <1>13
  <2> QED BY <1>14, <2>1, ProductsShrink
<1> QED BY <1>5, <1>10, <1>12, <1>15

\* What is read about a candidate that a kick was prepared for.
LEMMA PreparedLot ==
    ASSUME NEW v, Readable(v), PrepareKick(v) # None
    PROVE  /\ v.quote \in Nat /\ v.startBuffer \in Nat /\ v.wantUnit \in Nat \ {0}
           /\ WantScaler(v) \in Nat \ {0} /\ WantScaler(v) * v.wantUnit = Wad
           /\ Available(v) \in Nat \ {0} /\ BufferedQuote(v) \in Nat /\ v.decay \in 1 .. Bps - 1
           /\ PrepareKick(v).start = StartingPrice(v) /\ StartingPrice(v) \in Nat
<1>1. /\ Wad \in Nat \ {0} /\ Bps \in Nat \ {0}
      /\ v.sellUnit \in Nat \ {0} /\ v.sellUnit <= Wad /\ v.wantUnit \in Nat \ {0} /\ v.wantUnit <= Wad
      /\ v.balance \in Nat /\ v.price \in Nat /\ v.startBuffer \in Nat
  BY ScalesAssumption DEF Readable
<1>2. Sellable(v) /\ Quoted(v) /\ Priceable(v)
  BY DEF PrepareKick
<1>3. v.quote \in Nat
  BY <1>2 DEF Quoted, Readable
<1>4. WantScaler(v) \in Nat \ {0} /\ WantScaler(v) * v.wantUnit = Wad
  <2>1. PICK s : s = Wad \div v.wantUnit
    OBVIOUS
  <2>2. s \in Nat /\ Wad = (v.wantUnit * s) + (Wad % v.wantUnit)
    BY <1>1, <2>1
  <2>3. Wad = v.wantUnit * s
    BY <1>1, <2>2 DEF Readable
  <2>4. s # 0
    BY <1>1, <2>3
  <2> QED BY <1>1, <2>1, <2>2, <2>3, <2>4 DEF WantScaler
<1>5. SellAmount(v) \in Nat \ {0}
  <2>1. CASE v.cap = None
    BY <1>1, <1>2, <2>1 DEF SellAmount, Sellable
  <2>2. CASE v.cap # None
    <3>1. v.cap \in Nat
      BY <2>2 DEF Readable
    <3>2. v.price \in Nat \ {0}
      BY <1>1, <1>2, <2>2 DEF Sellable
    <3>3. v.cap * v.sellUnit \in Nat
      BY <1>1, <3>1
    <3>4. (v.cap * v.sellUnit) \div v.price \in Nat
      BY <3>2, <3>3, Division
    <3> QED BY <1>1, <1>2, <2>2, <3>4 DEF SellAmount, Sellable, Least
  <2> QED BY <2>1, <2>2
<1>6. SellScaler(v) \in Nat \ {0}
  <2>1. PICK s : s = Wad \div v.sellUnit
    OBVIOUS
  <2>2. s \in Nat /\ Wad < v.sellUnit * s + v.sellUnit
    BY <1>1, <2>1, Division
  <2>3. s # 0
    BY <1>1, <2>2
  <2> QED BY <2>1, <2>2, <2>3 DEF SellScaler
<1>7. Available(v) \in Nat \ {0}
  BY <1>5, <1>6 DEF Available
<1>8. BufferedQuote(v) \in Nat
  BY <1>1, <1>3 DEF BufferedQuote
<1>9. StartingPrice(v) \in Nat
  <2>1. CASE InWholeWant(v)
    <3>1. Bps * v.wantUnit \in Nat \ {0}
      BY <1>1
    <3> QED BY <1>8, <2>1, <3>1, CeilDivCovers DEF StartingPrice
  <2>2. CASE ~InWholeWant(v)
    <3>1. BufferedQuote(v) * WantScaler(v) \in Nat
      BY <1>4, <1>8
    <3> QED BY <1>1, <2>2, <3>1, CeilDivCovers DEF StartingPrice
  <2> QED BY <2>1, <2>2
<1>10. PrepareKick(v).start = StartingPrice(v)
  BY DEF PrepareKick
<1> QED BY <1>1, <1>2, <1>3, <1>4, <1>7, <1>8, <1>9, <1>10 DEF Priceable

\* The price that is encoded covers the buffered quote.
LEMMA EncodedCovers ==
    ASSUME NEW v, Readable(v), PrepareKick(v) # None,
           NEW X, X = IF InWholeWant(v) THEN StartingPrice(v) * Wad ELSE StartingPrice(v)
    PROVE  X \in Nat /\ WantScaler(v) * BufferedQuote(v) <= X * Bps
<1>1. PICK S, B, start, unit : /\ S = WantScaler(v) /\ B = BufferedQuote(v)
                               /\ start = StartingPrice(v) /\ unit = v.wantUnit
  OBVIOUS
<1>2. /\ S \in Nat \ {0} /\ B \in Nat /\ start \in Nat /\ unit \in Nat \ {0} /\ S * unit = Wad
      /\ Bps \in Nat \ {0} /\ Wad \in Nat \ {0}
  BY <1>1, PreparedLot, ScalesAssumption
<1>3. CASE InWholeWant(v)
  <2>1. start = CeilDiv(B, Bps * unit) /\ X = start * Wad
    BY <1>1, <1>3 DEF StartingPrice
  <2>2. Bps * unit \in Nat \ {0}
    BY <1>2
  <2>3. B <= (Bps * unit) * start
    BY <1>2, <2>1, <2>2, CeilDivCovers
  <2>4. (Bps * unit) * start \in Int
    BY <1>2, <2>2
  <2>5. S * B <= S * ((Bps * unit) * start)
    BY <1>2, <2>3, <2>4, ProductsGrow
  <2>6. S * ((Bps * unit) * start) = (start * (S * unit)) * Bps
    BY <1>2
  <2>7. start * Wad \in Nat
    BY <1>2
  <2> QED BY <1>1, <1>2, <2>1, <2>5, <2>6, <2>7
<1>4. CASE ~InWholeWant(v)
  <2>1. X = start /\ start = CeilDiv(B * S, Bps)
    BY <1>1, <1>4 DEF StartingPrice
  <2>2. B * S \in Nat
    BY <1>2
  <2>3. B * S <= Bps * start
    BY <1>2, <2>1, <2>2, CeilDivCovers
  <2>4. B * S = S * B /\ Bps * start = start * Bps
    BY <1>2
  <2> QED BY <1>1, <1>2, <2>1, <2>3, <2>4
<1> QED BY <1>3, <1>4

\* The opening ask of a kick that was prepared.
LEMMA OpeningAsk ==
    ASSUME NEW v, Readable(v), PrepareKick(v) # None,
           NEW lost, lost = 1 + CeilDiv(Available(v), 2 * Wad * WantScaler(v))
    PROVE  (LotAsk(v, PrepareKick(v).start, 0) + lost) * Bps >= BufferedQuote(v)
<1>1. PICK S, B, A, start : /\ S = WantScaler(v) /\ B = BufferedQuote(v) /\ A = Available(v)
                            /\ start = StartingPrice(v)
  OBVIOUS
<1>2. /\ S \in Nat \ {0} /\ B \in Nat /\ A \in Nat \ {0} /\ start \in Nat /\ v.decay \in 1 .. Bps - 1
      /\ Bps \in Nat \ {0} /\ Wad \in Nat \ {0} /\ Ray \in Nat \ {0} /\ Ray % Bps = 0
      /\ start = PrepareKick(v).start
  BY <1>1, PreparedLot, ScalesAssumption
<1>3. PICK X : X = IF InWholeWant(v) THEN start * Wad ELSE start
  OBVIOUS
<1>4. X \in Nat /\ S * B <= X * Bps
  BY <1>1, <1>3, EncodedCovers
<1>5. PICK p : p = (X * Wad + A \div 2) \div A
  OBVIOUS
<1>6. PICK ask : ask = ((A * p) \div Wad) \div S
  OBVIOUS
<1>7. p \in Nat /\ ask \in Nat /\ X <= S * (ask + 1 + CeilDiv(A, 2 * Wad * S))
  BY <1>2, <1>4, <1>5, <1>6, AskLoses
<1>8. LotAsk(v, start, 0) = ask
  <2>1. PICK x : x = Ray - v.decay * (Ray \div Bps)
    OBVIOUS
  <2>2. x \in Nat
    <3>1. PICK r : r = Ray \div Bps
      OBVIOUS
    <3>2. r \in Nat /\ Bps * r <= Ray
      BY <1>2, <3>1, Division
    <3>3. r * v.decay <= r * Bps /\ r * v.decay \in Int /\ r * Bps \in Int
      BY <1>2, <3>2, ProductsGrow
    <3>4. r * Bps = Bps * r /\ r * v.decay = v.decay * r
      BY <1>2, <3>2
    <3> QED BY <1>2, <2>1, <3>1, <3>2, <3>3, <3>4
  <2>3. RMul(p, RPow(x, 0)) = p
    BY <1>2, <1>7, <2>2, NoDecayYet
  <2>4. WDiv(IF InWholeWant(v) THEN start * Wad ELSE start, A) = p
    BY <1>3, <1>5 DEF WDiv
  <2>5. LotAt(v, p) = ask
    BY <1>1, <1>6 DEF LotAt
  <2> QED BY <1>1, <2>1, <2>3, <2>4, <2>5 DEF LotAsk
<1>9. PICK total : total = ask + lost
  OBVIOUS
<1>10. lost \in Nat /\ total \in Nat /\ X <= S * total
  <2>1. PICK d, e : d = 2 * Wad * S /\ e = CeilDiv(A, d)
    OBVIOUS
  <2>2. d \in Nat \ {0}
    <3>1. 2 * Wad \in Nat \ {0}
      BY <1>2
    <3> QED BY <1>2, <2>1, <3>1
  <2>3. e \in Nat
    BY <1>2, <2>1, <2>2, CeilDivCovers
  <2>4. lost = 1 + e /\ X <= S * (ask + 1 + e)
    BY <1>1, <1>7, <2>1
  <2>5. total = ask + 1 + e
    BY <1>7, <1>9, <2>3, <2>4
  <2> QED BY <1>7, <2>3, <2>4, <2>5
<1>11. S * B <= S * (total * Bps)
  <2>1. S * total \in Int
    BY <1>2, <1>10
  <2>2. Bps * X <= Bps * (S * total)
    BY <1>2, <1>4, <1>10, <2>1, ProductsGrow
  <2>3. Bps * X = X * Bps /\ Bps * (S * total) = S * (total * Bps)
    BY <1>2, <1>4, <1>10
  <2>4. X * Bps \in Int /\ S * B \in Int /\ S * (total * Bps) \in Int
    BY <1>2, <1>4, <1>10
  <2> QED BY <1>4, <2>2, <2>3, <2>4
<1>12. B <= total * Bps
  <2>1. total * Bps \in Int
    BY <1>2, <1>10
  <2> QED BY <1>2, <1>11, <2>1, ProductsShrink
<1>13. total * Bps >= B
  BY <1>2, <1>10, <1>12
<1> QED BY <1>1, <1>2, <1>8, <1>9, <1>13

----------------------------------------------------------------------------
(* What is offered is what was prepared.                                   *)

Prepared == \A c \in Clients : client[c].kick \in {None, PrepareKick(market.view)}

LEMMA KickCarried ==
    ASSUME NEW r, Fields(r)
    PROVE  Onward(r).kick = None /\ Fields(Onward(r)) /\ \A calls : Offer(r, calls).kick = r.kick
<1>1. Onward(r).kick = None
  BY DEF Fields, Onward
<1>2. Fields(Onward(r))
  BY OnwardIs
<1>3. \A calls : Offer(r, calls).kick = r.kick
  BY DEF Fields, Offer
<1> QED BY <1>1, <1>2, <1>3

\* A client takes on a kick that was prepared, keeps the one it has, or drops it.
Carries(c, s) == Become(c, s) /\ s.kick \in {None, client[c].kick, PrepareKick(market.view)}

LEMMA StepCarries ==
    ASSUME NEW c \in Clients, Fields(client[c]), Step(c)
    PROVE  \E s : Carries(c, s)
<1>1. PICK r : r = client[c] /\ Fields(r)
  OBVIOUS
<1>2. ASSUME NEW s, Become(c, s), s.kick = None \/ s.kick = r.kick \/ s.kick = PrepareKick(market.view)
      PROVE  \E new : Carries(c, new)
  BY <1>1, <1>2 DEF Carries
<1>3. Onward(r).kick = None /\ Fields(Onward(r)) /\ \A calls : Offer(r, calls).kick = r.kick
  BY <1>1, KickCarried
<1>4. CASE Skip(c)
  BY <1>1, <1>2, <1>3, <1>4 DEF Skip
<1>5. CASE \E queue : Become(c, [r EXCEPT !.queue = queue])
  <2>1. PICK queue, s : s = [r EXCEPT !.queue = queue] /\ Become(c, s)
    BY <1>5
  <2>2. s.kick = r.kick
    BY <1>1, <2>1 DEF Fields
  <2> QED BY <1>2, <2>1, <2>2
<1>6. CASE \E place, why : Become(c, [r EXCEPT !.at = place, !.why = why])
  <2>1. PICK place, why, s : s = [r EXCEPT !.at = place, !.why = why] /\ Become(c, s)
    BY <1>6
  <2>2. s.kick = r.kick
    BY <1>1, <2>1 DEF Fields
  <2> QED BY <1>2, <2>1, <2>2
<1>7. CASE \E place : Become(c, [r EXCEPT !.at = place])
  <2>1. PICK place, s : s = [r EXCEPT !.at = place] /\ Become(c, s)
    BY <1>7
  <2>2. s.kick = r.kick
    BY <1>1, <2>1 DEF Fields
  <2> QED BY <1>2, <2>1, <2>2
<1>8. CASE \E calls : Become(c, Offer(r, calls))
  BY <1>2, <1>3, <1>8
<1>9. CASE StartKickRun(c)
  <2>1. PICK mode, run, queue, flags, s :
          /\ s = [Idle EXCEPT !.at = "next", !.cmd = "kick", !.mode = mode, !.run = run, !.queue = queue,
                              !.why = flags]
          /\ Become(c, s)
    BY <1>9 DEF StartKickRun
  <2>2. s.kick = None
    BY <2>1 DEF Idle
  <2> QED BY <1>2, <2>1, <2>2
<1>10. CASE PassOver(c)
  BY <1>1, <1>5, <1>10 DEF PassOver
<1>11. CASE Prepare(c)
  <2>1. ASSUME NEW s, NEW queue, NEW pair, NEW busy,
               s = [r EXCEPT !.at = "lots", !.queue = queue, !.pair = pair, !.busy = busy]
        PROVE  s.kick = r.kick
    BY <1>1, <2>1 DEF Fields
  <2>2. CASE \E queue, pair, busy :
               Become(c, [r EXCEPT !.at = "lots", !.queue = queue, !.pair = pair, !.busy = busy])
    BY <1>2, <2>1, <2>2
  <2> QED BY <1>1, <1>5, <1>11, <2>2 DEF Prepare
<1>12. CASE InspectLots(c)
  BY <1>1, <1>4, <1>6, <1>7, <1>8, <1>12 DEF InspectLots
<1>13. CASE Quote(c)
  <2>1. CASE Skip(c)
    BY <1>4, <2>1
  <2>2. CASE Become(c, [r EXCEPT !.at = "estimate", !.kick = PrepareKick(market.view)])
    <3>1. PICK s, kick : /\ s = [r EXCEPT !.at = "estimate", !.kick = kick] /\ Become(c, s)
                         /\ kick = PrepareKick(market.view)
      BY <2>2
    <3>2. s.kick = kick
      BY <1>1, <3>1 DEF Fields
    <3> QED BY <1>2, <3>1, <3>2
  <2> QED BY <1>1, <1>13, <2>1, <2>2 DEF Quote
<1>14. CASE Estimate(c)
  BY <1>1, <1>4, <1>8, <1>14 DEF Estimate
<1>15. CASE Decline(c) \/ BaseFeeCapSkip(c)
  BY <1>4, <1>15 DEF Decline, BaseFeeCapSkip
<1>16. CASE Accept(c) \/ CheckOutbox(c) \/ Send(c) \/ Report(c)
  BY <1>1, <1>7, <1>16 DEF Accept, CheckOutbox, Send, Report
<1>17. CASE StartSettle(c) \/ StartSweep(c)
  <2>1. \A cmd, p, calls : Offer(Command(cmd, p), calls).kick = None
    <3> SUFFICES ASSUME NEW cmd, NEW p, NEW calls  PROVE Offer(Command(cmd, p), calls).kick = None
      OBVIOUS
    <3>1. PICK run, s : s = [Idle EXCEPT !.cmd = cmd, !.run = run, !.pair = p] /\ s = Command(cmd, p)
      BY DEF Command
    <3>2. Fields(s) /\ s.kick = None
      BY <3>1 DEF Idle, Fields
    <3>3. Offer(s, calls).kick = s.kick
      BY <3>2, KickCarried
    <3> QED BY <3>1, <3>2, <3>3
  <2>2. \E cmd, p, calls : Become(c, Offer(Command(cmd, p), calls))
    BY <1>17 DEF StartSettle, StartSweep
  <2> QED BY <1>2, <2>1, <2>2
<1>18. CASE Await(c)
  <2>1. \A results : Concluded(r, results).kick = None
    <3> SUFFICES ASSUME NEW results  PROVE Concluded(r, results).kick = None
      OBVIOUS
    <3>1. PICK s : s = Onward(r) /\ Fields(s) /\ s.kick = None
      BY <1>3
    <3> QED BY <3>1 DEF Concluded, Fields
  <2>2. \A next, results : [r EXCEPT !.at = "send", !.next = next, !.results = results].kick = r.kick
    BY <1>1 DEF Fields
  <2>3. \/ \E results : Become(c, Concluded(r, results))
        \/ \E next, results : Become(c, [r EXCEPT !.at = "send", !.next = next, !.results = results])
    BY <1>1, <1>18 DEF Await
  <2> QED BY <1>2, <2>1, <2>2, <2>3
<1>19. CASE Raise(c)
  <2>1. PICK s : s = Onward(r) /\ Fields(s) /\ s.kick = None
    BY <1>3
  <2>2. PICK expected, new : new = [s EXCEPT !.at = "finish", !.expected = expected] /\ Become(c, new)
    BY <1>1, <1>19, <2>1 DEF Raise
  <2>3. new.kick = None
    BY <2>1, <2>2 DEF Fields
  <2> QED BY <1>2, <2>2, <2>3
<1>20. CASE Finish(c)
  <2>1. PICK run, verdict, s : s = [Idle EXCEPT !.at = "done", !.run = run, !.verdict = verdict] /\ Become(c, s)
    BY <1>20 DEF Finish
  <2>2. s.kick = None
    BY <2>1 DEF Idle
  <2> QED BY <1>2, <2>1, <2>2
<1>21. CASE Quit(c)
  BY <1>2, <1>21 DEF Quit, Idle
<1> QED BY <1>9, <1>10, <1>11, <1>12, <1>13, <1>14, <1>15, <1>16, <1>17, <1>18, <1>19, <1>20, <1>21 DEF Step

LEMMA StepKeepsPrepared ==
    ASSUME RunInv, Prepared, [Next]_vars
    PROVE  Prepared'
<1>1. /\ DOMAIN client = Clients /\ \A c \in Clients : Fields(client[c])
      /\ \A c \in Clients : client[c].kick \in {None, PrepareKick(market.view)}
  BY DEF RunInv, Honest, WellFormed, Prepared
<1>2. UNCHANGED market
  BY DEF Next, vars
<1>3. CASE UNCHANGED client
  BY <1>1, <1>2, <1>3 DEF Prepared
<1>4. CASE \E c \in Clients : Step(c)
  <2>1. PICK c \in Clients : Step(c)
    BY <1>4
  <2>2. PICK s : Become(c, s) /\ s.kick \in {None, client[c].kick, PrepareKick(market.view)}
    BY <1>1, <2>1, StepCarries DEF Carries
  <2>3. \A b \in Clients : client'[b] = IF b = c THEN s ELSE client[b]
    BY <1>1, <2>2 DEF Become
  <2> QED BY <1>1, <1>2, <2>2, <2>3 DEF Prepared
<1>5. CASE \E p \in Pairs : Expire(p)
  <2>1. \A c \in Clients : client'[c].kick = client[c].kick
    <3> SUFFICES ASSUME NEW c \in Clients  PROVE client'[c].kick = client[c].kick
      OBVIOUS
    <3>1. \/ client'[c] = client[c] \/ client'[c] = [client[c] EXCEPT !.aged = TRUE]
          \/ client'[c] = [client[c] EXCEPT !.why = @ \union {"late"}]
      BY <1>5 DEF Expire
    <3> QED BY <1>1, <3>1 DEF Fields
  <2> QED BY <1>1, <1>2, <2>1 DEF Prepared
<1>6. CASE \E t \in DOMAIN txs : Mine(t)
  BY <1>3, <1>6 DEF Mine
<1>7. CASE \E p \in Pairs : Buy(p) \/ ResolveElsewhere(p) \/ Donate(p)
  BY <1>3, <1>7 DEF Buy, ResolveElsewhere, Donate
<1>8. CASE UNCHANGED vars
  BY <1>3, <1>8 DEF vars
<1> QED BY <1>4, <1>5, <1>6, <1>7, <1>8 DEF Next

\* What an operator is asked to confirm starts no lower than the buffered quote, up
\* to rounding: for all decimals, lots, quotes and buffers, and both encodings of the
\* starting price (encode_starting_price_raw, latent_terminal_full_lot_ask_raw).
THEOREM OpensAboveQuoteHolds == Spec => []OpensAboveQuote
<1>1. Init => RunInv /\ Prepared
  <2>1. Init => Prepared
    BY DEF Init, Prepared, Idle
  <2> QED BY <2>1, InitIsHonest
<1>2. (RunInv /\ Prepared) /\ [Next]_vars => (RunInv /\ Prepared)'
  BY StepKeepsInv, StepKeepsPrepared
<1>3. RunInv /\ Prepared => OpensAboveQuote
  <2> SUFFICES ASSUME RunInv, Prepared, NEW c \in Clients, client[c].kick # None,
                      NEW v, v = market.view,
                      NEW lost, lost = 1 + CeilDiv(Available(v), 2 * Wad * WantScaler(v))
               PROVE  (LotAsk(v, client[c].kick.start, 0) + lost) * Bps >= BufferedQuote(v)
    BY DEF OpensAboveQuote
  <2>1. Readable(v)
    BY MarketsAssumption DEF RunInv
  <2>2. client[c].kick = PrepareKick(v) /\ PrepareKick(v) # None
    BY DEF Prepared
  <2> QED BY <2>1, <2>2, OpeningAsk
<1> QED BY <1>1, <1>2, <1>3, PTL DEF Spec
=============================================================================
