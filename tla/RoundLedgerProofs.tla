------------------------- MODULE RoundLedgerProofs -------------------------
(***************************************************************************)
(* What the evidence about a pair's rounds guarantees for any number of    *)
(* transactions, processes, settlements and reviews.                       *)
(*                                                                         *)
(* The argument: a mined event stays where it is, and a row that is        *)
(* confirmed points at the event of its own transaction, however often and *)
(* by whomever its receipt is finalised.  So a close that a verdict rests  *)
(* on is on the chain, after the kick it is linked to; and the newest kick *)
(* of the ledger is the last one of the chain.  Whether a link is the      *)
(* right one does not matter for this.                                     *)
(*                                                                         *)
(* For the verdicts the tokens are counted: those of the last round are    *)
(* sold, taken back by an event, or still in the auction, and when it is   *)
(* closed none is left.  What a verdict counts are rows of different       *)
(* events after the last kick, so it counts no more than was taken back,   *)
(* and no less if every sweep is linked to its round.  A ledger that has   *)
(* caught up has one row per event, and a rebuild links each to the round  *)
(* that was open there, so every verdict is exact.                         *)
(***************************************************************************)
EXTENDS RoundLedger, FiniteSetTheorems, WellFoundedInduction, TLAPS

----------------------------------------------------------------------------
(* The inductive invariant.                                                *)

TxOps == {"kick", "resolve", "sweep"}
Paths == {NoPath} \union AllPaths

Transaction == [op : TxOps, state : {"pending", "ok", "reverted"}, at : Nat]
Event       == [op : TxOps \union {"reverted", "settled"}, tx : Nat, path : Paths,
                req : Int, amt : Int]
Row         == [id : Nat, op : TxOps \union {"settled"}, tx : Nat,
                status : {"SUBMITTED", "CONFIRMED", "REVERTED"}, pos : Nat, path : Paths,
                req : Int, amt : Int, link : Nat, created : Nat,
                base : {"no", "cleared", "repaired"}]

ChainTypes ==
    /\ txs \in Seq(Transaction) /\ Len(txs) <= MaxTx
    /\ chain \in Seq(Event)
    /\ sold \in Seq(Nat) /\ Len(sold) = Len(chain)
    /\ kicked \in BOOLEAN /\ active \in BOOLEAN /\ balance \in Nat /\ donated \in Nat

\* What an event says of its transaction.
EventTrue(e) ==
    /\ e.op = "settled" => e.tx = 0
    /\ e.op # "settled" => e.tx \in DOMAIN txs
    /\ e.op = "reverted" => txs[e.tx].state = "reverted"
    /\ e.op \in TxOps => txs[e.tx].op = e.op /\ txs[e.tx].state = "ok"

\* Every transaction that is mined has one event, and the chain is no shorter than
\* it was for an earlier transaction.
ChainTrue ==
    /\ \A p \in DOMAIN chain : EventTrue(chain[p])
    /\ \A p, q \in DOMAIN chain : chain[p].tx = chain[q].tx /\ chain[p].tx # 0 => p = q
    /\ \A t \in DOMAIN txs :
         /\ txs[t].state # "pending" => \E p \in DOMAIN chain : chain[p].tx = t
         /\ txs[t].at <= Len(chain)
    /\ \A t, u \in DOMAIN txs : t < u => txs[t].at <= txs[u].at

\* A round is open only if nothing has closed it since the last kick.
OpenSince(p) == \A q \in DOMAIN chain : q > p => chain[q].op # "kick" /\ ~ClosesOnChain(q)
KickedTrue   == kicked => \E p \in KickPositions : OpenSince(p)

\* A status that claims an outcome is that of the transaction, at its position, and
\* a kick belongs to no other round.
Fate(r) ==
    /\ r.status = "CONFIRMED" => /\ txs[r.tx].state = "ok"
                                 /\ r.pos \in DOMAIN chain /\ chain[r.pos].tx = r.tx
                                 /\ r.path = chain[r.pos].path /\ r.amt = chain[r.pos].amt
                                 /\ txs[r.tx].op = "kick" => r.req = chain[r.pos].req
    /\ r.status = "REVERTED" => /\ txs[r.tx].state = "reverted"
                                /\ r.pos \in DOMAIN chain /\ chain[r.pos].tx = r.tx
    /\ txs[r.tx].op = "kick" => r.link = NoLink

KickIds        == {k.id : k \in {q \in rows : q.op = "kick"}}
PlaceTrue(r)   == r.pos \in {NoPos} \union DOMAIN chain
LinkTrue(link) == link \in {NoLink} \union KickIds
RecoveryId(id) == \E r \in rows : r.id = id /\ r.op # "kick"
ClosedRound(k) == /\ k.status = "CONFIRMED"
                  /\ \E q \in DOMAIN chain : q > k.pos /\ ClosesOnChain(q)

RowTrue(r) ==
    /\ PlaceTrue(r) /\ LinkTrue(r.link)
    /\ r.op = "settled" => /\ r.tx = 0 /\ r.status = "CONFIRMED" /\ r.amt = 0
                           /\ r.pos \in DOMAIN chain /\ chain[r.pos].op = "settled"
    /\ r.op # "settled" => /\ r.tx \in DOMAIN txs /\ txs[r.tx].op = r.op
                           /\ r.created = SentAt(r.tx) /\ Fate(r)
    /\ r.base # "no" => r.op = "kick"
    /\ r.base = "cleared" => ClosedRound(r)

\* Ids are those of an autoincrement column, and a transaction has one row.
RowsKeyed ==
    /\ rows \in SUBSET Row /\ IsFiniteSet(rows)
    /\ \A r \in rows : r.id \in 1 .. Cardinality(rows)
    /\ \A r, s \in rows : r.id = s.id => r = s
    /\ \A r, s \in rows : r.tx = s.tx /\ r.tx # 0 => r = s

RowsTrue == RowsKeyed /\ \A r \in rows : RowTrue(r)

\* What was read stays true until it is written.
FinaliseTrue(new) ==
    /\ new \in Row /\ new.tx \in DOMAIN txs
    /\ new.status \in {"CONFIRMED", "REVERTED"} /\ Fate(new)
    /\ PlaceTrue(new) /\ LinkTrue(new.link)
    /\ \E r \in rows : r.id = new.id /\ r.tx = new.tx

JobTrue(j) ==
    /\ j.kind \in {"none", "finalise", "links", "settlement", "clear"}
    /\ j.kind = "finalise" => FinaliseTrue(j.row)
    /\ j.kind = "links" => \A id \in DOMAIN j.links : LinkTrue(j.links[id]) /\ RecoveryId(id)
    /\ j.kind = "settlement" => /\ j.pos \in DOMAIN chain /\ chain[j.pos].op = "settled"
                                /\ LinkTrue(j.kick)
    /\ j.kind = "clear" => \E k \in rows : k.id = j.kick /\ k.op = "kick" /\ ClosedRound(k)

JobsTrue == DOMAIN job = Workers /\ \A w \in Workers : JobTrue(job[w])

LedgerInv == ChainTypes /\ ChainTrue /\ KickedTrue /\ RowsTrue /\ JobsTrue

----------------------------------------------------------------------------
(* Rounds end up on the chain, and stay there.                             *)

\* A set of places within a bound has a last one.
LEMMA LastOf ==
    ASSUME NEW n \in Nat, NEW S \in SUBSET (1 .. n), S # {}
    PROVE  \E m \in S : \A x \in S : x <= m
<1> DEFINE T == {n - x : x \in S}
<1>1. T \in SUBSET Nat /\ T # {}
  <2>1. \A x \in S : n - x \in Nat
    OBVIOUS
  <2>2. PICK x \in S : TRUE
    OBVIOUS
  <2>3. n - x \in T
    BY <2>2
  <2>4. T \subseteq Nat
    BY <2>1
  <2> QED BY <2>3, <2>4
<1>2. IsWellFoundedOn(OpToRel(<, Nat), Nat)
  BY NatLessThanWellFounded
<1>3. PICK y \in T : \A z \in T : ~(<<z, y>> \in OpToRel(<, Nat))
  BY <1>1, <1>2, WFMin
<1>4. PICK m \in S : y = n - m
  BY <1>3
<1>5. \A x \in S : x <= m
  <2> TAKE x \in S
  <2>1. n - x \in T /\ n - x \in Nat /\ n - m \in Nat
    OBVIOUS
  <2>2. ~(n - x < n - m)
    BY <1>3, <1>4, <2>1 DEF OpToRel
  <2> QED BY <2>1, <2>2
<1> QED BY <1>5

\* What a step may do to the chain.
ChainGrows ==
    /\ \A p \in DOMAIN chain : p \in DOMAIN chain' /\ chain'[p] = chain[p]
    /\ \A t \in DOMAIN txs :
         /\ t \in DOMAIN txs' /\ txs'[t].op = txs[t].op /\ txs'[t].at = txs[t].at
         /\ txs[t].state # "pending" => txs'[t].state = txs[t].state

\* A row that is true of the chain stays true when the chain grows.
LEMMA FateStays ==
    ASSUME ChainGrows, NEW r, r.tx \in DOMAIN txs, Fate(r)
    PROVE  Fate(r)'
BY DEF ChainGrows, Fate

LEMMA ClosedStays ==
    ASSUME ChainGrows, NEW k, ClosedRound(k)
    PROVE  ClosedRound(k)'
BY DEF ChainGrows, ClosedRound, ClosesOnChain

LEMMA ChainGrowsKeepsRows ==
    ASSUME RowsTrue, ChainGrows, UNCHANGED rows
    PROVE  RowsTrue'
<1>1. RowsKeyed'
  BY DEF RowsTrue, RowsKeyed
<1>2. ASSUME NEW r \in rows
      PROVE  RowTrue(r)'
  <2>1. RowTrue(r)
    BY DEF RowsTrue
  <2>2. PlaceTrue(r)' /\ LinkTrue(r.link)'
    BY <2>1 DEF RowTrue, PlaceTrue, LinkTrue, KickIds, ChainGrows
  <2>3. r.op = "settled" => /\ r.tx = 0 /\ r.status = "CONFIRMED" /\ r.amt = 0
                            /\ r.pos \in DOMAIN chain' /\ chain'[r.pos].op = "settled"
    BY <2>1 DEF RowTrue, ChainGrows
  <2>4. r.op # "settled" => /\ r.tx \in DOMAIN txs' /\ txs'[r.tx].op = r.op
                            /\ r.created = SentAt(r.tx)' /\ Fate(r)'
    BY <2>1, FateStays DEF RowTrue, ChainGrows, SentAt, BlockTime
  <2>5. r.base = "cleared" => ClosedRound(r)'
    BY <2>1, ClosedStays DEF RowTrue
  <2> QED BY <2>1, <2>2, <2>3, <2>4, <2>5 DEF RowTrue
<1> QED BY <1>1, <1>2 DEF RowsTrue

LEMMA ChainGrowsKeepsJobs ==
    ASSUME JobsTrue, ChainGrows, UNCHANGED <<rows, job>>
    PROVE  JobsTrue'
<1>1. ASSUME NEW w \in Workers
      PROVE  JobTrue(job[w])'
  <2> DEFINE j == job[w]
  <2>1. JobTrue(j)
    BY DEF JobsTrue
  <2>2. j.kind = "finalise" => FinaliseTrue(j.row)'
    BY <2>1, FateStays
       DEF JobTrue, FinaliseTrue, ChainGrows, PlaceTrue, LinkTrue, KickIds
  <2>3. j.kind = "links" => \A id \in DOMAIN j.links : LinkTrue(j.links[id])' /\ RecoveryId(id)'
    BY <2>1 DEF JobTrue, LinkTrue, KickIds, RecoveryId
  <2>4. j.kind = "settlement" => /\ j.pos \in DOMAIN chain' /\ chain'[j.pos].op = "settled"
                                 /\ LinkTrue(j.kick)'
    BY <2>1 DEF JobTrue, LinkTrue, KickIds, ChainGrows
  <2>5. j.kind = "clear" => \E k \in rows' : k.id = j.kick /\ k.op = "kick" /\ ClosedRound(k)'
    BY <2>1, ClosedStays DEF JobTrue
  <2> HIDE DEF j
  <2> QED BY <2>1, <2>2, <2>3, <2>4, <2>5 DEF JobTrue, j
<1> QED BY <1>1 DEF JobsTrue, Workers

----------------------------------------------------------------------------
(* Steps of the chain.                                                     *)

\* An event is added for a transaction that was pending.
Mines(t, e) ==
    /\ txs[t].state = "pending"
    /\ e.tx = t /\ e.op \in {txs[t].op, "reverted"}
    /\ Mined(t, IF e.op = "reverted" THEN "reverted" ELSE "ok")
    /\ Emit(e)

LEMMA MinesKeepsChain ==
    ASSUME ChainTypes, ChainTrue, NEW t \in DOMAIN txs, NEW e \in Event, Mines(t, e)
    PROVE  /\ txs' \in Seq(Transaction) /\ Len(txs') = Len(txs)
           /\ chain' \in Seq(Event) /\ sold' \in Seq(Nat) /\ Len(sold') = Len(chain')
           /\ ChainTrue' /\ ChainGrows
<1> DEFINE s == IF e.op = "reverted" THEN "reverted" ELSE "ok"
<1>1. txs' = [txs EXCEPT ![t].state = s]
  BY DEF Mines, Mined
<1>2. txs \in Seq(Transaction) /\ txs[t] \in Transaction /\ t \in Nat \ {0}
  BY DEF ChainTypes
<1>3. /\ txs' \in Seq(Transaction) /\ Len(txs') = Len(txs) /\ DOMAIN txs' = DOMAIN txs
      /\ txs'[t] = [txs[t] EXCEPT !.state = s]
      /\ \A u \in DOMAIN txs : u # t => txs'[u] = txs[u]
  BY <1>1, <1>2 DEF Transaction
<1>4. /\ txs'[t].state = s
      /\ \A u \in DOMAIN txs : txs'[u].op = txs[u].op /\ txs'[u].at = txs[u].at
  <2>1. txs'[t].state = s /\ txs'[t].op = txs[t].op /\ txs'[t].at = txs[t].at
    BY <1>2, <1>3 DEF Transaction
  <2> QED BY <2>1, <1>3
<1>5. /\ chain' \in Seq(Event) /\ Len(chain') = Len(chain) + 1
      /\ sold' \in Seq(Nat) /\ Len(sold') = Len(chain')
      /\ chain'[Len(chain) + 1] = e
      /\ \A p \in DOMAIN chain : chain'[p] = chain[p]
      /\ DOMAIN chain' = DOMAIN chain \union {Len(chain) + 1}
      /\ Len(chain) + 1 \notin DOMAIN chain
  BY DEF ChainTypes, Mines, Emit
<1>6. ChainGrows
  BY <1>3, <1>4, <1>5 DEF ChainGrows, Mines
<1>7. \A p \in DOMAIN chain : chain[p].tx # t
  <2> SUFFICES ASSUME NEW p \in DOMAIN chain, chain[p].tx = t  PROVE FALSE
    OBVIOUS
  <2>1. EventTrue(chain[p]) /\ chain[p] \in Event
    BY DEF ChainTrue, ChainTypes
  <2> QED BY <2>1, <1>2 DEF EventTrue, Event, Mines, TxOps
<1>8. ASSUME NEW p \in DOMAIN chain'
      PROVE  EventTrue(chain[p])'
  <2>1. CASE p \in DOMAIN chain
    <3>1. EventTrue(chain[p]) /\ chain[p].tx # t /\ chain[p] \in Event
      BY <2>1, <1>7 DEF ChainTrue, ChainTypes
    <3>2. chain'[p] = chain[p]
      BY <2>1, <1>5
    <3>3. chain[p].tx \in DOMAIN txs =>
            chain[p].tx \in DOMAIN txs' /\ txs'[chain[p].tx] = txs[chain[p].tx]
      BY <3>1, <1>3
    <3> QED BY <3>1, <3>2, <3>3 DEF EventTrue, Event, TxOps
  <2>2. CASE p = Len(chain) + 1
    <3>1. txs[t].op \in TxOps
      BY <1>2 DEF Transaction
    <3> QED BY <2>2, <3>1, <1>2, <1>3, <1>4, <1>5 DEF EventTrue, Mines, TxOps
  <2> QED BY <2>1, <2>2, <1>5
<1>9. \A p, q \in DOMAIN chain' : chain'[p].tx = chain'[q].tx /\ chain'[p].tx # 0 => p = q
  BY <1>5, <1>7 DEF ChainTrue, Mines
<1>10. ASSUME NEW u \in DOMAIN txs'
       PROVE  /\ txs'[u].state # "pending" => \E p \in DOMAIN chain' : chain'[p].tx = u
              /\ txs'[u].at <= Len(chain')
  <2>1. txs'[u].at <= Len(chain')
    <3>1. u \in DOMAIN txs /\ txs[u] \in Transaction
      BY <1>2, <1>3
    <3>2. txs[u].at <= Len(chain) /\ txs[u].at \in Nat /\ Len(chain) \in Nat
      BY <3>1 DEF ChainTrue, ChainTypes, Transaction
    <3> QED BY <3>1, <3>2, <1>4, <1>5
  <2>2. CASE u = t
    BY <2>1, <2>2, <1>5 DEF Mines
  <2>3. CASE u # t
    BY <2>1, <2>3, <1>3, <1>5 DEF ChainTrue
  <2> QED BY <2>2, <2>3
<1>11. \A u, v \in DOMAIN txs' : u < v => txs'[u].at <= txs'[v].at
  BY <1>3, <1>4 DEF ChainTrue
<1> QED BY <1>3, <1>5, <1>6, <1>8, <1>9, <1>10, <1>11 DEF ChainTrue

ChainKept == ChainTypes' /\ ChainTrue' /\ KickedTrue' /\ ChainGrows

\* An event that closes nothing leaves an open round open.
LEMMA OpenStays ==
    ASSUME ChainTypes, KickedTrue, kicked, NEW e \in Event,
           chain' = Append(chain, e), e.op \in {"reverted", "sweep"}
    PROVE  \E p \in KickPositions' : OpenSince(p)'
<1>1. /\ chain' \in Seq(Event) /\ chain'[Len(chain) + 1] = e
      /\ \A p \in DOMAIN chain : chain'[p] = chain[p]
      /\ DOMAIN chain' = DOMAIN chain \union {Len(chain) + 1}
  BY DEF ChainTypes
<1>2. PICK p \in KickPositions : OpenSince(p)
  BY DEF KickedTrue
<1>3. p \in KickPositions'
  BY <1>1, <1>2 DEF KickPositions
<1>4. OpenSince(p)'
  BY <1>1, <1>2 DEF OpenSince, ClosesOnChain
<1> QED BY <1>3, <1>4

LEMMA SendTxKeepsChain ==
    ASSUME ChainTypes, ChainTrue, KickedTrue, NEW op \in Ops, SendTx(op)
    PROVE  ChainKept
<1> DEFINE tx == [op |-> op, state |-> "pending", at |-> Len(chain)]
<1>1. tx \in Transaction /\ Len(chain) \in Nat
  BY BoundsAssumption DEF Transaction, TxOps, ChainTypes
<1>2. /\ txs' \in Seq(Transaction) /\ Len(txs') = Len(txs) + 1 /\ txs'[Len(txs) + 1] = tx
      /\ \A t \in DOMAIN txs : txs'[t] = txs[t]
      /\ DOMAIN txs' = DOMAIN txs \union {Len(txs) + 1}
      /\ DOMAIN txs = 1 .. Len(txs) /\ Len(txs) \in Nat
  BY <1>1 DEF SendTx, ChainTypes
<1>3. Len(txs') <= MaxTx
  BY <1>2, BoundsAssumption DEF SendTx, ChainTypes
<1>4. ChainTypes' /\ ChainGrows /\ KickedTrue'
  BY <1>2, <1>3 DEF SendTx, ChainTypes, ChainGrows, KickedTrue, KickPositions, OpenSince, ClosesOnChain
<1>5. ASSUME NEW p \in DOMAIN chain
      PROVE  EventTrue(chain[p])'
  <2>1. EventTrue(chain[p]) /\ UNCHANGED chain
    BY DEF ChainTrue, SendTx
  <2> QED BY <2>1, <1>2 DEF EventTrue, TxOps
<1>6. ASSUME NEW t \in DOMAIN txs'
      PROVE  /\ txs'[t].state # "pending" => \E p \in DOMAIN chain : chain[p].tx = t
             /\ txs'[t].at <= Len(chain)
  <2>1. CASE t \in DOMAIN txs
    BY <2>1, <1>2 DEF ChainTrue
  <2>2. CASE t = Len(txs) + 1
    BY <2>2, <1>1, <1>2
  <2> QED BY <2>1, <2>2, <1>2
<1>7. ASSUME NEW t \in DOMAIN txs', NEW u \in DOMAIN txs', t < u
      PROVE  txs'[t].at <= txs'[u].at
  <2>1. CASE u \in DOMAIN txs
    <3>1. t \in DOMAIN txs
      BY <2>1, <1>2, <1>7
    <3> QED BY <2>1, <3>1, <1>2, <1>7 DEF ChainTrue
  <2>2. CASE u = Len(txs) + 1
    <3>1. t \in DOMAIN txs /\ txs'[u].at = Len(chain)
      BY <2>2, <1>2, <1>7
    <3> QED BY <3>1, <1>6
  <2> QED BY <2>1, <2>2, <1>2
<1>8. UNCHANGED chain
  BY DEF SendTx
<1>9. ChainTrue'
  BY <1>5, <1>6, <1>7, <1>8 DEF ChainTrue
<1> QED BY <1>4, <1>9 DEF ChainKept

LEMMA MineKeepsChain ==
    ASSUME ChainTypes, ChainTrue, KickedTrue, NEW t \in DOMAIN txs,
           MineReverted(t) \/ MineKick(t) \/ MineResolve(t) \/ MineSweep(t)
    PROVE  ChainKept
<1>1. t \in Nat /\ txs[t] \in Transaction
  BY DEF ChainTypes
<1>2. CASE MineReverted(t)
  <2> DEFINE e == [op |-> "reverted", tx |-> t, path |-> NoPath, req |-> NoAmount, amt |-> NoAmount]
  <2>1. e \in Event /\ Mines(t, e)
    BY <1>1, <1>2 DEF MineReverted, Mines, Event, Paths, NoPath, NoAmount
  <2>2. KickedTrue'
    <3>1. kicked' = kicked /\ chain' = Append(chain, e)
      BY <1>2 DEF MineReverted, Emit
    <3> QED BY <2>1, <3>1, OpenStays DEF KickedTrue
  <2> QED BY <1>2, <2>1, <2>2, MinesKeepsChain DEF ChainKept, ChainTypes, MineReverted
<1>3. CASE MineKick(t)
  <2> DEFINE e == [op |-> "kick", tx |-> t, path |-> NoPath, req |-> Amount, amt |-> balance + Amount]
  <2>1. e \in Event /\ Mines(t, e)
    BY <1>1, <1>3, BoundsAssumption
       DEF MineKick, Mines, Event, Paths, NoPath, NoAmount, ChainTypes, TxOps
  <2>2. balance' \in Nat /\ kicked' \in BOOLEAN /\ active' \in BOOLEAN
    BY <1>3, BoundsAssumption DEF MineKick, ChainTypes
  <2>3. KickedTrue'
    <3>1. PICK n \in Nat : /\ chain'[n] = e /\ n \in DOMAIN chain'
                           /\ \A q \in DOMAIN chain' : q <= n
      <4>1. /\ chain'[Len(chain) + 1] = e /\ Len(chain) \in Nat
            /\ DOMAIN chain' = 1 .. Len(chain) + 1
        BY <1>3, <2>1 DEF MineKick, Emit, ChainTypes
      <4> QED BY <4>1
    <3>2. n \in KickPositions'
      BY <3>1 DEF KickPositions
    <3>3. OpenSince(n)'
      <4>1. \A q \in DOMAIN chain' : q \in Nat
        BY <2>1, MinesKeepsChain
      <4> QED BY <3>1, <4>1 DEF OpenSince
    <3> QED BY <3>2, <3>3 DEF KickedTrue
  <2> QED BY <1>3, <2>1, <2>2, <2>3, MinesKeepsChain DEF ChainKept, ChainTypes, MineKick
<1>4. CASE MineResolve(t)
  <2> DEFINE e == [op |-> "resolve", tx |-> t, path |-> ResolvePath, req |-> NoAmount, amt |-> balance]
  <2>1. ResolvePath \in 0 .. 5
    BY DEF ResolvePath, ChainTypes
  <2>2. e \in Event /\ Mines(t, e)
    BY <1>1, <1>4, <2>1
       DEF MineResolve, Mines, Event, Paths, AllPaths, NoPath, NoAmount, ChainTypes, TxOps
  <2>3. KickedTrue'
    BY <1>4 DEF MineResolve, KickedTrue
  <2> QED BY <1>4, <2>2, <2>3, MinesKeepsChain DEF ChainKept, ChainTypes, MineResolve
<1>5. CASE MineSweep(t)
  <2> DEFINE e == [op |-> "sweep", tx |-> t, path |-> NoPath, req |-> NoAmount, amt |-> balance]
  <2>1. e \in Event /\ Mines(t, e)
    BY <1>1, <1>5 DEF MineSweep, Mines, Event, Paths, NoPath, NoAmount, ChainTypes, TxOps
  <2>2. KickedTrue'
    <3>1. kicked' = kicked /\ chain' = Append(chain, e)
      BY <1>5 DEF MineSweep, Emit
    <3> QED BY <2>1, <3>1, OpenStays DEF KickedTrue
  <2> QED BY <1>5, <2>1, <2>2, MinesKeepsChain DEF ChainKept, ChainTypes, MineSweep
<1> QED BY <1>2, <1>3, <1>4, <1>5

LEMMA SettleKeepsChain ==
    ASSUME ChainTypes, ChainTrue, SettleDirectly
    PROVE  ChainKept
<1> DEFINE e == [op |-> "settled", tx |-> 0, path |-> NoPath, req |-> NoAmount, amt |-> 0]
<1>1. e \in Event
  BY DEF Event, Paths, NoPath, NoAmount
<1>2. /\ chain' = Append(chain, e) /\ sold' = Append(sold, 0)
      /\ UNCHANGED <<txs, balance, donated>> /\ kicked' = FALSE /\ active' = FALSE
  BY DEF SettleDirectly, Emit
<1>3. /\ chain' \in Seq(Event) /\ Len(chain') = Len(chain) + 1
      /\ sold' \in Seq(Nat) /\ Len(sold') = Len(chain')
      /\ chain'[Len(chain) + 1] = e
      /\ \A p \in DOMAIN chain : chain'[p] = chain[p]
      /\ DOMAIN chain' = DOMAIN chain \union {Len(chain) + 1}
  BY <1>1, <1>2 DEF ChainTypes
<1>4. ChainTypes' /\ ChainGrows /\ KickedTrue'
  BY <1>2, <1>3 DEF ChainTypes, ChainGrows, KickedTrue
<1>5. ASSUME NEW p \in DOMAIN chain'
      PROVE  EventTrue(chain[p])'
  BY <1>2, <1>3 DEF ChainTrue, EventTrue, TxOps
<1>6. \A p, q \in DOMAIN chain' : chain'[p].tx = chain'[q].tx /\ chain'[p].tx # 0 => p = q
  BY <1>3 DEF ChainTrue
<1>7. ASSUME NEW t \in DOMAIN txs
      PROVE  /\ txs[t].state # "pending" => \E p \in DOMAIN chain' : chain'[p].tx = t
             /\ txs[t].at <= Len(chain')
  <2>1. txs[t] \in Transaction /\ Len(chain) \in Nat
    BY DEF ChainTypes
  <2>2. txs[t].at \in Nat
    BY <2>1 DEF Transaction
  <2>3. txs[t].at <= Len(chain')
    BY <2>1, <2>2, <1>3 DEF ChainTrue
  <2>4. txs[t].state # "pending" => \E p \in DOMAIN chain' : chain'[p].tx = t
    BY <1>3 DEF ChainTrue
  <2> QED BY <2>3, <2>4
<1>8. ChainTrue'
  BY <1>2, <1>5, <1>6, <1>7 DEF ChainTrue
<1> QED BY <1>4, <1>8 DEF ChainKept

LEMMA LotKeepsChain ==
    ASSUME ChainTypes, ChainTrue, KickedTrue, Take \/ Expire \/ Donate
    PROVE  ChainKept
<1>1. UNCHANGED <<txs, chain, kicked>>
  BY DEF Take, Expire, Donate
<1>2. ChainTrue' /\ ChainGrows /\ KickedTrue'
  BY <1>1 DEF ChainTrue, ChainGrows, KickedTrue, EventTrue, KickPositions, OpenSince, ClosesOnChain
<1>3. CASE Take
  <2>1. sold' = [sold EXCEPT ![LastKick] = @ + 1] /\ balance' = balance - 1 /\ balance > 0
    BY <1>3 DEF Take
  <2>2. sold' \in Seq(Nat) /\ Len(sold') = Len(sold)
    <3>1. sold \in Seq(Nat)
      BY DEF ChainTypes
    <3>2. CASE LastKick \in DOMAIN sold
      BY <3>1, <3>2, <2>1
    <3>3. CASE LastKick \notin DOMAIN sold
      <4>1. sold' = sold
        BY <3>1, <3>3, <2>1
      <4> QED BY <3>1, <4>1
    <3> QED BY <3>2, <3>3
  <2> QED BY <1>1, <1>2, <1>3, <2>1, <2>2 DEF ChainKept, ChainTypes, Take
<1>4. CASE Expire
  BY <1>2, <1>4 DEF ChainKept, ChainTypes, Expire
<1>5. CASE Donate
  BY <1>2, <1>5 DEF ChainKept, ChainTypes, Donate
<1> QED BY <1>3, <1>4, <1>5

LEMMA OnChainKeepsChain ==
    ASSUME ChainTypes, ChainTrue, KickedTrue, OnChain
    PROVE  ChainKept /\ UNCHANGED <<rows, job>>
<1>1. ChainKept
  BY SendTxKeepsChain, MineKeepsChain, SettleKeepsChain, LotKeepsChain DEF OnChain
<1>2. UNCHANGED <<rows, job>>
  BY DEF OnChain, SendTx, MineReverted, MineKick, MineResolve, MineSweep, SettleDirectly,
         Take, Expire, Donate
<1> QED BY <1>1, <1>2

----------------------------------------------------------------------------
(* Rows and the links between them.                                        *)

\* Ids are unique, so one of several kicks is the latest: LatestOf names a kick.
LEMMA LatestOfIsKick ==
    ASSUME ChainTypes, RowsTrue, NEW kicks \in SUBSET rows, \A k \in kicks : k.op = "kick"
    PROVE  LinkTrue(LatestOf(kicks))
<1>1. CASE kicks = {}
  BY <1>1 DEF LatestOf, LinkTrue
<1>2. CASE kicks # {}
  <2> DEFINE n == Len(chain)
             Places == {k.pos + 1 : k \in kicks}
             Last(k) == \A j \in kicks : k.pos > j.pos \/ (k.pos = j.pos /\ k.id >= j.id)
  <2>1. /\ n \in Nat /\ DOMAIN chain = 1 .. n
        /\ Cardinality(rows) \in Nat
    BY FS_CardinalityType DEF ChainTypes, RowsTrue, RowsKeyed
  <2>2. \A k \in kicks : k.pos \in 0 .. n /\ k.id \in 1 .. Cardinality(rows)
    BY <2>1 DEF RowsTrue, RowsKeyed, RowTrue, PlaceTrue, NoPos
  <2>3. Places \in SUBSET (1 .. n + 1) /\ Places # {}
    BY <1>2, <2>1, <2>2
  <2>4. PICK last \in Places : \A x \in Places : x <= last
    <3>1. n + 1 \in Nat
      BY <2>1
    <3> HIDE DEF Places
    <3> QED BY <2>3, <3>1, LastOf
  <2> DEFINE Ids == {k.id : k \in {j \in kicks : j.pos + 1 = last}}
  <2>5. Ids \in SUBSET (1 .. Cardinality(rows)) /\ Ids # {}
    BY <2>2, <2>4
  <2>6. PICK id \in Ids : \A x \in Ids : x <= id
    BY <2>1, <2>5, LastOf
  <2>7. PICK k \in kicks : k.pos + 1 = last /\ k.id = id
    BY <2>6
  <2>8. Last(k)
    <3> SUFFICES ASSUME NEW j \in kicks
                 PROVE  k.pos > j.pos \/ (k.pos = j.pos /\ k.id >= j.id)
      OBVIOUS
    <3>1. j.pos + 1 <= k.pos + 1 /\ j.pos \in Nat /\ k.pos \in Nat /\ j.id \in Nat /\ k.id \in Nat
      BY <2>1, <2>2, <2>4, <2>7
    <3>2. j.pos = k.pos => j.id <= k.id
      BY <2>6, <2>7
    <3> QED BY <3>1, <3>2
  <2>9. PICK m \in kicks : LatestOf(kicks) = m.id
    <3> HIDE DEF Last
    <3>1. (CHOOSE m \in kicks : Last(m)) \in kicks
      BY <2>8
    <3> USE DEF Last
    <3> QED BY <1>2, <3>1 DEF LatestOf
  <2> QED BY <2>9 DEF LinkTrue, KickIds
<1> QED BY <1>1, <1>2

\* latest_confirmed_unclosed_kick, before a position or over all, names a kick.
LEMMA LatestUnclosedIsKick ==
    ASSUME ChainTypes, RowsTrue
    PROVE  /\ LinkTrue(LatestUnclosed(rows))
           /\ \A pos : LinkTrue(LatestUnclosedBefore(rows, pos))
BY LatestOfIsKick DEF LatestUnclosed, LatestUnclosedBefore, UnclosedKicks

\* Changing rows without changing their ids keeps the table's keys.
LEMMA RowsMapped ==
    ASSUME RowsKeyed, NEW f, rows' = {f[r] : r \in rows},
           \A r \in rows : f[r] \in Row /\ f[r].id = r.id /\ f[r].tx = r.tx
    PROVE  RowsKeyed'
<1> DEFINE g == [r \in rows |-> f[r]]
<1>1. g \in Bijection(rows, rows')
  <2>1. g \in Injection(rows, rows')
    BY DEF Injection, RowsKeyed, IsInjective
  <2>2. g \in Surjection(rows, rows')
    BY DEF Surjection
  <2> QED BY <2>1, <2>2 DEF Bijection
<1>2. IsFiniteSet(rows') /\ Cardinality(rows') = Cardinality(rows)
  BY <1>1, FS_Bijection DEF RowsKeyed, ExistsBijection
<1>3. \A r \in rows' : r \in Row /\ r.id \in 1 .. Cardinality(rows')
  BY <1>2 DEF RowsKeyed
<1>4. \A r, s \in rows' : r.id = s.id => r = s
  BY DEF RowsKeyed
<1>5. \A r, s \in rows' : r.tx = s.tx /\ r.tx # 0 => r = s
  BY DEF RowsKeyed
<1> QED BY <1>2, <1>3, <1>4, <1>5 DEF RowsKeyed

\* So does a new row with the next id, for a transaction without one.
LEMMA RowAdded ==
    ASSUME RowsKeyed, NEW new \in Row, new.id = NewId, rows' = rows \union {new},
           new.tx = 0 \/ RowOf(new.tx) = {}
    PROVE  RowsKeyed'
<1>1. Cardinality(rows) \in Nat
  BY FS_CardinalityType DEF RowsKeyed
<1>2. new \notin rows
  BY <1>1 DEF RowsKeyed, NewId
<1>3. IsFiniteSet(rows') /\ Cardinality(rows') = Cardinality(rows) + 1
  BY <1>2, FS_AddElement DEF RowsKeyed
<1>4. \A r \in rows' : r \in Row /\ r.id \in 1 .. Cardinality(rows')
  BY <1>1, <1>3 DEF RowsKeyed, NewId
<1>5. \A r \in rows : r.id # new.id
  BY <1>1 DEF RowsKeyed, NewId
<1>6. \A r \in rows : r.tx = new.tx => r.tx = 0
  BY DEF RowOf
<1>7. \A r, s \in rows' : r.id = s.id => r = s
  BY <1>5 DEF RowsKeyed
<1>8. \A r, s \in rows' : r.tx = s.tx /\ r.tx # 0 => r = s
  BY <1>6 DEF RowsKeyed
<1> QED BY <1>3, <1>4, <1>7, <1>8 DEF RowsKeyed

----------------------------------------------------------------------------
(* Steps that write rows: a row keeps its id, its transaction and its      *)
(* operation, and a closed round stays closed.                             *)

RowsGrow ==
    \A r \in rows : \E s \in rows' :
        /\ s.id = r.id /\ s.tx = r.tx /\ s.op = r.op
        /\ ClosedRound(r) => ClosedRound(s)'

\* What was read of the ledger stays true while it grows.
LEMMA LinkStays ==
    ASSUME RowsGrow, NEW link, LinkTrue(link)
    PROVE  LinkTrue(link)'
<1>1. \A id \in KickIds : id \in KickIds'
  BY DEF RowsGrow, KickIds
<1> QED BY <1>1 DEF LinkTrue

LEMMA JobStays ==
    ASSUME RowsGrow, UNCHANGED chainVars, RowsKeyed, NEW j, JobTrue(j)
    PROVE  JobTrue(j)'
<1>1. j.kind = "finalise" => FinaliseTrue(j.row)'
  <2>1. SUFFICES ASSUME FinaliseTrue(j.row)  PROVE FinaliseTrue(j.row)'
    BY DEF JobTrue
  <2>2. \E r \in rows' : r.id = j.row.id /\ r.tx = j.row.tx
    BY <2>1 DEF FinaliseTrue, RowsGrow
  <2> QED BY <2>1, <2>2, LinkStays DEF FinaliseTrue, chainVars, Fate, PlaceTrue
<1>2. j.kind = "links" => \A id \in DOMAIN j.links : LinkTrue(j.links[id])' /\ RecoveryId(id)'
  <2>1. \A id : RecoveryId(id) => RecoveryId(id)'
    BY DEF RecoveryId, RowsGrow
  <2> QED BY <2>1, LinkStays DEF JobTrue
<1>3. j.kind = "settlement" => /\ j.pos \in DOMAIN chain' /\ chain'[j.pos].op = "settled"
                               /\ LinkTrue(j.kick)'
  BY LinkStays DEF JobTrue, chainVars
<1>4. j.kind = "clear" => \E k \in rows' : k.id = j.kick /\ k.op = "kick" /\ ClosedRound(k)'
  BY DEF JobTrue, RowsGrow
<1> QED BY <1>1, <1>2, <1>3, <1>4 DEF JobTrue

\* What a step may do to a row.
RowKept(r, s) ==
    /\ s \in Row
    /\ s.id = r.id /\ s.tx = r.tx /\ s.op = r.op /\ s.created = r.created
    /\ PlaceTrue(s) /\ LinkTrue(s.link)
    /\ r.op = "settled" => s.status = r.status /\ s.pos = r.pos /\ s.amt = r.amt
    /\ r.op # "settled" => Fate(s)
    /\ ClosedRound(r) => ClosedRound(s)
    /\ s.base # "no" => r.op = "kick"
    /\ s.base = "cleared" => ClosedRound(s)

LEMMA WriteKeepsRows ==
    ASSUME RowsTrue, UNCHANGED chainVars, NEW f, rows' = {f[r] : r \in rows},
           \A r \in rows : RowKept(r, f[r])
    PROVE  RowsTrue' /\ RowsGrow
<1>1. \A r \in rows : f[r] \in Row /\ f[r].id = r.id /\ f[r].tx = r.tx
  BY DEF RowKept
<1>2. RowsKeyed'
  BY <1>1, RowsMapped DEF RowsTrue
<1>3. RowsGrow
  <2> SUFFICES ASSUME NEW r \in rows
               PROVE  \E s \in rows' : /\ s.id = r.id /\ s.tx = r.tx /\ s.op = r.op
                                       /\ ClosedRound(r) => ClosedRound(s)'
    BY DEF RowsGrow
  <2>1. PICK s \in rows' : s = f[r]
    OBVIOUS
  <2>2. RowKept(r, s)
    BY <2>1
  <2> QED BY <2>2 DEF RowKept, ClosedRound, ClosesOnChain, chainVars
<1>4. ASSUME NEW s \in rows'
      PROVE  RowTrue(s)'
  <2>1. PICK r \in rows : s = f[r]
    OBVIOUS
  <2>2. RowKept(r, s) /\ RowTrue(r)
    BY <2>1 DEF RowsTrue
  <2>3. LinkTrue(s.link)'
    BY <2>2, <1>3, LinkStays DEF RowKept
  <2> QED BY <2>2, <2>3
          DEF RowKept, RowTrue, chainVars, PlaceTrue, Fate, SentAt, BlockTime, ClosedRound, ClosesOnChain
<1> QED BY <1>2, <1>3, <1>4 DEF RowsTrue

LEMMA InsertKeepsRows ==
    ASSUME RowsTrue, UNCHANGED chainVars, NEW new, rows' = rows \union {new}, new \in Row,
           new.id = NewId, new.tx = 0 \/ RowOf(new.tx) = {}, RowTrue(new)
    PROVE  RowsTrue' /\ RowsGrow
<1>1. RowsKeyed'
  BY RowAdded DEF RowsTrue
<1>2. RowsGrow
  <2> SUFFICES ASSUME NEW r \in rows
               PROVE  \E s \in rows' : /\ s.id = r.id /\ s.tx = r.tx /\ s.op = r.op
                                       /\ ClosedRound(r) => ClosedRound(s)'
    BY DEF RowsGrow
  <2>1. r \in rows' /\ (ClosedRound(r) => ClosedRound(r)')
    BY DEF ClosedRound, ClosesOnChain, chainVars
  <2> QED BY <2>1
<1>3. ASSUME NEW s \in rows'
      PROVE  RowTrue(s)'
  <2>1. RowTrue(s)
    BY DEF RowsTrue
  <2>2. LinkTrue(s.link)'
    BY <2>1, <1>2, LinkStays DEF RowTrue
  <2> QED BY <2>1, <2>2
          DEF RowTrue, chainVars, PlaceTrue, Fate, SentAt, BlockTime, ClosedRound, ClosesOnChain
<1> QED BY <1>1, <1>2, <1>3 DEF RowsTrue

LEMMA JobDone ==
    ASSUME JobsTrue, RowsKeyed, RowsGrow, UNCHANGED chainVars,
           NEW w, job' = [job EXCEPT ![w] = NoJob] \/ UNCHANGED job
    PROVE  JobsTrue'
<1>1. JobTrue(NoJob)'
  BY DEF JobTrue, NoJob
<1>2. ASSUME NEW v \in Workers
      PROVE  JobTrue(job[v])'
  <2>1. PICK j : j = job[v] /\ JobTrue(j)
    BY DEF JobsTrue
  <2>2. JobTrue(j)'
    BY <2>1, JobStays
  <2>3. job'[v] \in {NoJob, j}
    BY <2>1 DEF JobsTrue
  <2> QED BY <1>1, <2>2, <2>3
<1>3. DOMAIN job' = Workers
  BY DEF JobsTrue
<1> QED BY <1>2, <1>3 DEF JobsTrue, Workers

----------------------------------------------------------------------------
(* finalize_receipt and the rebuilding of links.                           *)

LEMMA PositionIsItsEvent ==
    ASSUME ChainTrue, NEW t \in DOMAIN txs, txs[t].state # "pending"
    PROVE  PositionOf(t) \in DOMAIN chain /\ chain[PositionOf(t)].tx = t
BY DEF ChainTrue, PositionOf

\* The columns finalize_receipt computes for a row are true of its transaction.
LEMMA FinalisedIsTrue ==
    ASSUME ChainTypes, ChainTrue, RowsTrue, NEW r \in rows, r.tx # 0,
           txs[r.tx].state # "pending"
    PROVE  FinaliseTrue(Finalised(r, PositionOf(r.tx)))
<1> DEFINE p == PositionOf(r.tx)
           e == chain[p]
<1>1. r \in Row /\ RowTrue(r) /\ r.tx \in DOMAIN txs
  BY DEF RowsTrue, RowsKeyed, RowTrue
<1>2. p \in DOMAIN chain /\ p \in Nat /\ e.tx = r.tx /\ r.tx # 0
  BY <1>1, PositionIsItsEvent DEF ChainTypes
<1>3. e \in Event /\ EventTrue(e)
  BY <1>2 DEF ChainTypes, ChainTrue
<1> HIDE DEF p
<1>4. CASE e.op = "reverted"
  <2>1. Finalised(r, p) = [r EXCEPT !.status = "REVERTED", !.pos = p]
    BY <1>4 DEF Finalised
  <2> DEFINE new == Finalised(r, p)
  <2>2. /\ new \in Row /\ new.status = "REVERTED" /\ new.pos = p /\ new.link = r.link
        /\ new.id = r.id /\ new.tx = r.tx
    BY <2>1, <1>1, <1>2 DEF Row
  <2> HIDE DEF new
  <2>3. txs[r.tx].state = "reverted"
    BY <1>2, <1>3, <1>4 DEF EventTrue
  <2>4. FinaliseTrue(new)
    BY <2>2, <2>3, <1>1, <1>2 DEF FinaliseTrue, Fate, PlaceTrue, RowTrue
  <2> QED BY <2>4 DEF new, p
<1>5. CASE e.op # "reverted"
  <2>1. PICK link, req : /\ LinkTrue(link) /\ req \in Int
                         /\ r.op = "kick" => req = e.req /\ link = NoLink
                         /\ Finalised(r, p) =
                              [r EXCEPT !.status = "CONFIRMED", !.pos = p, !.path = e.path,
                                        !.amt = e.amt, !.req = req, !.link = link]
    <3> DEFINE l == IF r.op = "kick" \/ e.path = 0 THEN NoLink ELSE RoundKickId(r, p)
               q == IF r.op = "kick" THEN e.req ELSE r.req
    <3>1. LinkTrue(l)
      BY <1>1, LatestUnclosedIsKick DEF RoundKickId, RowTrue, LinkTrue
    <3>2. q \in Int
      BY <1>1, <1>3 DEF Row, Event
    <3>3. Finalised(r, p) = [r EXCEPT !.status = "CONFIRMED", !.pos = p, !.path = e.path,
                                      !.amt = e.amt, !.req = q, !.link = l]
      BY <1>5 DEF Finalised
    <3>4. r.op = "kick" => q = e.req /\ l = NoLink
      OBVIOUS
    <3> HIDE DEF l, q
    <3> WITNESS l, q
    <3> QED BY ONLY <3>1, <3>2, <3>3, <3>4
  <2>2. link \in Nat
    <3>1. \A k \in rows : k.id \in Nat
      BY DEF RowsTrue, RowsKeyed, Row
    <3> QED BY <2>1, <3>1 DEF LinkTrue, KickIds, NoLink
  <2>3. e.op \in TxOps
    BY <1>1, <1>2, <1>3, <1>5 DEF Event, EventTrue, RowTrue
  <2>4. txs[r.tx].state = "ok"
    BY <2>3, <1>2, <1>3 DEF EventTrue
  <2> DEFINE new == Finalised(r, p)
  <2>5. new \in Row
    <3>1. e.path \in Paths /\ e.amt \in Int /\ p \in Nat /\ r \in Row /\ req \in Int /\ link \in Nat
      BY <2>1, <2>2, <1>1, <1>2, <1>3 DEF Event
    <3>2. [r EXCEPT !.status = "CONFIRMED", !.pos = p, !.path = e.path,
                    !.amt = e.amt, !.req = req, !.link = link] \in Row
      BY ONLY <3>1 DEF Row
    <3> HIDE DEF Row
    <3> QED BY <2>1, <3>2
  <2>6. /\ new.status = "CONFIRMED" /\ new.pos = p /\ new.path = e.path /\ new.link = link
        /\ new.id = r.id /\ new.tx = r.tx /\ new.amt = e.amt /\ new.req = req
    BY <2>1, <1>1 DEF Row
  <2> HIDE DEF new
  <2>7. FinaliseTrue(new)
    <3>1. txs[r.tx].op = "kick" => new.req = e.req /\ new.link = NoLink
      <4>1. r.tx # 0 /\ (r.op = "settled" => r.tx = 0)
        BY <1>1, <1>2 DEF RowTrue
      <4> QED BY <2>1, <2>6, <4>1, <1>1 DEF RowTrue
    <3> QED BY <3>1, <2>1, <2>4, <2>5, <2>6, <1>1, <1>2 DEF FinaliseTrue, Fate, PlaceTrue
  <2> QED BY <2>7 DEF new, p
<1> QED BY <1>4, <1>5

\* rebuild_round_links links every recovery to a kick, or to none.
LEMMA RebuiltLinksAreTrue ==
    ASSUME ChainTypes, RowsTrue, NEW id \in DOMAIN RebuiltLinks
    PROVE  LinkTrue(RebuiltLinks[id]) /\ RecoveryId(id)
<1>1. \A r : LinkTrue(OpenKickAt(r))
  <2> TAKE r
  <2> DEFINE open == {k \in Placed : /\ k.op = "kick" /\ k.pos < r.pos
                                     /\ \A c \in Placed : ClosesRound(c) =>
                                                            ~(k.pos < c.pos /\ c.pos < r.pos)}
  <2>1. open \in SUBSET rows /\ \A k \in open : k.op = "kick"
    BY DEF Placed
  <2>2. OpenKickAt(r) = LatestOf(open)
    BY DEF OpenKickAt
  <2> HIDE DEF open
  <2> QED BY <2>1, <2>2, LatestOfIsKick
<1>2. LinkTrue(NoLink)
  BY DEF LinkTrue
<1>3. \E r : RebuiltLinks[id] \in {NoLink, OpenKickAt(r)}
  <2> DEFINE r == CHOOSE q \in Placed : q.id = id
  <2>1. RebuiltLinks[id] = IF r.op = "resolve" /\ r.path = 0 THEN NoLink ELSE OpenKickAt(r)
    BY DEF RebuiltLinks
  <2> QED BY <2>1
<1>4. RecoveryId(id)
  BY DEF RebuiltLinks, Placed, RecoveryId
<1> QED BY <1>1, <1>2, <1>3, <1>4

\* A verdict that a round ended rests on a close that is on the chain.
LEMMA VerdictCloses ==
    ASSUME ChainTypes, ChainTrue, RowsTrue, NEW k \in Kicks(rows),
           Outcome(k, rows) \in {"NO_FILL", "PRODUCTIVE"}
    PROVE  ClosedRound(k)
<1>1. ~AwaitingReceipt(k, rows) /\ ~Unprovable(k, rows) /\ Closes(k, rows) # {}
  BY DEF Outcome, ClassifyRound
<1>2. k.status = "CONFIRMED"
  BY <1>1 DEF AwaitingReceipt, Kicks
<1>3. PICK c \in rows : c.status = "CONFIRMED" /\ ClosesRound(c) /\ c \in Confirmed(k, rows)
  BY <1>1 DEF Closes, Confirmed, Linked
<1>4. ~(c.pos <= k.pos)
  BY <1>1, <1>3 DEF Unprovable
<1>5. c.pos \in Int /\ k.pos \in Int
  BY <1>3 DEF RowsTrue, RowsKeyed, Row, Kicks
<1>6. RowTrue(c) /\ c \in Row
  BY DEF RowsTrue, RowsKeyed
<1>7. c.pos \in DOMAIN chain /\ ClosesOnChain(c.pos)
  <2>1. CASE c.op = "settled"
    BY <2>1, <1>6 DEF RowTrue, ClosesOnChain
  <2>2. CASE c.op = "resolve" /\ c.path \in ClosingPaths
    <3> DEFINE e == chain[c.pos]
    <3>1. /\ c.tx \in DOMAIN txs /\ txs[c.tx].op = "resolve" /\ txs[c.tx].state = "ok"
          /\ c.pos \in DOMAIN chain /\ e.tx = c.tx /\ e.path = c.path
      BY <2>2, <1>3, <1>6 DEF RowTrue, Fate
    <3>2. e \in Event /\ EventTrue(e) /\ c.tx # 0
      BY <3>1 DEF ChainTypes, ChainTrue
    <3>3. e.op = "resolve"
      BY <3>1, <3>2 DEF Event, EventTrue, TxOps
    <3> QED BY <3>1, <3>3, <2>2 DEF ClosesOnChain
  <2> QED BY <2>1, <2>2, <1>3 DEF ClosesRound
<1>8. c.pos > k.pos
  BY <1>4, <1>5
<1> QED BY <1>2, <1>7, <1>8 DEF ClosedRound

----------------------------------------------------------------------------
(* Steps of the ledger, one lemma for those that read and one for each     *)
(* that writes.                                                            *)

LEMMA JobStarted ==
    ASSUME RowsTrue, JobsTrue, UNCHANGED <<chainVars, rows>>,
           NEW w, NEW j, JobTrue(j), job' = [job EXCEPT ![w] = j] \/ UNCHANGED job
    PROVE  RowsTrue' /\ JobsTrue'
<1>1. ChainGrows
  BY DEF ChainGrows, chainVars
<1>2. RowsTrue'
  BY <1>1, ChainGrowsKeepsRows
<1>3. RowsGrow
  BY DEF RowsGrow, ClosedRound, ClosesOnChain, chainVars
<1>4. RowsKeyed
  BY DEF RowsTrue
<1>5. JobTrue(j)'
  BY <1>3, <1>4, JobStays
<1>6. ASSUME NEW v \in Workers
      PROVE  JobTrue(job[v])'
  <2>1. PICK i : i = job[v] /\ JobTrue(i)
    BY DEF JobsTrue
  <2>2. JobTrue(i)'
    BY <2>1, <1>3, <1>4, JobStays
  <2>3. job'[v] \in {i, j}
    BY <2>1 DEF JobsTrue
  <2> QED BY <1>5, <2>2, <2>3
<1>7. DOMAIN job' = Workers
  BY DEF JobsTrue
<1> QED BY <1>2, <1>6, <1>7 DEF JobsTrue, Workers

LEMMA ReadsKeepLedger ==
    ASSUME ChainTypes, ChainTrue, RowsTrue, JobsTrue,
           \/ \E f \in Finalisers, t \in DOMAIN txs : Finalise(f, t)
           \/ \E s \in Scanners \union {Admin} : \/ ReplayReceipt(s) \/ ReadLinks(s)
                                                 \/ ReadSettlement(s)
           \/ \E s \in Scanners : StartRepair(s)
           \/ \E w \in Workers : Abandon(w)
           \/ StartClear \/ StartApply
    PROVE  RowsTrue' /\ JobsTrue' /\ UNCHANGED chainVars
<1>1. UNCHANGED <<chainVars, rows>>
  BY DEF Finalise, ReplayReceipt, ReadLinks, ReadSettlement, StartRepair, Abandon,
         StartClear, StartApply
<1>2. \E w, j : JobTrue(j) /\ (job' = [job EXCEPT ![w] = j] \/ UNCHANGED job)
  <2>0. JobTrue(NoJob)
    BY DEF JobTrue, NoJob
  <2>1. ASSUME NEW w, NEW r \in rows, StartFinalise(w, r)
        PROVE  \E v, j : JobTrue(j) /\ job' = [job EXCEPT ![v] = j]
    <3> DEFINE j == [kind |-> "finalise", row |-> Finalised(r, PositionOf(r.tx))]
    <3>1. FinaliseTrue(j.row)
      BY <2>1, FinalisedIsTrue DEF StartFinalise
    <3>2. job' = [job EXCEPT ![w] = j]
      BY <2>1 DEF StartFinalise
    <3>3. JobTrue(j)
      <4>1. j.kind = "finalise"
        OBVIOUS
      <4> HIDE DEF j
      <4> QED BY <3>1, <4>1 DEF JobTrue
    <3> QED BY <3>2, <3>3
  <2>2. CASE \E f \in Finalisers, t \in DOMAIN txs : Finalise(f, t)
    BY <2>1, <2>2 DEF Finalise, RowOf
  <2>3. ASSUME NEW s \in Scanners \union {Admin}, ReplayReceipt(s)
        PROVE  \E w, j : JobTrue(j) /\ job' = [job EXCEPT ![w] = j]
    BY <2>1, <2>3 DEF ReplayReceipt
  <2>4. ASSUME NEW s \in Scanners \union {Admin}, ReadLinks(s)
        PROVE  \E w, j : JobTrue(j) /\ job' = [job EXCEPT ![w] = j]
    <3> DEFINE j == [kind |-> "links", links |-> RebuiltLinks]
    <3>1. job' = [job EXCEPT ![s] = j]
      BY <2>4 DEF ReadLinks
    <3>2. JobTrue(j)
      BY RebuiltLinksAreTrue DEF JobTrue
    <3> QED BY <3>1, <3>2
  <2>5. ASSUME NEW s \in Scanners \union {Admin}, ReadSettlement(s)
        PROVE  \E w, j : JobTrue(j) /\ job' = [job EXCEPT ![w] = j]
    <3>1. PICK p \in DOMAIN chain :
            /\ chain[p].op = "settled"
            /\ job' = [job EXCEPT ![s] = [kind |-> "settlement", pos |-> p,
                                          kick |-> LatestUnclosedBefore(rows, p)]]
      BY <2>5 DEF ReadSettlement
    <3> DEFINE j == [kind |-> "settlement", pos |-> p, kick |-> LatestUnclosedBefore(rows, p)]
    <3>2. JobTrue(j)
      BY <3>1, LatestUnclosedIsKick DEF JobTrue
    <3> QED BY <3>1, <3>2
  <2>6. CASE StartClear
    <3>1. PICK k \in ClearableNoFill(rows) :
            job' = [job EXCEPT ![Admin] = [kind |-> "clear", kick |-> k.id]]
      BY <2>6 DEF StartClear
    <3> DEFINE j == [kind |-> "clear", kick |-> k.id]
    <3>2. k \in rows /\ k.op = "kick" /\ ClosedRound(k)
      BY VerdictCloses DEF ClearableNoFill, Current, Kicks
    <3>3. JobTrue(j)
      BY <3>2 DEF JobTrue
    <3> QED BY <3>1, <3>3
  <2>7. CASE (\E s \in Scanners : StartRepair(s)) \/ StartApply
    BY <2>0, <2>7 DEF StartRepair, StartApply
  <2>8. CASE \E w \in Workers : Abandon(w)
    BY <2>0, <2>8 DEF Abandon
  <2> QED BY <2>2, <2>3, <2>4, <2>5, <2>6, <2>7, <2>8
<1> QED BY <1>1, <1>2, JobStarted

\* A row is left as it is.
LEMMA SameRow ==
    ASSUME RowsTrue, NEW r \in rows
    PROVE  RowKept(r, r)
BY DEF RowsTrue, RowsKeyed, RowTrue, RowKept

LEMMA RecordKeepsLedger ==
    ASSUME ChainTypes, RowsTrue, JobsTrue, NEW t \in DOMAIN txs, RecordTx(t)
    PROVE  RowsTrue' /\ JobsTrue' /\ UNCHANGED chainVars
<1> DEFINE new == [id |-> NewId, op |-> txs[t].op, tx |-> t, status |-> "SUBMITTED", pos |-> NoPos,
                   path |-> NoPath, req |-> IF txs[t].op = "kick" THEN Amount ELSE NoAmount,
                   amt |-> NoAmount,
                   link |-> IF txs[t].op = "kick" THEN NoLink ELSE LatestUnclosed(rows),
                   created |-> SentAt(t), base |-> "no"]
<1>1. RowOf(t) = {} /\ rows' = rows \union {new} /\ UNCHANGED <<chainVars, job>>
  BY DEF RecordTx
<1>2. t \in Nat /\ txs[t] \in Transaction
  BY DEF ChainTypes
<1>3. NewId \in Nat
  BY FS_CardinalityType DEF NewId, RowsTrue, RowsKeyed
<1>4. SentAt(t) \in Nat
  <2>1. txs[t].at \in Nat /\ MaxTx \in Nat
    BY <1>2, BoundsAssumption DEF Transaction
  <2> QED BY <2>1, <1>2 DEF SentAt, BlockTime
<1>5. LinkTrue(new.link)
  BY LatestUnclosedIsKick DEF LinkTrue
<1>6. new.link \in Nat
  <2>1. \A k \in rows : k.id \in Nat
    BY DEF RowsTrue, RowsKeyed, Row
  <2> QED BY <1>5, <2>1 DEF LinkTrue, KickIds, NoLink
<1>7. new \in Row
  BY <1>2, <1>3, <1>4, <1>6, BoundsAssumption
     DEF Row, Transaction, TxOps, Paths, NoPath, NoPos, NoAmount
<1>8. RowTrue(new)
  <2>1. new.op \in TxOps
    BY <1>2 DEF Transaction
  <2> QED BY <2>1, <1>2, <1>5 DEF RowTrue, PlaceTrue, Fate, TxOps
<1> HIDE DEF new
<1>9. new.id = NewId /\ new.tx = t
  BY DEF new
<1>10. RowsTrue' /\ RowsGrow
  BY <1>1, <1>7, <1>8, <1>9, InsertKeepsRows
<1> QED BY <1>1, <1>10, JobDone DEF RowsTrue

LEMMA WriteFinalisedKeepsLedger ==
    ASSUME ChainTypes, ChainTrue, RowsTrue, JobsTrue, NEW w \in Workers, WriteFinalised(w)
    PROVE  RowsTrue' /\ JobsTrue' /\ UNCHANGED chainVars
<1> DEFINE new == job[w].row
<1>1. FinaliseTrue(new)
  BY DEF WriteFinalised, JobsTrue, JobTrue
<1> DEFINE Write(r) == [r EXCEPT !.status = new.status, !.pos = new.pos, !.path = new.path,
                                 !.req = new.req, !.amt = new.amt,
                                 !.link = IF new.status = "REVERTED" THEN @ ELSE new.link]
           f == [r \in rows |-> IF r.id = new.id THEN Write(r) ELSE r]
<1>2. /\ rows' = {f[r] : r \in rows}
      /\ job' = [job EXCEPT ![w] = NoJob] /\ UNCHANGED chainVars
  <2>1. /\ rows' = {IF r.id = new.id THEN Write(r) ELSE r : r \in rows}
        /\ job' = [job EXCEPT ![w] = NoJob] /\ UNCHANGED chainVars
    BY DEF WriteFinalised
  <2> HIDE DEF new
  <2>2. \A r \in rows : f[r] = IF r.id = new.id THEN Write(r) ELSE r
    OBVIOUS
  <2> QED BY ONLY <2>1, <2>2
<1> HIDE DEF new
<1>3. ASSUME NEW r \in rows, r.id = new.id
      PROVE  RowKept(r, Write(r))
  <2>1. r \in Row /\ RowTrue(r) /\ new \in Row
    BY <1>1 DEF RowsTrue, RowsKeyed, FinaliseTrue
  <2>2. r.tx = new.tx
    BY <1>1, <1>3 DEF FinaliseTrue, RowsTrue, RowsKeyed
  <2>3. r.tx # 0 /\ r.op # "settled"
    BY <1>1, <2>1, <2>2 DEF FinaliseTrue, ChainTypes, RowTrue
  <2>4. PICK s : s = Write(r)
    OBVIOUS
  <2>5. /\ s \in Row
        /\ s.id = r.id /\ s.tx = r.tx /\ s.op = r.op /\ s.created = r.created /\ s.base = r.base
        /\ s.status = new.status /\ s.pos = new.pos /\ s.path = new.path
        /\ s.amt = new.amt /\ s.req = new.req
        /\ s.link \in {r.link, new.link}
    BY <2>1, <2>4 DEF Row
  <2>6. PlaceTrue(s) /\ LinkTrue(s.link) /\ Fate(s)
    <3>1. PlaceTrue(s) /\ LinkTrue(s.link)
      BY <1>1, <2>1, <2>2, <2>5 DEF FinaliseTrue, PlaceTrue, RowTrue
    <3>2. Fate(new) /\ Fate(r)
      BY <1>1, <2>1, <2>3 DEF FinaliseTrue, RowTrue
    <3>3. txs[s.tx].op = "kick" => s.link = NoLink
      BY <3>2, <2>2, <2>5 DEF Fate
    <3> QED BY <3>1, <3>2, <3>3, <2>2, <2>5 DEF Fate
  <2>7. ASSUME ClosedRound(r)
        PROVE  ClosedRound(s)
    <3>1. Fate(r) /\ r.status = "CONFIRMED"
      BY <2>1, <2>3, <2>7 DEF RowTrue, ClosedRound
    <3>2. s.status = "CONFIRMED"
      BY <1>1, <3>1, <2>2, <2>5 DEF FinaliseTrue, Fate
    <3>3. s.pos = r.pos
      BY <3>1, <3>2, <2>3, <2>5, <2>6 DEF Fate, ChainTrue
    <3> QED BY <2>7, <3>2, <3>3 DEF ClosedRound
  <2>8. RowKept(r, s)
    BY <2>1, <2>3, <2>5, <2>6, <2>7 DEF RowKept, RowTrue
  <2> QED BY <2>4, <2>8
<1>4. \A r \in rows : RowKept(r, f[r])
  BY <1>3, SameRow
<1> HIDE DEF f
<1>5. RowsTrue' /\ RowsGrow
  BY <1>2, <1>4, WriteKeepsRows
<1> QED BY <1>2, <1>5, JobDone DEF RowsTrue

LEMMA WriteLinksKeepsLedger ==
    ASSUME RowsTrue, JobsTrue, NEW s \in Scanners \union {Admin}, WriteLinks(s)
    PROVE  RowsTrue' /\ JobsTrue' /\ UNCHANGED chainVars
<1>1. PICK links : /\ links = job[s].links
                  /\ \A id \in DOMAIN links : LinkTrue(links[id]) /\ RecoveryId(id)
  BY DEF WriteLinks, JobsTrue, JobTrue, Workers
<1> DEFINE f == [r \in rows |-> IF r.id \in DOMAIN links THEN [r EXCEPT !.link = links[r.id]] ELSE r]
<1>2. /\ rows' = {f[r] : r \in rows}
      /\ job' = [job EXCEPT ![s] = NoJob] /\ UNCHANGED chainVars
  BY <1>1 DEF WriteLinks
<1>3. ASSUME NEW r \in rows, r.id \in DOMAIN links
      PROVE  RowKept(r, [r EXCEPT !.link = links[r.id]])
  <2>1. r \in Row /\ RowTrue(r)
    BY DEF RowsTrue, RowsKeyed
  <2>2. LinkTrue(links[r.id])
    BY <1>1, <1>3
  <2>3. links[r.id] \in Nat
    <3>1. \A k \in rows : k.id \in Nat
      BY DEF RowsTrue, RowsKeyed, Row
    <3> QED BY <2>2, <3>1 DEF LinkTrue, KickIds, NoLink
  <2>4. PICK q : q = [r EXCEPT !.link = links[r.id]]
    OBVIOUS
  <2>5. /\ q \in Row /\ q.link = links[r.id]
        /\ q.id = r.id /\ q.tx = r.tx /\ q.op = r.op /\ q.created = r.created /\ q.base = r.base
        /\ q.status = r.status /\ q.pos = r.pos /\ q.path = r.path
        /\ q.amt = r.amt /\ q.req = r.req
    BY <2>1, <2>3, <2>4 DEF Row
  <2>6. r.op # "kick"
    BY <1>1, <1>3 DEF RecoveryId, RowsTrue, RowsKeyed
  <2>7. RowKept(r, q)
    BY <2>1, <2>2, <2>5, <2>6 DEF RowKept, RowTrue, PlaceTrue, Fate, ClosedRound
  <2> QED BY <2>4, <2>7
<1>4. \A r \in rows : RowKept(r, f[r])
  BY <1>3, SameRow
<1> HIDE DEF f
<1>5. RowsTrue' /\ RowsGrow
  BY <1>2, <1>4, WriteKeepsRows
<1> QED BY <1>2, <1>5, JobDone DEF RowsTrue

LEMMA SettlementKeepsLedger ==
    ASSUME ChainTypes, RowsTrue, JobsTrue, NEW s \in Scanners \union {Admin}, InsertSettlement(s)
    PROVE  RowsTrue' /\ JobsTrue' /\ UNCHANGED chainVars
<1>1. PICK pos, kick : /\ pos = job[s].pos /\ kick = job[s].kick
                       /\ pos \in DOMAIN chain /\ chain[pos].op = "settled" /\ LinkTrue(kick)
  BY DEF InsertSettlement, JobsTrue, JobTrue, Workers
<1> DEFINE new == [id |-> NewId, op |-> "settled", tx |-> 0, status |-> "CONFIRMED",
                   pos |-> pos, path |-> NoPath, req |-> NoAmount, amt |-> 0,
                   link |-> kick, created |-> BlockTime(pos), base |-> "no"]
<1>2. /\ rows' = rows \union {new}
      /\ job' = [job EXCEPT ![s] = NoJob] /\ UNCHANGED chainVars
  BY <1>1 DEF InsertSettlement
<1>3. NewId \in Nat
  BY FS_CardinalityType DEF NewId, RowsTrue, RowsKeyed
<1>4. kick \in Nat
  <2>1. \A k \in rows : k.id \in Nat
    BY DEF RowsTrue, RowsKeyed, Row
  <2> QED BY <1>1, <2>1 DEF LinkTrue, KickIds, NoLink
<1>5. pos \in Nat /\ BlockTime(pos) \in Nat
  <2>1. pos \in Nat /\ MaxTx \in Nat
    BY <1>1, BoundsAssumption DEF ChainTypes
  <2> QED BY <2>1 DEF BlockTime
<1>6. new \in Row
  BY <1>3, <1>4, <1>5 DEF Row, TxOps, Paths, NoPath, NoAmount
<1>7. RowTrue(new)
  BY <1>1 DEF RowTrue, PlaceTrue
<1> HIDE DEF new
<1>8. new.id = NewId /\ new.tx = 0
  BY DEF new
<1>9. RowsTrue' /\ RowsGrow
  BY <1>2, <1>6, <1>7, <1>8, InsertKeepsRows
<1> QED BY <1>2, <1>9, JobDone DEF RowsTrue

\* A kick is given a baseline: a cleared one only if its round is closed.
LEMMA BaselineKeepsLedger ==
    ASSUME RowsTrue, JobsTrue, UNCHANGED chainVars,
           job' = [job EXCEPT ![Admin] = NoJob] \/ UNCHANGED job,
           NEW kicks \in SUBSET rows, NEW reason \in {"cleared", "repaired"},
           Baselined(kicks, reason),
           \A k \in kicks : k.op = "kick" /\ (reason = "cleared" => ClosedRound(k))
    PROVE  RowsTrue' /\ JobsTrue' /\ UNCHANGED chainVars
<1> DEFINE f == [r \in rows |-> IF r \in kicks THEN [r EXCEPT !.base = reason] ELSE r]
<1>1. rows' = {f[r] : r \in rows}
  BY DEF Baselined
<1>2. ASSUME NEW r \in kicks
      PROVE  RowKept(r, [r EXCEPT !.base = reason])
  <2>1. r \in Row /\ RowTrue(r)
    BY DEF RowsTrue, RowsKeyed
  <2>2. PICK q : q = [r EXCEPT !.base = reason]
    OBVIOUS
  <2>3. /\ q \in Row /\ q.link = r.link /\ q.base = reason
        /\ q.id = r.id /\ q.tx = r.tx /\ q.op = r.op /\ q.created = r.created
        /\ q.status = r.status /\ q.pos = r.pos /\ q.path = r.path
        /\ q.amt = r.amt /\ q.req = r.req
    BY <2>1, <2>2 DEF Row
  <2>4. RowKept(r, q)
    BY <2>1, <2>3 DEF RowKept, RowTrue, PlaceTrue, Fate, ClosedRound
  <2> QED BY <2>2, <2>4
<1>3. \A r \in rows : RowKept(r, f[r])
  BY <1>2, SameRow
<1> HIDE DEF f
<1>4. RowsTrue' /\ RowsGrow
  BY <1>1, <1>3, WriteKeepsRows
<1> QED BY <1>4, JobDone DEF RowsTrue

LEMMA ReviewKeepsLedger ==
    ASSUME RowsTrue, JobsTrue, WriteClear \/ SetBaselines
    PROVE  RowsTrue' /\ JobsTrue' /\ UNCHANGED chainVars
<1>1. CASE WriteClear
  <2> DEFINE cleared == {r \in rows : r.id = job[Admin].kick}
  <2>1. Baselined(cleared, "cleared") /\ job' = [job EXCEPT ![Admin] = NoJob] /\ UNCHANGED chainVars
    BY <1>1 DEF WriteClear
  <2>2. \E k \in rows : k.id = job[Admin].kick /\ k.op = "kick" /\ ClosedRound(k)
    BY <1>1 DEF WriteClear, JobsTrue, JobTrue, Workers
  <2>3. \A k \in cleared : k.op = "kick" /\ ClosedRound(k)
    BY <2>2 DEF RowsTrue, RowsKeyed
  <2>4. cleared \in SUBSET rows
    OBVIOUS
  <2> HIDE DEF cleared
  <2> QED BY <2>1, <2>3, <2>4, BaselineKeepsLedger
<1>2. CASE SetBaselines
  <2>1. PICK kicks \in SUBSET rows : /\ \A k \in kicks : k.op = "kick"
                                     /\ Baselined(kicks, "repaired")
    <3>1. Unprovables \in SUBSET rows /\ \A k \in Unprovables : k.op = "kick"
      BY DEF Unprovables, Kicks
    <3>2. {k \in Unprovables : Newer(k, rows) # {}} \in SUBSET Unprovables
      OBVIOUS
    <3> QED BY <1>2, <3>1, <3>2 DEF SetBaselines
  <2>2. UNCHANGED <<chainVars, job>>
    BY <1>2 DEF SetBaselines
  <2> QED BY <2>1, <2>2, BaselineKeepsLedger
<1> QED BY <1>1, <1>2

----------------------------------------------------------------------------
(* The invariant, and types.                                               *)

LEMMA LedgerInvInit == Init => LedgerInv
<1> SUFFICES ASSUME Init  PROVE LedgerInv
  OBVIOUS
<1>1. ChainTypes /\ ChainTrue /\ KickedTrue
  <2>1. ChainTypes
    <3>1. txs \in Seq(Transaction) /\ chain \in Seq(Event) /\ sold \in Seq(Nat)
      BY DEF Init
    <3>2. Len(txs) <= MaxTx
      BY BoundsAssumption DEF Init
    <3> QED BY <3>1, <3>2 DEF Init, ChainTypes
  <2>2. ChainTrue /\ KickedTrue
    BY DEF Init, ChainTrue, KickedTrue
  <2> QED BY <2>1, <2>2
<1>2. RowsTrue
  BY FS_EmptySet DEF Init, RowsTrue, RowsKeyed
<1>3. JobsTrue
  BY DEF Init, JobsTrue, JobTrue, NoJob
<1> QED BY <1>1, <1>2, <1>3 DEF LedgerInv

\* What is true of the chain does not depend on the ledger.
LEMMA ChainUntouched ==
    ASSUME ChainTypes, ChainTrue, KickedTrue, UNCHANGED chainVars
    PROVE  ChainTypes' /\ ChainTrue' /\ KickedTrue'
BY DEF chainVars, ChainTypes, ChainTrue, EventTrue, KickedTrue, KickPositions, OpenSince,
       ClosesOnChain

LEMMA LedgerInvNext == LedgerInv /\ [Next]_vars => LedgerInv'
<1> SUFFICES ASSUME LedgerInv, [Next]_vars  PROVE LedgerInv'
  OBVIOUS
<1>1. ChainTypes /\ ChainTrue /\ KickedTrue /\ RowsTrue /\ JobsTrue
  BY DEF LedgerInv
<1>2. CASE OnChain
  <2>1. ChainKept /\ UNCHANGED <<rows, job>>
    BY <1>1, <1>2, OnChainKeepsChain
  <2> QED BY <1>1, <2>1, ChainGrowsKeepsRows, ChainGrowsKeepsJobs DEF ChainKept, LedgerInv
<1> DEFINE LedgerKept == RowsTrue' /\ JobsTrue' /\ UNCHANGED chainVars
<1>3. CASE Maintain
  <2>1. LedgerKept
    BY <1>1, <1>3, ReadsKeepLedger, ReviewKeepsLedger DEF Maintain
  <2> QED BY <1>1, <2>1, ChainUntouched DEF LedgerInv
<1>4. CASE \E t \in DOMAIN txs : RecordTx(t)
  BY <1>1, <1>4, RecordKeepsLedger, ChainUntouched DEF LedgerInv
<1>5. CASE \E f \in Finalisers, t \in DOMAIN txs : Finalise(f, t)
  BY <1>1, <1>5, ReadsKeepLedger, ChainUntouched DEF LedgerInv
<1>6. ASSUME NEW w \in Workers, WriteFinalised(w) \/ Abandon(w)
      PROVE  LedgerInv'
  BY <1>1, <1>6, WriteFinalisedKeepsLedger, ReadsKeepLedger, ChainUntouched DEF LedgerInv
<1>7. CASE \E s \in Scanners : StartRepair(s)
  BY <1>1, <1>7, ReadsKeepLedger, ChainUntouched DEF LedgerInv
<1>8. ASSUME NEW s \in Scanners \union {Admin}, Repair(s)
      PROVE  LedgerInv'
  <2>1. LedgerKept
    BY <1>1, <1>8, ReadsKeepLedger, WriteLinksKeepsLedger, SettlementKeepsLedger DEF Repair
  <2> QED BY <1>1, <2>1, ChainUntouched DEF LedgerInv
<1>9. CASE UNCHANGED vars
  <2>1. UNCHANGED <<chainVars, rows, job>>
    BY <1>9 DEF vars
  <2>2. ChainGrows
    BY <2>1 DEF ChainGrows, chainVars
  <2> QED BY <1>1, <2>1, <2>2, ChainGrowsKeepsRows, ChainGrowsKeepsJobs, ChainUntouched
          DEF LedgerInv
<1> QED BY <1>2, <1>3, <1>4, <1>5, <1>6, <1>7, <1>8, <1>9 DEF Next

\* The inductive invariant of the evidence (finalize_receipt, repair_pairs, the
\* reviews of `tidal-server db`) holds in every state.
THEOREM LedgerInvariant == Spec => []LedgerInv
<1> QED BY LedgerInvInit, LedgerInvNext, PTL DEF Spec

\* Ids are dense: they are as many as the rows.
LEMMA IdsAreDense ==
    ASSUME RowsKeyed
    PROVE  {r.id : r \in rows} = 1 .. Cardinality(rows)
<1> DEFINE n   == Cardinality(rows)
           Ids == {r.id : r \in rows}
           g   == [r \in rows |-> r.id]
<1>1. n \in Nat
  BY FS_CardinalityType DEF RowsKeyed
<1>2. Ids \in SUBSET (1 .. n)
  BY DEF RowsKeyed
<1>3. g \in Bijection(rows, Ids)
  <2>1. g \in Injection(rows, Ids)
    BY DEF Injection, RowsKeyed, IsInjective
  <2>2. g \in Surjection(rows, Ids)
    BY DEF Surjection
  <2> QED BY <2>1, <2>2 DEF Bijection
<1>4. Cardinality(Ids) = n
  <2>1. ExistsBijection(rows, Ids) /\ IsFiniteSet(rows)
    BY <1>3 DEF ExistsBijection, RowsKeyed
  <2> HIDE DEF Ids, g
  <2> QED BY <2>1, FS_Bijection
<1>5. IsFiniteSet(1 .. n) /\ Cardinality(1 .. n) = n
  BY <1>1, FS_Interval
<1> HIDE DEF Ids, n
<1>6. 1 .. n = Ids
  BY <1>2, <1>4, <1>5, FS_Subset
<1> QED BY <1>6 DEF Ids, n

LEMMA LedgerInvTypes == LedgerInv => TypeOK
<1> SUFFICES ASSUME LedgerInv  PROVE TypeOK
  OBVIOUS
<1>1. ASSUME NEW r \in rows
      PROVE  /\ r.op \in {"kick", "resolve", "sweep", "settled"}
             /\ r.status \in {"SUBMITTED", "CONFIRMED", "REVERTED"}
             /\ r.pos \in {NoPos} \union DOMAIN chain
             /\ r.path \in {NoPath} \union AllPaths
             /\ r.link \in {NoLink} \union {k.id : k \in {q \in rows : q.op = "kick"}}
             /\ r.base # "no" => r.op = "kick"
  <2>1. r \in Row /\ RowTrue(r)
    BY DEF LedgerInv, RowsTrue, RowsKeyed
  <2> QED BY <2>1 DEF Row, RowTrue, TxOps, Paths, PlaceTrue, LinkTrue, KickIds
<1>2. {r.id : r \in rows} = 1 .. Cardinality(rows)
  BY IdsAreDense DEF LedgerInv, RowsTrue
<1>3. balance \in Nat /\ Len(sold) = Len(chain)
  BY DEF LedgerInv, ChainTypes
<1> QED BY <1>1, <1>2, <1>3 DEF TypeOK

\* Rows have the shape kick_txs gives them, with dense and unique ids, whatever
\* processes write them.
THEOREM LedgerTypes == Spec => []TypeOK
<1> QED BY LedgerInvariant, LedgerInvTypes, PTL

----------------------------------------------------------------------------
(* What the guard lets through.                                            *)

\* created_at tells the order in which transactions were sent.
LEMMA SentInOrder ==
    ASSUME ChainTypes, ChainTrue, NEW t \in DOMAIN txs, NEW u \in DOMAIN txs, t < u
    PROVE  SentAt(t) < SentAt(u)
<1> DEFINE M == MaxTx + 1
<1>1. /\ t \in Nat /\ u \in Nat /\ M \in Nat
      /\ txs[t].at \in Nat /\ txs[u].at \in Nat /\ txs[t].at <= txs[u].at
  <2>1. /\ t \in Nat /\ u \in Nat /\ MaxTx \in Nat
        /\ txs[t] \in Transaction /\ txs[u] \in Transaction
    BY BoundsAssumption DEF ChainTypes
  <2>2. txs[t].at \in Nat /\ txs[u].at \in Nat
    BY <2>1 DEF Transaction
  <2>3. txs[t].at <= txs[u].at
    BY DEF ChainTrue
  <2> QED BY <2>1, <2>2, <2>3
<1>2. PICK d \in Nat : txs[u].at = txs[t].at + d
  <2>1. txs[u].at - txs[t].at \in Nat /\ txs[u].at = txs[t].at + (txs[u].at - txs[t].at)
    BY <1>1
  <2> QED BY <2>1
<1> DEFINE a == txs[t].at
<1>3. (a + d) * M = a * M + d * M /\ d * M \in Nat /\ a * M \in Nat
  BY <1>1
<1> HIDE DEF M, a
<1>4. a * M + t < a * M + d * M + u
  BY <1>1, <1>3
<1>5. SentAt(t) = a * M + t /\ SentAt(u) = (a + d) * M + u
  BY <1>2 DEF SentAt, BlockTime, M, a
<1> QED BY <1>3, <1>4, <1>5

\* A kick of the ledger is a kick transaction.
LEMMA KickRow ==
    ASSUME ChainTypes, RowsTrue, NEW k \in Kicks(rows)
    PROVE  /\ k \in rows /\ k.tx \in DOMAIN txs /\ txs[k.tx].op = "kick"
           /\ k.created = SentAt(k.tx) /\ Fate(k) /\ k.id \in Nat /\ k.created \in Nat
BY DEF RowsTrue, RowsKeyed, RowTrue, Kicks, Row

\* Of the kicks in the ledger, one is the newest.
LEMMA NewestKick ==
    ASSUME ChainTypes, ChainTrue, RowsTrue, Kicks(rows) # {}
    PROVE  \E k \in Kicks(rows) : \A j \in Kicks(rows) : j = k \/ (NewerThan(k, j) /\ ~NewerThan(j, k))
<1> DEFINE S == {k.tx : k \in Kicks(rows)}
<1>1. S \in SUBSET (1 .. Len(txs)) /\ S # {} /\ Len(txs) \in Nat
  BY KickRow DEF ChainTypes
<1>2. PICK m \in S : \A x \in S : x <= m
  <2> HIDE DEF S
  <2> QED BY <1>1, LastOf
<1>3. PICK k \in Kicks(rows) : k.tx = m
  BY <1>2
<1>4. ASSUME NEW j \in Kicks(rows), j # k
      PROVE  NewerThan(k, j) /\ ~NewerThan(j, k)
  <2>1. /\ k.created = SentAt(k.tx) /\ j.created = SentAt(j.tx)
        /\ k.created \in Nat /\ j.created \in Nat
        /\ k.tx \in DOMAIN txs /\ j.tx \in DOMAIN txs
    BY KickRow
  <2>2. j.tx <= k.tx /\ j.tx # k.tx /\ j.tx \in Nat /\ k.tx \in Nat
    <3>1. j.tx <= k.tx
      BY <1>2, <1>3
    <3>2. j.tx \in Nat \ {0} /\ k.tx \in Nat \ {0}
      BY <2>1 DEF ChainTypes
    <3>3. j.tx # k.tx
      BY <1>4, <3>2, KickRow DEF RowsTrue, RowsKeyed
    <3> QED BY <3>1, <3>2, <3>3
  <2>3. SentAt(j.tx) < SentAt(k.tx)
    <3>1. j.tx < k.tx
      BY <2>2
    <3> QED BY <2>1, <3>1, SentInOrder
  <2> QED BY <2>1, <2>3 DEF NewerThan
<1> QED BY <1>4

\* A pair that is let through has a verdict on its newest round.
LEMMA LatestIsJudged ==
    ASSUME NEW k \in Latest(rows), Decide(rows, TRUE, TRUE) = "ALLOW",
           \A j \in Latest(rows) : j = k
    PROVE  Outcome(k, rows) \in {"NO_FILL", "PRODUCTIVE"}
<1>1. Newer(k, rows) = {} /\ k \in Current(rows)
  BY DEF Latest
<1>2. Outcome(k, rows) \in {"UNKNOWN", "INCOMPLETE", "NO_FILL", "PRODUCTIVE"}
  BY DEF Outcome, ClassifyRound
<1>3. \/ \E j \in Latest(rows) : Outcome(j, rows) \in {"PRODUCTIVE"}
      \/ ~ \E j \in Terminal(rows) : Outcome(j, rows) \in {"UNKNOWN", "INCOMPLETE"}
  BY DEF Decide
<1>4. CASE Outcome(k, rows) # "NO_FILL" /\ ~ \E j \in Latest(rows) : Outcome(j, rows) = "PRODUCTIVE"
  <2>1. k \in Terminal(rows)
    BY <1>1, <1>4 DEF Terminal, NoFillRun
  <2> QED BY <2>1, <1>2, <1>3, <1>4
<1> QED BY <1>2, <1>4

\* The round that is open belongs to the last kick, and nothing closed it.
LEMMA OpenRound ==
    ASSUME ChainTypes, KickedTrue, kicked
    PROVE  LastKick \in KickPositions /\ OpenSince(LastKick)
<1>1. PICK p \in KickPositions : OpenSince(p)
  BY DEF KickedTrue
<1>2. \A q \in DOMAIN chain : q \in Nat
  BY DEF ChainTypes
<1>3. \A q \in KickPositions : q <= p
  BY <1>1, <1>2 DEF OpenSince, KickPositions
<1>4. LastKick \in KickPositions /\ \A q \in KickPositions : q <= LastKick
  BY <1>1, <1>3 DEF LastKick
<1>5. LastKick = p
  BY <1>1, <1>2, <1>3, <1>4 DEF KickPositions
<1> QED BY <1>1, <1>5

\* If a kick that is not older than t is closed on the chain, t is over.
LEMMA ClosedRoundsEnd ==
    ASSUME ChainTypes, ChainTrue, KickedTrue, RowsTrue, KicksInOrder,
           NEW t \in DOMAIN txs, txs[t].op = "kick",
           NEW k \in Kicks(rows), ClosedRound(k), k.created >= SentAt(t)
    PROVE  txs[t].state # "pending" /\ ~(kicked /\ chain[LastKick].tx = t)
<1> DEFINE u == k.tx
<1>1. /\ u \in DOMAIN txs /\ txs[u].op = "kick" /\ k.created = SentAt(u)
      /\ txs[u].state = "ok" /\ k.pos \in DOMAIN chain /\ chain[k.pos].tx = u
  BY KickRow DEF ClosedRound, Fate
<1>2. \A x \in DOMAIN txs : x \in Nat \ {0} /\ SentAt(x) \in Nat
  <2>1. ASSUME NEW x \in DOMAIN txs
        PROVE  SentAt(x) \in Nat
    <3>1. txs[x] \in Transaction /\ x \in Nat /\ MaxTx \in Nat
      BY BoundsAssumption DEF ChainTypes
    <3>2. txs[x].at \in Nat
      BY <3>1 DEF Transaction
    <3> QED BY <3>1, <3>2 DEF SentAt, BlockTime
  <2> QED BY <2>1 DEF ChainTypes
<1>3. t <= u
  <2>1. SUFFICES ASSUME u < t  PROVE FALSE
    BY <1>1, <1>2
  <2>2. SentAt(u) < SentAt(t)
    BY <1>1, <2>1, SentInOrder
  <2> QED BY <2>2, <1>1, <1>2
<1>4. PositionOf(u) = k.pos
  BY <1>1, <1>2, PositionIsItsEvent DEF ChainTrue
<1>5. txs[t].state # "pending" /\ PositionOf(t) <= k.pos
  <2>1. CASE t = u
    <3>1. k.pos \in Nat
      BY <1>1 DEF ChainTypes
    <3> QED BY <2>1, <3>1, <1>1, <1>4
  <2>2. CASE t < u
    <3>1. txs[t].state # "pending" /\ PositionOf(t) < PositionOf(u)
      BY <2>2, <1>1 DEF KicksInOrder
    <3>2. PositionOf(t) \in Nat /\ k.pos \in Nat
      BY <3>1, <1>1, PositionIsItsEvent DEF ChainTypes
    <3> QED BY <3>1, <3>2, <1>4
  <2> QED BY <2>1, <2>2, <1>1, <1>2, <1>3
<1>6. ASSUME kicked, chain[LastKick].tx = t
      PROVE  FALSE
  <2>1. LastKick \in KickPositions /\ OpenSince(LastKick)
    BY <1>6, OpenRound
  <2>2. PositionOf(t) = LastKick
    BY <1>2, <1>5, <1>6, <2>1, PositionIsItsEvent DEF ChainTrue, KickPositions
  <2>3. PICK q \in DOMAIN chain : q > k.pos /\ ClosesOnChain(q)
    BY DEF ClosedRound
  <2>4. q > LastKick
    <3>1. q \in Nat /\ k.pos \in Nat /\ LastKick \in Nat
      BY <1>1, <2>1 DEF ChainTypes, KickPositions
    <3> QED BY <3>1, <2>2, <2>3, <1>5
  <2> QED BY <2>1, <2>3, <2>4 DEF OpenSince
<1> QED BY <1>5, <1>6

LEMMA LedgerInvAllows == LedgerInv => AllowsOnlyClosedRounds
<1> SUFFICES ASSUME LedgerInv, AllRecorded, KicksInOrder, Decide(rows, TRUE, TRUE) = "ALLOW",
                    NEW t \in DOMAIN txs, txs[t].op = "kick",
                    ~ \E r \in rows : r.base = "repaired" /\ r.created >= SentAt(t)
             PROVE  txs[t].state # "pending" /\ ~(kicked /\ chain[LastKick].tx = t)
  BY DEF AllowsOnlyClosedRounds
<1>1. ChainTypes /\ ChainTrue /\ KickedTrue /\ RowsTrue
  BY DEF LedgerInv
<1>2. PICK r \in rows : r.tx = t
  BY DEF AllRecorded, RowOf
<1>3. r \in Row /\ RowTrue(r) /\ t # 0
  BY <1>1 DEF RowsTrue, RowsKeyed, ChainTypes
<1>4. r.op = "kick" /\ r.created = SentAt(t) /\ Fate(r)
  BY <1>2, <1>3 DEF RowTrue
<1>5. CASE r.status = "REVERTED"
  <2>1. txs[t].state = "reverted"
    BY <1>2, <1>4, <1>5 DEF Fate
  <2>2. ASSUME kicked, chain[LastKick].tx = t
        PROVE  FALSE
    <3>1. LastKick \in KickPositions
      BY <1>1, <2>2, OpenRound
    <3> QED BY <1>1, <2>1, <2>2, <3>1 DEF ChainTrue, EventTrue, KickPositions, TxOps
  <2> QED BY <2>1, <2>2
<1>6. CASE r.status # "REVERTED"
  <2>1. r \in Kicks(rows)
    BY <1>3, <1>4, <1>6 DEF Kicks, Row
  <2>2. \E k \in Kicks(rows) : ClosedRound(k) /\ k.created >= r.created
    <3>1. CASE r \notin Current(rows)
      <4>1. PICK b \in Kicks(rows) : b.base # "no" /\ ~NewerThan(r, b)
        BY <2>1, <3>1 DEF Current
      <4>2. b \in rows /\ b \in Row /\ RowTrue(b)
        BY <1>1 DEF Kicks, RowsTrue, RowsKeyed
      <4>3. b.created >= r.created
        BY <4>1, <4>2, <1>3 DEF NewerThan, Row
      <4>4. b.base = "cleared"
        BY <4>1, <4>2, <4>3, <1>4 DEF Row
      <4> QED BY <4>2, <4>3, <4>4 DEF RowTrue
    <3>2. CASE r \in Current(rows)
      <4>1. PICK k \in Kicks(rows) :
              \A j \in Kicks(rows) : j = k \/ (NewerThan(k, j) /\ ~NewerThan(j, k))
        BY <1>1, <2>1, NewestKick
      <4>2. k = r \/ NewerThan(k, r)
        BY <2>1, <4>1
      <4>3. \A b \in Kicks(rows) : /\ b.created \in Nat /\ b.id \in Nat
        BY <1>1, KickRow
      <4>4. k \in Current(rows)
        <5>1. ASSUME NEW b \in Kicks(rows), b.base # "no"
              PROVE  NewerThan(k, b)
          <6>1. NewerThan(r, b)
            BY <3>2, <5>1 DEF Current
          <6> QED BY <2>1, <4>2, <4>3, <6>1 DEF NewerThan
        <5> QED BY <5>1 DEF Current
      <4>5. k \in Latest(rows) /\ \A j \in Latest(rows) : j = k
        <5>1. Newer(k, rows) = {}
          <6>1. ~NewerThan(k, k)
            BY <4>3 DEF NewerThan
          <6> QED BY <4>1, <6>1 DEF Newer
        <5>2. ASSUME NEW j \in Latest(rows), j # k
              PROVE  FALSE
          BY <4>1, <5>2 DEF Latest, Current, Newer
        <5> QED BY <4>4, <5>1, <5>2 DEF Latest
      <4>6. ClosedRound(k)
        BY <1>1, <4>5, LatestIsJudged, VerdictCloses
      <4>7. k.created >= r.created
        BY <2>1, <4>2, <4>3 DEF NewerThan
      <4> QED BY <4>6, <4>7
    <3> QED BY <3>1, <3>2
  <2> QED BY <1>1, <1>4, <2>2, ClosedRoundsEnd
<1> QED BY <1>5, <1>6

\* However receipts, logs, links and reviews interleave, NoFillGuard lets a pair
\* through only if none of its recorded rounds is open on the chain or in flight,
\* other than those the one-time repair has written off.
THEOREM AllowedRoundsAreClosed == Spec => []AllowsOnlyClosedRounds
<1> QED BY LedgerInvariant, LedgerInvAllows, PTL

----------------------------------------------------------------------------
(* Counting tokens.  Amounts are compared through the tokens they consist  *)
(* of: a pile holds amt[x] tokens for each x.                              *)

Pile(S, amt) == UNION {{x} \X (1 .. amt[x]) : x \in S}

LEMMA PileIsFinite ==
    ASSUME NEW S, IsFiniteSet(S), NEW amt, \A x \in S : amt[x] \in Int
    PROVE  IsFiniteSet(Pile(S, amt)) /\ Cardinality(Pile(S, amt)) \in Nat
<1> DEFINE heap == [x \in S |-> {x} \X (1 .. amt[x])]
           Heaps == {heap[x] : x \in S}
<1>1. ASSUME NEW x \in S
      PROVE  IsFiniteSet(heap[x])
  <2>1. PICK n \in Int : n = amt[x]
    OBVIOUS
  <2>2. IsFiniteSet(1 .. n)
    <3>1. 1 \in Int
      OBVIOUS
    <3> QED BY <3>1, FS_Interval
  <2>3. IsFiniteSet({x})
    BY FS_Singleton
  <2>4. IsFiniteSet({x} \X (1 .. n))
    BY <2>2, <2>3, FS_Product
  <2> QED BY <2>1, <2>4
<1>2. IsFiniteSet(Heaps)
  <2>1. heap \in Surjection(S, Heaps)
    BY DEF Surjection
  <2> HIDE DEF Heaps, heap
  <2> QED BY <2>1, FS_Surjection
<1>3. IsFiniteSet(UNION Heaps)
  <2>1. \A T \in Heaps : IsFiniteSet(T)
    BY <1>1
  <2> HIDE DEF Heaps
  <2> QED BY <1>2, <2>1, FS_UNION
<1>4. Pile(S, amt) = UNION Heaps
  BY DEF Pile
<1> QED BY <1>3, <1>4, FS_CardinalityType

LEMMA PileAdded ==
    ASSUME NEW S, IsFiniteSet(S), NEW amt, \A x \in S : amt[x] \in Int, NEW n, n \notin S, NEW k \in Nat
    PROVE  Cardinality(Pile(S, amt) \union ({n} \X (1 .. k))) = Cardinality(Pile(S, amt)) + k
<1> DEFINE heap == {n} \X (1 .. k)
           pile == Pile(S, amt)
<1>1. IsFiniteSet(pile) /\ Cardinality(pile) \in Nat
  BY PileIsFinite
<1>2. IsFiniteSet(heap) /\ Cardinality(heap) = k
  <2>1. IsFiniteSet({n}) /\ Cardinality({n}) = 1
    BY FS_Singleton
  <2>2. IsFiniteSet(1 .. k) /\ Cardinality(1 .. k) = k
    BY FS_Interval
  <2>3. IsFiniteSet({n} \X (1 .. k)) /\ Cardinality({n} \X (1 .. k)) = 1 * k
    <3> DEFINE one == {n}
               many == 1 .. k
    <3> HIDE DEF one, many
    <3>1. IsFiniteSet(one \X many) /\ Cardinality(one \X many) = Cardinality(one) * Cardinality(many)
      BY <2>1, <2>2, FS_Product DEF one, many
    <3>2. Cardinality(one) = 1 /\ Cardinality(many) = k
      BY <2>1, <2>2 DEF one, many
    <3> QED BY <3>1, <3>2 DEF one, many
  <2> QED BY <2>3
<1>3. pile \cap heap = {}
  BY DEF Pile
<1>4. Cardinality({}) = 0
  BY FS_EmptySet
<1> HIDE DEF pile, heap
<1>5. IsFiniteSet(pile \union heap) /\ Cardinality(pile \union heap) = Cardinality(pile) + k
  BY <1>1, <1>2, <1>3, <1>4, FS_Union
<1> QED BY <1>5 DEF pile, heap

\* If each element that counts has one of the other pile to stand for it, which
\* stands for no other, the other pile is no smaller.
LEMMA PileCovered ==
    ASSUME NEW S, NEW T, IsFiniteSet(S), IsFiniteSet(T),
           NEW a, \A x \in S : a[x] \in Int, NEW b, \A y \in T : b[y] \in Int, NEW f,
           \A x \in S : a[x] > 0 => f[x] \in T /\ b[f[x]] = a[x],
           \A x, y \in S : a[x] > 0 /\ a[y] > 0 /\ f[x] = f[y] => x = y
    PROVE  Cardinality(Pile(S, a)) <= Cardinality(Pile(T, b))
<1> DEFINE A == Pile(S, a)
           B == Pile(T, b)
           g == [t \in A |-> <<f[t[1]], t[2]>>]
<1>1. \A t \in A : t[1] \in S /\ t[2] \in 1 .. a[t[1]] /\ t = <<t[1], t[2]>>
  BY DEF Pile
<1>2. ASSUME NEW t \in A
      PROVE  a[t[1]] > 0 /\ f[t[1]] \in T /\ g[t] \in B
  <2>1. a[t[1]] \in Int /\ a[t[1]] > 0
    BY <1>1
  <2>2. f[t[1]] \in T /\ t[2] \in 1 .. b[f[t[1]]]
    BY <1>1, <2>1
  <2> QED BY <2>1, <2>2 DEF Pile
<1>3. \A s, t \in A : g[s] = g[t] => s = t
  <2> SUFFICES ASSUME NEW s \in A, NEW t \in A, g[s] = g[t]  PROVE s = t
    OBVIOUS
  <2>1. f[s[1]] = f[t[1]] /\ s[2] = t[2]
    OBVIOUS
  <2> QED BY <1>1, <1>2, <2>1
<1>4. g \in Injection(A, B)
  BY <1>2, <1>3 DEF Injection, IsInjective
<1>5. IsFiniteSet(B)
  BY PileIsFinite
<1> HIDE DEF A, B, g
<1>6. Cardinality(A) <= Cardinality(B)
  BY <1>4, <1>5, FS_Injection
<1> QED BY <1>6 DEF A, B

----------------------------------------------------------------------------
(* What became of the tokens of a round: sold, recovered, or still there.  *)

\* The events after p, up to q, in which the kicker took tokens back.
Recoveries(p, q) == {e \in DOMAIN chain : /\ p < e /\ e <= q
                                          /\ chain[e].op \in {"sweep", "resolve"}}
Amounts         == [e \in DOMAIN chain |-> chain[e].amt]
Recovered(p, q) == Cardinality(Pile(Recoveries(p, q), Amounts))

LastRound(p) == p \in KickPositions /\ \A k \in KickPositions : k <= p

AmountsTrue ==
    \A e \in DOMAIN chain :
        /\ chain[e].op \in {"kick", "sweep", "resolve"} => chain[e].amt \in Nat
        /\ chain[e].op = "kick" => chain[e].amt > 0
        /\ chain[e].op = "resolve" => chain[e].path \in AllPaths

\* An active auction has been kicked; a round that is not open has been closed.
OpenTrue ==
    /\ active => kicked
    /\ ~kicked => \A p \in KickPositions : LastRound(p) => \E q \in After(p) : ClosesOnChain(q)

\* Tokens of the last round are conserved, up to donations.
Conserved ==
    \A p \in KickPositions : LastRound(p) =>
        LET found == balance + Recovered(p, Len(chain)) + sold[p]
        IN  chain[p].amt <= found /\ found <= chain[p].amt + donated

\* A round is closed once and is accounted for by then, up to donations; a resolution
\* that does not close it comes afterwards.
RoundTrue(p, q) ==
    /\ ClosesOnChain(q) => /\ chain[p].amt <= Recovered(p, q) + sold[p]
                           /\ Recovered(p, q) + sold[p] <= chain[p].amt + donated
                           /\ \A c \in After(p) : c < q => ~ClosesOnChain(c)
    /\ chain[q].op = "resolve" /\ ~ClosesOnChain(q) =>
           \E c \in After(p) : c < q /\ ClosesOnChain(c)

LotInv ==
    /\ AmountsTrue /\ OpenTrue /\ Conserved
    /\ \A p \in KickPositions : \A q \in After(p) : RoundTrue(p, q)
    /\ \A q \in DOMAIN chain : ClosesOnChain(q) => \E p \in KickPositions : q \in After(p)

\* Events that give no tokens back count for nothing.
LEMMA RecoveriesCounted ==
    ASSUME ChainTypes, AmountsTrue, NEW p \in Nat, NEW q \in Nat
    PROVE  /\ IsFiniteSet(Recoveries(p, q))
           /\ \A e \in Recoveries(p, q) : Amounts[e] = chain[e].amt /\ Amounts[e] \in Int
           /\ Recovered(p, q) \in Nat
<1>1. IsFiniteSet(Recoveries(p, q))
  <2>1. Len(chain) \in Nat /\ DOMAIN chain = 1 .. Len(chain)
    BY DEF ChainTypes
  <2>2. IsFiniteSet(1 .. Len(chain))
    <3>1. 1 \in Int /\ Len(chain) \in Int
      BY <2>1
    <3> QED BY <3>1, FS_Interval
  <2>3. Recoveries(p, q) \in SUBSET (1 .. Len(chain))
    BY <2>1 DEF Recoveries
  <2> QED BY <2>2, <2>3, FS_Subset
<1>2. \A e \in Recoveries(p, q) : Amounts[e] = chain[e].amt /\ Amounts[e] \in Int
  BY DEF Recoveries, Amounts, AmountsTrue
<1>3. Recovered(p, q) \in Nat
  BY <1>1, <1>2, PileIsFinite DEF Recovered
<1> QED BY <1>1, <1>2, <1>3

\* An event is added at the end of the chain.
Extends(e) ==
    /\ e \in Event /\ chain' = Append(chain, e) /\ sold' = Append(sold, 0)
    /\ e.op \in {"kick", "sweep", "resolve"} => e.amt \in Nat
    /\ e.op = "kick" => e.amt > 0
    /\ e.op = "resolve" => e.path \in AllPaths

Returned(e) == IF e.op \in {"sweep", "resolve"} THEN e.amt ELSE 0

LEMMA ChainExtended ==
    ASSUME ChainTypes, NEW e, Extends(e), NEW n, n = Len(chain) + 1
    PROVE  /\ n \in Nat \ {0} /\ Len(chain') = n /\ n \notin DOMAIN chain
           /\ DOMAIN chain' = DOMAIN chain \union {n}
           /\ DOMAIN chain = 1 .. Len(chain) /\ Len(chain) \in Nat
           /\ chain'[n] = e /\ \A p \in DOMAIN chain : chain'[p] = chain[p]
           /\ sold'[n] = 0 /\ \A p \in DOMAIN chain : sold'[p] = sold[p]
BY DEF ChainTypes, Extends

LEMMA RecoveredExtended ==
    ASSUME ChainTypes, AmountsTrue, NEW e, Extends(e), NEW n, n = Len(chain) + 1, NEW p \in Nat
    PROVE  /\ \A q \in DOMAIN chain : Recovered(p, q)' = Recovered(p, q)
           /\ p < n => Recovered(p, n)' = Recovered(p, Len(chain)) + Returned(e)
           /\ p = n => Recovered(p, n)' = 0
<1>1. /\ n \in Nat \ {0} /\ Len(chain') = n /\ n \notin DOMAIN chain
      /\ DOMAIN chain' = DOMAIN chain \union {n}
      /\ DOMAIN chain = 1 .. Len(chain) /\ Len(chain) \in Nat
      /\ chain'[n] = e /\ \A x \in DOMAIN chain : chain'[x] = chain[x]
  BY ChainExtended
<1>2. \A q \in Nat : /\ IsFiniteSet(Recoveries(p, q))
                     /\ \A x \in Recoveries(p, q) : Amounts[x] = chain[x].amt /\ Amounts[x] \in Int
  BY RecoveriesCounted
<1>3. \A x \in DOMAIN chain : Amounts'[x] = Amounts[x]
  BY <1>1 DEF Amounts
<1>4. ASSUME NEW q \in DOMAIN chain
      PROVE  Recovered(p, q)' = Recovered(p, q)
  <2>1. Recoveries(p, q)' = Recoveries(p, q)
    BY <1>1 DEF Recoveries
  <2>2. Pile(Recoveries(p, q), Amounts)' = Pile(Recoveries(p, q), Amounts)
    <3>1. \A x \in Recoveries(p, q) : Amounts'[x] = Amounts[x]
      BY <1>3 DEF Recoveries
    <3> QED BY <2>1, <3>1 DEF Pile
  <2> QED BY <2>2 DEF Recovered
<1>5. ASSUME p < n
      PROVE  Recovered(p, n)' = Recovered(p, Len(chain)) + Returned(e)
  <2> DEFINE R == Recoveries(p, Len(chain))
  <2>1. IsFiniteSet(R) /\ \A x \in R : Amounts[x] \in Int
    BY <1>1, <1>2
  <2>2. n \notin R /\ \A x \in R : Amounts'[x] = Amounts[x]
    BY <1>1, <1>3 DEF Recoveries
  <2>3. CASE e.op \in {"sweep", "resolve"}
    <3>1. Recoveries(p, n)' = R \union {n}
      BY <1>1, <1>5, <2>3 DEF Recoveries
    <3>2. Amounts'[n] = e.amt /\ e.amt \in Nat
      BY <1>1, <2>3 DEF Amounts, Extends
    <3>3. Pile(Recoveries(p, n), Amounts)' = Pile(R, Amounts) \union ({n} \X (1 .. e.amt))
      <4> HIDE DEF R
      <4> QED BY <2>2, <3>1, <3>2 DEF Pile
    <3>4. Cardinality(Pile(R, Amounts) \union ({n} \X (1 .. e.amt)))
            = Cardinality(Pile(R, Amounts)) + e.amt
      <4> HIDE DEF R
      <4> QED BY <2>1, <2>2, <3>2, PileAdded
    <3> QED BY <2>3, <3>3, <3>4 DEF Recovered, Returned
  <2>4. CASE e.op \notin {"sweep", "resolve"}
    <3>1. Recoveries(p, n)' = R
      BY <1>1, <1>5, <2>4 DEF Recoveries
    <3>2. Pile(Recoveries(p, n), Amounts)' = Pile(R, Amounts)
      <4> HIDE DEF R
      <4> QED BY <2>2, <3>1 DEF Pile
    <3>3. Recovered(p, Len(chain)) \in Nat
      BY <1>1, RecoveriesCounted
    <3> QED BY <2>4, <3>2, <3>3 DEF Recovered, Returned
  <2> QED BY <2>3, <2>4
<1>6. ASSUME p = n
      PROVE  Recovered(p, n)' = 0
  <2>1. Recoveries(p, n)' = {}
    BY <1>1, <1>6 DEF Recoveries
  <2>2. Pile(Recoveries(p, n), Amounts)' = {}
    BY <2>1 DEF Pile
  <2> QED BY <2>2, FS_EmptySet DEF Recovered
<1> QED BY <1>1, <1>4, <1>5, <1>6

\* Only the last round goes on.
LEMMA AfterExtended ==
    ASSUME ChainTypes, NEW e, Extends(e), NEW n, n = Len(chain) + 1
    PROVE  /\ KickPositions' = KickPositions \union (IF e.op = "kick" THEN {n} ELSE {})
           /\ \A p \in KickPositions :
                /\ After(p)' = After(p) \union (IF e.op # "kick" /\ LastRound(p) THEN {n} ELSE {})
                /\ LastRound(p)' <=> LastRound(p) /\ e.op # "kick"
           /\ e.op = "kick" => After(n)' = {} /\ LastRound(n)'
<1>1. /\ n \in Nat \ {0} /\ Len(chain') = n /\ n \notin DOMAIN chain
      /\ DOMAIN chain' = DOMAIN chain \union {n}
      /\ DOMAIN chain = 1 .. Len(chain) /\ Len(chain) \in Nat
      /\ chain'[n] = e /\ \A x \in DOMAIN chain : chain'[x] = chain[x]
  BY ChainExtended
<1>2. KickPositions' = KickPositions \union (IF e.op = "kick" THEN {n} ELSE {})
  BY <1>1 DEF KickPositions
<1>3. /\ n \in Nat /\ \A x \in DOMAIN chain : x \in Nat /\ x < n
      /\ KickPositions \in SUBSET DOMAIN chain
  BY <1>1 DEF KickPositions
<1>4. ASSUME NEW p \in KickPositions
      PROVE  LastRound(p)' <=> LastRound(p) /\ e.op # "kick"
  BY <1>2, <1>3 DEF LastRound
<1>5. ASSUME NEW p \in KickPositions
      PROVE  After(p)' = After(p) \union (IF e.op # "kick" /\ LastRound(p) THEN {n} ELSE {})
  <2>1. ASSUME NEW q \in DOMAIN chain
        PROVE  q \in After(p)' <=> q \in After(p)
    <3>1. \A k \in KickPositions' : p < k /\ k <= q => k \in KickPositions
      BY <1>2, <1>3
    <3>2. q \in DOMAIN chain' /\ KickPositions \subseteq KickPositions'
      BY <1>1, <1>2
    <3> QED BY <3>1, <3>2 DEF After
  <2>2. n \in After(p)' <=> e.op # "kick" /\ LastRound(p)
    <3>1. n \in DOMAIN chain' /\ n > p
      BY <1>1, <1>3
    <3>2. ASSUME e.op # "kick"
          PROVE  (\E k \in KickPositions' : p < k /\ k <= n) <=> ~LastRound(p)
      BY <1>2, <1>3, <3>2 DEF LastRound
    <3>3. e.op = "kick" => n \in KickPositions'
      BY <1>2
    <3> QED BY <1>3, <3>1, <3>2, <3>3 DEF After
  <2>3. After(p)' \subseteq DOMAIN chain \union {n} /\ After(p) \subseteq DOMAIN chain
    BY <1>1 DEF After
  <2> QED BY <2>1, <2>2, <2>3
<1>6. e.op = "kick" => After(n)' = {} /\ LastRound(n)'
  <2>1. \A x \in DOMAIN chain' : ~(x > n)
    BY <1>1, <1>3
  <2> QED BY <2>1, <1>2, <1>3 DEF After, LastRound
<1> QED BY <1>2, <1>4, <1>5, <1>6

\* The events of LotInv, other than kicks.
ClosingEvent(e) == e.op = "settled" \/ (e.op = "resolve" /\ e.path \in ClosingPaths)

\* An event accounts for the tokens that leave the auction, and closes a round
\* only if one is open.
Accounts(e) ==
    /\ Extends(e) /\ e.op # "kick"
    /\ balance' + Returned(e) = balance /\ donated' = donated /\ balance' \in Nat
    /\ ClosingEvent(e) => kicked /\ ~kicked' /\ balance' = 0
    /\ ~ClosingEvent(e) => kicked' = kicked
    /\ e.op = "resolve" /\ ~ClosingEvent(e) => ~kicked
    /\ active' => active /\ ~ClosingEvent(e)

\* There is one last round, and if it is open nothing has closed it.
LEMMA LastRoundOpen ==
    ASSUME ChainTypes, KickedTrue, kicked, NEW p \in KickPositions, LastRound(p)
    PROVE  \A q \in After(p) : ~ClosesOnChain(q)
<1>1. LastKick \in KickPositions /\ OpenSince(LastKick)
  BY OpenRound
<1>2. p \in Nat /\ LastKick \in Nat
  BY <1>1 DEF KickPositions, ChainTypes
<1>3. ~(p > LastKick) /\ LastKick <= p
  BY <1>1 DEF OpenSince, LastRound, KickPositions
<1>4. p = LastKick
  BY <1>2, <1>3
<1> QED BY <1>1, <1>4 DEF OpenSince, After

LEMMA OpenIsLast ==
    ASSUME ChainTypes, KickedTrue, kicked
    PROVE  LastKick \in KickPositions /\ LastRound(LastKick)
<1>1. LastKick \in KickPositions /\ OpenSince(LastKick)
  BY OpenRound
<1>2. \A k \in KickPositions : k \in DOMAIN chain /\ k \in Nat /\ chain[k].op = "kick"
  BY DEF KickPositions, ChainTypes
<1> QED BY <1>1, <1>2 DEF OpenSince, LastRound

LEMMA EventKeepsLots ==
    ASSUME ChainTypes, KickedTrue, LotInv, NEW e, Accounts(e)
    PROVE  LotInv'
<1>1. PICK n : n = Len(chain) + 1
  OBVIOUS
<1>2. Extends(e) /\ e \in Event /\ e.op # "kick"
  BY DEF Accounts, Extends
<1>3. /\ n \in Nat \ {0} /\ Len(chain') = n /\ n \notin DOMAIN chain
      /\ DOMAIN chain' = DOMAIN chain \union {n}
      /\ DOMAIN chain = 1 .. Len(chain) /\ Len(chain) \in Nat
      /\ chain'[n] = e /\ \A p \in DOMAIN chain : chain'[p] = chain[p]
      /\ sold'[n] = 0 /\ \A p \in DOMAIN chain : sold'[p] = sold[p]
  BY <1>1, <1>2, ChainExtended
<1>4. /\ KickPositions' = KickPositions
      /\ \A p \in KickPositions :
           /\ After(p)' = After(p) \union (IF LastRound(p) THEN {n} ELSE {})
           /\ LastRound(p)' <=> LastRound(p)
  <2>1. KickPositions' = KickPositions \union (IF e.op = "kick" THEN {n} ELSE {})
    BY <1>1, <1>2, AfterExtended
  <2>2. ASSUME NEW p \in KickPositions
        PROVE  /\ After(p)' = After(p) \union (IF e.op # "kick" /\ LastRound(p) THEN {n} ELSE {})
               /\ LastRound(p)' <=> LastRound(p) /\ e.op # "kick"
    BY <1>1, <1>2, AfterExtended
  <2> QED BY <2>1, <2>2, <1>2
<1>5. \A p \in KickPositions : p \in DOMAIN chain /\ p \in Nat /\ p < n
  BY <1>1, <1>3 DEF KickPositions
<1>6. ASSUME NEW p \in KickPositions
      PROVE  /\ \A q \in DOMAIN chain : Recovered(p, q)' = Recovered(p, q)
             /\ Recovered(p, n)' = Recovered(p, Len(chain)) + Returned(e)
  BY <1>1, <1>2, <1>5, RecoveredExtended DEF LotInv
<1>7. \A q \in DOMAIN chain : ClosesOnChain(q)' <=> ClosesOnChain(q)
  BY <1>3 DEF ClosesOnChain
<1>8. ClosesOnChain(n)' <=> ClosingEvent(e)
  BY <1>3 DEF ClosesOnChain, ClosingEvent
<1>9. AmountsTrue'
  <2>1. AmountsTrue
    BY DEF LotInv
  <2> QED BY <2>1, <1>2, <1>3 DEF AmountsTrue, Extends
<1>10. OpenTrue'
  <2>1. OpenTrue
    BY DEF LotInv
  <2>2. active' => kicked'
    BY <2>1 DEF OpenTrue, Accounts
  <2>3. ASSUME ~kicked', NEW p \in KickPositions, LastRound(p)
        PROVE  \E q \in After(p)' : ClosesOnChain(q)'
    <3>1. CASE ClosingEvent(e)
      BY <2>3, <3>1, <1>4, <1>8
    <3>2. CASE ~ClosingEvent(e)
      <4>1. ~kicked
        BY <2>3, <3>2 DEF Accounts
      <4>2. PICK q \in After(p) : ClosesOnChain(q)
        BY <2>1, <2>3, <4>1 DEF OpenTrue
      <4> QED BY <4>2, <1>4, <1>7 DEF After
    <3> QED BY <3>1, <3>2
  <2> QED BY <2>2, <2>3, <1>4 DEF OpenTrue
<1>11. ASSUME NEW p \in KickPositions, LastRound(p)
       PROVE  /\ chain[p].amt <= balance + Recovered(p, Len(chain)) + sold[p]
              /\ balance + Recovered(p, Len(chain)) + sold[p] <= chain[p].amt + donated
              /\ balance' + Recovered(p, n)' = balance + Recovered(p, Len(chain))
              /\ Recovered(p, n)' \in Nat
  <2>1. /\ Recovered(p, Len(chain)) \in Nat
    BY <1>3, <1>5, RecoveriesCounted DEF LotInv
  <2>2. Returned(e) \in Nat
    BY <1>2 DEF Returned, Extends
  <2>3. balance' + Returned(e) = balance /\ balance' \in Nat /\ balance \in Nat
    BY DEF Accounts, ChainTypes
  <2>4. balance' + Recovered(p, n)' = balance + Recovered(p, Len(chain))
    BY <2>1, <2>2, <2>3, <1>6
  <2> QED BY <1>6, <1>11, <2>1, <2>2, <2>4 DEF LotInv, Conserved
<1>12. \A p \in KickPositions : chain[p].amt \in Nat /\ sold[p] \in Nat
  BY <1>5 DEF LotInv, AmountsTrue, KickPositions, ChainTypes
<1>13. Conserved'
  <2>1. donated' = donated
    BY DEF Accounts
  <2>2. ASSUME NEW p \in KickPositions, LastRound(p)
        PROVE  /\ chain'[p].amt <= balance' + Recovered(p, n)' + sold'[p]
               /\ balance' + Recovered(p, n)' + sold'[p] <= chain'[p].amt + donated'
    <3>1. chain'[p] = chain[p] /\ sold'[p] = sold[p]
      BY <1>3, <1>5
    <3> QED BY <2>1, <2>2, <3>1, <1>11
  <2> QED BY <2>2, <1>3, <1>4 DEF Conserved
<1>14. ASSUME NEW p \in KickPositions, NEW q \in After(p)'
       PROVE  RoundTrue(p, q)'
  <2>1. \A c \in After(p) : c \in DOMAIN chain /\ c \in Nat /\ c < n
    BY <1>1, <1>3 DEF After
  <2>2. chain'[p] = chain[p] /\ sold'[p] = sold[p]
    BY <1>3, <1>5
  <2>3. CASE q \in After(p)
    <3>1. RoundTrue(p, q)
      BY <2>3 DEF LotInv
    <3>2. /\ ClosesOnChain(q)' <=> ClosesOnChain(q)
          /\ Recovered(p, q)' = Recovered(p, q) /\ chain'[q] = chain[q]
      BY <2>1, <2>3, <1>3, <1>6, <1>7
    <3>3. \A c \in After(p)' : c < q => c \in After(p)
      BY <2>1, <2>3, <1>1, <1>3, <1>4
    <3>4. After(p) \subseteq After(p)'
      BY <1>4
    <3>5. \A c \in After(p) : ClosesOnChain(c)' <=> ClosesOnChain(c)
      BY <2>1, <1>7
    <3>6. donated' = donated
      BY DEF Accounts
    <3> QED BY <2>2, <3>1, <3>2, <3>3, <3>4, <3>5, <3>6 DEF RoundTrue
  <2>4. CASE q \notin After(p)
    <3>1. q = n /\ LastRound(p)
      BY <2>4, <1>4
    <3>2. \A c \in After(p)' : c < n => c \in After(p)
      BY <1>1, <1>3, <1>4
    <3>3. ASSUME ClosingEvent(e)
          PROVE  /\ chain'[p].amt <= Recovered(p, n)' + sold'[p]
                 /\ Recovered(p, n)' + sold'[p] <= chain'[p].amt + donated'
                 /\ \A c \in After(p)' : c < n => ~ClosesOnChain(c)'
      <4>1. kicked /\ balance' = 0 /\ donated' = donated
        BY <3>3 DEF Accounts
      <4>2. \A c \in After(p) : ~ClosesOnChain(c)
        BY <3>1, <4>1, LastRoundOpen
      <4>3. /\ chain[p].amt <= Recovered(p, n)' + sold[p]
            /\ Recovered(p, n)' + sold[p] <= chain[p].amt + donated'
        <5>1. Recovered(p, n)' = balance + Recovered(p, Len(chain))
          BY <3>1, <4>1, <1>11
        <5> QED BY <3>1, <4>1, <5>1, <1>11
      <4> QED BY <2>1, <2>2, <3>2, <4>2, <4>3, <1>7
    <3>4. ASSUME e.op = "resolve", ~ClosingEvent(e)
          PROVE  \E c \in After(p)' : c < n /\ ClosesOnChain(c)'
      <4>1. ~kicked
        BY <3>4 DEF Accounts
      <4>2. PICK c \in After(p) : ClosesOnChain(c)
        BY <3>1, <4>1 DEF LotInv, OpenTrue
      <4> QED BY <2>1, <4>2, <1>4, <1>7
    <3> QED BY <3>1, <3>3, <3>4, <1>3, <1>8 DEF RoundTrue
  <2> QED BY <2>3, <2>4
<1>15. ASSUME NEW q \in DOMAIN chain', ClosesOnChain(q)'
       PROVE  \E p \in KickPositions : q \in After(p)'
  <2>1. CASE q \in DOMAIN chain
    <3>1. PICK p \in KickPositions : q \in After(p)
      BY <1>7, <1>15, <2>1 DEF LotInv
    <3> QED BY <3>1, <1>4
  <2>2. CASE q = n
    <3>1. kicked
      BY <1>8, <1>15, <2>2 DEF Accounts
    <3>2. LastKick \in KickPositions /\ LastRound(LastKick)
      BY <3>1, OpenIsLast
    <3> QED BY <2>2, <3>2, <1>4
  <2> QED BY <2>1, <2>2, <1>3
<1> QED BY <1>4, <1>9, <1>10, <1>13, <1>14, <1>15 DEF LotInv

\* A kick opens a round with all the auction holds.
LEMMA KickKeepsLots ==
    ASSUME ChainTypes, LotInv, NEW e, Extends(e), e.op = "kick",
           balance' = e.amt, donated' = donated, kicked', donated \in Nat
    PROVE  LotInv'
<1>1. PICK n : n = Len(chain) + 1
  OBVIOUS
<1>2. e \in Event
  BY DEF Extends
<1>3. /\ n \in Nat \ {0} /\ Len(chain') = n /\ n \notin DOMAIN chain
      /\ DOMAIN chain' = DOMAIN chain \union {n}
      /\ DOMAIN chain = 1 .. Len(chain) /\ Len(chain) \in Nat
      /\ chain'[n] = e /\ \A p \in DOMAIN chain : chain'[p] = chain[p]
      /\ sold'[n] = 0 /\ \A p \in DOMAIN chain : sold'[p] = sold[p]
  BY <1>1, ChainExtended
<1>4. KickPositions' = KickPositions \union {n} /\ After(n)' = {} /\ LastRound(n)'
  BY <1>1, AfterExtended
<1>5. \A p \in KickPositions : After(p)' = After(p) /\ ~LastRound(p)'
  <2> SUFFICES ASSUME NEW p \in KickPositions
               PROVE  After(p)' = After(p) /\ ~LastRound(p)'
    OBVIOUS
  <2>1. /\ After(p)' = After(p) \union (IF e.op # "kick" /\ LastRound(p) THEN {n} ELSE {})
        /\ LastRound(p)' <=> LastRound(p) /\ e.op # "kick"
    BY <1>1, AfterExtended
  <2> QED BY <2>1
<1>6. AmountsTrue'
  BY <1>3 DEF LotInv, AmountsTrue, Extends
<1>7. OpenTrue'
  BY DEF OpenTrue
<1>8. Conserved'
  <2>1. Recovered(n, n)' = 0 /\ e.amt \in Nat
    BY <1>1, <1>3, RecoveredExtended DEF LotInv, Extends
  <2>2. /\ chain'[n].amt <= balance' + Recovered(n, n)' + sold'[n]
        /\ balance' + Recovered(n, n)' + sold'[n] <= chain'[n].amt + donated'
    BY <2>1, <1>3
  <2> QED BY <2>2, <1>3, <1>4, <1>5 DEF Conserved
<1>9. ASSUME NEW p \in KickPositions, NEW q \in After(p)
      PROVE  RoundTrue(p, q)'
  <2>1. RoundTrue(p, q) /\ p \in DOMAIN chain /\ After(p) \subseteq DOMAIN chain
    BY DEF LotInv, After, KickPositions
  <2>2. /\ \A c \in After(p) : ClosesOnChain(c)' <=> ClosesOnChain(c)
        /\ chain'[p] = chain[p] /\ sold'[p] = sold[p] /\ chain'[q] = chain[q]
    BY <2>1, <1>3 DEF ClosesOnChain
  <2>3. Recovered(p, q)' = Recovered(p, q)
    <3>1. p \in Nat
      BY <2>1, <1>3
    <3> QED BY <2>1, <3>1, <1>1, <1>3, RecoveredExtended DEF LotInv
  <2> QED BY <2>1, <2>2, <2>3, <1>5 DEF RoundTrue
<1>10. ASSUME NEW q \in DOMAIN chain', ClosesOnChain(q)'
       PROVE  \E p \in KickPositions' : q \in After(p)'
  <2>1. q \in DOMAIN chain /\ ClosesOnChain(q)
    BY <1>3, <1>10 DEF ClosesOnChain
  <2>2. PICK p \in KickPositions : q \in After(p)
    BY <2>1 DEF LotInv
  <2> QED BY <2>2, <1>4, <1>5
<1> QED BY <1>4, <1>5, <1>6, <1>7, <1>8, <1>9, <1>10 DEF LotInv

LEMMA TokensMove ==
    ASSUME NEW a \in Nat, NEW b \in Nat, NEW c \in Nat, NEW d \in Nat,
           NEW r \in Nat, NEW s \in Nat, NEW t \in Nat, a <= b + r + s, b + r + s <= a + d
    PROVE  /\ c + t = b + s => a <= c + r + t /\ c + r + t <= a + d
           /\ c + t = b + s + 1 => a <= c + r + t /\ c + r + t <= a + (d + 1)
OBVIOUS

\* Between events tokens are bought and donated, and time passes.
LEMMA LotKeepsLots ==
    ASSUME ChainTypes, KickedTrue, LotInv, Take \/ Expire \/ Donate
    PROVE  LotInv'
<1>1. UNCHANGED <<chain, kicked>>
  BY DEF Take, Expire, Donate
<1>2. /\ KickPositions' = KickPositions
      /\ \A p : After(p)' = After(p) /\ (LastRound(p)' <=> LastRound(p))
      /\ \A q : ClosesOnChain(q)' <=> ClosesOnChain(q)
      /\ \A p, q : Recovered(p, q)' = Recovered(p, q)
  BY <1>1 DEF KickPositions, After, LastRound, ClosesOnChain, Recovered, Recoveries, Amounts, Pile
<1>3. AmountsTrue' /\ OpenTrue'
  <2>1. active' => active
    BY DEF Take, Expire, Donate
  <2> QED BY <2>1, <1>1, <1>2 DEF LotInv, AmountsTrue, OpenTrue
<1>4. \A p \in KickPositions : /\ p \in DOMAIN chain /\ p \in Nat /\ p \in DOMAIN sold
                               /\ sold[p] \in Nat /\ chain[p].amt \in Nat
  BY DEF KickPositions, ChainTypes, LotInv, AmountsTrue
<1>5. balance \in Nat /\ donated \in Nat /\ Len(chain) \in Nat
  BY DEF ChainTypes
<1>6. ASSUME NEW p \in KickPositions
      PROVE  /\ sold'[p] \in Nat /\ sold'[p] >= sold[p]
             /\ (\E q \in After(p) : ClosesOnChain(q)) => sold'[p] = sold[p]
             /\ LastRound(p) => \/ balance' + sold'[p] = balance + sold[p] /\ donated' = donated
                                \/ balance' + sold'[p] = balance + sold[p] + 1 /\ donated' = donated + 1
  <2>1. CASE Expire \/ Donate
    BY <2>1, <1>4, <1>5 DEF Expire, Donate
  <2>2. CASE Take
    <3>1. /\ sold' = [sold EXCEPT ![LastKick] = @ + 1] /\ balance' = balance - 1 /\ active
          /\ donated' = donated
      BY <2>2 DEF Take
    <3>2. CASE p = LastKick
      <4>1. sold'[p] = sold[p] + 1
        BY <3>1, <3>2, <1>4
      <4>2. \A q \in After(p) : ~ClosesOnChain(q)
        <5>1. kicked
          BY <3>1 DEF LotInv, OpenTrue
        <5> QED BY <5>1, <3>2, OpenIsLast, LastRoundOpen
      <4> QED BY <3>1, <4>1, <4>2, <1>4, <1>5
    <3>3. CASE p # LastKick
      <4>1. sold'[p] = sold[p]
        BY <3>1, <3>3, <1>4
      <4>2. ~LastRound(p)
        <5>1. LastKick \in KickPositions /\ OpenSince(LastKick)
          BY <3>1, OpenRound DEF LotInv, OpenTrue
        <5> QED BY <5>1, <3>3, <1>4 DEF LastRound, OpenSince, KickPositions
      <4> QED BY <4>1, <4>2, <1>4
    <3> QED BY <3>2, <3>3
  <2> QED BY <2>1, <2>2
<1>7. Conserved'
  <2>1. ASSUME NEW p \in KickPositions, LastRound(p)
        PROVE  LET found == balance' + Recovered(p, Len(chain)) + sold'[p]
               IN  chain[p].amt <= found /\ found <= chain[p].amt + donated'
    <3>1. PICK r \in Nat : r = Recovered(p, Len(chain))
      BY <1>4, <1>5, RecoveriesCounted DEF LotInv
    <3>2. /\ chain[p].amt <= balance + r + sold[p]
          /\ balance + r + sold[p] <= chain[p].amt + donated
      BY <2>1, <3>1 DEF LotInv, Conserved
    <3>3. balance' \in Nat
      BY <1>5 DEF Take, Expire, Donate
    <3>4. chain[p].amt <= balance' + r + sold'[p] /\ balance' + r + sold'[p] <= chain[p].amt + donated'
      <4>1. PICK a \in Nat, s \in Nat, t \in Nat : a = chain[p].amt /\ s = sold[p] /\ t = sold'[p]
        BY <1>4, <1>6
      <4>2. \/ balance' + t = balance + s /\ donated' = donated
            \/ balance' + t = balance + s + 1 /\ donated' = donated + 1
        BY <2>1, <4>1, <1>6
      <4>3. a <= balance + r + s /\ balance + r + s <= a + donated
        BY <3>2, <4>1
      <4>4. a <= balance' + r + t /\ balance' + r + t <= a + donated'
        <5>1. PICK b \in Nat, c \in Nat, d \in Nat : b = balance /\ c = balance' /\ d = donated
          BY <3>3, <1>5
        <5>2. a <= b + r + s /\ b + r + s <= a + d
          BY <4>3, <5>1
        <5>3. \/ c + t = b + s /\ donated' = d
              \/ c + t = b + s + 1 /\ donated' = d + 1
          BY <4>2, <5>1
        <5>4. /\ c + t = b + s => a <= c + r + t /\ c + r + t <= a + d
              /\ c + t = b + s + 1 => a <= c + r + t /\ c + r + t <= a + (d + 1)
          <6>1. /\ a \in Nat /\ b \in Nat /\ c \in Nat /\ d \in Nat
                /\ r \in Nat /\ s \in Nat /\ t \in Nat
            BY <3>1, <4>1, <5>1
          <6> QED BY ONLY <6>1, <5>2, TokensMove
        <5>5. a <= c + r + t /\ c + r + t <= a + donated'
          BY <5>3, <5>4
        <5> QED BY <5>1, <5>5
      <4> QED BY <4>1, <4>4
    <3> QED BY <3>1, <3>4
  <2> QED BY <2>1, <1>1, <1>2 DEF Conserved
<1>10. donated' \in Nat /\ (donated' = donated \/ donated' = donated + 1)
  <2>1. CASE Take
    BY <2>1, <1>5 DEF Take
  <2>2. CASE Expire
    BY <2>2, <1>5 DEF Expire
  <2>3. CASE Donate
    BY <2>3, <1>5 DEF Donate
  <2> QED BY <2>1, <2>2, <2>3
<1>8. ASSUME NEW p \in KickPositions, NEW q \in After(p)
      PROVE  RoundTrue(p, q)'
  <2>1. RoundTrue(p, q) /\ p \in Nat /\ q \in Nat
    BY <1>4 DEF LotInv, After, ChainTypes
  <2>2. Recovered(p, q) \in Nat
    BY <2>1, RecoveriesCounted DEF LotInv
  <2>3. ASSUME ClosesOnChain(q)
        PROVE  sold'[p] = sold[p]
    BY <2>3, <1>6
  <2>5. Recovered(p, q) + sold[p] <= chain[p].amt + donated =>
          Recovered(p, q) + sold[p] <= chain[p].amt + donated'
    <3>1. PICK a \in Nat, s \in Nat, r \in Nat : a = chain[p].amt /\ s = sold[p] /\ r = Recovered(p, q)
      BY <2>2, <1>4
    <3>4. donated \in Nat /\ donated' \in Nat /\ (donated' = donated \/ donated' = donated + 1)
      BY <1>5, <1>10
    <3>2. PICK d \in Nat, e \in Nat : d = donated /\ e = donated' /\ (e = d \/ e = d + 1)
      <4>1. \E d \in Nat, e \in Nat : d = donated /\ e = donated' /\ (e = d \/ e = d + 1)
        BY ONLY <3>4
      <4> QED BY ONLY <4>1
    <3>3. r + s <= a + d => r + s <= a + e
      <4>1. \A x, y, z \in Nat : x <= y + z => x <= y + (z + 1)
        OBVIOUS
      <4>2. r + s \in Nat /\ a \in Nat /\ d \in Nat
        BY <3>1, <3>2
      <4> QED BY ONLY <3>2, <4>1, <4>2
    <3> QED BY <3>1, <3>2, <3>3
  <2>4. /\ Recovered(p, q)' = Recovered(p, q) /\ After(p)' = After(p)
        /\ \A c : ClosesOnChain(c)' <=> ClosesOnChain(c)
    BY <1>2
  <2> QED BY <2>1, <2>3, <2>4, <2>5, <1>1 DEF RoundTrue
<1>9. \A q \in DOMAIN chain' : ClosesOnChain(q)' => \E p \in KickPositions' : q \in After(p)'
  <2>1. /\ chain' = chain /\ KickPositions' = KickPositions
        /\ \A p : After(p)' = After(p)
        /\ \A q : ClosesOnChain(q)' <=> ClosesOnChain(q)
    BY <1>1, <1>2
  <2> QED BY <2>1 DEF LotInv
<1> QED BY <1>2, <1>3, <1>7, <1>8, <1>9 DEF LotInv

\* Without a new event nothing changes hands.
LEMMA LotsUntouched ==
    ASSUME LotInv, UNCHANGED <<chain, kicked, active, balance, sold, donated>>
    PROVE  LotInv'
<1>1. /\ KickPositions' = KickPositions
      /\ \A p : After(p)' = After(p) /\ (LastRound(p)' <=> LastRound(p))
      /\ \A q : ClosesOnChain(q)' <=> ClosesOnChain(q)
      /\ \A p, q : Recovered(p, q)' = Recovered(p, q)
  BY DEF KickPositions, After, LastRound, ClosesOnChain, Recovered, Recoveries, Amounts, Pile
<1>2. AmountsTrue' /\ OpenTrue' /\ Conserved'
  BY <1>1 DEF LotInv, AmountsTrue, OpenTrue, Conserved
<1>3. \A p \in KickPositions : \A q \in After(p) : RoundTrue(p, q)'
  BY <1>1 DEF LotInv, RoundTrue
<1> QED BY <1>1, <1>2, <1>3 DEF LotInv

LEMMA OnChainKeepsLots ==
    ASSUME ChainTypes, KickedTrue, LotInv, OnChain
    PROVE  LotInv'
<1>1. balance \in Nat /\ donated \in Nat /\ (active => kicked)
  BY DEF ChainTypes, LotInv, OpenTrue
<1>2. CASE \E op \in Ops : SendTx(op)
  BY <1>2, LotsUntouched DEF SendTx
<1>3. ASSUME NEW t \in DOMAIN txs, MineReverted(t)
      PROVE  LotInv'
  <2> DEFINE e == [op |-> "reverted", tx |-> t, path |-> NoPath, req |-> NoAmount, amt |-> NoAmount]
  <2>1. e \in Event
    BY DEF Event, Paths, NoPath, NoAmount, ChainTypes
  <2>2. Accounts(e)
    BY <1>1, <1>3, <2>1 DEF MineReverted, Emit, Accounts, Extends, Returned, ClosingEvent
  <2> HIDE DEF e
  <2> QED BY <2>2, EventKeepsLots
<1>4. ASSUME NEW t \in DOMAIN txs, MineKick(t)
      PROVE  LotInv'
  <2> DEFINE e == [op |-> "kick", tx |-> t, path |-> NoPath, req |-> Amount, amt |-> balance + Amount]
  <2>1. e \in Event /\ e.amt \in Nat
    BY <1>1, BoundsAssumption DEF Event, Paths, NoPath, TxOps, ChainTypes
  <2>3. e.amt > 0
    BY <1>1, BoundsAssumption
  <2>2. Extends(e) /\ e.op = "kick" /\ balance' = e.amt /\ donated' = donated /\ kicked'
    BY <1>4, <2>1, <2>3 DEF MineKick, Emit, Extends
  <2> HIDE DEF e
  <2> QED BY <1>1, <2>2, KickKeepsLots
<1>5. ASSUME NEW t \in DOMAIN txs, MineResolve(t)
      PROVE  LotInv'
  <2> DEFINE e == [op |-> "resolve", tx |-> t, path |-> ResolvePath, req |-> NoAmount, amt |-> balance]
  <2>1. ResolvePath \in 0 .. 5 /\ (ResolvePath \in ClosingPaths <=> kicked)
    BY <1>1 DEF ResolvePath, ClosingPaths, ChainTypes
  <2>2. e \in Event
    BY <1>1, <2>1 DEF Event, Paths, AllPaths, NoAmount, TxOps, ChainTypes
  <2>3. Accounts(e)
    <3>1. Extends(e) /\ Returned(e) = balance /\ e.op = "resolve"
      BY <1>1, <1>5, <2>1, <2>2 DEF MineResolve, Emit, Extends, Returned, AllPaths
    <3>2. ClosingEvent(e) <=> kicked
      BY <2>1 DEF ClosingEvent
    <3>3. ~kicked' /\ ~active' /\ balance' = 0 /\ donated' = donated
      BY <1>5 DEF MineResolve
    <3>4. kicked \in BOOLEAN /\ kicked' \in BOOLEAN
      BY <1>5 DEF ChainTypes, MineResolve
    <3> HIDE DEF e
    <3> QED BY <1>1, <3>1, <3>2, <3>3, <3>4 DEF Accounts
  <2> HIDE DEF e
  <2> QED BY <2>3, EventKeepsLots
<1>6. ASSUME NEW t \in DOMAIN txs, MineSweep(t)
      PROVE  LotInv'
  <2> DEFINE e == [op |-> "sweep", tx |-> t, path |-> NoPath, req |-> NoAmount, amt |-> balance]
  <2>1. e \in Event
    BY <1>1 DEF Event, Paths, NoPath, NoAmount, TxOps, ChainTypes
  <2>2. Accounts(e)
    BY <1>1, <1>6, <2>1 DEF MineSweep, Emit, Accounts, Extends, Returned, ClosingEvent
  <2> HIDE DEF e
  <2> QED BY <2>2, EventKeepsLots
<1>7. CASE SettleDirectly
  <2> DEFINE e == [op |-> "settled", tx |-> 0, path |-> NoPath, req |-> NoAmount, amt |-> 0]
  <2>1. e \in Event
    BY DEF Event, Paths, NoPath, NoAmount
  <2>2. Accounts(e)
    <3>1. Extends(e) /\ ClosingEvent(e) /\ Returned(e) = 0
      BY <1>7, <2>1 DEF SettleDirectly, Emit, Extends, Returned, ClosingEvent
    <3>2. kicked /\ ~kicked' /\ ~active' /\ balance = 0 /\ balance' = 0 /\ donated' = donated
      BY <1>1, <1>7 DEF SettleDirectly
    <3>3. e.op = "settled"
      OBVIOUS
    <3> HIDE DEF e
    <3> QED BY <3>1, <3>2, <3>3 DEF Accounts
  <2> HIDE DEF e
  <2> QED BY <2>2, EventKeepsLots
<1>8. CASE Take \/ Expire \/ Donate
  BY <1>8, LotKeepsLots
<1> QED BY <1>2, <1>3, <1>4, <1>5, <1>6, <1>7, <1>8 DEF OnChain

LEMMA LotInvNext == LedgerInv /\ LotInv /\ [Next]_vars => LotInv'
<1> SUFFICES ASSUME LedgerInv, LotInv, [Next]_vars  PROVE LotInv'
  OBVIOUS
<1>1. ChainTypes /\ KickedTrue
  BY DEF LedgerInv
<1>2. CASE OnChain
  BY <1>1, <1>2, OnChainKeepsLots
<1>3. CASE ~OnChain
  <2>1. UNCHANGED chainVars
    BY <1>3 DEF Next, vars, Maintain, StartClear, WriteClear, StartApply, SetBaselines, RecordTx,
                Finalise, WriteFinalised, Abandon, StartRepair, Repair, ReplayReceipt, ReadLinks,
                WriteLinks, ReadSettlement, InsertSettlement
  <2> QED BY <2>1, LotsUntouched DEF chainVars
<1> QED BY <1>2, <1>3

\* The tokens of every round are accounted for, on a chain where tokens are sold,
\* swept, resolved and donated in any order (AuctionKicker and the auction).
THEOREM LotInvariant == Spec => []LotInv
<1>1. Init => LotInv
  BY DEF Init, LotInv, AmountsTrue, OpenTrue, Conserved, KickPositions
<1> QED BY <1>1, LotInvNext, LedgerInvariant, PTL DEF Spec

----------------------------------------------------------------------------
(* What verdicts are worth.                                                *)

\* The newest round of the ledger is the last one on the chain.
LEMMA LatestIsLast ==
    ASSUME LedgerInv, AllRecorded, KicksInOrder,
           NEW k \in Kicks(rows), Newer(k, rows) = {}, k.status = "CONFIRMED"
    PROVE  /\ LastRound(k.pos) /\ chain[k.pos].tx = k.tx /\ k.tx \in DOMAIN txs
           /\ chain[k.pos].amt = k.amt /\ RowOf(k.tx) = {k}
<1>1. ChainTypes /\ ChainTrue /\ RowsTrue
  BY DEF LedgerInv
<1>2. /\ k \in rows /\ k.tx \in DOMAIN txs /\ txs[k.tx].op = "kick"
      /\ k.created = SentAt(k.tx) /\ Fate(k) /\ k.id \in Nat /\ k.created \in Nat
  BY <1>1, KickRow
<1>3. /\ txs[k.tx].state = "ok" /\ k.pos \in DOMAIN chain /\ chain[k.pos].tx = k.tx
      /\ chain[k.pos].amt = k.amt
  BY <1>2 DEF Fate
<1>4. \A t \in DOMAIN txs : t \in Nat \ {0}
  BY <1>1 DEF ChainTypes
<1>5. k.pos \in KickPositions
  <2>1. EventTrue(chain[k.pos]) /\ chain[k.pos] \in Event /\ k.tx # 0
    BY <1>1, <1>2, <1>3, <1>4 DEF ChainTrue, ChainTypes
  <2> QED BY <2>1, <1>2, <1>3 DEF EventTrue, Event, TxOps, KickPositions
<1>6. PositionOf(k.tx) = k.pos
  BY <1>1, <1>2, <1>3, <1>4, PositionIsItsEvent DEF ChainTrue
<1>7. ASSUME NEW q \in KickPositions
      PROVE  q <= k.pos
  <2> DEFINE t == chain[q].tx
  <2>1. t \in DOMAIN txs /\ txs[t].op = "kick" /\ txs[t].state = "ok" /\ q \in DOMAIN chain
    BY <1>1 DEF ChainTrue, EventTrue, KickPositions, TxOps
  <2>2. PICK r \in rows : r.tx = t
    BY <2>1 DEF AllRecorded, RowOf
  <2>3. r \in Row /\ RowTrue(r) /\ t # 0
    BY <1>1, <1>4, <2>1 DEF RowsTrue, RowsKeyed
  <2>4. r.op = "kick" /\ Fate(r) /\ r.created = SentAt(t)
    BY <2>1, <2>2, <2>3 DEF RowTrue
  <2>5. r \in Kicks(rows)
    BY <2>1, <2>2, <2>3, <2>4 DEF Fate, Kicks, Row
  <2>6. ~NewerThan(r, k)
    BY <2>5 DEF Newer
  <2>7. ~(k.tx < t)
    <3> SUFFICES ASSUME k.tx < t  PROVE FALSE
      OBVIOUS
    <3>1. SentAt(k.tx) < SentAt(t)
      BY <1>1, <1>2, <2>1, SentInOrder
    <3> QED BY <3>1, <1>2, <2>4, <2>6 DEF NewerThan
  <2>8. PositionOf(t) = q
    BY <1>1, <1>4, <2>1, PositionIsItsEvent DEF ChainTrue
  <2>9. CASE t = k.tx
    <3>1. q = k.pos /\ k.pos \in Nat
      BY <2>8, <2>9, <1>1, <1>3, <1>6 DEF ChainTypes
    <3> QED BY <3>1
  <2>10. CASE t < k.tx
    <3>1. PositionOf(t) < PositionOf(k.tx)
      BY <2>1, <2>10, <1>2, <1>3 DEF KicksInOrder
    <3>2. q \in Nat /\ k.pos \in Nat
      BY <2>1, <1>1, <1>3 DEF ChainTypes
    <3> QED BY <3>1, <3>2, <2>8, <1>6
  <2>11. t \in Nat /\ k.tx \in Nat
    BY <2>1, <1>2, <1>4
  <2> QED BY <2>7, <2>9, <2>10, <2>11
<1>8. RowOf(k.tx) = {k}
  BY <1>1, <1>2, <1>4 DEF RowOf, RowsTrue, RowsKeyed
<1> QED BY <1>2, <1>3, <1>5, <1>7, <1>8 DEF LastRound

\* The rows whose tokens a verdict counts.
Counted(k) == Partials(k, rows) \union Closes(k, rows)
AmountOf   == [r \in rows |-> r.amt]

LEMMA TotalIsPile ==
    ASSUME RowsTrue, NEW k
    PROVE  /\ Counted(k) \in SUBSET rows /\ IsFiniteSet(Counted(k))
           /\ \A r \in Counted(k) : AmountOf[r] = r.amt /\ r.amt \in Int
           /\ Total(Counted(k)) = Cardinality(Pile(Counted(k), AmountOf))
           /\ Total(Counted(k)) \in Nat
<1>1. Counted(k) \in SUBSET rows
  BY DEF Counted, Partials, Closes, Sweeps, Resolves, Confirmed, Linked
<1>2. IsFiniteSet(Counted(k))
  BY <1>1, FS_Subset DEF RowsTrue, RowsKeyed
<1>3. \A r \in Counted(k) : AmountOf[r] = r.amt /\ r.amt \in Int
  BY <1>1 DEF AmountOf, RowsTrue, RowsKeyed, Row
<1>4. Total(Counted(k)) = Cardinality(Pile(Counted(k), AmountOf))
  <2>1. UNION {{r} \X (1 .. r.amt) : r \in Counted(k)} = Pile(Counted(k), AmountOf)
    BY <1>3 DEF Pile
  <2> QED BY <2>1 DEF Total
<1>5. Total(Counted(k)) \in Nat
  BY <1>2, <1>3, <1>4, PileIsFinite
<1> QED BY <1>1, <1>2, <1>3, <1>4, <1>5

\* A row that is counted with tokens is a sweep or a resolution of the chain.
LEMMA CountedIsRecovery ==
    ASSUME LedgerInv, NEW k \in rows, k.pos \in Nat, NEW q \in Nat,
           NEW r \in Counted(k), r.amt > 0, k.pos < r.pos, r.pos <= q
    PROVE  /\ r.tx # 0 /\ r.pos \in Recoveries(k.pos, q)
           /\ chain[r.pos].tx = r.tx /\ chain[r.pos].amt = r.amt
<1>1. /\ r \in rows /\ r.status = "CONFIRMED" /\ r \in Confirmed(k, rows)
      /\ r.op = "sweep" \/ r.op = "resolve" \/ (r.op = "settled" /\ r \in Closes(k, rows))
  BY DEF Counted, Partials, Closes, Sweeps, Resolves, Confirmed, Linked, ClosesRound
<1>2. ~(r.op = "settled")
  BY <1>1 DEF LedgerInv, RowsTrue, RowTrue
<1>3. ChainTypes /\ ChainTrue /\ RowTrue(r)
  BY <1>1 DEF LedgerInv, RowsTrue
<1>4. /\ r.tx \in DOMAIN txs /\ txs[r.tx].op = r.op /\ r.pos \in DOMAIN chain
      /\ chain[r.pos].tx = r.tx /\ chain[r.pos].amt = r.amt /\ txs[r.tx].state = "ok"
  BY <1>1, <1>2, <1>3 DEF RowTrue, Fate
<1>5. r.tx # 0 /\ r.pos \in Nat /\ r.pos <= Len(chain)
  BY <1>3, <1>4 DEF ChainTypes
<1>6. chain[r.pos].op = r.op
  <2>1. PICK e : e = chain[r.pos]
    OBVIOUS
  <2>2. EventTrue(e) /\ e \in Event
    BY <2>1, <1>3, <1>4 DEF ChainTrue, ChainTypes
  <2>3. e.op \in TxOps
    BY <2>1, <2>2, <1>4, <1>5 DEF EventTrue, Event
  <2> QED BY <2>1, <2>2, <2>3, <1>4 DEF EventTrue
<1> QED BY <1>1, <1>2, <1>4, <1>5, <1>6 DEF Recoveries

\* What a verdict counts was recovered.
LEMMA TotalWithinRecovered ==
    ASSUME LedgerInv, LotInv, NEW k \in rows, k.pos \in Nat, NEW q \in Nat,
           \A r \in Counted(k) : k.pos < r.pos /\ r.pos <= q
    PROVE  Total(Counted(k)) <= Recovered(k.pos, q)
<1> DEFINE S == Counted(k)
           T == Recoveries(k.pos, q)
<1>1. RowsTrue /\ ChainTypes /\ AmountsTrue
  BY DEF LedgerInv, LotInv
<1>2. PICK f : f = [r \in rows |-> r.pos]
  OBVIOUS
<1>3. PICK a : a = AmountOf
  OBVIOUS
<1>4. PICK b : b = Amounts
  OBVIOUS
<1>5. /\ IsFiniteSet(S) /\ S \in SUBSET rows /\ \A r \in S : a[r] = r.amt /\ a[r] \in Int
      /\ Total(S) = Cardinality(Pile(S, a))
  BY <1>1, <1>3, TotalIsPile
<1>6. IsFiniteSet(T) /\ \A e \in T : b[e] = chain[e].amt /\ b[e] \in Int
  BY <1>1, <1>4, RecoveriesCounted
<1>7. \A r \in S : a[r] > 0 => /\ r.tx # 0 /\ f[r] = r.pos /\ f[r] \in T
                               /\ chain[r.pos].tx = r.tx /\ b[f[r]] = a[r]
  <2> SUFFICES ASSUME NEW r \in S, a[r] > 0
               PROVE  /\ r.tx # 0 /\ f[r] = r.pos /\ f[r] \in T
                      /\ chain[r.pos].tx = r.tx /\ b[f[r]] = a[r]
    OBVIOUS
  <2>1. r.tx # 0 /\ r.pos \in T /\ chain[r.pos].tx = r.tx /\ chain[r.pos].amt = r.amt
    BY <1>5, CountedIsRecovery
  <2> QED BY <2>1, <1>2, <1>5, <1>6
<1>8. \A r, s \in S : a[r] > 0 /\ a[s] > 0 /\ f[r] = f[s] => r = s
  BY <1>1, <1>5, <1>7 DEF RowsTrue, RowsKeyed
<1> HIDE DEF S, T
<1>9. Cardinality(Pile(S, a)) <= Cardinality(Pile(T, b))
  BY <1>5, <1>6, <1>7, <1>8, PileCovered
<1> QED BY <1>4, <1>5, <1>9 DEF Recovered, S, T

LEMMA LedgerInvNoFill == LedgerInv /\ LotInv => NoFillIsTrue
<1> SUFFICES ASSUME LedgerInv, LotInv, AllRecorded, KicksInOrder,
                    NEW k \in Latest(rows), Outcome(k, rows) = "NO_FILL"
             PROVE  sold[k.pos] <= donated
  BY DEF NoFillIsTrue
<1>1. /\ ~AwaitingReceipt(k, rows) /\ ~Unprovable(k, rows) /\ ~Contradictory(k, rows)
      /\ FullyRecovered(k, rows)
  BY DEF Outcome, ClassifyRound
<1>2. k \in Kicks(rows) /\ Newer(k, rows) = {} /\ k \in rows /\ k.status = "CONFIRMED"
  BY <1>1 DEF Latest, Current, Kicks, AwaitingReceipt
<1>3. LastRound(k.pos) /\ chain[k.pos].amt = k.amt
  BY <1>2, LatestIsLast
<1>4. k.pos \in KickPositions /\ k.pos \in Nat /\ Len(chain) \in Nat /\ k.pos \in DOMAIN sold
  BY <1>3 DEF LastRound, KickPositions, LedgerInv, ChainTypes
<1>5. Total(Counted(k)) = k.amt
  BY <1>1 DEF FullyRecovered, Counted
<1>6. Total(Counted(k)) <= Recovered(k.pos, Len(chain)) /\ Recovered(k.pos, Len(chain)) \in Nat
  <2>1. ASSUME NEW r \in Counted(k)
        PROVE  k.pos < r.pos /\ r.pos <= Len(chain)
    <3>1. r \in rows /\ r \in Confirmed(k, rows)
      BY DEF Counted, Partials, Closes, Sweeps, Resolves, Confirmed, Linked
    <3>2. r.pos \in Nat /\ r.pos <= Len(chain)
      BY <3>1, <1>4 DEF LedgerInv, ChainTypes, RowsTrue, RowTrue, PlaceTrue, NoPos
    <3> QED BY <3>1, <3>2, <1>1, <1>4 DEF Unprovable
  <2> QED BY <2>1, <1>2, <1>4, TotalWithinRecovered, RecoveriesCounted DEF LedgerInv, LotInv
<1>7. balance + Recovered(k.pos, Len(chain)) + sold[k.pos] <= chain[k.pos].amt + donated
  BY <1>3, <1>4 DEF LotInv, Conserved
<1>8. balance \in Nat /\ donated \in Nat /\ sold[k.pos] \in Nat /\ chain[k.pos].amt \in Nat
  BY <1>4 DEF LedgerInv, ChainTypes, LotInv, AmountsTrue, KickPositions
<1>9. \A b, r, s, a, d \in Nat : b + r + s <= a + d /\ a <= r => s <= d
  OBVIOUS
<1> QED BY <1>3, <1>5, <1>6, <1>7, <1>8, <1>9

\* NoFillGuard counts a failed round only for a round in which nothing was sold, up
\* to what was sent to the auction outside a kick.
THEOREM NoFillsAreTrue == Spec => []NoFillIsTrue
<1> QED BY LedgerInvariant, LotInvariant, LedgerInvNoFill, PTL

\* What was recovered up to the close is counted, if its sweeps are linked to the round.
LEMMA RecoveredWithinTotal ==
    ASSUME LedgerInv, LotInv, AllRecorded,
           NEW k \in rows, k.pos \in KickPositions,
           ~AwaitingReceipt(k, rows), NEW c \in Closes(k, rows), c.pos \in After(k.pos),
           \A r \in rows : r.op = "sweep" /\ txs[r.tx].state = "ok" =>
               (PositionOf(r.tx) \in After(k.pos) /\ PositionOf(r.tx) < c.pos => r.link = k.id),
           ClosesOnChain(c.pos), c.op # "settled" => chain[c.pos].tx = c.tx /\ chain[c.pos].amt = c.amt,
           c.op = "settled" => chain[c.pos].op = "settled"
    PROVE  Recovered(k.pos, c.pos) <= Total(Counted(k))
<1> DEFINE S == Recoveries(k.pos, c.pos)
           T == Counted(k)
           Stands(r, e) == r \in T /\ r.pos = e /\ r.amt = chain[e].amt
<1>1. RowsTrue /\ ChainTypes /\ ChainTrue /\ AmountsTrue
  BY DEF LedgerInv, LotInv
<1>2. k.pos \in Nat /\ c.pos \in Nat /\ c.pos \in DOMAIN chain /\ k.pos \in KickPositions
  BY <1>1 DEF KickPositions, After, ChainTypes
<1>3. ASSUME NEW e \in S
      PROVE  \E r \in rows : Stands(r, e)
  <2>1. /\ e \in DOMAIN chain /\ e \in Nat /\ k.pos < e /\ e <= c.pos
        /\ chain[e].op \in {"sweep", "resolve"}
    BY <1>1 DEF Recoveries, ChainTypes
  <2>2. CASE e = c.pos
    <3>1. c.op # "settled" /\ c \in rows
      BY <2>1, <2>2 DEF Closes, Confirmed, Linked
    <3> QED BY <2>2, <3>1 DEF Counted
  <2>3. CASE e < c.pos
    <3>1. e \in After(k.pos)
      <4>1. \A q \in KickPositions : q \in Nat /\ ~(k.pos < q /\ q <= c.pos)
        BY <1>1 DEF After, KickPositions, ChainTypes
      <4> QED BY <4>1, <2>1, <1>2 DEF After
    <3>2. ~ClosesOnChain(e)
      BY <2>3, <3>1, <1>2 DEF LotInv, RoundTrue
    <3>3. chain[e].op = "sweep"
      <4>1. SUFFICES ASSUME chain[e].op = "resolve"  PROVE FALSE
        BY <2>1
      <4>2. PICK d \in After(k.pos) : d < e /\ ClosesOnChain(d)
        BY <3>1, <3>2, <4>1, <1>2 DEF LotInv, RoundTrue
      <4>3. d \in Nat
        BY <1>1 DEF After, ChainTypes
      <4>4. d < c.pos
        BY <2>1, <2>3, <4>2, <4>3, <1>2
      <4> QED BY <4>2, <4>4, <1>2 DEF LotInv, RoundTrue
    <3>4. PICK t \in DOMAIN txs : chain[e].tx = t /\ txs[t].op = "sweep" /\ txs[t].state = "ok"
      BY <2>1, <3>3, <1>1 DEF ChainTrue, EventTrue, TxOps
    <3>5. PICK r \in rows : r.tx = t
      BY <3>4 DEF AllRecorded, RowOf
    <3>6. r \in Row /\ RowTrue(r) /\ t # 0
      BY <1>1 DEF RowsTrue, RowsKeyed, ChainTypes
    <3>7. r.op = "sweep" /\ Fate(r)
      BY <3>4, <3>5, <3>6 DEF RowTrue
    <3>8. PositionOf(t) = e
      BY <2>1, <3>4, <3>6, <1>1, PositionIsItsEvent DEF ChainTrue
    <3>9. r.link = k.id
      BY <2>3, <3>1, <3>4, <3>5, <3>7, <3>8
    <3>10. r.status = "CONFIRMED"
      <4>1. r.status # "SUBMITTED"
        BY <3>9 DEF AwaitingReceipt, Linked
      <4>2. r.status # "REVERTED"
        BY <3>4, <3>5, <3>7 DEF Fate
      <4> QED BY <3>6, <4>1, <4>2 DEF Row
    <3>11. r.pos = e /\ r.amt = chain[e].amt
      BY <3>4, <3>5, <3>6, <3>7, <3>10, <2>1, <1>1 DEF Fate, ChainTrue
    <3>12. r \in T
      BY <3>7, <3>9, <3>10 DEF Counted, Partials, Sweeps, Confirmed, Linked
    <3> QED BY <3>11, <3>12
  <2> QED BY <2>1, <2>2, <2>3, <1>2
<1>4. PICK f : f = [e \in S |-> CHOOSE r \in rows : Stands(r, e)]
  OBVIOUS
<1>5. \A e \in S : Stands(f[e], e)
  BY <1>3, <1>4
<1>6. PICK a : a = Amounts
  OBVIOUS
<1>7. PICK b : b = AmountOf
  OBVIOUS
<1>8. IsFiniteSet(S) /\ \A e \in S : a[e] = chain[e].amt /\ a[e] \in Int
  BY <1>1, <1>2, <1>6, RecoveriesCounted
<1>9. /\ IsFiniteSet(T) /\ \A r \in T : b[r] = r.amt /\ b[r] \in Int
      /\ Total(T) = Cardinality(Pile(T, b))
  BY <1>1, <1>7, TotalIsPile
<1>10. \A e \in S : a[e] > 0 => f[e] \in T /\ b[f[e]] = a[e]
  BY <1>5, <1>8, <1>9
<1>11. \A d, e \in S : a[d] > 0 /\ a[e] > 0 /\ f[d] = f[e] => d = e
  BY <1>5
<1> HIDE DEF S, T, Stands
<1>12. Cardinality(Pile(S, a)) <= Cardinality(Pile(T, b))
  BY <1>8, <1>9, <1>10, <1>11, PileCovered
<1> QED BY <1>6, <1>9, <1>12 DEF Recovered, S, T

LEMMA LedgerInvProductive == LedgerInv /\ LotInv => ProductiveIsTrue
<1> SUFFICES ASSUME LedgerInv, LotInv, AllRecorded, KicksInOrder, SweepsPlaced,
                    NEW k \in Latest(rows), Outcome(k, rows) = "PRODUCTIVE"
             PROVE  sold[k.pos] > 0
  BY DEF ProductiveIsTrue
<1>1. /\ ~AwaitingReceipt(k, rows) /\ ~Unprovable(k, rows) /\ ~Contradictory(k, rows)
      /\ ~FullyRecovered(k, rows) /\ Closes(k, rows) # {}
  BY DEF Outcome, ClassifyRound
<1>2. k \in Kicks(rows) /\ Newer(k, rows) = {} /\ k \in rows /\ k.status = "CONFIRMED"
  BY <1>1 DEF Latest, Current, Kicks, AwaitingReceipt
<1>3. /\ LastRound(k.pos) /\ chain[k.pos].amt = k.amt /\ chain[k.pos].tx = k.tx
      /\ RowOf(k.tx) = {k}
  BY <1>2, LatestIsLast
<1>4. RowsTrue /\ ChainTypes /\ ChainTrue /\ AmountsTrue
  BY DEF LedgerInv, LotInv
<1>5. /\ k.pos \in KickPositions /\ k.pos \in Nat /\ k.pos \in DOMAIN sold
      /\ sold[k.pos] \in Nat /\ chain[k.pos].amt \in Nat
  BY <1>3, <1>4 DEF LastRound, KickPositions, ChainTypes, AmountsTrue
<1>6. PICK c \in Closes(k, rows) : TRUE
  BY <1>1
<1>7. c \in rows /\ c \in Confirmed(k, rows) /\ c.status = "CONFIRMED" /\ ClosesRound(c) /\ RowTrue(c)
  BY <1>4 DEF Closes, Confirmed, Linked, RowsTrue
<1>8. c.op \in {"settled", "resolve"}
  BY <1>7 DEF ClosesRound
<1>9. /\ c.pos \in DOMAIN chain /\ ClosesOnChain(c.pos)
      /\ c.op = "settled" => chain[c.pos].op = "settled"
      /\ c.op # "settled" => chain[c.pos].tx = c.tx /\ chain[c.pos].amt = c.amt
  <2>1. CASE c.op = "settled"
    BY <2>1, <1>7 DEF RowTrue, ClosesOnChain
  <2>2. CASE c.op = "resolve"
    <3>1. /\ c.tx \in DOMAIN txs /\ txs[c.tx].op = "resolve" /\ txs[c.tx].state = "ok"
          /\ c.pos \in DOMAIN chain /\ chain[c.pos].tx = c.tx /\ chain[c.pos].amt = c.amt
          /\ chain[c.pos].path = c.path /\ c.path \in ClosingPaths
      BY <2>2, <1>7 DEF RowTrue, Fate, ClosesRound
    <3>2. EventTrue(chain[c.pos]) /\ chain[c.pos] \in Event /\ c.tx # 0
      BY <3>1, <1>4 DEF ChainTypes, ChainTrue
    <3>3. chain[c.pos].op = "resolve"
      BY <3>1, <3>2 DEF EventTrue, Event, TxOps
    <3> QED BY <2>2, <3>1, <3>3 DEF ClosesOnChain
  <2> QED BY <1>8, <2>1, <2>2
<1>10. c.pos \in After(k.pos) /\ c.pos \in Nat
  <2>1. c.pos \in Nat /\ \A q \in KickPositions : q \in Nat
    BY <1>4, <1>9 DEF ChainTypes, KickPositions
  <2>2. c.pos > k.pos
    BY <2>1, <1>1, <1>5, <1>7 DEF Unprovable
  <2> QED BY <2>1, <2>2, <1>3, <1>5, <1>9 DEF After, LastRound
<1>11. chain[k.pos].amt <= Recovered(k.pos, c.pos) + sold[k.pos]
  BY <1>5, <1>9, <1>10 DEF LotInv, RoundTrue
<1>12. Recovered(k.pos, c.pos) <= Total(Counted(k))
  <2>1. ASSUME NEW r \in rows, r.op = "sweep", txs[r.tx].state = "ok",
               PositionOf(r.tx) \in After(k.pos)
        PROVE  r.link = k.id
    <3>1. PICK j \in RowOf(chain[k.pos].tx) : r.link = j.id
      BY <2>1, <1>5 DEF SweepsPlaced
    <3> QED BY <3>1, <1>3
  <2> QED BY <2>1, <1>1, <1>2, <1>5, <1>9, <1>10, RecoveredWithinTotal
<1>13. Recovered(k.pos, c.pos) \in Nat /\ Total(Counted(k)) \in Nat
  BY <1>4, <1>5, <1>10, RecoveriesCounted, TotalIsPile
<1>14. ~(Total(Counted(k)) > k.amt) /\ Total(Counted(k)) # k.amt
  BY <1>1 DEF Contradictory, FullyRecovered, Counted
<1>15. \A a, s, r, n \in Nat : a <= r + s /\ r <= n /\ ~(n > a) /\ n # a => s > 0
  OBVIOUS
<1> QED BY <1>3, <1>5, <1>11, <1>12, <1>13, <1>14, <1>15

\* A round counts as productive only if something was sold in it, as long as every
\* sweep that was mined is linked to its own round.
THEOREM ProductiveRoundsAreTrue == Spec => []ProductiveIsTrue
<1> QED BY LedgerInvariant, LotInvariant, LedgerInvProductive, PTL

----------------------------------------------------------------------------
(* A ledger that has caught up: its rows are the events of the chain.      *)

LEMMA RowTellsEvent ==
    ASSUME LedgerInv, NEW r \in rows, r.status = "CONFIRMED"
    PROVE  /\ r \in Placed /\ r.pos \in DOMAIN chain /\ r.pos \in Nat /\ r.id \in Nat \ {0}
           /\ chain[r.pos].op = r.op
           /\ ClosesRound(r) <=> ClosesOnChain(r.pos)
           /\ r.op = "settled" => r.amt = 0
           /\ r.op # "settled" => /\ r.tx # 0 /\ r.tx = chain[r.pos].tx
                                  /\ r.amt = chain[r.pos].amt /\ r.path = chain[r.pos].path
<1>1. ChainTypes /\ ChainTrue /\ RowsTrue /\ RowTrue(r) /\ r \in Row
  BY DEF LedgerInv, RowsTrue, RowsKeyed
<1>2. r.id \in Nat \ {0}
  <2>1. Cardinality(rows) \in Nat /\ r.id \in 1 .. Cardinality(rows)
    BY <1>1, FS_CardinalityType DEF RowsTrue, RowsKeyed
  <2> QED BY <2>1
<1>3. CASE r.op = "settled"
  <2>1. r.pos \in DOMAIN chain /\ chain[r.pos].op = "settled" /\ r.amt = 0
    BY <1>1, <1>3 DEF RowTrue
  <2>2. r.pos \in Nat /\ r.pos # NoPos
    BY <2>1, <1>1 DEF ChainTypes, NoPos
  <2> QED BY <2>1, <2>2, <1>2, <1>3 DEF Placed, ClosesRound, ClosesOnChain
<1>4. CASE r.op # "settled"
  <2>1. /\ r.tx \in DOMAIN txs /\ txs[r.tx].op = r.op /\ txs[r.tx].state = "ok"
        /\ r.pos \in DOMAIN chain /\ chain[r.pos].tx = r.tx
        /\ r.path = chain[r.pos].path /\ r.amt = chain[r.pos].amt
    BY <1>1, <1>4 DEF RowTrue, Fate
  <2>2. r.tx # 0 /\ r.pos \in Nat /\ r.pos # NoPos
    BY <2>1, <1>1 DEF ChainTypes, NoPos
  <2>3. PICK e : e = chain[r.pos]
    OBVIOUS
  <2>4. EventTrue(e) /\ e \in Event /\ e.tx = r.tx
    BY <2>1, <2>3, <1>1 DEF ChainTypes, ChainTrue
  <2>5. e.op = r.op
    BY <2>1, <2>2, <2>4 DEF EventTrue, Event, TxOps
  <2> QED BY <2>1, <2>2, <2>3, <2>5, <1>2, <1>4 DEF Placed, ClosesRound, ClosesOnChain
<1> QED BY <1>3, <1>4

\* A settlement that is recorded once has one row.
LEMMA SettlementRow ==
    ASSUME LedgerInv, CaughtUp, NEW q \in DOMAIN chain, chain[q].op = "settled"
    PROVE  /\ \E r \in rows : r.status = "CONFIRMED" /\ r.pos = q
           /\ \A r, s \in rows : r.pos = q /\ s.pos = q => r = s
<1> DEFINE S == {r \in rows : r.pos = q}
<1>1. Cardinality(S) = 1 /\ IsFiniteSet(S)
  <2>1. IsFiniteSet(rows) /\ S \in SUBSET rows
    BY DEF LedgerInv, RowsTrue, RowsKeyed
  <2>2. IsFiniteSet(S)
    BY <2>1, FS_Subset
  <2> QED BY <2>2 DEF CaughtUp
<1>2. PICK x : S = {x}
  <2> HIDE DEF S
  <2> QED BY <1>1, FS_Singleton
<1>3. x \in rows /\ x.pos = q
  BY <1>2
<1>4. x.status = "CONFIRMED"
  <2>1. RowTrue(x) /\ x \in Row /\ x.status # "SUBMITTED" /\ ChainTypes /\ EventTrue(chain[q])
    BY <1>3 DEF LedgerInv, RowsTrue, RowsKeyed, CaughtUp, ChainTrue
  <2>2. chain[q].tx = 0
    BY <2>1 DEF EventTrue
  <2>3. x.op = "settled"
    <3>1. SUFFICES ASSUME x.op # "settled"  PROVE FALSE
      OBVIOUS
    <3>2. x.tx \in DOMAIN txs /\ Fate(x) /\ x.status \in {"CONFIRMED", "REVERTED"}
      BY <2>1, <3>1 DEF RowTrue, Row
    <3>3. chain[q].tx = x.tx
      BY <3>2, <1>3 DEF Fate
    <3> QED BY <3>2, <3>3, <2>1, <2>2 DEF ChainTypes
  <2> QED BY <2>1, <2>3 DEF RowTrue
<1>5. \A r, s \in rows : r.pos = q /\ s.pos = q => r = s
  BY <1>2
<1> QED BY <1>3, <1>4, <1>5

LEMMA EventHasRow ==
    ASSUME LedgerInv, CaughtUp, NEW q \in DOMAIN chain, chain[q].op # "reverted"
    PROVE  \E r \in rows : r.status = "CONFIRMED" /\ r.pos = q /\ r.op = chain[q].op
<1>1. ChainTypes /\ ChainTrue /\ RowsTrue
  BY DEF LedgerInv
<1>2. CASE chain[q].op = "settled"
  BY <1>2, SettlementRow, RowTellsEvent
<1>3. CASE chain[q].op # "settled"
  <2>1. PICK t \in DOMAIN txs : chain[q].tx = t /\ txs[t].state = "ok"
    <3>1. PICK e \in Event : e = chain[q]
      BY <1>1 DEF ChainTypes
    <3>2. EventTrue(e) /\ e.op \in TxOps
      BY <1>1, <1>3, <3>1 DEF ChainTrue, Event
    <3> QED BY <3>1, <3>2, <1>3 DEF EventTrue, TxOps
  <2>2. PICK r \in rows : r.tx = t
    BY <2>1 DEF CaughtUp, AllRecorded, RowOf
  <2>3. RowTrue(r) /\ r \in Row /\ t # 0 /\ r.status # "SUBMITTED"
    BY <1>1, <2>1 DEF RowsTrue, RowsKeyed, ChainTypes, CaughtUp
  <2>4. Fate(r) /\ r.status = "CONFIRMED"
    BY <2>1, <2>2, <2>3 DEF RowTrue, Fate, Row
  <2>5. r.pos = q
    BY <1>1, <2>1, <2>2, <2>3, <2>4 DEF Fate, ChainTrue
  <2> QED BY <2>4, <2>5, RowTellsEvent
<1> QED BY <1>2, <1>3

LEMMA OneRowPerEvent ==
    ASSUME LedgerInv, CaughtUp, NEW r \in rows, NEW s \in rows,
           r.status = "CONFIRMED", s.status = "CONFIRMED", r.pos = s.pos
    PROVE  r = s
<1>1. /\ r.op = s.op /\ r.pos \in DOMAIN chain /\ chain[r.pos].op = r.op
      /\ r.op # "settled" => r.tx # 0 /\ r.tx = s.tx
  BY RowTellsEvent
<1>2. CASE r.op = "settled"
  BY <1>1, <1>2, SettlementRow
<1>3. CASE r.op # "settled"
  BY <1>1, <1>3 DEF LedgerInv, RowsTrue, RowsKeyed
<1> QED BY <1>2, <1>3

\* The kick with the last place is the latest one.
LEMMA LatestOfIs ==
    ASSUME RowsTrue, NEW kicks \in SUBSET rows, NEW k \in kicks, \A j \in kicks : j = k \/ k.pos > j.pos
    PROVE  LatestOf(kicks) = k.id
<1> DEFINE Last(m) == \A j \in kicks : m.pos > j.pos \/ (m.pos = j.pos /\ m.id >= j.id)
<1>1. \A j \in kicks : j.pos \in Nat /\ j.id \in Nat
  BY DEF RowsTrue, RowsKeyed, Row
<1>2. Last(k)
  BY <1>1
<1>3. \A m \in kicks : Last(m) => m = k
  BY <1>1
<1>4. (CHOOSE m \in kicks : Last(m)) = k
  <2> HIDE DEF Last
  <2> QED BY <1>2, <1>3
<1> QED BY <1>4 DEF LatestOf

\* The first close of the round opened at p is at q or later.
OpenUntil(p, q) == q \in After(p) /\ \A c \in After(p) : c < q => ~ClosesOnChain(c)

\* The kicks whose round may be open at a row, as rebuild_round_links sees them.
OpenKicks(r) == {k \in Placed : /\ k.op = "kick" /\ k.pos < r.pos
                                /\ \A c \in Placed : ClosesRound(c) =>
                                                       ~(k.pos < c.pos /\ c.pos < r.pos)}

LEMMA OpenKicksAreOpen ==
    ASSUME LedgerInv, CaughtUp,
           NEW r \in rows, r.status = "CONFIRMED", r.op # "kick",
           NEW k \in OpenKicks(r), \A j \in OpenKicks(r) : j.pos <= k.pos
    PROVE  OpenUntil(k.pos, r.pos)
<1>1. /\ r.pos \in DOMAIN chain /\ r.pos \in Nat /\ chain[r.pos].op # "kick"
      /\ k \in rows /\ k.status = "CONFIRMED" /\ k.pos \in Nat /\ k.pos < r.pos
  BY RowTellsEvent DEF OpenKicks, Placed
<1>2. ASSUME NEW q \in DOMAIN chain, k.pos < q, q < r.pos
      PROVE  ~ClosesOnChain(q)
  <2>1. SUFFICES ASSUME ClosesOnChain(q)  PROVE FALSE
    OBVIOUS
  <2>2. PICK c \in rows : c.status = "CONFIRMED" /\ c.pos = q
    BY <2>1, EventHasRow DEF ClosesOnChain
  <2>3. c \in Placed /\ ClosesRound(c)
    BY <2>1, <2>2, RowTellsEvent
  <2> QED BY <2>2, <2>3, <1>2 DEF OpenKicks
<1>3. ASSUME NEW q \in KickPositions, k.pos < q, q <= r.pos
      PROVE  FALSE
  <2>1. q \in DOMAIN chain /\ chain[q].op = "kick" /\ q \in Nat
    BY DEF KickPositions, LedgerInv, ChainTypes
  <2>2. q < r.pos
    BY <2>1, <1>1, <1>3
  <2>3. PICK j \in rows : j.status = "CONFIRMED" /\ j.pos = q /\ j.op = "kick"
    BY <2>1, EventHasRow
  <2>4. j \in Placed
    BY <2>3, RowTellsEvent
  <2>5. \A c \in Placed : ClosesRound(c) => ~(j.pos < c.pos /\ c.pos < r.pos)
    <3> SUFFICES ASSUME NEW c \in Placed, ClosesRound(c), q < c.pos, c.pos < r.pos  PROVE FALSE
      BY <2>3
    <3>1. c.pos \in Nat
      BY RowTellsEvent DEF Placed
    <3>2. k.pos < c.pos
      BY <3>1, <2>1, <1>1, <1>3
    <3> QED BY <3>2 DEF OpenKicks
  <2>6. j \in OpenKicks(r)
    BY <2>2, <2>3, <2>4, <2>5 DEF OpenKicks
  <2>7. q <= k.pos
    BY <2>3, <2>6
  <2> QED BY <2>1, <2>7, <1>1, <1>3
<1>4. r.pos \in After(k.pos)
  BY <1>1, <1>3 DEF After
<1> QED BY <1>2, <1>4 DEF OpenUntil, After

\* The rebuild links a row to the kick whose round is open, and to no other.
LEMMA OpenKickIs ==
    ASSUME LedgerInv, CaughtUp,
           NEW r \in rows, r.status = "CONFIRMED", r.op # "kick",
           NEW k \in rows, k.status = "CONFIRMED", k.op = "kick"
    PROVE  OpenKickAt(r) = k.id <=> OpenUntil(k.pos, r.pos)
<1>1. OpenKickAt(r) = LatestOf(OpenKicks(r)) /\ OpenKicks(r) \in SUBSET rows
  BY DEF OpenKickAt, OpenKicks, Placed
<1>2. /\ RowsTrue /\ ChainTypes /\ k \in Placed /\ k.id # NoLink
      /\ r.pos \in DOMAIN chain /\ r.pos \in Nat /\ k.pos \in DOMAIN chain /\ k.pos \in Nat
      /\ chain[k.pos].op = "kick"
  BY RowTellsEvent DEF LedgerInv, NoLink
<1>3. \A j \in OpenKicks(r) : /\ j \in rows /\ j.status = "CONFIRMED" /\ j.op = "kick"
                              /\ j.pos \in DOMAIN chain /\ j.pos \in Nat
                              /\ chain[j.pos].op = "kick"
  BY RowTellsEvent DEF OpenKicks, Placed
<1>4. ASSUME OpenUntil(k.pos, r.pos)
      PROVE  OpenKickAt(r) = k.id
  <2>1. \A c \in Placed : ClosesRound(c) => ~(k.pos < c.pos /\ c.pos < r.pos)
    <3> SUFFICES ASSUME NEW c \in Placed, ClosesRound(c), k.pos < c.pos, c.pos < r.pos  PROVE FALSE
      OBVIOUS
    <3>1. c.pos \in DOMAIN chain /\ c.pos \in Nat /\ ClosesOnChain(c.pos)
      BY RowTellsEvent DEF Placed
    <3>2. c.pos \in After(k.pos)
      <4>1. \A q \in KickPositions : q \in Nat /\ ~(k.pos < q /\ q <= r.pos)
        BY <1>2, <1>4 DEF OpenUntil, After, KickPositions, ChainTypes
      <4> QED BY <3>1, <4>1, <1>2 DEF After
    <3> QED BY <3>1, <3>2, <1>4 DEF OpenUntil
  <2>2. k \in OpenKicks(r)
    BY <2>1, <1>2, <1>4 DEF OpenKicks, OpenUntil, After
  <2>3. ASSUME NEW j \in OpenKicks(r)
        PROVE  j = k \/ k.pos > j.pos
    <3>1. j.pos = k.pos => j = k
      BY <1>3, OneRowPerEvent
    <3>2. ~(k.pos < j.pos)
      <4>1. j.pos \in KickPositions /\ j.pos < r.pos /\ j.pos \in Nat
        BY <1>3 DEF OpenKicks, KickPositions
      <4> QED BY <4>1, <1>2, <1>4 DEF OpenUntil, After
    <3> QED BY <3>1, <3>2, <1>2, <1>3
  <2> QED BY <2>2, <2>3, <1>1, <1>2, LatestOfIs
<1>5. ASSUME OpenKickAt(r) = k.id
      PROVE  OpenUntil(k.pos, r.pos)
  <2>1. OpenKicks(r) # {}
    BY <1>1, <1>2, <1>5 DEF LatestOf
  <2> DEFINE Places == {j.pos : j \in OpenKicks(r)}
  <2>2. Places \in SUBSET (1 .. Len(chain)) /\ Places # {} /\ Len(chain) \in Nat
    BY <2>1, <1>2, <1>3 DEF ChainTypes
  <2>3. PICK m \in Places : \A x \in Places : x <= m
    <3> HIDE DEF Places
    <3> QED BY <2>2, LastOf
  <2>4. PICK j \in OpenKicks(r) : j.pos = m
    BY <2>3
  <2>5. \A i \in OpenKicks(r) : i.pos <= j.pos
    BY <2>3, <2>4
  <2>6. \A i \in OpenKicks(r) : i = j \/ j.pos > i.pos
    BY <2>5, <1>3, OneRowPerEvent
  <2>7. OpenKickAt(r) = j.id
    BY <2>6, <1>1, <1>2, LatestOfIs
  <2>8. j = k
    BY <2>7, <1>2, <1>3, <1>5 DEF RowsTrue, RowsKeyed
  <2> QED BY <2>5, <2>8, OpenKicksAreOpen
<1> QED BY <1>4, <1>5

\* The links of a ledger that has caught up.
LEMMA LinkIs ==
    ASSUME LedgerInv, CaughtUp,
           NEW r \in rows, r.status = "CONFIRMED", r.op # "kick",
           NEW k \in rows, k.status = "CONFIRMED", k.op = "kick"
    PROVE  r.link = k.id <=> OpenUntil(k.pos, r.pos) /\ ~(r.op = "resolve" /\ r.path = 0)
<1>1. r \in Placed /\ RowsTrue /\ k.id # NoLink
  BY RowTellsEvent DEF LedgerInv, NoLink
<1>2. r.id \in DOMAIN RebuiltLinks
  <2>1. r.id \in {q.id : q \in {s \in Placed : s.op # "kick"}}
    BY <1>1
  <2> QED BY <2>1 DEF RebuiltLinks
<1>3. RebuiltLinks[r.id] = IF r.op = "resolve" /\ r.path = 0 THEN NoLink ELSE OpenKickAt(r)
  <2>1. (CHOOSE q \in Placed : q.id = r.id) = r
    BY <1>1 DEF Placed, RowsTrue, RowsKeyed
  <2> QED BY <1>2, <2>1 DEF RebuiltLinks
<1>4. r.link = RebuiltLinks[r.id]
  <2>1. PICK s \in rows : s.id = r.id /\ s.link = RebuiltLinks[r.id]
    BY <1>2 DEF CaughtUp
  <2> QED BY <2>1, <1>1 DEF RowsTrue, RowsKeyed
<1> QED BY <1>1, <1>3, <1>4, OpenKickIs

\* Every close is linked to the round it closed.
LEMMA ClosesAreLinked ==
    ASSUME LedgerInv, LotInv, CaughtUp, NEW r \in rows, r.status = "CONFIRMED", ClosesRound(r),
           NEW k \in rows, k.status = "CONFIRMED", k.op = "kick", r.pos \in After(k.pos)
    PROVE  r.link = k.id
<1>1. /\ ClosesOnChain(r.pos) /\ r.op # "kick" /\ ~(r.op = "resolve" /\ r.path = 0)
      /\ k.pos \in KickPositions
  BY RowTellsEvent DEF ClosesRound, ClosingPaths, KickPositions
<1>2. OpenUntil(k.pos, r.pos)
  BY <1>1 DEF OpenUntil, LotInv, RoundTrue
<1> QED BY <1>1, <1>2, LinkIs

LEMMA NoUnlinkedClose ==
    ASSUME LedgerInv, LotInv, CaughtUp
    PROVE  UnlinkedCloses(rows) = {}
<1> SUFFICES ASSUME NEW r \in UnlinkedCloses(rows)  PROVE FALSE
  OBVIOUS
<1>1. r \in rows /\ r.link = NoLink /\ r.status = "CONFIRMED" /\ ClosesRound(r)
  BY DEF UnlinkedCloses, CaughtUp
<1>2. ClosesOnChain(r.pos) /\ r.pos \in DOMAIN chain
  BY <1>1, RowTellsEvent
<1>3. PICK p \in KickPositions : r.pos \in After(p)
  BY <1>2 DEF LotInv
<1>4. PICK k \in rows : k.status = "CONFIRMED" /\ k.pos = p /\ k.op = "kick"
  BY EventHasRow DEF KickPositions
<1>5. k.id # NoLink
  BY <1>4, RowTellsEvent DEF NoLink
<1> QED BY <1>1, <1>3, <1>4, <1>5, ClosesAreLinked

\* The rows of a round are its events up to the close.
LEMMA ConfirmedIs ==
    ASSUME LedgerInv, CaughtUp, NEW k \in rows, k.status = "CONFIRMED", k.op = "kick",
           NEW r \in Confirmed(k, rows)
    PROVE  /\ r \in rows /\ r.status = "CONFIRMED" /\ r.op # "kick" /\ OpenUntil(k.pos, r.pos)
           /\ r.pos \in Nat /\ k.pos \in Nat /\ k.pos < r.pos
<1>1. r \in rows /\ r.status = "CONFIRMED" /\ r.link = k.id
  BY DEF Confirmed, Linked
<1>2. k.id # NoLink /\ k.pos \in Nat /\ r.pos \in Nat
  BY <1>1, RowTellsEvent DEF NoLink
<1>3. r.op # "kick"
  <2>1. SUFFICES ASSUME r.op = "kick"  PROVE FALSE
    OBVIOUS
  <2>2. txs[r.tx].op = "kick" /\ Fate(r)
    BY <1>1, <2>1 DEF LedgerInv, RowsTrue, RowTrue
  <2> QED BY <1>1, <1>2, <2>2 DEF Fate
<1>4. OpenUntil(k.pos, r.pos)
  BY <1>1, <1>3, LinkIs
<1> QED BY <1>1, <1>2, <1>3, <1>4 DEF OpenUntil, After

LEMMA KickIsProvable ==
    ASSUME LedgerInv, LotInv, CaughtUp, NEW k \in rows, k.status = "CONFIRMED", k.op = "kick"
    PROVE  /\ ~AwaitingReceipt(k, rows) /\ k.pos \in KickPositions
           /\ k.amt = chain[k.pos].amt /\ k.amt \in Nat
           /\ Unprovable(k, rows) <=> chain[k.pos].amt # chain[k.pos].req
<1>1. ~AwaitingReceipt(k, rows)
  BY DEF AwaitingReceipt, Linked, CaughtUp
<1>2. /\ k.pos \in KickPositions /\ k.pos # NoPos /\ k.amt = chain[k.pos].amt
      /\ k.amt \in Nat /\ k.amt > 0
  BY RowTellsEvent DEF KickPositions, LotInv, AmountsTrue, Placed
<1>3. k.req = chain[k.pos].req
  BY DEF LedgerInv, RowsTrue, RowTrue, Fate
<1>4. \A r \in Confirmed(k, rows) : r.pos # NoPos /\ ~(r.pos <= k.pos)
  <2> TAKE r \in Confirmed(k, rows)
  <2>1. r.pos \in Nat /\ k.pos \in Nat /\ k.pos < r.pos
    BY ConfirmedIs
  <2> QED BY <2>1 DEF NoPos
<1>5. \A r \in Resolves(k, rows) : r.path \in AllPaths
  <2> TAKE r \in Resolves(k, rows)
  <2>1. r \in Confirmed(k, rows) /\ r.op = "resolve" /\ r \in rows /\ r.status = "CONFIRMED"
    BY DEF Resolves, Confirmed, Linked
  <2>2. r.path = chain[r.pos].path /\ chain[r.pos].op = "resolve" /\ r.pos \in DOMAIN chain
    BY <2>1, RowTellsEvent
  <2> QED BY <2>2 DEF LotInv, AmountsTrue
<1>6. \A r \in Partials(k, rows) : r.amt # NoAmount
  <2> TAKE r \in Partials(k, rows)
  <2>1. r \in Confirmed(k, rows) /\ r.op \in {"sweep", "resolve"} /\ r \in rows /\ r.status = "CONFIRMED"
    BY DEF Partials, Sweeps, Resolves, Confirmed, Linked
  <2>2. r.amt = chain[r.pos].amt /\ chain[r.pos].op = r.op /\ r.pos \in DOMAIN chain
    BY <2>1, RowTellsEvent
  <2> QED BY <2>1, <2>2 DEF LotInv, AmountsTrue, NoAmount
<1>7. Unprovable(k, rows) <=> k.req = NoAmount \/ k.req # k.amt
  BY <1>2, <1>4, <1>5, <1>6 DEF Unprovable
<1> QED BY <1>1, <1>2, <1>3, <1>7 DEF NoAmount

LEMMA ClosesAre ==
    ASSUME LedgerInv, LotInv, CaughtUp, NEW k \in rows, k.status = "CONFIRMED", k.op = "kick"
    PROVE  /\ Closes(k, rows) = {} <=> ~ \E q \in After(k.pos) : ClosesOnChain(q)
           /\ \A c \in Closes(k, rows) :
                /\ c.pos \in After(k.pos) /\ ClosesOnChain(c.pos) /\ Closes(k, rows) = {c}
                /\ \A r \in Confirmed(k, rows) : r.pos <= c.pos
<1>1. ASSUME NEW q \in After(k.pos), ClosesOnChain(q)
      PROVE  Closes(k, rows) # {}
  <2>1. q \in DOMAIN chain /\ chain[q].op # "reverted"
    BY <1>1 DEF After, ClosesOnChain
  <2>2. PICK r \in rows : r.status = "CONFIRMED" /\ r.pos = q
    BY <2>1, EventHasRow
  <2>3. ClosesRound(r)
    BY <1>1, <2>2, RowTellsEvent
  <2>4. r.link = k.id
    BY <2>2, <2>3, ClosesAreLinked
  <2> QED BY <2>2, <2>3, <2>4 DEF Closes, Confirmed, Linked
<1>2. ASSUME NEW c \in Closes(k, rows)
      PROVE  /\ c.pos \in After(k.pos) /\ ClosesOnChain(c.pos) /\ Closes(k, rows) = {c}
             /\ \A r \in Confirmed(k, rows) : r.pos <= c.pos
  <2>1. c \in Confirmed(k, rows) /\ ClosesRound(c) /\ c \in rows /\ c.status = "CONFIRMED"
    BY DEF Closes, Confirmed, Linked
  <2>2. OpenUntil(k.pos, c.pos) /\ ClosesOnChain(c.pos) /\ c.pos \in Nat
    BY <2>1, ConfirmedIs, RowTellsEvent
  <2>3. ASSUME NEW r \in Confirmed(k, rows)
        PROVE  r.pos <= c.pos
    <3>1. OpenUntil(k.pos, r.pos) /\ r.pos \in Nat
      BY ConfirmedIs
    <3> QED BY <2>2, <3>1 DEF OpenUntil
  <2>4. ASSUME NEW r \in Closes(k, rows)
        PROVE  r = c
    <3>1. r \in Confirmed(k, rows) /\ ClosesRound(r) /\ r \in rows /\ r.status = "CONFIRMED"
      BY DEF Closes, Confirmed, Linked
    <3>2. OpenUntil(k.pos, r.pos) /\ ClosesOnChain(r.pos) /\ r.pos \in Nat
      BY <3>1, ConfirmedIs, RowTellsEvent
    <3>3. r.pos = c.pos
      BY <2>2, <3>2 DEF OpenUntil
    <3> QED BY <2>1, <3>1, <3>3, OneRowPerEvent
  <2> QED BY <2>2, <2>3, <2>4 DEF OpenUntil
<1> QED BY <1>1, <1>2

\* What is counted of a closed round is what was recovered in it.
LEMMA ClosedRoundCounts ==
    ASSUME LedgerInv, LotInv, CaughtUp, donated = 0,
           NEW k \in rows, k.status = "CONFIRMED", k.op = "kick", NEW c \in Closes(k, rows)
    PROVE  /\ Total(Counted(k)) \in Nat /\ sold[k.pos] \in Nat
           /\ Total(Counted(k)) + sold[k.pos] = k.amt
<1>1. ChainTypes /\ RowsTrue /\ AmountsTrue
  BY DEF LedgerInv, LotInv
<1>2. /\ k.pos \in KickPositions /\ k.pos \in Nat /\ k.pos \in DOMAIN sold /\ sold[k.pos] \in Nat
      /\ k.amt = chain[k.pos].amt /\ k.amt \in Nat /\ ~AwaitingReceipt(k, rows)
  BY <1>1, KickIsProvable DEF KickPositions, ChainTypes
<1>3. /\ c.pos \in After(k.pos) /\ ClosesOnChain(c.pos)
      /\ \A r \in Confirmed(k, rows) : r.pos <= c.pos
  BY ClosesAre
<1>4. c \in Confirmed(k, rows) /\ c \in rows /\ c.status = "CONFIRMED"
  BY DEF Closes, Confirmed, Linked
<1>5. /\ c.pos \in Nat /\ chain[c.pos].op = c.op
      /\ c.op # "settled" => chain[c.pos].tx = c.tx /\ chain[c.pos].amt = c.amt
  BY <1>4, RowTellsEvent
<1>6. Total(Counted(k)) <= Recovered(k.pos, c.pos)
  <2>1. \A r \in Counted(k) : r \in Confirmed(k, rows)
    BY DEF Counted, Partials, Closes, Sweeps, Resolves
  <2>2. \A r \in Counted(k) : k.pos < r.pos /\ r.pos <= c.pos
    BY <2>1, <1>3, ConfirmedIs
  <2> QED BY <2>2, <1>2, <1>5, TotalWithinRecovered
<1>7. Recovered(k.pos, c.pos) <= Total(Counted(k))
  <2>1. ASSUME NEW r \in rows, r.op = "sweep", txs[r.tx].state = "ok",
               PositionOf(r.tx) \in After(k.pos), PositionOf(r.tx) < c.pos
        PROVE  r.link = k.id
    <3>1. RowTrue(r) /\ r \in Row /\ r.status # "SUBMITTED"
      BY <1>1 DEF RowsTrue, RowsKeyed, CaughtUp
    <3>2. r.status = "CONFIRMED" /\ r.tx \in DOMAIN txs
      BY <2>1, <3>1 DEF RowTrue, Fate, Row
    <3>3. r.pos \in DOMAIN chain /\ r.tx # 0 /\ chain[r.pos].tx = r.tx
      BY <2>1, <3>2, RowTellsEvent
    <3>4. PositionOf(r.tx) = r.pos
      BY <2>1, <3>2, <3>3, PositionIsItsEvent DEF LedgerInv, ChainTrue
    <3>5. OpenUntil(k.pos, r.pos)
      <4>1. \A d \in After(k.pos) : d \in Nat
        BY <1>1 DEF After, ChainTypes
      <4>2. r.pos \in Nat
        BY <3>4, <4>1, <2>1
      <4> QED BY <2>1, <3>4, <4>1, <4>2, <1>2, <1>3, <1>5 DEF OpenUntil, LotInv, RoundTrue
    <3> QED BY <2>1, <3>2, <3>5, LinkIs
  <2>2. c.op = "settled" => chain[c.pos].op = "settled"
    BY <1>5
  <2> QED BY <2>1, <2>2, <1>2, <1>3, <1>5, RecoveredWithinTotal DEF CaughtUp
<1>8. Total(Counted(k)) \in Nat /\ Recovered(k.pos, c.pos) \in Nat
  BY <1>1, <1>2, <1>5, TotalIsPile, RecoveriesCounted
<1>9. /\ chain[k.pos].amt <= Recovered(k.pos, c.pos) + sold[k.pos]
      /\ Recovered(k.pos, c.pos) + sold[k.pos] <= chain[k.pos].amt + donated
  BY <1>2, <1>3 DEF LotInv, RoundTrue
<1>10. \A t, r, s, a \in Nat : t <= r /\ r <= t /\ a <= r + s /\ r + s <= a + 0 => t + s = a
  OBVIOUS
<1> QED BY <1>2, <1>6, <1>7, <1>8, <1>9, <1>10

LEMMA LedgerInvCaughtUp == LedgerInv /\ LotInv => CaughtUpIsTrue
<1> SUFFICES ASSUME LedgerInv, LotInv, CaughtUp, donated = 0, NEW k \in Kicks(rows)
             PROVE  Outcome(k, rows) = TrueOutcome(k.pos)
  BY DEF CaughtUpIsTrue
<1>1. k \in rows /\ k.op = "kick" /\ k.status = "CONFIRMED"
  BY DEF Kicks, CaughtUp
<1>2. Outcome(k, rows) = ClassifyRound(k, rows)
  BY NoUnlinkedClose DEF Outcome, HasUnlinkedClose
<1>3. /\ ~AwaitingReceipt(k, rows)
      /\ Unprovable(k, rows) <=> chain[k.pos].amt # chain[k.pos].req
  BY <1>1, KickIsProvable
<1>4. Closes(k, rows) = {} <=> ~ \E q \in After(k.pos) : ClosesOnChain(q)
  BY <1>1, ClosesAre
<1>5. ASSUME NEW c \in Closes(k, rows)
      PROVE  /\ ~Contradictory(k, rows)
             /\ FullyRecovered(k, rows) <=> sold[k.pos] = 0
  <2>1. /\ Total(Counted(k)) \in Nat /\ sold[k.pos] \in Nat
        /\ Total(Counted(k)) + sold[k.pos] = k.amt
    BY <1>1, ClosedRoundCounts
  <2>2. /\ Closes(k, rows) = {c}
        /\ \A r \in Confirmed(k, rows) : r.pos <= c.pos
    BY <1>1, ClosesAre
  <2>3. Cardinality(Closes(k, rows)) = 1
    BY <2>2, FS_Singleton
  <2>4. \A r \in Sweeps(k, rows) : ~(r.pos > c.pos)
    <3>1. \A r \in Sweeps(k, rows) : r \in Confirmed(k, rows)
      BY DEF Sweeps
    <3>2. c \in Confirmed(k, rows)
      BY DEF Closes
    <3>3. \A r \in Confirmed(k, rows) : r.pos \in Nat
      BY <1>1, ConfirmedIs
    <3> QED BY <3>1, <3>2, <3>3, <2>2
  <2>5. c.amt # NoAmount /\ (c.op = "settled" => c.amt = 0)
    <3>1. c \in rows /\ c.status = "CONFIRMED" /\ c.op \in {"settled", "resolve"}
      BY DEF Closes, Confirmed, Linked, ClosesRound
    <3> QED BY <3>1, RowTellsEvent DEF LotInv, AmountsTrue, NoAmount
  <2>6. ~(Total(Counted(k)) > k.amt) /\ (Total(Counted(k)) = k.amt <=> sold[k.pos] = 0)
    <3>1. \A t, s, a \in Nat : t + s = a => ~(t > a) /\ (t = a <=> s = 0)
      OBVIOUS
    <3>2. k.amt \in Nat
      BY <1>1, KickIsProvable
    <3> QED BY <3>1, <3>2, <2>1
  <2> QED BY <2>2, <2>3, <2>4, <2>5, <2>6 DEF Contradictory, FullyRecovered, Counted
<1>6. CASE chain[k.pos].amt # chain[k.pos].req
  BY <1>2, <1>3, <1>6 DEF ClassifyRound, TrueOutcome
<1>7. CASE chain[k.pos].amt = chain[k.pos].req /\ Closes(k, rows) = {}
  BY <1>2, <1>3, <1>4, <1>7 DEF ClassifyRound, TrueOutcome
<1>8. CASE chain[k.pos].amt = chain[k.pos].req /\ Closes(k, rows) # {}
  <2>1. ~Contradictory(k, rows) /\ (FullyRecovered(k, rows) <=> sold[k.pos] = 0)
    BY <1>5, <1>8
  <2>2. ClassifyRound(k, rows) = IF FullyRecovered(k, rows) THEN "NO_FILL" ELSE "PRODUCTIVE"
    BY <1>3, <1>8, <2>1 DEF ClassifyRound
  <2>3. TrueOutcome(k.pos) = IF sold[k.pos] = 0 THEN "NO_FILL" ELSE "PRODUCTIVE"
    BY <1>4, <1>8 DEF TrueOutcome
  <2> QED BY <1>2, <2>1, <2>2, <2>3
<1> QED BY <1>6, <1>7, <1>8

\* Whatever happened on the way, a ledger in which every receipt is in, every direct
\* settlement is recorded once and the links are those of a rebuild tells each round
\* as it happened, if only kicks brought tokens.
THEOREM CaughtUpLedgerIsTrue == Spec => []CaughtUpIsTrue
<1> QED BY LedgerInvariant, LotInvariant, LedgerInvCaughtUp, PTL
=============================================================================
