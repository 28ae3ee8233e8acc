-------------------------- MODULE ScanStagesProofs --------------------------
(***************************************************************************)
(* What the scanner, the kick engine and the fleet guarantee side by side, *)
(* for any number of sources, auctions, tokens, scans, processes, runs,    *)
(* deployments and moves of others.                                        *)
(*                                                                         *)
(* Scans: what a scan has in hand, its list of things to do, its batch and *)
(* the transaction it waits for, is tied to what it has read and to the    *)
(* rows it has written.  Everything it means to enable comes from a        *)
(* factory it has read itself; each token it set out to enable is either   *)
(* still in its hands or has one row; and a token of a transaction without *)
(* a row is in the hands of the scan that has just sent it, or its sender  *)
(* died or saw no answer.                                                  *)
(*                                                                         *)
(* The engine: only the process with the lock can be about to send, so     *)
(* what it has found to be due stays due until it sends it; and the pairs  *)
(* of a run are split into those that have a row and those still ahead,    *)
(* each once, so that its totals count its rows.                           *)
(*                                                                         *)
(* The fleet: the theorems of AuctionFleetProofs, for the instance of the  *)
(* fleet that stands beside the other two.                                 *)
(***************************************************************************)
EXTENDS MCScanStages, SequenceLemmas

----------------------------------------------------------------------------
(* The inductive invariant.                                                *)

TxType  == [op : {"resolve", "enable"}, auction : Auctions, tokens : SUBSET Tokens,
            state : {"pending", "ok", "reverted"}, force : {FALSE}]
RowType == [run : Nat, op : {"resolve", "enable"}, auction : Auctions, token : Tokens,
            status : Statuses, tx : Nat]
Stages  == {"idle", "map", "guards", "enabled", "settle", "next lot", "balances", "enable",
            "next token", "send", "insert", "wait", "prices"}
ScanType ==
    [at : Stages, settle : BOOLEAN, enable : BOOLEAN, fresh : BOOLEAN, failed : BOOLEAN,
     factory : SUBSET Auctions, unread : SUBSET Auctions, seen : SUBSET Pairs,
     todo : Seq(Pairs), batch : Seq(Pairs), op : {"none", "resolve", "enable"},
     due : SUBSET Pairs, tx : Nat, left : Seq(Pairs)]

Types ==
    /\ TypeOK
    /\ pool \in Seq(TxType) /\ scan \in ScanType
    /\ runs \in Seq({"RUNNING", "SUCCESS", "PARTIAL_SUCCESS", "FAILED"})
    /\ \A r \in rows : r \in RowType /\ r.run <= Len(runs) /\ r.tx \in {0} \union DOMAIN pool

\* What a scan takes from the factories and from its mapping.
MappingTrue ==
    /\ scan.fresh => Mapped \subseteq scan.factory
    /\ At("enable") => \A p \in scan.due : p[1] \in Mapped

\* What a transaction has enabled is enabled, unless others have disabled it since.
InEffect(tx) ==
    tx.op = "enable" /\ tx.state = "ok" =>
        \A t \in tx.tokens \ enabled[tx.auction] : <<tx.auction, t>> \in withdrawn

\* What a scan is about to send, or has sent; the rows it has yet to write.
Sending  == {"send", "insert", "wait"}
Enabling == At("next token") \/ (scan.at \in Sending /\ scan.op = "enable")
BatchTrue ==
    /\ At("next lot") => scan.op = "resolve"
    /\ At("enable") \/ At("next token") => scan.op = "enable"
    /\ scan.at \in Sending => scan.op # "none" /\ scan.batch # <<>>
    /\ scan.batch = <<>> \/ scan.at \in Sending \/ At("next token")
    /\ scan.at \in {"insert", "wait"} =>
         /\ scan.tx \in DOMAIN pool
         /\ pool[scan.tx].op = scan.op
         /\ pool[scan.tx].auction = Head(scan.batch)[1]
         /\ pool[scan.tx].tokens = {p[2] : p \in ToSet(scan.batch)}
         /\ InEffect(pool[scan.tx])
    /\ At("insert") => scan.left # <<>> /\ ToSet(scan.left) \subseteq ToSet(scan.batch)
    /\ Enabling => \A p \in ToSet(scan.todo) \union ToSet(scan.batch) : p[1] \in scan.factory

\* The rows of the current scan about a token to be enabled; those that are still
\* in the scan's hands have none.
About(R, n, p) == {r \in R : r.run = n /\ r.op = "enable" /\ r.auction = p[1] /\ r.token = p[2]}
RowsFor(p) == About(rows, Run, p)
Unrecorded == IF At("wait") THEN {} ELSE IF At("insert") THEN ToSet(scan.left) ELSE ToSet(scan.batch)
InHand     == ToSet(scan.todo) \union Unrecorded
Early      == \/ scan.at \in {"map", "guards", "enabled", "settle", "next lot", "balances", "enable"}
              \/ scan.at \in Sending /\ scan.op = "resolve"
Accounted ==
    /\ Early => \A r \in rows : r.run = Run => r.op # "enable"
    /\ Enabling => /\ Distinct(scan.todo) /\ Distinct(scan.batch)
                   /\ At("insert") => Distinct(scan.left)
                   /\ ToSet(scan.todo) \intersect ToSet(scan.batch) = {}
                   /\ \A p \in InHand : RowsFor(p) = {}
                   /\ \A p \in scan.due \ InHand : \E r \in rows : RowsFor(p) = {r}
    /\ At("prices") /\ scan.enable => \A p \in scan.due : \E r \in rows : RowsFor(p) = {r}

ScanInv == Types /\ MappingTrue /\ BatchTrue /\ CacheIsSound /\ RowsTellTheTransactions /\ Accounted

----------------------------------------------------------------------------
(* Steps of the chain.                                                     *)

LEMMA PairsAreFinite ==
    ASSUME NEW S \in SUBSET Pairs
    PROVE  IsFiniteSet(S)
<1>1. IsFiniteSet(Pairs)
  BY BoundsAssumption, FS_Product DEF Pairs
<1> QED BY <1>1, FS_Subset

LEMMA NothingTwice == Distinct(<<>>)
  BY DEF Distinct

LEMMA ScanInvInit == Init => ScanInv
<1> SUFFICES ASSUME Init  PROVE ScanInv
  OBVIOUS
<1>1. Quiet \in ScanType
  BY DEF Quiet, ScanType, Stages
<1>2. Types
  <2>1. TypeOK
    BY ToSetShort DEF Init, TypeOK
  <2>2. pool \in Seq(TxType) /\ runs \in Seq({"RUNNING", "SUCCESS", "PARTIAL_SUCCESS", "FAILED"})
    BY DEF Init
  <2> QED BY <2>1, <2>2, <1>1 DEF Types, Init
<1>3. MappingTrue /\ BatchTrue /\ Accounted
  BY DEF Init, MappingTrue, BatchTrue, Accounted, Quiet, At, Enabling, Sending, Early
<1>4. CacheIsSound /\ RowsTellTheTransactions
  BY DEF Init, CacheIsSound, RowsTellTheTransactions
<1> QED BY <1>2, <1>3, <1>4 DEF ScanInv

\* What a part of the invariant is about.
LEMMA SameMapping ==
    ASSUME MappingTrue, UNCHANGED <<mapping, scan>>
    PROVE  MappingTrue'
BY DEF MappingTrue, Mapped, At

LEMMA SameBatch ==
    ASSUME BatchTrue, UNCHANGED <<pool, scan, enabled, withdrawn>>
    PROVE  BatchTrue'
BY DEF BatchTrue, At, Enabling, InEffect

LEMMA SameCache ==
    ASSUME CacheIsSound, UNCHANGED <<enabled, cache, withdrawn>>
    PROVE  CacheIsSound'
BY DEF CacheIsSound

LEMMA SameRows ==
    ASSUME RowsTellTheTransactions, UNCHANGED <<pool, lost, rows, scan>>
    PROVE  RowsTellTheTransactions'
BY DEF RowsTellTheTransactions, At

LEMMA SameAccount ==
    ASSUME Accounted, UNCHANGED <<rows, runs, scan>>
    PROVE  Accounted'
<1>1. \A p : RowsFor(p)' = RowsFor(p)
  BY DEF RowsFor, Run
<1>2. (InHand' = InHand) /\ (Early' = Early) /\ (Enabling' = Enabling) /\ Run' = Run
  BY DEF InHand, Unrecorded, Early, Enabling, Run, At
<1> QED BY <1>1, <1>2 DEF Accounted, At

\* A transaction of a scan never forces, so it does not end a lot that is live.
LEMMA MineKeepsInv ==
    ASSUME ScanInv, NEW n \in DOMAIN pool, Mine(n)
    PROVE  ScanInv' /\ \A p \in Pairs : lot[p] = "live" => lot'[p] = "live"
<1> DEFINE tx == pool[n]
<1>1. /\ pool \in Seq(TxType) /\ tx \in TxType /\ n \in Nat /\ tx.state = "pending"
      /\ UNCHANGED <<listed, owned, killed, moves, withdrawn, dbVars, rows, runs, scan, lost>>
  BY DEF ScanInv, Types, Mine
<1>2. PICK state \in {"reverted", "ok"} : pool' = [pool EXCEPT ![n].state = state]
  BY DEF Mine
<1>3. /\ pool' \in Seq(TxType) /\ DOMAIN pool' = DOMAIN pool
      /\ \A m \in DOMAIN pool : m # n => pool'[m] = pool[m]
      /\ pool'[n] = [tx EXCEPT !.state = state]
  <2>1. [tx EXCEPT !.state = state] \in TxType
    BY <1>1 DEF TxType
  <2> HIDE DEF tx
  <2>2. pool' = [pool EXCEPT ![n] = [tx EXCEPT !.state = state]]
    BY <1>2 DEF tx
  <2> QED BY <1>1, <2>1, <2>2
<1>4. \A m \in DOMAIN pool : /\ pool'[m].op = pool[m].op /\ pool'[m].auction = pool[m].auction
                             /\ pool'[m].tokens = pool[m].tokens
                             /\ pool[m].state # "pending" => pool'[m].state = pool[m].state
  BY <1>1, <1>3 DEF TxType
<1>5. \A a \in Auctions : enabled[a] \subseteq enabled'[a]
  <2>1. enabled \in [Auctions -> SUBSET Tokens]
    BY DEF ScanInv, Types, TypeOK
  <2>2. \/ enabled' = enabled
        \/ enabled' = [a \in Auctions |-> IF tx.op = "enable" /\ a = tx.auction
                                           THEN enabled[a] \union tx.tokens ELSE enabled[a]]
    BY DEF Mine
  <2> QED BY <2>1, <2>2
<1>6. /\ lot' \in [Pairs -> {"clean", "live", "sold out", "stranded", "empty"}]
      /\ enabled' \in [Auctions -> SUBSET Tokens]
      /\ \A p \in Pairs : lot[p] = "live" => lot'[p] = "live"
  <2>1. /\ lot \in [Pairs -> {"clean", "live", "sold out", "stranded", "empty"}]
        /\ enabled \in [Auctions -> SUBSET Tokens]
    BY DEF ScanInv, Types, TypeOK
  <2>2. CASE UNCHANGED <<lot, enabled>>
    BY <2>1, <2>2
  <2>3. CASE /\ ~Reverts(tx.op, tx.auction, tx.tokens)
             /\ lot' = [p \in Pairs |-> IF tx.op = "resolve" /\ p[1] = tx.auction /\ p[2] \in tx.tokens
                                        THEN "clean" ELSE lot[p]]
             /\ enabled' = [a \in Auctions |-> IF tx.op = "enable" /\ a = tx.auction
                                               THEN enabled[a] \union tx.tokens ELSE enabled[a]]
    <3>1. tx.tokens \in SUBSET Tokens
      BY <1>1 DEF TxType
    <3>2. enabled' \in [Auctions -> SUBSET Tokens]
      BY <2>1, <2>3, <3>1
    <3>3. ASSUME NEW p \in Pairs, lot[p] = "live"
          PROVE  lot'[p] = "live"
      <4>1. p = <<p[1], p[2]>>
        BY DEF Pairs
      <4> QED BY <2>3, <3>3, <4>1 DEF Reverts, NeedsForce
    <3> QED BY <2>1, <2>3, <3>2, <3>3
  <2>4. tx.force = FALSE
    BY <1>1 DEF TxType
  <2> QED BY <2>2, <2>3, <2>4 DEF Mine
<1>7. Types'
  <2>1. TypeOK'
    BY <1>1, <1>6 DEF ScanInv, Types, TypeOK, dbVars, Statuses
  <2> QED BY <1>1, <1>3, <2>1 DEF ScanInv, Types
<1>8. MappingTrue' /\ Accounted'
  BY <1>1, SameMapping, SameAccount DEF ScanInv, dbVars
<1>9. BatchTrue'
  <2>1. ASSUME NEW m \in DOMAIN pool, InEffect(pool[m])
        PROVE  InEffect(pool[m])'
    <3> SUFFICES ASSUME pool'[m].op = "enable", pool'[m].state = "ok",
                        NEW t \in pool'[m].tokens \ enabled'[pool'[m].auction]
                 PROVE  <<pool'[m].auction, t>> \in withdrawn'
      BY DEF InEffect
    <3>1. pool[m] \in TxType
      BY <1>1
    <3>2. CASE pool[m].state = "ok"
      BY <1>1, <1>4, <1>5, <2>1, <3>1, <3>2 DEF InEffect, TxType
    <3>3. CASE pool[m].state # "ok"
      <4>1. m = n /\ state = "ok"
        BY <1>1, <1>3, <3>3 DEF TxType
      <4>2. tx.op = "enable" /\ tx.auction \in Auctions
        BY <1>1, <1>4, <4>1 DEF TxType
      <4>3. pool' # [pool EXCEPT ![n].state = "reverted"]
        BY <1>1, <1>3, <4>1 DEF TxType
      <4>4. enabled' = [a \in Auctions |-> IF a = tx.auction THEN enabled[a] \union tx.tokens
                                                             ELSE enabled[a]]
        BY <4>2, <4>3 DEF Mine
      <4> QED BY <1>4, <4>1, <4>2, <4>4
    <3> QED BY <3>2, <3>3
  <2>2. scan.at \in {"insert", "wait"} => InEffect(pool[scan.tx])'
    BY <1>1, <2>1 DEF ScanInv, BatchTrue
  <2> QED BY <1>1, <1>3, <1>4, <2>2 DEF ScanInv, BatchTrue, At, Enabling
<1>10. CacheIsSound'
  BY <1>1, <1>5 DEF ScanInv, CacheIsSound, dbVars
<1>11. RowsTellTheTransactions'
  <2>1. \A r \in rows : r.tx # 0 => r.tx \in DOMAIN pool
    BY DEF ScanInv, Types
  <2>2. \A r \in rows : r.status \in {"CONFIRMED", "REVERTED"} => r.tx # 0
    BY DEF ScanInv, Types, TypeOK
  <2>3. \A r \in rows : /\ r.status = "CONFIRMED" => pool'[r.tx].state = "ok"
                        /\ r.status = "REVERTED"  => pool'[r.tx].state = "reverted"
                        /\ r.tx # 0 => r.token \in pool'[r.tx].tokens
    BY <1>4, <2>1, <2>2 DEF ScanInv, RowsTellTheTransactions
  <2>4. ASSUME NEW m \in DOMAIN pool, NEW t \in pool'[m].tokens
        PROVE  \/ <<m, t>> \in lost
               \/ At("insert") /\ scan.tx = m /\ \E p \in ToSet(scan.left) : p[2] = t
               \/ \E r \in rows : r.tx = m /\ r.token = t
    <3>1. t \in pool[m].tokens
      BY <1>4, <2>4
    <3> QED BY <3>1 DEF ScanInv, RowsTellTheTransactions
  <2> QED BY <1>1, <1>3, <2>3, <2>4 DEF RowsTellTheTransactions, At
<1> QED BY <1>6, <1>7, <1>8, <1>9, <1>10, <1>11 DEF ScanInv

\* Others may disable what is enabled: that is withdrawn from then on.
LEMMA ElsewhereKeepsInv ==
    ASSUME ScanInv, Elsewhere
    PROVE  ScanInv' /\ \A p \in Pairs : lot[p] = "live" => lot'[p] # "clean"
<1>1. UNCHANGED <<dbVars, pool, rows, runs, scan, lost>>
  BY DEF Elsewhere
<1>2. /\ lot \in [Pairs -> {"clean", "live", "sold out", "stranded", "empty"}]
      /\ enabled \in [Auctions -> SUBSET Tokens] /\ withdrawn \subseteq Pairs
  BY DEF ScanInv, Types, TypeOK
<1>3. \A p \in Pairs : p[1] \in Auctions /\ p[2] \in Tokens /\ p = <<p[1], p[2]>>
  BY DEF Pairs
<1>4. /\ lot' \in [Pairs -> {"clean", "live", "sold out", "stranded", "empty"}]
      /\ enabled' \in [Auctions -> SUBSET Tokens] /\ withdrawn' \subseteq Pairs
      /\ \A p \in Pairs : lot[p] = "live" => lot'[p] # "clean"
      /\ withdrawn \subseteq withdrawn'
      /\ \A a \in Auctions : \A t \in enabled[a] \ enabled'[a] : <<a, t>> \in withdrawn'
  <2>1. CASE UNCHANGED <<lot, enabled, withdrawn>>
    BY <1>2, <2>1
  <2>2. ASSUME NEW p \in Pairs, NEW to \in Moves(lot[p]), lot' = [lot EXCEPT ![p] = to],
               UNCHANGED <<enabled, withdrawn>>
        PROVE  /\ lot' \in [Pairs -> {"clean", "live", "sold out", "stranded", "empty"}]
               /\ \A q \in Pairs : lot[q] = "live" => lot'[q] # "clean"
    BY <1>2, <2>2 DEF Moves
  <2>3. ASSUME NEW p \in Pairs, EnableToken(p)
        PROVE  /\ enabled' \in [Auctions -> SUBSET Tokens] /\ UNCHANGED <<lot, withdrawn>>
               /\ \A a \in Auctions : enabled[a] \subseteq enabled'[a]
    BY <1>2, <1>3, <2>3 DEF EnableToken
  <2>4. ASSUME NEW p \in Pairs, DisableToken(p)
        PROVE  /\ lot' \in [Pairs -> {"clean", "live", "sold out", "stranded", "empty"}]
               /\ enabled' \in [Auctions -> SUBSET Tokens] /\ withdrawn' \subseteq Pairs
               /\ \A q \in Pairs : lot[q] = "live" => lot'[q] # "clean"
               /\ withdrawn \subseteq withdrawn'
               /\ \A a \in Auctions : \A t \in enabled[a] \ enabled'[a] : <<a, t>> \in withdrawn'
    <3>1. PICK a \in Auctions, t \in Tokens : p = <<a, t>>
      BY DEF Pairs
    <3>2. /\ enabled' = [enabled EXCEPT ![a] = @ \ {t}] /\ withdrawn' = withdrawn \union {<<a, t>>}
          /\ lot' = [lot EXCEPT ![p] = IF @ \in {"live", "stranded"} THEN "stranded" ELSE "clean"]
      BY <2>4, <3>1 DEF DisableToken
    <3>3. /\ lot' \in [Pairs -> {"clean", "live", "sold out", "stranded", "empty"}]
          /\ \A q \in Pairs : lot[q] = "live" => lot'[q] # "clean"
      BY <1>2, <3>2
    <3>4. enabled' \in [Auctions -> SUBSET Tokens] /\ withdrawn' \subseteq Pairs
      BY <1>2, <3>1, <3>2
    <3>5. \A b \in Auctions : \A u \in enabled[b] \ enabled'[b] : <<b, u>> = <<a, t>>
      BY <1>2, <3>2
    <3> QED BY <3>2, <3>3, <3>4, <3>5
  <2> QED BY <1>2, <2>1, <2>2, <2>3, <2>4 DEF Elsewhere
<1>5. listed' \in [Sources -> Auctions \union {None}] /\ owned' \subseteq Auctions
  <2>1. listed \in [Sources -> Auctions \union {None}] /\ owned \subseteq Auctions
    BY DEF ScanInv, Types, TypeOK
  <2> QED BY <2>1 DEF Elsewhere
<1>6. Types'
  <2>1. TypeOK'
    BY <1>1, <1>4, <1>5 DEF ScanInv, Types, TypeOK, dbVars
  <2> QED BY <1>1, <2>1 DEF ScanInv, Types
<1>7. MappingTrue' /\ Accounted' /\ RowsTellTheTransactions'
  BY <1>1, SameMapping, SameAccount, SameRows DEF ScanInv, dbVars
<1>8. CacheIsSound'
  <2> SUFFICES ASSUME NEW a \in Auctions, NEW t \in cache[a] \ enabled'[a]
               PROVE  <<a, t>> \in withdrawn'
    BY <1>1 DEF CacheIsSound, dbVars
  <2> QED BY <1>4 DEF ScanInv, CacheIsSound
<1>9. BatchTrue'
  <2>1. ASSUME NEW tx \in TxType, InEffect(tx), tx.op = "enable", tx.state = "ok",
               NEW t \in tx.tokens \ enabled'[tx.auction]
        PROVE  <<tx.auction, t>> \in withdrawn'
    <3>1. tx.auction \in Auctions
      BY DEF TxType
    <3> QED BY <1>4, <2>1, <3>1 DEF InEffect
  <2>2. scan.at \in {"insert", "wait"} => pool[scan.tx] \in TxType /\ InEffect(pool[scan.tx])
    <3>1. scan.at \in {"insert", "wait"} => scan.tx \in DOMAIN pool /\ InEffect(pool[scan.tx])
      BY DEF ScanInv, BatchTrue
    <3>2. \A n \in DOMAIN pool : pool[n] \in TxType
      BY DEF ScanInv, Types
    <3> QED BY <3>1, <3>2
  <2>3. scan.at \in {"insert", "wait"} => InEffect(pool[scan.tx])'
    BY <1>1, <2>1, <2>2 DEF InEffect
  <2> QED BY <1>1, <2>3 DEF ScanInv, BatchTrue, At, Enabling
<1> QED BY <1>4, <1>6, <1>7, <1>8, <1>9 DEF ScanInv

----------------------------------------------------------------------------
(* Steps of a scan that send nothing.                                      *)

RunStatus == {"RUNNING", "SUCCESS", "PARTIAL_SUCCESS", "FAILED"}

\* Types, when only the scan, its row in scan_runs and rows without a transaction
\* change.
LEMMA TypesKept ==
    ASSUME Types, UNCHANGED <<chainVars, dbVars, pool>>, scan' \in ScanType,
           runs' \in Seq(RunStatus), Len(runs) <= Len(runs'),
           \A r \in rows' \ rows : /\ r \in RowType /\ r.run <= Len(runs') /\ r.tx = 0
                                   /\ r.status \in {"ERROR", "ESTIMATE_FAILED"}
    PROVE  Types'
<1>1. TypeOK'
  <2>1. ToSet(runs') \subseteq RunStatus
    BY DEF ToSet
  <2>2. \A r \in rows' : r.status \in Statuses /\ (r.tx = 0 <=> r.status \in {"ERROR", "ESTIMATE_FAILED"})
    BY DEF Types, TypeOK, Statuses
  <2> QED BY <2>1, <2>2 DEF Types, TypeOK, chainVars, dbVars, RunStatus, Statuses
<1>2. \A r \in rows' : r \in RowType /\ r.run <= Len(runs') /\ r.tx \in {0} \union DOMAIN pool
  <2> TAKE r \in rows'
  <2>1. CASE r \in rows
    <3>1. r \in RowType /\ r.run <= Len(runs) /\ r.tx \in {0} \union DOMAIN pool
      BY <2>1 DEF Types
    <3>2. r.run \in Nat /\ Len(runs) \in Nat /\ Len(runs') \in Nat
      BY <3>1 DEF RowType, Types
    <3> QED BY <3>1, <3>2
  <2>2. CASE r \notin rows
    BY <2>2
  <2> QED BY <2>1, <2>2
<1> QED BY <1>1, <1>2 DEF Types, RunStatus

LEMMA TypesOfScan ==
    ASSUME Types, UNCHANGED <<chainVars, dbVars, pool, rows, runs>>, scan' \in ScanType
    PROVE  Types'
<1>1. runs \in Seq(RunStatus)
  BY DEF Types, RunStatus
<1>2. Len(runs) \in Nat
  BY <1>1
<1> QED BY <1>1, <1>2, TypesKept

\* A scan that is over has nothing in hand.
LEMMA QuietKeepsInv ==
    ASSUME ScanInv, Finish \/ Abort \/ Crash
    PROVE  ScanInv'
<1>1. /\ scan' = Quiet /\ UNCHANGED <<chainVars, dbVars, pool, rows>>
      /\ lost \subseteq lost'
  BY DEF Finish, Abort, Crash
<1>2. /\ Quiet \in ScanType /\ Quiet.at = "idle" /\ Quiet.fresh = FALSE /\ Quiet.batch = <<>>
  BY DEF Quiet, ScanType, Stages
<1>3. Types'
  <2>1. runs \in Seq(RunStatus)
    BY DEF ScanInv, Types, RunStatus
  <2>2. runs' \in Seq(RunStatus) /\ Len(runs') = Len(runs)
    <3>1. CASE UNCHANGED runs
      BY <2>1, <3>1
    <3>2. ASSUME NEW status \in RunStatus, runs' = [runs EXCEPT ![Run] = status]
          PROVE  runs' \in Seq(RunStatus) /\ Len(runs') = Len(runs)
      <4>1. CASE Run \in DOMAIN runs
        BY <2>1, <3>2, <4>1
      <4>2. CASE Run \notin DOMAIN runs
        <5>1. runs' = runs
          BY <2>1, <3>2, <4>2
        <5> QED BY <2>1, <5>1
      <4> QED BY <4>1, <4>2
    <3> QED BY <3>1, <3>2 DEF Finish, Abort, Crash, RunStatus
  <2>3. Len(runs) \in Nat
    BY <2>1
  <2> QED BY <1>1, <1>2, <2>2, <2>3, TypesKept DEF ScanInv
<1>4. MappingTrue' /\ BatchTrue' /\ Accounted'
  BY <1>1, <1>2 DEF MappingTrue, BatchTrue, Accounted, At, Enabling, Early, Sending
<1>5. CacheIsSound'
  BY <1>1, SameCache DEF ScanInv, chainVars, dbVars
<1>6. RowsTellTheTransactions'
  <2>1. At("insert") => \A p \in ToSet(scan.left) : <<scan.tx, p[2]>> \in lost'
    BY DEF Finish, Abort, Crash, At, Raises
  <2> QED BY <1>1, <1>2, <2>1 DEF ScanInv, RowsTellTheTransactions, At
<1> QED BY <1>3, <1>4, <1>5, <1>6 DEF ScanInv

LEMMA BeginKeepsInv ==
    ASSUME ScanInv, Begin
    PROVE  ScanInv'
<1>1. /\ At("idle") /\ runs' = Append(runs, "RUNNING")
      /\ UNCHANGED <<chainVars, dbVars, pool, rows, lost>>
  BY DEF Begin
<1>2. /\ scan' \in ScanType /\ scan'.at = "map" /\ scan'.fresh = FALSE /\ scan'.batch = <<>>
  <2>1. PICK settle, enable \in BOOLEAN :
          scan' = [Quiet EXCEPT !.at = "map", !.settle = settle, !.enable = enable]
    BY DEF Begin
  <2>2. Quiet \in ScanType /\ Quiet.fresh = FALSE /\ Quiet.batch = <<>>
    BY DEF Quiet, ScanType, Stages
  <2> QED BY <2>1, <2>2 DEF ScanType, Stages
<1>3. runs \in Seq(RunStatus) /\ runs' \in Seq(RunStatus) /\ Len(runs') = Len(runs) + 1
      /\ Len(runs) \in Nat
  <2>1. runs \in Seq(RunStatus)
    BY DEF ScanInv, Types, RunStatus
  <2> QED BY <1>1, <2>1 DEF RunStatus
<1>4. Types'
  BY <1>1, <1>2, <1>3, TypesKept DEF ScanInv
<1>5. MappingTrue' /\ BatchTrue'
  BY <1>1, <1>2 DEF MappingTrue, BatchTrue, At, Enabling, Sending
<1>6. Accounted'
  <2>1. \A r \in rows' : r.run # Len(runs')
    <3>1. \A r \in rows : r.run \in Nat /\ r.run <= Len(runs)
      BY DEF ScanInv, Types, RowType
    <3> QED BY <1>1, <1>3, <3>1
  <2> QED BY <1>2, <2>1 DEF Accounted, At, Enabling, Early, Sending, Run
<1>7. CacheIsSound'
  BY <1>1, SameCache DEF ScanInv, chainVars, dbVars
<1>8. RowsTellTheTransactions'
  BY <1>1 DEF ScanInv, RowsTellTheTransactions, At
<1> QED BY <1>4, <1>5, <1>6, <1>7, <1>8 DEF ScanInv

\* Rows without a hash say nothing about the transactions there are.
LEMMA RowsWithoutHash ==
    ASSUME ScanInv, ~At("insert"), rows \subseteq rows',
           \A r \in rows' \ rows : r.tx = 0 /\ r.status \in {"ERROR", "ESTIMATE_FAILED"},
           \A n \in DOMAIN pool : n \in DOMAIN pool' /\ pool'[n] = pool[n],
           \A n \in DOMAIN pool' \ DOMAIN pool : \A t \in pool'[n].tokens : <<n, t>> \in lost',
           lost \subseteq lost'
    PROVE  RowsTellTheTransactions'
<1>1. ASSUME NEW n \in DOMAIN pool', NEW t \in pool'[n].tokens
      PROVE  <<n, t>> \in lost' \/ \E r \in rows' : r.tx = n /\ r.token = t
  BY DEF ScanInv, RowsTellTheTransactions
<1>2. ASSUME NEW r \in rows'
      PROVE  /\ r.tx # 0 => r.token \in pool'[r.tx].tokens
             /\ r.status = "CONFIRMED" => pool'[r.tx].state = "ok"
             /\ r.status = "REVERTED"  => pool'[r.tx].state = "reverted"
  <2>1. CASE r \in rows
    <3>1. r.tx # 0 => r.tx \in DOMAIN pool
      BY <2>1 DEF ScanInv, Types
    <3>2. r.status \in {"CONFIRMED", "REVERTED"} => r.tx # 0
      BY <2>1 DEF ScanInv, Types, TypeOK
    <3> QED BY <2>1, <3>1, <3>2 DEF ScanInv, RowsTellTheTransactions
  <2>2. CASE r \notin rows
    BY <1>2, <2>2
  <2> QED BY <2>1, <2>2
<1> QED BY <1>1, <1>2 DEF RowsTellTheTransactions

\* A stage that only reads: what the scan goes on with is not a batch, and no row
\* has been written.
LEMMA ReadKeepsRows ==
    ASSUME ScanInv, UNCHANGED <<pool, rows, runs, lost>>, Early, scan.at \notin Sending,
           scan'.at \in {"guards", "enabled", "settle", "next lot", "balances", "enable"},
           scan'.batch = scan.batch,
           scan'.at = "next lot" => scan'.op = "resolve",
           scan'.at = "enable" => scan'.op = "enable"
    PROVE  RowsTellTheTransactions' /\ Accounted' /\ BatchTrue'
<1>1. RowsTellTheTransactions'
  BY RowsWithoutHash DEF At, Sending
<1>2. Accounted'
  BY DEF ScanInv, Accounted, At, Enabling, Early, Sending, Run
<1>3. BatchTrue'
  BY DEF ScanInv, BatchTrue, At, Enabling, Early, Sending
<1> QED BY <1>1, <1>2, <1>3

LEMMA MapKeepsInv ==
    ASSUME ScanInv, MapAuctions
    PROVE  ScanInv'
<1>1. At("map") /\ UNCHANGED <<chainVars, guard, cache, pool, rows, runs, lost>>
  BY DEF MapAuctions
<1>2. scan \in ScanType /\ listed \in [Sources -> Auctions \union {None}] /\ owned \subseteq Auctions
      /\ mapping \in [Sources -> Auctions \union {None}]
  BY DEF ScanInv, Types, TypeOK
<1>3. /\ scan' \in ScanType /\ scan'.at = "guards" /\ scan'.batch = scan.batch
      /\ mapping' \in [Sources -> Auctions \union {None}]
      /\ scan'.fresh => Mapped' \subseteq scan'.factory
  <2>1. CASE Goto("guards") /\ UNCHANGED mapping
    <3>1. /\ scan' \in ScanType /\ scan'.at = "guards" /\ scan'.batch = scan.batch
          /\ scan'.fresh = scan.fresh /\ scan'.factory = scan.factory
      BY <1>2, <2>1 DEF Goto, ScanType, Stages
    <3>2. Mapped' = Mapped
      BY <2>1 DEF Mapped
    <3> QED BY <1>2, <2>1, <3>1, <3>2 DEF ScanInv, MappingTrue
  <2>2. ASSUME NEW readable \in SUBSET Sources,
               mapping' = [s \in Sources |->
                   IF s \in readable /\ listed[s] \in owned THEN listed[s] ELSE None],
               scan' = [scan EXCEPT !.at = "guards", !.fresh = TRUE,
                            !.factory = {listed[s] : s \in readable} \intersect owned]
        PROVE  /\ scan' \in ScanType /\ scan'.at = "guards" /\ scan'.batch = scan.batch
               /\ mapping' \in [Sources -> Auctions \union {None}]
               /\ scan'.fresh => Mapped' \subseteq scan'.factory
    <3>1. PICK factory : factory = {listed[s] : s \in readable} \intersect owned
      OBVIOUS
    <3>2. factory \in SUBSET Auctions
      BY <1>2, <3>1
    <3>3. /\ scan' \in ScanType /\ scan'.at = "guards" /\ scan'.factory = factory
          /\ scan'.batch = scan.batch
      BY <1>2, <2>2, <3>1, <3>2 DEF ScanType, Stages
    <3>4. mapping' \in [Sources -> Auctions \union {None}]
      BY <1>2, <2>2
    <3>5. Mapped' \subseteq factory
      BY <2>2, <3>1 DEF Mapped
    <3> QED BY <3>3, <3>4, <3>5
  <2> QED BY <2>1, <2>2 DEF MapAuctions
<1>4. Types'
  <2>1. TypeOK'
    BY <1>1, <1>3 DEF ScanInv, Types, TypeOK, chainVars, Statuses
  <2> QED BY <1>1, <1>3, <2>1 DEF ScanInv, Types
<1>5. MappingTrue'
  BY <1>3 DEF MappingTrue, At
<1>6. CacheIsSound'
  BY <1>1, SameCache DEF ScanInv, chainVars
<1>7. RowsTellTheTransactions' /\ Accounted' /\ BatchTrue'
  BY <1>1, <1>3, ReadKeepsRows DEF At, Early, Sending
<1> QED BY <1>4, <1>5, <1>6, <1>7 DEF ScanInv

LEMMA CheckKeepsInv ==
    ASSUME ScanInv, CheckGuards \/ ReadEnabled
    PROVE  ScanInv'
<1>1. /\ At("guards") \/ At("enabled")
      /\ UNCHANGED <<listed, owned, enabled, lot, killed, moves, mapping, pool, rows, runs, lost>>
  BY DEF CheckGuards, ReadEnabled, chainVars
<1>2. scan \in ScanType /\ enabled \in [Auctions -> SUBSET Tokens] /\ cache \in [Auctions -> SUBSET Tokens]
      /\ guard \in [Sources -> BOOLEAN] /\ withdrawn \subseteq Pairs
      /\ Mapped \subseteq Auctions
  BY DEF ScanInv, Types, TypeOK, Mapped
<1>3. /\ scan' \in ScanType /\ scan'.at \in {"enabled", "settle"}
      /\ scan'.fresh = scan.fresh /\ scan'.factory = scan.factory
      /\ scan'.batch = scan.batch
  <2>1. CASE \E stage \in {"enabled", "settle"} : Goto(stage)
    BY <1>2, <2>1 DEF Goto, ScanType, Stages
  <2>2. ASSUME NEW unread \in SUBSET Mapped,
               scan' = [scan EXCEPT !.at = "settle", !.unread = unread,
                   !.seen = {p \in Pairs : p[1] \in Mapped \ unread /\ p[2] \in enabled[p[1]]}]
        PROVE  /\ scan' \in ScanType /\ scan'.at \in {"enabled", "settle"}
               /\ scan'.fresh = scan.fresh /\ scan'.factory = scan.factory
               /\ scan'.batch = scan.batch
    <3>1. PICK seen \in SUBSET Pairs :
            seen = {p \in Pairs : p[1] \in Mapped \ unread /\ p[2] \in enabled[p[1]]}
      OBVIOUS
    <3>2. unread \in SUBSET Auctions
      BY <1>2
    <3> QED BY <1>2, <2>2, <3>1, <3>2 DEF ScanType, Stages
  <2> QED BY <2>1, <2>2 DEF CheckGuards, ReadEnabled
<1>4. guard' \in [Sources -> BOOLEAN]
  <2>1. CASE CheckGuards
    BY <2>1 DEF CheckGuards
  <2>2. CASE ReadEnabled
    BY <1>2, <2>2 DEF ReadEnabled
  <2> QED BY <2>1, <2>2
<1>5. /\ cache' \in [Auctions -> SUBSET Tokens] /\ withdrawn' \subseteq Pairs
      /\ \A a \in Auctions : \A t \in cache'[a] \ enabled[a] : <<a, t>> \in withdrawn'
  <2>1. \A a \in Auctions : \A t \in cache[a] \ enabled[a] : <<a, t>> \in withdrawn
    BY DEF ScanInv, CacheIsSound
  <2>2. CASE UNCHANGED <<cache, withdrawn>>
    BY <1>2, <2>1, <2>2
  <2>3. ASSUME NEW unread \in SUBSET Mapped,
               cache' = [a \in Auctions |-> IF a \in Mapped \ unread THEN enabled[a] ELSE cache[a]],
               withdrawn' = {p \in withdrawn : p[1] \notin Mapped \ unread}
        PROVE  /\ cache' \in [Auctions -> SUBSET Tokens] /\ withdrawn' \subseteq Pairs
               /\ \A a \in Auctions : \A t \in cache'[a] \ enabled[a] : <<a, t>> \in withdrawn'
    <3>1. cache' \in [Auctions -> SUBSET Tokens] /\ withdrawn' \subseteq Pairs
      BY <1>2, <2>3
    <3>2. ASSUME NEW a \in Auctions, NEW t \in cache'[a] \ enabled[a]
          PROVE  <<a, t>> \in withdrawn'
      <4>1. a \notin Mapped \ unread /\ t \in cache[a]
        BY <1>2, <2>3, <3>2
      <4> QED BY <2>1, <2>3, <3>2, <4>1
    <3> QED BY <3>1, <3>2
  <2> QED BY <2>2, <2>3 DEF CheckGuards, ReadEnabled, chainVars
<1>6. Types'
  <2>1. TypeOK'
    BY <1>1, <1>4, <1>5 DEF ScanInv, Types, TypeOK, Statuses
  <2> QED BY <1>1, <1>3, <2>1 DEF ScanInv, Types
<1>7. MappingTrue'
  BY <1>1, <1>3 DEF ScanInv, MappingTrue, At, Mapped
<1>8. CacheIsSound'
  BY <1>1, <1>5 DEF CacheIsSound
<1>9. RowsTellTheTransactions' /\ Accounted' /\ BatchTrue'
  <2>1. Early /\ scan.at \notin Sending
    BY <1>1 DEF At, Early, Sending
  <2> QED BY <1>1, <1>3, <2>1, ReadKeepsRows
<1> QED BY <1>6, <1>7, <1>8, <1>9 DEF ScanInv

LEMMA InspectKeepsInv ==
    ASSUME ScanInv, InspectLots
    PROVE  ScanInv'
<1>1. At("settle") /\ UNCHANGED <<chainVars, dbVars, pool, rows, runs, lost>>
  BY DEF InspectLots
<1>2. scan \in ScanType
  BY DEF ScanInv, Types
<1>3. /\ scan' \in ScanType /\ scan'.at \in {"next lot", "balances"}
      /\ scan'.fresh = scan.fresh /\ scan'.factory = scan.factory /\ scan'.batch = scan.batch
      /\ scan'.at = "next lot" => scan'.op = "resolve"
  <2>1. CASE scan' = [scan EXCEPT !.at = "balances"]
    BY <1>2, <2>1 DEF ScanType, Stages
  <2>2. ASSUME NEW readable \in SUBSET Mapped,
               scan' = [scan EXCEPT !.at = "next lot", !.todo = SetToSeq(Previewed(readable)),
                                    !.op = "resolve"]
        PROVE  /\ scan' \in ScanType /\ scan'.at = "next lot" /\ scan'.op = "resolve"
               /\ scan'.fresh = scan.fresh /\ scan'.factory = scan.factory
               /\ scan'.batch = scan.batch
    <3>1. PICK found \in SUBSET Pairs : found = Previewed(readable)
      BY DEF Previewed
    <3>2. PICK todo : todo = SetToSeq(found)
      OBVIOUS
    <3>3. todo \in Seq(Pairs)
      <4>1. IsFiniteSet(found)
        BY PairsAreFinite
      <4>2. todo \in Seq(found)
        BY <3>2, <4>1, SetToSeqLists
      <4> QED BY <4>2
    <3> QED BY <1>2, <2>2, <3>1, <3>2, <3>3 DEF ScanType, Stages
  <2> QED BY <2>1, <2>2 DEF InspectLots
<1>4. Types'
  BY <1>1, <1>3, TypesOfScan DEF ScanInv
<1>5. MappingTrue'
  BY <1>1, <1>3 DEF ScanInv, MappingTrue, At, Mapped, dbVars
<1>6. CacheIsSound'
  BY <1>1, SameCache DEF ScanInv, chainVars, dbVars
<1>7. RowsTellTheTransactions' /\ Accounted' /\ BatchTrue'
  <2>1. Early /\ scan.at \notin Sending
    BY <1>1 DEF At, Early, Sending
  <2> QED BY <1>1, <1>3, <2>1, ReadKeepsRows
<1> QED BY <1>4, <1>5, <1>6, <1>7 DEF ScanInv

LEMMA BalancesKeepInv ==
    ASSUME ScanInv, ReadBalances
    PROVE  ScanInv'
<1>1. At("balances") /\ UNCHANGED <<chainVars, dbVars, pool, rows, runs, lost>>
  BY DEF ReadBalances
<1>2. scan \in ScanType
  BY DEF ScanInv, Types
<1>3. PICK positive \in SUBSET {p \in Pairs : p[1] \in Mapped}, failed \in BOOLEAN :
        scan' = [scan EXCEPT !.at = "enable", !.due = positive, !.failed = failed, !.op = "enable"]
  BY DEF ReadBalances
<1>4. /\ scan' \in ScanType /\ scan'.at = "enable" /\ scan'.due = positive /\ scan'.op = "enable"
      /\ scan'.fresh = scan.fresh /\ scan'.factory = scan.factory /\ scan'.batch = scan.batch
  BY <1>2, <1>3 DEF ScanType, Stages
<1>5. Types'
  BY <1>1, <1>4, TypesOfScan DEF ScanInv
<1>6. MappingTrue'
  BY <1>1, <1>4 DEF ScanInv, MappingTrue, At, Mapped, dbVars
<1>7. CacheIsSound'
  BY <1>1, SameCache DEF ScanInv, chainVars, dbVars
<1>8. RowsTellTheTransactions' /\ Accounted' /\ BatchTrue'
  <2>1. Early /\ scan.at \notin Sending
    BY <1>1 DEF At, Early, Sending
  <2> QED BY <1>1, <1>4, <2>1, ReadKeepsRows
<1> QED BY <1>5, <1>6, <1>7, <1>8 DEF ScanInv

\* What a scan sets out to enable is on auctions that the factories listed in it.
LEMMA SelectKeepsInv ==
    ASSUME ScanInv, SelectTokens
    PROVE  ScanInv'
<1>1. At("enable") /\ UNCHANGED <<chainVars, dbVars, pool, rows, runs, lost>>
  BY DEF SelectTokens
<1>2. scan \in ScanType
  BY DEF ScanInv, Types
<1>3. /\ scan.batch = <<>> /\ \A r \in rows : r.run = Run => r.op # "enable"
      /\ scan.op = "enable" /\ \A p \in scan.due : p[1] \in Mapped
      /\ scan.fresh => Mapped \subseteq scan.factory
  BY <1>1 DEF ScanInv, BatchTrue, Accounted, MappingTrue, At, Sending, Early
<1>4. CacheIsSound'
  BY <1>1, SameCache DEF ScanInv, chainVars, dbVars
<1>5. RowsTellTheTransactions'
  BY <1>1, RowsWithoutHash DEF At
<1>6. CASE Goto("prices") /\ (~scan.enable \/ scan.due = {})
  <2>1. /\ scan' \in ScanType /\ scan'.at = "prices" /\ scan'.due = scan.due
        /\ scan'.enable = scan.enable
        /\ scan'.fresh = scan.fresh /\ scan'.factory = scan.factory /\ scan'.batch = scan.batch
    BY <1>2, <1>6 DEF Goto, ScanType, Stages
  <2>2. Types'
    BY <1>1, <2>1, TypesOfScan DEF ScanInv
  <2>3. MappingTrue' /\ BatchTrue'
    BY <1>1, <1>3, <2>1 DEF MappingTrue, BatchTrue, At, Mapped, dbVars, Sending, Enabling
  <2>4. Accounted'
    BY <1>6, <2>1 DEF Accounted, At, Enabling, Early, Sending
  <2> QED BY <1>4, <1>5, <2>2, <2>3, <2>4 DEF ScanInv
<1>7. ASSUME NEW due \in SUBSET (IF FactoryVerified THEN Eligible ELSE {}),
             scan' = [scan EXCEPT !.at = "next token", !.due = due, !.todo = SetToSeq(due)]
      PROVE  ScanInv'
  <2>1. due \in SUBSET Pairs /\ \A p \in due : p[1] \in scan.factory
    BY <1>2, <1>3 DEF FactoryVerified, Eligible, ScanType
  <2>2. PICK todo : todo = SetToSeq(due)
    OBVIOUS
  <2>3. todo \in Seq(Pairs) /\ ToSet(todo) = due /\ Distinct(todo)
    <3>1. IsFiniteSet(due)
      BY <2>1, PairsAreFinite
    <3>2. todo \in Seq(due) /\ ToSet(todo) = due /\ Distinct(todo)
      BY <2>2, <3>1, SetToSeqLists
    <3> QED BY <2>1, <3>2
  <2>4. /\ scan' \in ScanType /\ scan'.at = "next token" /\ scan'.due = due
        /\ scan'.todo = todo /\ scan'.fresh = scan.fresh /\ scan'.factory = scan.factory
        /\ scan'.batch = <<>> /\ scan'.op = "enable"
    BY <1>2, <1>3, <1>7, <2>1, <2>2, <2>3 DEF ScanType, Stages
  <2>5. Types'
    BY <1>1, <2>4, TypesOfScan DEF ScanInv
  <2>6. MappingTrue'
    BY <1>1, <1>3, <2>4 DEF MappingTrue, At, Mapped, dbVars
  <2>7. BatchTrue'
    BY <2>1, <2>3, <2>4, ToSetShort DEF BatchTrue, At, Sending, Enabling
  <2>8. Accounted'
    <3>1. \A p : RowsFor(p)' = {}
      BY <1>1, <1>3 DEF RowsFor, About, Run
    <3>2. InHand' = due /\ Early' = FALSE /\ Enabling' = TRUE
      BY <2>3, <2>4, ToSetShort DEF InHand, Unrecorded, Early, Enabling, At, Sending
    <3> QED BY <2>3, <2>4, <3>1, <3>2, ToSetShort, NothingTwice DEF Accounted, At
  <2> QED BY <1>4, <1>5, <2>5, <2>6, <2>7, <2>8 DEF ScanInv
<1> QED BY <1>6, <1>7 DEF SelectTokens

----------------------------------------------------------------------------
(* Steps of a scan that write rows, or work off a list.                    *)

\* The row of an estimate that failed.
LEMMA EstimateRow ==
    ASSUME ScanInv, ~At("idle"), NEW op \in {"resolve", "enable"}, NEW h \in Pairs
    PROVE  LET r == Row(op, h, "ESTIMATE_FAILED", 0)
           IN  /\ r \in RowType /\ r.run <= Len(runs) /\ r.tx = 0
               /\ r.status = "ESTIMATE_FAILED" /\ r.op = op
<1>1. Len(runs) \in Nat
  BY DEF ScanInv, Types
<1>2. h[1] \in Auctions /\ h[2] \in Tokens
  BY DEF Pairs
<1> QED BY <1>1, <1>2 DEF Row, RowType, Statuses, Run

LEMMA NextLotKeepsInv ==
    ASSUME ScanInv, NextLot
    PROVE  ScanInv'
<1>1. At("next lot") /\ UNCHANGED <<chainVars, dbVars, pool, runs, lost>>
  BY DEF NextLot
<1>2. /\ scan \in ScanType /\ scan.todo \in Seq(Pairs)
      /\ runs \in Seq(RunStatus) /\ Len(runs) \in Nat
  <2>1. scan \in ScanType /\ runs \in Seq(RunStatus)
    BY DEF ScanInv, Types, RunStatus
  <2> QED BY <2>1 DEF ScanType
<1>3. scan.op = "resolve" /\ scan.batch = <<>> /\ \A r \in rows : r.run = Run => r.op # "enable"
  BY <1>1 DEF ScanInv, BatchTrue, Accounted, At, Sending, Early
<1>4. CacheIsSound'
  BY <1>1, SameCache DEF ScanInv, chainVars, dbVars
<1>5. ASSUME scan' \in ScanType, scan'.at \in {"next lot", "balances", "send"},
             scan'.op = "resolve", scan'.fresh = scan.fresh, scan'.factory = scan.factory,
             scan'.at = "send" <=> scan'.batch # <<>>,
             rows \subseteq rows',
             \A r \in rows' \ rows : /\ r \in RowType /\ r.run <= Len(runs) /\ r.tx = 0
                                     /\ r.status = "ESTIMATE_FAILED" /\ r.op = "resolve"
      PROVE  ScanInv'
  <2>1. Types'
    <3>1. runs' \in Seq(RunStatus) /\ runs' = runs /\ Len(runs) <= Len(runs')
      <4>1. runs' = runs
        BY <1>1
      <4> QED BY <1>2, <4>1
    <3>2. \A r \in rows' \ rows : /\ r \in RowType /\ r.run <= Len(runs') /\ r.tx = 0
                                  /\ r.status \in {"ERROR", "ESTIMATE_FAILED"}
      BY <1>5, <3>1
    <3> QED BY <1>1, <1>5, <3>1, <3>2, TypesKept DEF ScanInv
  <2>2. MappingTrue'
    BY <1>1, <1>5 DEF ScanInv, MappingTrue, At, Mapped, dbVars
  <2>3. BatchTrue'
    BY <1>5 DEF BatchTrue, At, Sending, Enabling
  <2>4. RowsTellTheTransactions'
    BY <1>1, <1>5, RowsWithoutHash DEF At
  <2>5. Accounted'
    <3>1. \A r \in rows' : r.run = Run' => r.op # "enable"
      BY <1>1, <1>3, <1>5 DEF Run
    <3> QED BY <1>5, <3>1 DEF Accounted, At, Enabling, Early, Sending
  <2> QED BY <1>4, <2>1, <2>2, <2>3, <2>4, <2>5 DEF ScanInv
<1>6. CASE Goto("balances") /\ UNCHANGED rows
  BY <1>2, <1>3, <1>5, <1>6 DEF Goto, ScanType, Stages
<1>7. ASSUME scan.todo # <<>>
      PROVE  /\ Head(scan.todo) \in Pairs /\ Tail(scan.todo) \in Seq(Pairs)
  BY <1>2, <1>7, HeadAndTail
<1>8. CASE /\ scan.todo # <<>> /\ UNCHANGED rows
           /\ scan' = [scan EXCEPT !.at = "send", !.batch = <<Head(scan.todo)>>, !.todo = Tail(@)]
  <2>1. PICK batch, todo : batch = <<Head(scan.todo)>> /\ todo = Tail(scan.todo)
    OBVIOUS
  <2>2. batch \in Seq(Pairs) /\ batch # <<>> /\ todo \in Seq(Pairs)
    BY <1>7, <1>8, <2>1
  <2>3. scan' = [scan EXCEPT !.at = "send", !.batch = batch, !.todo = todo]
    BY <1>8, <2>1
  <2>4. /\ scan' \in ScanType /\ scan'.at = "send" /\ scan'.op = "resolve"
        /\ scan'.fresh = scan.fresh /\ scan'.factory = scan.factory /\ scan'.batch = batch
    BY <1>2, <1>3, <2>2, <2>3 DEF ScanType, Stages
  <2> QED BY <1>5, <1>8, <2>2, <2>4
<1>9. CASE /\ scan.todo # <<>>
           /\ rows' = rows \union {Row("resolve", Head(scan.todo), "ESTIMATE_FAILED", 0)}
           /\ scan' = [scan EXCEPT !.todo = Tail(@)]
  <2>1. PICK h, todo : h = Head(scan.todo) /\ todo = Tail(scan.todo)
    OBVIOUS
  <2>2. h \in Pairs /\ todo \in Seq(Pairs)
    BY <1>7, <1>9, <2>1
  <2>3. scan' = [scan EXCEPT !.todo = todo] /\ rows' = rows \union {Row("resolve", h, "ESTIMATE_FAILED", 0)}
    BY <1>9, <2>1
  <2>4. /\ scan' \in ScanType /\ scan'.at = "next lot" /\ scan'.op = "resolve"
        /\ scan'.fresh = scan.fresh /\ scan'.factory = scan.factory /\ scan'.batch = <<>>
    BY <1>1, <1>2, <1>3, <2>2, <2>3 DEF ScanType, At
  <2>5. LET r == Row("resolve", h, "ESTIMATE_FAILED", 0)
        IN  /\ r \in RowType /\ r.run <= Len(runs) /\ r.tx = 0
            /\ r.status = "ESTIMATE_FAILED" /\ r.op = "resolve"
    BY <1>1, <2>2, EstimateRow DEF At
  <2> QED BY <1>5, <2>3, <2>4, <2>5
<1> QED BY <1>6, <1>8, <1>9 DEF NextLot

\* A batch that grows, goes out, or was the last one: nothing changes hands.
LEMMA BatchKeepsInv ==
    ASSUME ScanInv, GrowBatch \/ FlushBatch \/ AllEnabled
    PROVE  ScanInv'
<1>1. At("next token") /\ UNCHANGED <<chainVars, dbVars, pool, rows, runs, lost>>
  BY DEF GrowBatch, FlushBatch, AllEnabled
<1>2. PICK todo \in Seq(Pairs), batch \in Seq(Pairs) : scan.todo = todo /\ scan.batch = batch
  BY DEF ScanInv, Types, ScanType
<1>3. scan \in ScanType /\ scan.op = "enable" /\ scan.at = "next token"
  BY <1>1 DEF ScanInv, Types, BatchTrue, At
<1>4. /\ \A p \in ToSet(todo) \union ToSet(batch) : p[1] \in scan.factory
      /\ Distinct(todo) /\ Distinct(batch) /\ ToSet(todo) \intersect ToSet(batch) = {}
      /\ \A p \in ToSet(todo) \union ToSet(batch) : RowsFor(p) = {}
      /\ \A p \in scan.due \ (ToSet(todo) \union ToSet(batch)) : \E r \in rows : RowsFor(p) = {r}
  BY <1>2, <1>3 DEF ScanInv, BatchTrue, Accounted, Enabling, InHand, Unrecorded, At
<1>5. CacheIsSound' /\ \A p : RowsFor(p)' = RowsFor(p)
  <2>1. CacheIsSound'
    BY <1>1, SameCache DEF ScanInv, chainVars, dbVars
  <2> QED BY <1>1, <2>1 DEF RowsFor, Run
<1>6. ASSUME NEW todo2 \in Seq(Pairs), NEW batch2 \in Seq(Pairs),
             NEW stage \in {"next token", "send", "prices"},
             scan' = [scan EXCEPT !.at = stage, !.todo = todo2, !.batch = batch2],
             ToSet(todo2) \union ToSet(batch2) = ToSet(todo) \union ToSet(batch),
             Distinct(todo2), Distinct(batch2), ToSet(todo2) \intersect ToSet(batch2) = {},
             stage = "send" => batch2 # <<>>,
             stage = "prices" => batch2 = <<>> /\ todo2 = <<>>
      PROVE  ScanInv'
  <2>1. /\ scan' \in ScanType /\ scan'.at = stage /\ scan'.todo = todo2 /\ scan'.batch = batch2
        /\ scan'.op = "enable" /\ scan'.fresh = scan.fresh /\ scan'.factory = scan.factory
        /\ scan'.due = scan.due
    BY <1>3, <1>6 DEF ScanType, Stages
  <2>2. Types'
    BY <1>1, <2>1, TypesOfScan DEF ScanInv
  <2>3. MappingTrue'
    BY <1>1, <2>1 DEF ScanInv, MappingTrue, At, Mapped, dbVars
  <2>4. BatchTrue'
    BY <1>4, <1>6, <2>1 DEF BatchTrue, At, Sending, Enabling
  <2>5. RowsTellTheTransactions'
    BY <1>1, <1>3, RowsWithoutHash DEF At
  <2>6. Accounted'
    <3>1. InHand' = ToSet(todo) \union ToSet(batch) /\ Early' = FALSE
      BY <1>6, <2>1 DEF InHand, Unrecorded, Early, At, Sending
    <3>2. stage = "prices" => InHand' = {}
      BY <1>6, <3>1, ToSetShort
    <3> QED BY <1>1, <1>4, <1>5, <1>6, <2>1, <3>1, <3>2 DEF Accounted, At, Enabling, Sending
  <2> QED BY <1>5, <2>2, <2>3, <2>4, <2>5, <2>6 DEF ScanInv
<1>7. CASE GrowBatch
  <2>1. PICK h, rest : h = Head(todo) /\ rest = Tail(todo)
    OBVIOUS
  <2>2. todo # <<>> /\ scan' = [scan EXCEPT !.batch = Append(batch, h), !.todo = rest]
    BY <1>2, <1>7, <2>1 DEF GrowBatch
  <2>3. /\ h \in Pairs /\ rest \in Seq(Pairs) /\ ToSet(todo) = {h} \union ToSet(rest)
        /\ Distinct(rest) /\ h \notin ToSet(rest)
    BY <1>4, <2>1, <2>2, HeadAndTail
  <2>4. /\ Append(batch, h) \in Seq(Pairs)
        /\ ToSet(Append(batch, h)) = ToSet(batch) \union {h}
        /\ Distinct(Append(batch, h))
    <3>1. h \notin ToSet(batch)
      BY <1>4, <2>3
    <3> QED BY <1>4, <2>3, <3>1, ToSetAppend, DistinctAppend
  <2>5. scan' = [scan EXCEPT !.at = "next token", !.todo = rest, !.batch = Append(batch, h)]
    BY <1>3, <2>2, <2>3 DEF ScanType
  <2>6. /\ ToSet(rest) \union ToSet(Append(batch, h)) = ToSet(todo) \union ToSet(batch)
        /\ ToSet(rest) \intersect ToSet(Append(batch, h)) = {}
    <3> HIDE DEF ToSet
    <3> QED BY <1>4, <2>3, <2>4
  <2>7. /\ rest \in Seq(Pairs) /\ Append(batch, h) \in Seq(Pairs)
        /\ Distinct(rest) /\ Distinct(Append(batch, h))
    BY <2>3, <2>4
  <2> QED BY <1>6, <2>5, <2>6, <2>7
<1>8. CASE FlushBatch \/ AllEnabled
  <2>1. PICK stage \in {"send", "prices"} :
          /\ scan' = [scan EXCEPT !.at = stage]
          /\ stage = "send" => batch # <<>>
          /\ stage = "prices" => batch = <<>> /\ todo = <<>>
    BY <1>2, <1>8 DEF FlushBatch, AllEnabled, Goto
  <2>2. scan' = [scan EXCEPT !.at = stage, !.todo = todo, !.batch = batch]
    BY <1>2, <1>3, <2>1 DEF ScanType
  <2> QED BY <1>4, <1>6, <2>1, <2>2
<1> QED BY <1>7, <1>8

\* The token whose estimate failed leaves the scan's hands for a row.
LEMMA FailKeepsInv ==
    ASSUME ScanInv, FailToken
    PROVE  ScanInv'
<1>1. At("next token") /\ UNCHANGED <<chainVars, dbVars, pool, runs, lost>>
  BY DEF FailToken
<1>2. PICK todo \in Seq(Pairs) : scan.todo = todo
  BY DEF ScanInv, Types, ScanType
<1>3. PICK h, rest : h = Head(todo) /\ rest = Tail(todo)
  OBVIOUS
<1>4. /\ scan \in ScanType /\ scan.op = "enable" /\ scan.at = "next token" /\ scan.batch = <<>>
      /\ todo # <<>> /\ scan' = [scan EXCEPT !.todo = rest]
      /\ rows' = rows \union {Row("enable", h, "ESTIMATE_FAILED", 0)}
  BY <1>1, <1>2, <1>3 DEF ScanInv, Types, BatchTrue, At, FailToken
<1>5. /\ \A p \in ToSet(todo) : p[1] \in scan.factory
      /\ Distinct(todo)
      /\ \A p \in ToSet(todo) : RowsFor(p) = {}
      /\ \A p \in scan.due \ ToSet(todo) : \E r \in rows : RowsFor(p) = {r}
  BY <1>2, <1>4, ToSetShort DEF ScanInv, BatchTrue, Accounted, Enabling, InHand, Unrecorded, At
<1>6. /\ h \in Pairs /\ rest \in Seq(Pairs) /\ ToSet(todo) = {h} \union ToSet(rest)
      /\ Distinct(rest) /\ h \notin ToSet(rest) /\ h \in ToSet(todo)
  BY <1>3, <1>4, <1>5, HeadAndTail
<1>7. /\ scan' \in ScanType /\ scan'.at = "next token" /\ scan'.todo = rest /\ scan'.batch = <<>>
      /\ scan'.op = "enable" /\ scan'.fresh = scan.fresh /\ scan'.factory = scan.factory
      /\ scan'.due = scan.due
  BY <1>4, <1>6 DEF ScanType
<1>8. PICK new : new = Row("enable", h, "ESTIMATE_FAILED", 0)
  OBVIOUS
<1>9. /\ rows' = rows \union {new} /\ new \in RowType /\ new.run <= Len(runs) /\ new.tx = 0
      /\ new.status = "ESTIMATE_FAILED"
  BY <1>1, <1>4, <1>6, <1>8, EstimateRow DEF At
<1>10. Types'
  <2>1. runs \in Seq(RunStatus) /\ runs' = runs
    BY <1>1 DEF ScanInv, Types, RunStatus
  <2>2. Len(runs) <= Len(runs')
    BY <2>1
  <2> QED BY <1>1, <1>7, <1>9, <2>1, <2>2, TypesKept DEF ScanInv
<1>11. MappingTrue'
  BY <1>1, <1>7 DEF ScanInv, MappingTrue, At, Mapped, dbVars
<1>12. BatchTrue'
  BY <1>5, <1>6, <1>7, ToSetShort DEF BatchTrue, At, Sending, Enabling
<1>13. CacheIsSound'
  BY <1>1, SameCache DEF ScanInv, chainVars, dbVars
<1>14. RowsTellTheTransactions'
  BY <1>1, <1>4, <1>9, RowsWithoutHash DEF At
<1>15. Accounted'
  <2>1. \A p \in Pairs : RowsFor(p)' = RowsFor(p) \union (IF p = h THEN {new} ELSE {})
    <3>1. /\ new.run = Run /\ new.op = "enable" /\ new.auction = h[1] /\ new.token = h[2]
      BY <1>8 DEF Row
    <3>2. \A p \in Pairs : h[1] = p[1] /\ h[2] = p[2] => p = h
      BY <1>6 DEF Pairs
    <3>3. \A p \in Pairs : About(rows \union {new}, Run, p) =
                           IF p = h THEN About(rows, Run, p) \union {new} ELSE About(rows, Run, p)
      BY <1>6, <3>1, <3>2 DEF About
    <3>4. runs' = runs /\ rows' = rows \union {new}
      BY <1>1, <1>9
    <3> QED BY <3>3, <3>4 DEF RowsFor, Run
  <2>2. InHand' = ToSet(rest) /\ Early' = FALSE /\ Enabling' = TRUE
    BY <1>7, ToSetShort DEF InHand, Unrecorded, Early, At, Sending, Enabling
  <2>3. ToSet(rest) \subseteq Pairs /\ scan.due \subseteq Pairs
    <3>1. scan.due \subseteq Pairs
      BY <1>4 DEF ScanType
    <3> QED BY <1>6, <3>1, ToSetType
  <2>4. \A p \in ToSet(rest) : RowsFor(p)' = {}
    BY <1>5, <1>6, <2>1, <2>3
  <2>5. \A p \in scan.due \ ToSet(rest) : \E r \in rows' : RowsFor(p)' = {r}
    <3> TAKE p \in scan.due \ ToSet(rest)
    <3>1. CASE p = h
      BY <1>5, <1>6, <1>9, <2>1, <3>1
    <3>2. CASE p # h
      BY <1>5, <1>6, <1>9, <2>1, <2>3, <3>2
    <3> QED BY <3>1, <3>2
  <2> QED BY <1>6, <1>7, <2>2, <2>4, <2>5, ToSetShort, NothingTwice DEF Accounted, At
<1> QED BY <1>10, <1>11, <1>12, <1>13, <1>14, <1>15 DEF ScanInv

----------------------------------------------------------------------------
(* Steps of a scan that send and wait.                                     *)

\* The rows of a batch, as data.
Line(run, op, p, status, tx) ==
    [run |-> run, op |-> op, auction |-> p[1], token |-> p[2], status |-> status, tx |-> tx]

LEMMA AboutLines ==
    ASSUME NEW S, NEW n, NEW status, NEW tx, NEW B \in SUBSET Pairs, NEW p \in Pairs
    PROVE  About(S \union {Line(n, "enable", q, status, tx) : q \in B}, n, p) =
               About(S, n, p) \union (IF p \in B THEN {Line(n, "enable", p, status, tx)} ELSE {})
<1>1. \A q \in Pairs : q[1] = p[1] /\ q[2] = p[2] => q = p
  BY DEF Pairs
<1>2. \A q : LET r == Line(n, "enable", q, status, tx)
             IN  r.run = n /\ r.op = "enable" /\ r.auction = q[1] /\ r.token = q[2]
  BY DEF Line
<1>3. PICK L : L = {Line(n, "enable", q, status, tx) : q \in B}
  OBVIOUS
<1>4. \A r \in About(L, n, p) : p \in B /\ r = Line(n, "enable", p, status, tx)
  BY <1>1, <1>2, <1>3 DEF About
<1>5. p \in B => Line(n, "enable", p, status, tx) \in About(L, n, p)
  BY <1>2, <1>3 DEF About
<1>6. About(S \union L, n, p) = About(S, n, p) \union About(L, n, p)
  BY DEF About
<1> QED BY <1>3, <1>4, <1>5, <1>6

\* What is in the batch of a scan, and what it does not have rows for yet.
LEMMA SendingFacts ==
    ASSUME ScanInv, scan.at \in Sending
    PROVE  /\ scan \in ScanType /\ scan.op \in {"resolve", "enable"}
           /\ scan.todo \in Seq(Pairs) /\ ToSet(scan.todo) \subseteq Pairs
           /\ scan.batch \in Seq(Pairs) /\ scan.batch # <<>> /\ Head(scan.batch) \in Pairs
           /\ ToSet(scan.batch) \subseteq Pairs /\ scan.due \subseteq Pairs
           /\ Then \in {"next lot", "next token"}
           /\ Len(runs) \in Nat /\ Len(pool) \in Nat /\ DOMAIN pool = 1 .. Len(pool)
<1>1. scan \in ScanType /\ runs \in Seq(RunStatus) /\ pool \in Seq(TxType)
  BY DEF ScanInv, Types, RunStatus
<1>2. /\ scan.todo \in Seq(Pairs) /\ scan.batch \in Seq(Pairs) /\ scan.due \subseteq Pairs
      /\ scan.op \in {"none", "resolve", "enable"}
  BY <1>1 DEF ScanType
<1>3. scan.op # "none" /\ scan.batch # <<>>
  BY DEF ScanInv, BatchTrue
<1>4. ToSet(scan.todo) \subseteq Pairs /\ ToSet(scan.batch) \subseteq Pairs
  BY <1>2, ToSetType
<1>5. Head(scan.batch) \in Pairs
  BY <1>2, <1>3
<1> QED BY <1>1, <1>2, <1>3, <1>4, <1>5 DEF Then

\* Once a batch is done with, the next lot or token is looked at.
LEMMA BatchDone ==
    ASSUME ScanInv, scan.at \in Sending, NEW tx \in Nat, UNCHANGED mapping,
           scan' = [scan EXCEPT !.at = Then, !.batch = <<>>, !.tx = tx]
    PROVE  /\ scan' \in ScanType /\ MappingTrue' /\ BatchTrue'
           /\ scan'.at = Then /\ scan'.batch = <<>> /\ scan'.todo = scan.todo /\ scan'.due = scan.due
           /\ scan'.op = scan.op
<1>1. /\ scan \in ScanType /\ Then \in {"next lot", "next token"} /\ scan.op \in {"resolve", "enable"}
      /\ <<>> \in Seq(Pairs)
  <2>1. <<>> \in Seq(Pairs)
    OBVIOUS
  <2> QED BY <2>1, SendingFacts
<1>2. /\ scan' \in ScanType /\ scan'.at = Then /\ scan'.batch = <<>> /\ scan'.todo = scan.todo
      /\ scan'.due = scan.due /\ scan'.op = scan.op /\ scan'.fresh = scan.fresh
      /\ scan'.factory = scan.factory
  <2>1. PICK stage : stage = Then /\ stage \in Stages
    BY <1>1 DEF Stages
  <2>2. scan' = [scan EXCEPT !.at = stage, !.batch = <<>>, !.tx = tx]
    BY <2>1
  <2>3. [scan EXCEPT !.at = stage, !.batch = <<>>, !.tx = tx] \in ScanType
    BY ONLY <1>1, <2>1, tx \in Nat DEF ScanType
  <2>4. /\ scan'.at = stage /\ scan'.batch = <<>> /\ scan'.todo = scan.todo
        /\ scan'.due = scan.due /\ scan'.op = scan.op /\ scan'.fresh = scan.fresh
        /\ scan'.factory = scan.factory
    BY ONLY <1>1, <2>2 DEF ScanType
  <2> HIDE DEF ScanType
  <2> QED BY ONLY <2>1, <2>2, <2>3, <2>4
<1>3. MappingTrue'
  <2>1. scan'.at \in {"next lot", "next token"} /\ Mapped' = Mapped
    BY <1>1, <1>2 DEF Mapped
  <2> QED BY <1>2, <2>1 DEF ScanInv, MappingTrue, At
<1>4. scan.op = "enable" <=> scan'.at = "next token"
  <2>1. scan'.at = IF scan.op = "resolve" THEN "next lot" ELSE "next token"
    BY <1>2 DEF Then
  <2> QED BY ONLY <1>1, <2>1
<1>5. scan.op = "enable" => \A p \in ToSet(scan.todo) : p[1] \in scan.factory
  BY DEF ScanInv, BatchTrue, Enabling
<1>6. BatchTrue'
  BY <1>1, <1>2, <1>4, <1>5, ToSetShort DEF BatchTrue, At, Sending, Enabling
<1> QED BY <1>2, <1>3, <1>6

LEMMA DoneAccounted ==
    ASSUME ScanInv, scan.at \in Sending, UNCHANGED runs,
           scan'.at = Then, scan'.batch = <<>>, scan'.todo = scan.todo, scan'.due = scan.due,
           scan'.op = scan.op,
           scan.op = "resolve" => \A r \in rows' : r.run = Run => r.op # "enable",
           scan.op = "enable" =>
               /\ \A p \in ToSet(scan.todo) : About(rows', Run, p) = {}
               /\ \A p \in scan.due \ ToSet(scan.todo) : \E r \in rows' : About(rows', Run, p) = {r}
    PROVE  Accounted'
<1>1. scan.op \in {"resolve", "enable"}
  BY SendingFacts
<1>2. CASE scan.op = "resolve"
  <2>1. scan'.at = "next lot"
    BY <1>2 DEF Then
  <2> QED BY <1>2, <2>1 DEF Accounted, At, Sending, Enabling, Early, Run
<1>3. CASE scan.op = "enable"
  <2>1. scan'.at = "next token"
    BY <1>3 DEF Then
  <2>2. InHand' = ToSet(scan.todo) /\ Early' = FALSE
    BY <2>1, ToSetShort DEF InHand, Unrecorded, Early, At, Sending
  <2>3. Distinct(scan.todo)
    BY <1>3 DEF ScanInv, Accounted, Enabling
  <2>4. \A p : RowsFor(p)' = About(rows', Run, p)
    BY DEF RowsFor, Run
  <2> QED BY <1>3, <2>1, <2>2, <2>3, <2>4, ToSetShort, NothingTwice DEF Accounted, At
<1> QED BY <1>1, <1>2, <1>3

\* Types, when transactions, rows of transactions and the cache change.
LEMMA TypesOfSend ==
    ASSUME Types, UNCHANGED <<chainVars, mapping, guard, runs>>, scan' \in ScanType,
           pool' \in Seq(TxType), cache' \in [Auctions -> SUBSET Tokens],
           \A r \in rows' : /\ r \in RowType /\ r.run <= Len(runs) /\ r.tx \in {0} \union DOMAIN pool'
                            /\ r.tx = 0 <=> r.status \in {"ERROR", "ESTIMATE_FAILED"}
    PROVE  Types'
<1>1. \A r \in rows' : r.status \in Statuses
  BY DEF RowType
<1>2. TypeOK'
  BY <1>1 DEF Types, TypeOK, chainVars, Statuses
<1> QED BY <1>2 DEF Types

\* The rows of a batch, with or without a hash.
LEMMA BatchRows ==
    ASSUME ScanInv, scan.at \in Sending, NEW status \in Statuses, NEW n \in Nat
    PROVE  /\ RowsOf(status, n) = {Line(Run, scan.op, p, status, n) : p \in ToSet(scan.batch)}
           /\ \A r \in RowsOf(status, n) :
                /\ r \in RowType /\ r.run = Len(runs) /\ r.run <= Len(runs)
                /\ r.op = scan.op /\ r.tx = n /\ r.status = status
<1>1. /\ scan.op \in {"resolve", "enable"} /\ ToSet(scan.batch) \subseteq Pairs /\ Len(runs) \in Nat
  BY SendingFacts
<1>2. RowsOf(status, n) = {Line(Run, scan.op, p, status, n) : p \in ToSet(scan.batch)}
  BY DEF RowsOf, Row, Line
<1>3. ASSUME NEW p \in Pairs
      PROVE  LET r == Line(Run, scan.op, p, status, n)
             IN  /\ r \in RowType /\ r.run = Len(runs) /\ r.run <= Len(runs)
                 /\ r.op = scan.op /\ r.tx = n /\ r.status = status
  <2>1. p[1] \in Auctions /\ p[2] \in Tokens
    BY DEF Pairs
  <2> QED BY <1>1, <2>1 DEF Line, RowType, Run
<1> QED BY <1>1, <1>2, <1>3

\* Once the rows of a batch to be enabled are written, every token the scan set out
\* to enable has its row, except for those still on the list.
LEMMA BatchRecorded ==
    ASSUME ScanInv, At("send"), scan.op = "enable",
           NEW status \in Statuses, NEW n \in Nat, rows' = rows \union RowsOf(status, n)
    PROVE  /\ \A p \in ToSet(scan.todo) : About(rows', Run, p) = {}
           /\ \A p \in scan.due \ ToSet(scan.todo) : \E r \in rows' : About(rows', Run, p) = {r}
<1>1. scan.at \in Sending /\ scan.at = "send"
  BY DEF Sending, At
<1>2. /\ ToSet(scan.batch) \subseteq Pairs /\ ToSet(scan.todo) \subseteq Pairs /\ scan.due \subseteq Pairs
  BY <1>1, SendingFacts
<1>3. PICK B, R : B = ToSet(scan.batch) /\ R = RowsOf(status, n)
  OBVIOUS
<1>4. R = {Line(Run, "enable", p, status, n) : p \in B}
  BY <1>1, <1>3, BatchRows
<1>5. rows' = rows \union R
  BY <1>3
<1>6. /\ ToSet(scan.todo) \intersect B = {}
      /\ \A p \in ToSet(scan.todo) \union B : About(rows, Run, p) = {}
      /\ \A p \in scan.due \ (ToSet(scan.todo) \union B) : \E r \in rows : About(rows, Run, p) = {r}
  BY <1>1, <1>3 DEF ScanInv, Accounted, Enabling, InHand, Unrecorded, RowsFor, At
<1>7. \A p \in Pairs : About(rows', Run, p) = About(rows, Run, p) \union
                       (IF p \in B THEN {Line(Run, "enable", p, status, n)} ELSE {})
  <2>1. rows' = rows \union {Line(Run, "enable", p, status, n) : p \in B} /\ B \in SUBSET Pairs
    BY <1>2, <1>3, <1>4, <1>5
  <2> QED BY <2>1, AboutLines
<1>8. \A p \in ToSet(scan.todo) : About(rows', Run, p) = {}
  BY <1>2, <1>6, <1>7
<1>9. ASSUME NEW p \in scan.due \ ToSet(scan.todo)
      PROVE  \E r \in rows' : About(rows', Run, p) = {r}
  <2>1. CASE p \in B
    <3>1. About(rows', Run, p) = {Line(Run, "enable", p, status, n)}
      BY <1>2, <1>6, <1>7, <2>1
    <3>2. Line(Run, "enable", p, status, n) \in rows'
      BY <1>4, <1>5, <2>1
    <3> QED BY <3>1, <3>2
  <2>2. CASE p \notin B
    <3>1. About(rows', Run, p) = About(rows, Run, p)
      BY <1>2, <1>7, <2>2
    <3> QED BY <1>5, <1>6, <2>2, <3>1
  <2> QED BY <2>1, <2>2
<1> QED BY <1>8, <1>9

LEMMA ReceiptTimeoutKeepsInv ==
    ASSUME ScanInv, ReceiptTimeout
    PROVE  ScanInv'
<1>1. /\ scan.at = "wait" /\ UNCHANGED <<chainVars, dbVars, pool, rows, runs, lost>>
      /\ scan' = [scan EXCEPT !.at = Then, !.batch = <<>>, !.tx = 0]
  BY DEF ReceiptTimeout, At
<1>2. UNCHANGED <<mapping, enabled, withdrawn, cache, pool, rows, runs, lost>>
      /\ scan.at \in Sending /\ 0 \in Nat
  BY <1>1 DEF chainVars, dbVars, Sending
<1>3. /\ scan' \in ScanType /\ MappingTrue' /\ BatchTrue'
      /\ scan'.at = Then /\ scan'.batch = <<>> /\ scan'.todo = scan.todo /\ scan'.due = scan.due
      /\ scan'.op = scan.op
  BY <1>1, <1>2, BatchDone
<1>4. Types'
  BY <1>1, <1>3, TypesOfScan DEF ScanInv
<1>5. CacheIsSound'
  BY <1>2, SameCache DEF ScanInv
<1>6. RowsTellTheTransactions'
  BY <1>1, <1>2, RowsWithoutHash DEF At
<1>7. Accounted'
  <2>1. scan.op = "resolve" => \A r \in rows' : r.run = Run => r.op # "enable"
    BY <1>2 DEF ScanInv, Accounted, Early
  <2>2. scan.op = "enable" =>
          /\ \A p \in ToSet(scan.todo) : About(rows', Run, p) = {}
          /\ \A p \in scan.due \ ToSet(scan.todo) : \E r \in rows' : About(rows', Run, p) = {r}
    BY <1>1, <1>2 DEF ScanInv, Accounted, Enabling, InHand, Unrecorded, RowsFor, At
  <2> QED BY <1>2, <1>3, <2>1, <2>2, DoneAccounted
<1> QED BY <1>3, <1>4, <1>5, <1>6, <1>7 DEF ScanInv

\* A receipt turns the rows of its transaction, and confirmed tokens are enabled.
LEMMA ObserveKeepsInv ==
    ASSUME ScanInv, ObserveReceipt
    PROVE  ScanInv'
<1>1. /\ scan.at = "wait" /\ UNCHANGED <<chainVars, mapping, guard, pool, runs, lost>>
      /\ scan' = [scan EXCEPT !.at = Then, !.batch = <<>>, !.tx = 0]
  BY DEF ObserveReceipt, At
<1>2. scan.at \in Sending /\ 0 \in Nat
      /\ UNCHANGED <<mapping, enabled, withdrawn, pool, runs, lost>>
  BY <1>1 DEF chainVars, Sending
<1>3. /\ scan' \in ScanType /\ MappingTrue' /\ BatchTrue'
      /\ scan'.at = Then /\ scan'.batch = <<>> /\ scan'.todo = scan.todo /\ scan'.due = scan.due
      /\ scan'.op = scan.op
  BY <1>1, <1>2, BatchDone
<1>4. PICK n \in DOMAIN pool : scan.tx = n
  BY <1>1 DEF ScanInv, BatchTrue
<1>5. PICK status \in {"CONFIRMED", "REVERTED"} :
        /\ rows' = {IF r.tx = n THEN [r EXCEPT !.status = status] ELSE r : r \in rows}
        /\ status = "CONFIRMED" => pool[n].state = "ok"
        /\ status = "REVERTED"  => pool[n].state = "reverted" /\ UNCHANGED cache
  BY <1>4 DEF ObserveReceipt, Settled
<1>6. \A r \in rows : /\ r \in RowType /\ r.run <= Len(runs) /\ r.tx \in {0} \union DOMAIN pool
                      /\ r.tx = 0 <=> r.status \in {"ERROR", "ESTIMATE_FAILED"}
  BY DEF ScanInv, Types, TypeOK
<1>7. n # 0 /\ pool \in Seq(TxType) /\ pool[n] \in TxType
  BY DEF ScanInv, Types
<1> DEFINE New(r) == IF r.tx = n THEN [r EXCEPT !.status = status] ELSE r
<1>8. \A r \in rows : /\ New(r) \in RowType /\ New(r).run = r.run /\ New(r).op = r.op
                      /\ New(r).auction = r.auction /\ New(r).token = r.token /\ New(r).tx = r.tx
                      /\ New(r).status = IF r.tx = n THEN status ELSE r.status
  BY <1>6 DEF RowType, Statuses
<1>9. rows' = {New(r) : r \in rows}
  BY <1>5
<1> HIDE DEF New
<1>10. /\ cache' \in [Auctions -> SUBSET Tokens]
       /\ \A a \in Auctions : \A t \in cache'[a] \ enabled[a] : <<a, t>> \in withdrawn
  <2>1. /\ cache \in [Auctions -> SUBSET Tokens]
        /\ \A a \in Auctions : \A t \in cache[a] \ enabled[a] : <<a, t>> \in withdrawn
    BY DEF ScanInv, Types, TypeOK, CacheIsSound
  <2>2. CASE UNCHANGED cache
    BY <2>1, <2>2
  <2>3. CASE /\ pool[n].state = "ok" /\ scan.op = "enable"
             /\ cache' = [cache EXCEPT ![Tx.auction] = @ \union Tx.tokens]
    <3>1. /\ pool[n].op = "enable" /\ pool[n].auction = Tx.auction /\ pool[n].tokens = Tx.tokens
          /\ InEffect(pool[n])
      BY <1>1, <1>4, <2>3 DEF ScanInv, BatchTrue, Tx
    <3>2. PICK a \in Auctions, ts \in SUBSET Tokens : a = Tx.auction /\ ts = Tx.tokens
      BY <1>7, <3>1 DEF TxType
    <3>3. \A t \in ts \ enabled[a] : <<a, t>> \in withdrawn
      BY <2>3, <3>1, <3>2 DEF InEffect
    <3>4. cache' = [cache EXCEPT ![a] = @ \union ts]
      BY <2>3, <3>2
    <3>5. ASSUME NEW b \in Auctions, NEW t \in cache'[b] \ enabled[b]
          PROVE  <<b, t>> \in withdrawn
      <4>1. t \in cache[b] \/ (b = a /\ t \in ts)
        BY <2>1, <3>4, <3>5
      <4> QED BY <2>1, <3>3, <3>5, <4>1
    <3> QED BY <2>1, <3>2, <3>4, <3>5
  <2> QED BY <1>4, <2>2, <2>3 DEF ObserveReceipt
<1>11. Types'
  <2>1. \A r \in rows' : /\ r \in RowType /\ r.run <= Len(runs) /\ r.tx \in {0} \union DOMAIN pool
                         /\ r.tx = 0 <=> r.status \in {"ERROR", "ESTIMATE_FAILED"}
    BY <1>6, <1>7, <1>8, <1>9
  <2>2. pool' \in Seq(TxType) /\ DOMAIN pool' = DOMAIN pool
    BY <1>2, <1>7
  <2> QED BY <1>1, <1>3, <1>10, <2>1, <2>2, TypesOfSend DEF ScanInv
<1>12. CacheIsSound'
  BY <1>2, <1>10 DEF ScanInv, CacheIsSound
<1>13. RowsTellTheTransactions'
  <2>1. ASSUME NEW m \in DOMAIN pool, NEW t \in pool[m].tokens, <<m, t>> \notin lost
        PROVE  \E r \in rows' : r.tx = m /\ r.token = t
    <3>1. PICK q \in rows : q.tx = m /\ q.token = t
      BY <1>1, <2>1 DEF ScanInv, RowsTellTheTransactions, At
    <3>2. New(q) \in rows' /\ New(q).tx = m /\ New(q).token = t
      BY <1>8, <1>9, <3>1
    <3> QED BY <3>2
  <2>2. ASSUME NEW r \in rows'
        PROVE  /\ r.tx # 0 => r.token \in pool[r.tx].tokens
               /\ r.status = "CONFIRMED" => pool[r.tx].state = "ok"
               /\ r.status = "REVERTED"  => pool[r.tx].state = "reverted"
    <3>1. PICK q \in rows : r = New(q)
      BY <1>9
    <3> QED BY <1>5, <1>8, <3>1 DEF ScanInv, RowsTellTheTransactions
  <2> QED BY <1>2, <2>1, <2>2 DEF RowsTellTheTransactions
<1>14. Accounted'
  <2>1. scan.op = "resolve" => \A r \in rows' : r.run = Run => r.op # "enable"
    <3>1. scan.op = "resolve" => \A r \in rows : r.run = Run => r.op # "enable"
      BY <1>2 DEF ScanInv, Accounted, Early
    <3> QED BY <1>8, <1>9, <3>1
  <2>2. \A p : About(rows', Run, p) = {New(r) : r \in About(rows, Run, p)}
    BY <1>8, <1>9 DEF About
  <2>3. scan.op = "enable" =>
          /\ \A p \in ToSet(scan.todo) : About(rows, Run, p) = {}
          /\ \A p \in scan.due \ ToSet(scan.todo) : \E r \in rows : About(rows, Run, p) = {r}
    BY <1>1, <1>2 DEF ScanInv, Accounted, Enabling, InHand, Unrecorded, RowsFor, At
  <2>4. scan.op = "enable" =>
          /\ \A p \in ToSet(scan.todo) : About(rows', Run, p) = {}
          /\ \A p \in scan.due \ ToSet(scan.todo) : \E r \in rows' : About(rows', Run, p) = {r}
    <3>1. ASSUME scan.op = "enable", NEW p \in scan.due \ ToSet(scan.todo)
          PROVE  \E r \in rows' : About(rows', Run, p) = {r}
      <4>1. PICK r \in rows : About(rows, Run, p) = {r}
        BY <2>3, <3>1
      <4>2. About(rows', Run, p) = {New(r)} /\ New(r) \in rows'
        BY <1>9, <2>2, <4>1
      <4> QED BY <4>2
    <3>2. scan.op = "enable" => \A p \in ToSet(scan.todo) : About(rows', Run, p) = {}
      BY <2>2, <2>3
    <3> QED BY <3>1, <3>2
  <2> QED BY <1>2, <1>3, <2>1, <2>4, DoneAccounted
<1> QED BY <1>3, <1>11, <1>12, <1>13, <1>14 DEF ScanInv

\* The transaction that was sent gets its rows, one after the other.
LEMMA InsertKeepsInv ==
    ASSUME ScanInv, InsertRow
    PROVE  ScanInv'
<1>1. /\ scan.at = "insert" /\ UNCHANGED <<chainVars, dbVars, pool, runs, lost>>
      /\ rows' = rows \union {Row(scan.op, Head(scan.left), "SUBMITTED", scan.tx)}
      /\ scan' = [scan EXCEPT !.at = IF Len(scan.left) = 1 THEN "wait" ELSE @, !.left = Tail(@)]
  BY DEF InsertRow, At
<1>2. scan.at \in Sending
      /\ UNCHANGED <<mapping, enabled, withdrawn, cache, pool, runs, lost>>
  BY <1>1 DEF chainVars, dbVars, Sending
<1>3. /\ scan \in ScanType /\ scan.op \in {"resolve", "enable"}
      /\ ToSet(scan.batch) \subseteq Pairs /\ ToSet(scan.todo) \subseteq Pairs /\ scan.due \subseteq Pairs
      /\ Len(pool) \in Nat /\ DOMAIN pool = 1 .. Len(pool) /\ Len(runs) \in Nat
  BY <1>2, SendingFacts
<1>4. PICK n \in DOMAIN pool : scan.tx = n
  BY <1>1 DEF ScanInv, BatchTrue
<1>5. n \in Nat /\ n # 0 /\ "SUBMITTED" \in Statuses
  BY <1>3, <1>4 DEF Statuses
<1>6. PICK left \in Seq(Pairs) : scan.left = left
  BY <1>3 DEF ScanType
<1>7. left # <<>> /\ ToSet(left) \subseteq ToSet(scan.batch)
  BY <1>1, <1>6 DEF ScanInv, BatchTrue, At
<1>8. PICK h, rest : h = Head(left) /\ rest = Tail(left)
  OBVIOUS
<1>9. /\ h \in Pairs /\ rest \in Seq(Pairs) /\ h \in ToSet(left)
      /\ ToSet(left) = {h} \union ToSet(rest)
      /\ Distinct(left) => Distinct(rest) /\ h \notin ToSet(rest)
      /\ Len(left) = 1 => rest = <<>>
      /\ Len(left) # 1 => rest # <<>>
  <2>1. Len(left) \in Nat /\ Len(rest) = Len(left) - 1 /\ rest \in Seq(Pairs)
    BY <1>7, <1>8
  <2>2. (Len(left) = 1 => rest = <<>>) /\ (Len(left) # 1 => rest # <<>>)
    BY <2>1
  <2> QED BY <1>7, <1>8, <2>2, HeadAndTail
<1>10. PICK new : new = Row(scan.op, h, "SUBMITTED", n)
  OBVIOUS
<1>11. /\ new = Line(Run, scan.op, h, "SUBMITTED", n)
       /\ new \in RowType /\ new.run = Len(runs) /\ new.run <= Len(runs) /\ new.op = scan.op
       /\ new.tx = n /\ new.status = "SUBMITTED" /\ new.token = h[2]
  <2>1. h[1] \in Auctions /\ h[2] \in Tokens
    BY <1>9 DEF Pairs
  <2> QED BY <1>3, <1>5, <1>10, <2>1 DEF Row, Line, RowType, Run
<1>12. rows' = rows \union {new}
  BY <1>1, <1>4, <1>6, <1>8, <1>10
<1>13. PICK stage \in {"insert", "wait"} :
         /\ stage = (IF Len(left) = 1 THEN "wait" ELSE "insert")
         /\ scan' = [scan EXCEPT !.at = stage, !.left = rest]
  BY <1>1, <1>6, <1>8
<1>14. /\ scan' \in ScanType /\ scan'.at = stage /\ scan'.left = rest
       /\ scan'.todo = scan.todo /\ scan'.due = scan.due
       /\ scan'.batch = scan.batch /\ scan'.op = scan.op /\ scan'.tx = scan.tx
       /\ scan'.fresh = scan.fresh /\ scan'.factory = scan.factory
  BY <1>3, <1>9, <1>13 DEF ScanType, Stages
<1>15. Types'
  <2>1. \A r \in rows' : /\ r \in RowType /\ r.run <= Len(runs) /\ r.tx \in {0} \union DOMAIN pool
                         /\ r.tx = 0 <=> r.status \in {"ERROR", "ESTIMATE_FAILED"}
    <3>1. \A r \in rows : /\ r \in RowType /\ r.run <= Len(runs) /\ r.tx \in {0} \union DOMAIN pool
                          /\ r.tx = 0 <=> r.status \in {"ERROR", "ESTIMATE_FAILED"}
      BY DEF ScanInv, Types, TypeOK
    <3> QED BY <1>5, <1>11, <1>12, <3>1
  <2>2. pool' \in Seq(TxType) /\ DOMAIN pool' = DOMAIN pool /\ cache' \in [Auctions -> SUBSET Tokens]
    BY <1>2 DEF ScanInv, Types, TypeOK
  <2> QED BY <1>1, <1>14, <2>1, <2>2, TypesOfSend DEF ScanInv, dbVars
<1>16. MappingTrue'
  BY <1>2, <1>14 DEF ScanInv, MappingTrue, At, Mapped
<1>17. BatchTrue'
  <2>1. Enabling' = Enabling
    BY <1>1, <1>14 DEF Enabling, At, Sending
  <2>2. InEffect(pool[scan.tx])'
    <3>1. InEffect(pool[scan.tx])
      BY <1>1 DEF ScanInv, BatchTrue
    <3> QED BY <1>2, <1>14, <3>1 DEF InEffect
  <2>3. scan'.at = "insert" => rest # <<>> /\ ToSet(rest) \subseteq ToSet(scan.batch)
    BY <1>7, <1>9, <1>13, <1>14
  <2> QED BY <1>1, <1>2, <1>14, <2>1, <2>2, <2>3 DEF ScanInv, BatchTrue, At, Sending
<1>18. CacheIsSound'
  BY <1>2, SameCache DEF ScanInv
<1>19. RowsTellTheTransactions'
  <2>1. pool[n].tokens = {p[2] : p \in ToSet(scan.batch)}
    BY <1>1, <1>4 DEF ScanInv, BatchTrue
  <2>2. new.token \in pool[n].tokens
    BY <1>7, <1>9, <1>11, <2>1
  <2>3. ASSUME NEW m \in DOMAIN pool, NEW t \in pool[m].tokens, <<m, t>> \notin lost,
               ~\E r \in rows' : r.tx = m /\ r.token = t
        PROVE  scan'.at = "insert" /\ scan'.tx = m /\ \E p \in ToSet(rest) : p[2] = t
    <3>1. ~\E r \in rows : r.tx = m /\ r.token = t
      BY <1>12, <2>3
    <3>2. m = n /\ \E p \in ToSet(left) : p[2] = t
      BY <1>4, <1>6, <2>3, <3>1 DEF ScanInv, RowsTellTheTransactions
    <3>3. PICK p \in ToSet(left) : p[2] = t
      BY <3>2
    <3>4. p # h
      BY <1>11, <1>12, <2>3, <3>2, <3>3
    <3>5. p \in ToSet(rest)
      BY <1>9, <3>3, <3>4
    <3>6. rest # <<>>
      BY <3>5, ToSetShort
    <3> QED BY <1>4, <1>9, <1>13, <1>14, <3>2, <3>3, <3>5, <3>6
  <2>4. \A r \in rows' : /\ r.tx # 0 => r.token \in pool[r.tx].tokens
                         /\ r.status = "CONFIRMED" => pool[r.tx].state = "ok"
                         /\ r.status = "REVERTED"  => pool[r.tx].state = "reverted"
    BY <1>11, <1>12, <2>2 DEF ScanInv, RowsTellTheTransactions
  <2> QED BY <1>2, <1>14, <2>3, <2>4 DEF RowsTellTheTransactions, At
<1>20. Accounted'
  <2>1. CASE scan.op = "resolve"
    <3>1. \A r \in rows : r.run = Run => r.op # "enable"
      BY <1>2, <2>1 DEF ScanInv, Accounted, Early
    <3>2. \A r \in rows' : r.run = Run' => r.op # "enable"
      BY <1>2, <1>11, <1>12, <2>1, <3>1 DEF Run
    <3> QED BY <1>13, <1>14, <2>1, <3>2 DEF Accounted, At, Sending, Enabling
  <2>2. CASE scan.op = "enable"
    <3>1. /\ Distinct(scan.todo) /\ Distinct(scan.batch) /\ Distinct(left)
          /\ ToSet(scan.todo) \intersect ToSet(scan.batch) = {}
          /\ \A p \in ToSet(scan.todo) \union ToSet(left) : About(rows, Run, p) = {}
          /\ \A p \in scan.due \ (ToSet(scan.todo) \union ToSet(left)) :
                \E r \in rows : About(rows, Run, p) = {r}
      BY <1>1, <1>2, <1>6, <2>2 DEF ScanInv, Accounted, Enabling, InHand, Unrecorded, RowsFor, At
    <3>2. PICK D, L, H : D = ToSet(scan.todo) /\ L = ToSet(rest) /\ H = ToSet(left)
      OBVIOUS
    <3>3. /\ H = {h} \union L /\ h \notin L /\ h \notin D /\ Distinct(rest)
          /\ D \subseteq Pairs /\ L \subseteq Pairs
      BY <1>3, <1>7, <1>9, <3>1, <3>2
    <3>4. InHand' = D \union L /\ Early' = FALSE
      BY <1>9, <1>13, <1>14, <2>2, <3>2, ToSetShort DEF InHand, Unrecorded, Early, At, Sending
    <3>5. \A p \in Pairs : About(rows', Run, p) =
                           About(rows, Run, p) \union (IF p = h THEN {new} ELSE {})
      <4>1. PICK B \in SUBSET Pairs : B = {h}
        BY <1>9
      <4>2. rows' = rows \union {Line(Run, "enable", q, "SUBMITTED", n) : q \in B}
        BY <1>11, <1>12, <2>2, <4>1
      <4>3. \A p \in Pairs :
              About(rows \union {Line(Run, "enable", q, "SUBMITTED", n) : q \in B}, Run, p) =
                  About(rows, Run, p) \union
                      (IF p \in B THEN {Line(Run, "enable", p, "SUBMITTED", n)} ELSE {})
        BY AboutLines
      <4> QED BY <1>11, <2>2, <4>1, <4>2, <4>3
    <3>6. \A p \in D \union L : About(rows', Run, p) = {}
      BY <3>1, <3>2, <3>3, <3>5
    <3>7. ASSUME NEW p \in scan.due \ (D \union L)
          PROVE  \E r \in rows' : About(rows', Run, p) = {r}
      <4>1. p \in Pairs
        BY <1>3
      <4>2. CASE p = h
        <5>1. About(rows', Run, h) = {new}
          BY <1>9, <3>1, <3>2, <3>3, <3>5
        <5> QED BY <1>12, <4>2, <5>1
      <4>3. CASE p # h
        <5>1. About(rows', Run, p) = About(rows, Run, p)
          BY <3>5, <4>1, <4>3
        <5>2. PICK r \in rows : About(rows, Run, p) = {r}
          BY <3>1, <3>2, <3>3, <4>3
        <5> QED BY <1>12, <5>1, <5>2
      <4> QED BY <4>2, <4>3
    <3>8. \A p : RowsFor(p)' = About(rows', Run, p)
      BY <1>2 DEF RowsFor, Run
    <3> QED BY <1>13, <1>14, <3>1, <3>3, <3>4, <3>6, <3>7, <3>8 DEF Accounted, At
  <2> QED BY <1>3, <2>1, <2>2
<1> QED BY <1>15, <1>16, <1>17, <1>18, <1>19, <1>20 DEF ScanInv

\* A transaction is appended to the pool.
LEMMA PoolGrows ==
    ASSUME NEW tx \in TxType, pool \in Seq(TxType), pool' = Append(pool, tx)
    PROVE  /\ pool' \in Seq(TxType) /\ Len(pool) + 1 \in Nat \ {0}
           /\ DOMAIN pool' = DOMAIN pool \union {Len(pool) + 1} /\ Len(pool) + 1 \notin DOMAIN pool
           /\ \A n \in DOMAIN pool : pool'[n] = pool[n]
           /\ pool'[Len(pool) + 1] = tx
<1>1. /\ pool' \in Seq(TxType) /\ Len(pool) \in Nat /\ DOMAIN pool = 1 .. Len(pool)
      /\ DOMAIN pool' = 1 .. Len(pool) + 1
      /\ \A n \in 1 .. Len(pool) : pool'[n] = pool[n]
      /\ pool'[Len(pool) + 1] = tx
  OBVIOUS
<1>2. 1 .. Len(pool) + 1 = (1 .. Len(pool)) \union {Len(pool) + 1}
  BY <1>1
<1> QED BY <1>1, <1>2

LEMMA SendFacts ==
    ASSUME ScanInv, Send
    PROVE  /\ Tx \in TxType /\ Tx.state = "pending" /\ Tx.op = scan.op
           /\ Tx.auction = Head(scan.batch)[1] /\ Tx.tokens = {p[2] : p \in ToSet(scan.batch)}
           /\ scan.op = "enable" => Tx.auction \in scan.factory
<1>1. scan.at = "send" /\ scan.at \in Sending
  BY DEF Send, At, Sending
<1>2. /\ scan.op \in {"resolve", "enable"} /\ scan.batch \in Seq(Pairs) /\ scan.batch # <<>>
      /\ ToSet(scan.batch) \subseteq Pairs /\ Head(scan.batch) \in Pairs
  BY <1>1, SendingFacts
<1>3. PICK h, B : h = Head(scan.batch) /\ B = ToSet(scan.batch)
  OBVIOUS
<1>4. h[1] \in Auctions /\ {p[2] : p \in B} \subseteq Tokens /\ h \in B
  <2>1. h \in B
    BY <1>2, <1>3, HeadAndTail
  <2> QED BY <1>2, <1>3, <2>1 DEF Pairs
<1>5. Tx \in TxType
  BY <1>2, <1>3, <1>4 DEF Tx, TxType, Forced
<1>6. scan.op = "enable" => h[1] \in scan.factory
  BY <1>1, <1>3, <1>4 DEF ScanInv, BatchTrue, Enabling
<1> QED BY <1>3, <1>5, <1>6 DEF Tx

LEMMA SendKeepsInv ==
    ASSUME ScanInv, Send
    PROVE  ScanInv'
<1>1. /\ scan.at = "send" /\ scan.at \in Sending
      /\ UNCHANGED <<mapping, enabled, withdrawn, cache, runs>>
      /\ UNCHANGED <<chainVars, mapping, guard, runs>>
  BY DEF Send, At, Sending, chainVars, dbVars
<1>2. /\ scan \in ScanType /\ scan.op \in {"resolve", "enable"} /\ Len(runs) \in Nat
      /\ Len(pool) \in Nat /\ DOMAIN pool = 1 .. Len(pool)
  BY <1>1, SendingFacts
<1>3. PICK tx \in TxType :
        /\ tx = Tx /\ tx.state = "pending" /\ tx.op = scan.op
        /\ tx.auction = Head(scan.batch)[1] /\ tx.tokens = {p[2] : p \in ToSet(scan.batch)}
  BY SendFacts
<1>4. pool \in Seq(TxType) /\ cache' \in [Auctions -> SUBSET Tokens]
  BY <1>1 DEF ScanInv, Types, TypeOK
<1>5. \A r \in rows : /\ r \in RowType /\ r.run <= Len(runs) /\ r.tx \in {0} \union DOMAIN pool
                      /\ r.tx = 0 <=> r.status \in {"ERROR", "ESTIMATE_FAILED"}
  BY DEF ScanInv, Types, TypeOK
<1>6. ASSUME pool' = Append(pool, tx)
      PROVE  /\ pool' \in Seq(TxType) /\ Len(pool) + 1 \in Nat \ {0}
             /\ DOMAIN pool' = DOMAIN pool \union {Len(pool) + 1} /\ Len(pool) + 1 \notin DOMAIN pool
             /\ \A n \in DOMAIN pool : pool'[n] = pool[n]
             /\ pool'[Len(pool) + 1] = tx
  BY <1>4, <1>6, PoolGrows
<1>7. CASE /\ pool' = Append(pool, Tx) /\ UNCHANGED <<rows, lost>>
           /\ scan' = [scan EXCEPT !.at = "insert", !.tx = Len(pool) + 1, !.left = scan.batch]
  <2>1. PICK n \in Nat \ {0} : n = Len(pool) + 1
    BY <1>2
  <2>2. /\ pool' \in Seq(TxType) /\ DOMAIN pool' = DOMAIN pool \union {n} /\ n \notin DOMAIN pool
        /\ \A m \in DOMAIN pool : pool'[m] = pool[m]
        /\ pool'[n] = tx
    BY <1>3, <1>6, <1>7, <2>1
  <2>3. /\ scan' \in ScanType /\ scan'.at = "insert" /\ scan'.todo = scan.todo /\ scan'.due = scan.due
        /\ scan'.batch = scan.batch /\ scan'.op = scan.op /\ scan'.tx = n
        /\ scan'.fresh = scan.fresh /\ scan'.factory = scan.factory /\ scan'.left = scan.batch
    BY <1>2, <1>7, <2>1 DEF ScanType, Stages
  <2>4. Types'
    <3>1. \A r \in rows' : /\ r \in RowType /\ r.run <= Len(runs) /\ r.tx \in {0} \union DOMAIN pool'
                           /\ r.tx = 0 <=> r.status \in {"ERROR", "ESTIMATE_FAILED"}
      BY <1>5, <1>7, <2>2
    <3> QED BY <1>1, <1>4, <2>2, <2>3, <3>1, TypesOfSend DEF ScanInv
  <2>5. MappingTrue'
    BY <1>1, <2>3 DEF ScanInv, MappingTrue, At, Mapped
  <2>6. BatchTrue'
    <3>1. Enabling' = Enabling
      BY <1>1, <2>3 DEF Enabling, At, Sending
    <3>2. InEffect(tx)'
      BY <1>3 DEF InEffect
    <3> QED BY <1>1, <1>3, <2>2, <2>3, <3>1, <3>2 DEF ScanInv, BatchTrue, At, Sending
  <2>7. CacheIsSound'
    BY <1>1, SameCache DEF ScanInv
  <2>8. RowsTellTheTransactions'
    <3>1. \A r \in rows : /\ r.tx # 0 => r.tx \in DOMAIN pool
                          /\ r.status \in {"CONFIRMED", "REVERTED"} => r.tx # 0
      BY <1>5
    <3>2. \A r \in rows' : /\ r.tx # 0 => r.token \in pool'[r.tx].tokens
                           /\ r.status = "CONFIRMED" => pool'[r.tx].state = "ok"
                           /\ r.status = "REVERTED"  => pool'[r.tx].state = "reverted"
      BY <1>7, <2>2, <3>1 DEF ScanInv, RowsTellTheTransactions
    <3>3. ASSUME NEW m \in DOMAIN pool, NEW t \in pool'[m].tokens
          PROVE  <<m, t>> \in lost' \/ \E r \in rows' : r.tx = m /\ r.token = t
      BY <1>1, <1>7, <2>2 DEF ScanInv, RowsTellTheTransactions, At
    <3>4. \A t \in pool'[n].tokens : \E p \in ToSet(scan'.left) : p[2] = t
      BY <1>3, <2>2, <2>3
    <3> QED BY <2>2, <2>3, <3>2, <3>3, <3>4 DEF RowsTellTheTransactions, At
  <2>9. Accounted'
    <3>1. InHand' = InHand /\ Early' = Early /\ Enabling' = Enabling /\ rows' = rows
      BY <1>1, <1>7, <2>3 DEF InHand, Unrecorded, Early, Enabling, At, Sending
    <3>2. (\A p : RowsFor(p)' = RowsFor(p)) /\ Run' = Run
      BY <1>1, <3>1 DEF RowsFor, Run
    <3> QED BY <2>3, <3>1, <3>2 DEF ScanInv, Accounted, At
  <2> QED BY <2>4, <2>5, <2>6, <2>7, <2>8, <2>9 DEF ScanInv
<1>8. CASE /\ \/ pool' = pool /\ lost' = lost
              \/ /\ pool' = Append(pool, Tx)
                 /\ lost' = lost \union {<<Len(pool) + 1, p[2]>> : p \in ToSet(scan.batch)}
           /\ rows' = rows \union RowsOf("ERROR", 0)
           /\ scan' = [scan EXCEPT !.at = Then, !.batch = <<>>]
  <2>1. scan' = [scan EXCEPT !.at = Then, !.batch = <<>>, !.tx = scan.tx] /\ scan.tx \in Nat
    BY <1>2, <1>8 DEF ScanType
  <2>2. /\ scan' \in ScanType /\ MappingTrue' /\ BatchTrue'
        /\ scan'.at = Then /\ scan'.batch = <<>> /\ scan'.todo = scan.todo /\ scan'.due = scan.due
        /\ scan'.op = scan.op
    BY <1>1, <2>1, BatchDone
  <2>3. /\ pool' \in Seq(TxType) /\ DOMAIN pool \subseteq DOMAIN pool'
        /\ \A n \in DOMAIN pool : pool'[n] = pool[n]
        /\ \A n \in DOMAIN pool' \ DOMAIN pool : pool'[n].state = "pending"
        /\ \A n \in DOMAIN pool' \ DOMAIN pool : \A t \in pool'[n].tokens : <<n, t>> \in lost'
        /\ lost \subseteq lost'
    <3>1. CASE pool' = pool /\ lost' = lost
      BY <1>4, <3>1
    <3>2. CASE /\ pool' = Append(pool, tx)
               /\ lost' = lost \union {<<Len(pool) + 1, p[2]>> : p \in ToSet(scan.batch)}
      BY <1>3, <1>6, <3>2
    <3> QED BY <1>3, <1>8, <3>1, <3>2
  <2>4. /\ "ERROR" \in Statuses /\ 0 \in Nat
        /\ \A r \in RowsOf("ERROR", 0) : /\ r \in RowType /\ r.run <= Len(runs)
                                         /\ r.op = scan.op /\ r.tx = 0 /\ r.status = "ERROR"
    <3>1. "ERROR" \in Statuses /\ 0 \in Nat
      BY DEF Statuses
    <3> QED BY <1>1, <3>1, BatchRows
  <2>5. PICK R : R = RowsOf("ERROR", 0)
    OBVIOUS
  <2>6. Types'
    <3>1. \A r \in rows' : /\ r \in RowType /\ r.run <= Len(runs) /\ r.tx \in {0} \union DOMAIN pool'
                           /\ r.tx = 0 <=> r.status \in {"ERROR", "ESTIMATE_FAILED"}
      BY <1>5, <1>8, <2>3, <2>4, <2>5
    <3> QED BY <1>1, <1>4, <2>2, <2>3, <3>1, TypesOfSend DEF ScanInv
  <2>7. CacheIsSound'
    BY <1>1, SameCache DEF ScanInv
  <2>8. RowsTellTheTransactions'
    <3>1. \A r \in rows' \ rows : r.tx = 0 /\ r.status \in {"ERROR", "ESTIMATE_FAILED"}
      BY <1>8, <2>4, <2>5
    <3> QED BY <1>1, <1>8, <2>3, <3>1, RowsWithoutHash DEF At
  <2>9. Accounted'
    <3>1. scan.op = "resolve" => \A r \in rows' : r.run = Run => r.op # "enable"
      <4>1. scan.op = "resolve" => \A r \in rows : r.run = Run => r.op # "enable"
        BY <1>1 DEF ScanInv, Accounted, Early
      <4> QED BY <1>8, <2>4, <2>5, <4>1
    <3>2. scan.op = "enable" =>
            /\ \A p \in ToSet(scan.todo) : About(rows', Run, p) = {}
            /\ \A p \in scan.due \ ToSet(scan.todo) : \E r \in rows' : About(rows', Run, p) = {r}
      BY <1>1, <1>8, <2>4, BatchRecorded DEF At
    <3> QED BY <1>1, <2>2, <3>1, <3>2, DoneAccounted
  <2> QED BY <2>2, <2>6, <2>7, <2>8, <2>9 DEF ScanInv
<1> QED BY <1>7, <1>8 DEF Send

----------------------------------------------------------------------------
(* The theorems.                                                           *)

LEMMA ScanInvStutters ==
    ASSUME ScanInv, UNCHANGED vars
    PROVE  ScanInv'
<1>1. UNCHANGED <<listed, owned, enabled, lot, killed, moves, withdrawn, mapping, guard, cache,
                  pool, rows, runs, scan, lost>>
  BY DEF vars, chainVars, dbVars
<1>2. Types'
  <2>1. scan' \in ScanType
    BY <1>1 DEF ScanInv, Types
  <2> QED BY <1>1, <2>1, TypesOfScan DEF ScanInv, chainVars, dbVars
<1>3. MappingTrue' /\ BatchTrue'
  BY <1>1, SameMapping, SameBatch DEF ScanInv
<1>4. CacheIsSound' /\ RowsTellTheTransactions'
  BY <1>1, SameCache, SameRows DEF ScanInv
<1>5. Accounted'
  BY <1>1, SameAccount DEF ScanInv
<1> QED BY <1>2, <1>3, <1>4, <1>5 DEF ScanInv

LEMMA ScanInvNext ==
    ASSUME ScanInv, [Next]_vars
    PROVE  ScanInv'
<1>1. ASSUME NEW n \in DOMAIN pool, Mine(n)  PROVE ScanInv'
  BY <1>1, MineKeepsInv
<1>2. CASE Begin \/ MapAuctions \/ CheckGuards \/ ReadEnabled \/ InspectLots \/ NextLot
  BY <1>2, BeginKeepsInv, MapKeepsInv, CheckKeepsInv, InspectKeepsInv, NextLotKeepsInv
<1>3. CASE Send \/ InsertRow \/ ObserveReceipt \/ ReceiptTimeout
  BY <1>3, SendKeepsInv, InsertKeepsInv, ObserveKeepsInv, ReceiptTimeoutKeepsInv
<1>4. CASE ReadBalances \/ SelectTokens \/ GrowBatch \/ FlushBatch \/ FailToken \/ AllEnabled
  BY <1>4, BalancesKeepInv, SelectKeepsInv, BatchKeepsInv, FailKeepsInv
<1>5. CASE Finish \/ Abort \/ Crash \/ Elsewhere
  BY <1>5, QuietKeepsInv, ElsewhereKeepsInv
<1> QED BY <1>1, <1>2, <1>3, <1>4, <1>5, ScanInvStutters DEF Next

\* The inductive invariant of scans holds in every state.
THEOREM ScanInvariant == Spec => []ScanInv
<1>1. Init => ScanInv
  BY ScanInvInit
<1>2. ScanInv /\ [Next]_vars => ScanInv'
  BY ScanInvNext
<1> QED BY <1>1, <1>2, PTL DEF Spec

\* Every variable of a scan keeps its type (ScannerService._run_scan and its services).
THEOREM ScanTypes == Spec => []TypeOK
<1>1. ScanInv => TypeOK
  BY DEF ScanInv, Types
<1> QED BY <1>1, ScanInvariant, PTL

\* Whatever the scanner does on the chain is in kick_txs, once and with its outcome;
\* and the batches of a scan account for every token it set out to enable, each
\* exactly once, however estimates and sends go (_enable_auction_batches).
THEOREM RowsTellTheTruth == Spec => []RowsAreTrue
<1>1. ScanInv => RowsAreTrue
  <2> SUFFICES ASSUME ScanInv, At("prices"), scan.enable, NEW p \in scan.due
               PROVE  Cardinality({r \in rows : r.run = Run /\ r.op = "enable"
                                      /\ r.auction = p[1] /\ r.token = p[2]}) = 1
    BY DEF ScanInv, RowsAreTrue, EveryTokenAccounted
  <2>1. PICK r \in rows : About(rows, Run, p) = {r}
    BY DEF ScanInv, Accounted, RowsFor
  <2>2. Cardinality({r}) = 1
    BY FS_Singleton
  <2> QED BY <2>1, <2>2 DEF About
<1> QED BY <1>1, ScanInvariant, PTL

\* What the cache wrongly shows as enabled, others have disabled since the scanner last
\* read the auction: neither a receipt, however old (mark_tokens_enabled), nor a read
\* that replaces what was cached leaves anything else behind.
THEOREM CacheStaysSound == Spec => []CacheIsSound
<1>1. ScanInv => CacheIsSound
  BY DEF ScanInv
<1> QED BY <1>1, ScanInvariant, PTL

\* However old its preview, no transaction of the scanner ends a round that still has
\* tokens for sale (settle_stale_auctions, forceLive = false).
THEOREM LiveLotsLeftAlone == Spec => LiveLotsAreLeftAlone
<1>1. ScanInv /\ [Next]_vars => [\A p \in Pairs : lot[p] = "live" => lot'[p] # "clean"]_vars
  <2> SUFFICES ASSUME ScanInv, Next, NEW p \in Pairs, lot[p] = "live"
               PROVE  lot'[p] # "clean"
    OBVIOUS
  <2>1. ASSUME NEW n \in DOMAIN pool, Mine(n)  PROVE lot'[p] # "clean"
    BY <2>1, MineKeepsInv
  <2>2. CASE Elsewhere
    BY <2>2, ElsewhereKeepsInv
  <2>3. CASE UNCHANGED lot
    BY <2>3
  <2>4. CASE Begin \/ MapAuctions \/ CheckGuards \/ ReadEnabled \/ InspectLots \/ NextLot
    BY <2>3, <2>4 DEF Begin, MapAuctions, CheckGuards, ReadEnabled, InspectLots, NextLot, chainVars
  <2>5. CASE Send \/ InsertRow \/ ObserveReceipt \/ ReceiptTimeout
    BY <2>3, <2>5 DEF Send, InsertRow, ObserveReceipt, ReceiptTimeout, chainVars
  <2>6. CASE ReadBalances \/ SelectTokens \/ GrowBatch \/ FlushBatch \/ FailToken \/ AllEnabled
    BY <2>3, <2>6 DEF ReadBalances, SelectTokens, Goto, GrowBatch, FlushBatch, FailToken, AllEnabled, chainVars
  <2>7. CASE Finish \/ Abort \/ Crash
    BY <2>3, <2>7 DEF Finish, Abort, Crash, chainVars
  <2> QED BY <2>1, <2>2, <2>4, <2>5, <2>6, <2>7 DEF Next
<1> QED BY <1>1, ScanInvariant, PTL DEF Spec, LiveLotsAreLeftAlone

\* Tokens are enabled only on auctions that this very scan found in a factory, never on
\* the strength of a cached mapping (factory_verified).
THEOREM EnablesListedOnly == Spec => EnablesOnlyListed
<1>1. ScanInv /\ [Next]_vars =>
        [\A n \in DOMAIN pool' \ DOMAIN pool :
            pool'[n].op = "enable" => pool'[n].auction \in scan.factory]_vars
  <2> SUFFICES ASSUME ScanInv, Next, NEW n \in DOMAIN pool' \ DOMAIN pool, pool'[n].op = "enable"
               PROVE  pool'[n].auction \in scan.factory
    OBVIOUS
  <2>1. ASSUME NEW m \in DOMAIN pool, Mine(m)  PROVE FALSE
    <3>1. DOMAIN pool' = DOMAIN pool
      BY <2>1 DEF Mine
    <3> QED BY <3>1
  <2>2. CASE Send
    <3>1. PICK tx \in TxType : tx = Tx /\ (tx.op = "enable" => tx.auction \in scan.factory)
      BY <2>2, SendFacts DEF TxType
    <3>2. pool' = Append(pool, tx)
      BY <2>2, <3>1 DEF Send
    <3>3. pool \in Seq(TxType)
      BY DEF ScanInv, Types
    <3>4. n = Len(pool) + 1 /\ pool'[n] = tx
      BY <3>2, <3>3, PoolGrows
    <3> QED BY <3>1, <3>4
  <2>3. CASE UNCHANGED pool
    BY <2>3
  <2>4. CASE Begin \/ MapAuctions \/ CheckGuards \/ ReadEnabled \/ InspectLots \/ NextLot
    BY <2>3, <2>4 DEF Begin, MapAuctions, CheckGuards, ReadEnabled, InspectLots, NextLot
  <2>5. CASE InsertRow \/ ObserveReceipt \/ ReceiptTimeout
    BY <2>3, <2>5 DEF InsertRow, ObserveReceipt, ReceiptTimeout
  <2>6. CASE ReadBalances \/ SelectTokens \/ GrowBatch \/ FlushBatch \/ FailToken \/ AllEnabled
    BY <2>3, <2>6 DEF ReadBalances, SelectTokens, GrowBatch, FlushBatch, FailToken, AllEnabled
  <2>7. CASE Finish \/ Abort \/ Crash \/ Elsewhere
    BY <2>3, <2>7 DEF Finish, Abort, Crash, Elsewhere
  <2> QED BY <2>1, <2>2, <2>4, <2>5, <2>6, <2>7 DEF Next
<1> QED BY <1>1, ScanInvariant, PTL DEF Spec, EnablesOnlyListed


----------------------------------------------------------------------------
(* The engine: its inductive invariant.                                    *)

SendOps    == {"kick", "resolve"}
Errors     == {"ERROR", "ESTIMATE_FAILED"}
Bads       == Errors \union {"REVERTED"}
Attempts   == Bads \union {"DRY_RUN", "SUBMITTED", "CONFIRMED"}
RowStates  == Attempts \union {"USER_SKIPPED"}
OnChain    == {"SUBMITTED", "CONFIRMED", "REVERTED"}
EnginePlaces == {"idle", "plan", "next", "fees", "confirm", "send", "insert", "wait"}
Before     == {"fees", "confirm", "send"}  \* the transaction in hand is not sent
Behind     == {"insert", "wait"}           \* it is sent
EngineTx   == [op : SendOps, group : Seq(Traded), state : {"pending", "ok", "reverted"}, after : SUBSET Nat]
EngineRow  == [run : Nat, op : SendOps, pair : Traded, status : RowStates, tx : Nat, closed : BOOLEAN]
Item       == [op : SendOps, group : Seq(Traded)]
EngineProc == [at : EnginePlaces, run : Nat, live : BOOLEAN, batch : BOOLEAN, todo : Seq(Item),
               op : SendOps \union {"none"}, group : Seq(Traded), left : Seq(Traded), tx : Nat,
               attempted : Nat, ok : Nat, bad : Nat]
RunRow     == [status : {"RUNNING", "DRY_RUN", "FAILED", "PARTIAL_SUCCESS", "SUCCESS"}, live : BOOLEAN,
               attempted : Nat, ok : Nat, bad : Nat]

\* The engine's instance and this module use the same operators on lists and sets.
LEMMA EngineLists == \A s : Engine!ToSet(s) = ToSet(s)
  BY DEF Engine!ToSet, ToSet

LEMMA EngineCounts == \A S : Engine!Cardinality(S) = Cardinality(S)
  BY DEF Engine!Cardinality, Cardinality

LEMMA EngineOrders == \A S : Engine!SetToSeq(S) = SetToSeq(S)
  BY EngineCounts DEF Engine!SetToSeq, SetToSeq, Engine!IsInjective, IsInjective

EngineTypes ==
    /\ lots \in [Traded -> {"clean", "live", "leftover"}] /\ open \in [Traded -> Nat]
    /\ sent \in Seq(EngineTx) /\ kickTxs \in SUBSET EngineRow /\ txnRuns \in Seq(RunRow)
    /\ proc \in [Procs -> EngineProc]

\* A kick of a pair has reverted or its round is over, unless its row was lost.
Over(a, m, T, O, L) ==
    (T[m].op = "kick" /\ a \in ToSet(T[m].group) /\ <<m, a>> \notin L)
        => T[m].state = "reverted" \/ (T[m].state = "ok" /\ O[a] # m)

\* What a row says of the transaction it names.
RowTrue(r, T, O, L) ==
    /\ r.tx # 0 => /\ r.tx \in DOMAIN T /\ r.op = T[r.tx].op /\ r.pair \in ToSet(T[r.tx].group)
                   /\ r.status \in OnChain /\ <<r.tx, r.pair>> \notin L
    /\ r.status \in OnChain => r.tx # 0
    /\ r.status = "CONFIRMED" => T[r.tx].state = "ok"
    /\ r.status = "REVERTED"  => T[r.tx].state = "reverted"
    /\ r.closed => r.op = "kick" /\ r.status = "CONFIRMED" /\ O[r.pair] # r.tx

RowsTrue ==
    /\ \A r \in kickTxs : RowTrue(r, sent, open, unrecorded)
    /\ \A r, s \in kickTxs : r.run = s.run /\ r.pair = s.pair => r = s

\* A mined resolution has ended the rounds of its pairs that were open before it.
Ends(n, T, O) == T[n].op = "resolve" /\ T[n].state = "ok" =>
    \A m \in T[n].after : /\ m \in DOMAIN T /\ T[m].state = "ok"
                         /\ \A a \in ToSet(T[n].group) : O[a] # m
PoolEnds == \A n \in DOMAIN sent : Ends(n, sent, open)

ItemTrue(i) == i.group # <<>> /\ Distinct(i.group) /\ (i.op = "resolve" => Len(i.group) = 1)
Covers(todo) == UNION {ToSet(todo[i].group) : i \in DOMAIN todo}
Kicked(todo) == UNION {ToSet(todo[i].group) : i \in {j \in DOMAIN todo : todo[j].op = "kick"}}
ListTrue(todo) ==
    /\ todo \in Seq(Item)
    /\ \A i \in DOMAIN todo : ItemTrue(todo[i])
    /\ \A i, j \in DOMAIN todo : i # j => ToSet(todo[i].group) \intersect ToSet(todo[j].group) = {}

\* The shape of what a process has in hand.
Shaped(r) ==
    /\ ListTrue(r.todo) /\ Covers(r.todo) \intersect ToSet(r.group) = {}
    /\ r.at = "idle" => ~r.live
    /\ r.at # "idle" => r.run # 0
    /\ r.at \in {"idle", "plan", "next"} => r.group = <<>>
    /\ r.at \in {"idle", "plan"} => r.todo = <<>>
    /\ r.at = "plan" => r.ok = 0 /\ r.bad = 0
    /\ r.at \in Before \union Behind =>
         /\ r.live /\ r.op \in SendOps /\ r.group # <<>> /\ Distinct(r.group)
         /\ r.op = "resolve" => Len(r.group) = 1
    /\ r.at # "insert" => r.left = <<>>
    /\ r.at = "insert" => r.left # <<>> /\ Distinct(r.left) /\ ToSet(r.left) \subseteq ToSet(r.group)

\* What it has in hand, against the chain and the rows.
Holds(r, T, R, O, L) ==
    /\ r.live => \A a \in Kicked(r.todo) : \A m \in DOMAIN T : Over(a, m, T, O, L)
    /\ r.at \in Before /\ r.op = "kick" => \A a \in ToSet(r.group) : \A m \in DOMAIN T : Over(a, m, T, O, L)
    /\ r.at \in Behind =>
         /\ r.tx \in DOMAIN T /\ T[r.tx].op = r.op /\ T[r.tx].group = r.group
         /\ \A x \in R : x.tx = r.tx => x.pair \notin ToSet(r.left)
         /\ \A a \in ToSet(r.group) \ ToSet(r.left) :
              \E x \in R : x.tx = r.tx /\ x.pair = a /\ x.run = r.run
    /\ r.at = "insert" => \A a \in ToSet(r.left) : <<r.tx, a>> \notin L

\* The pairs a run has rows for, by status; what it still has to write rows for.
Told(R, n, S) == {a \in Traded : \E x \in R : x.run = n /\ x.pair = a /\ x.status \in S}
Ahead(r) == Covers(r.todo) \union (IF r.at \in Before THEN ToSet(r.group) ELSE ToSet(r.left))

Counted(r, R) ==
    /\ r.at = "plan" => Told(R, r.run, RowStates) = {}
    /\ r.at \notin {"idle", "plan"} =>
         /\ Told(R, r.run, RowStates) \intersect Ahead(r) = {}
         /\ r.attempted = Cardinality(Told(R, r.run, Attempts) \union Ahead(r))
         /\ r.ok <= Cardinality(Told(R, r.run, {"CONFIRMED"}) \ ToSet(r.group))
         /\ Cardinality(Told(R, r.run, Errors)) <= r.bad
         /\ r.bad <= Cardinality(Told(R, r.run, Bads) \ ToSet(r.group))

LockTrue ==
    /\ \A p \in Procs : proc[p].live => lock = p
    /\ \A p \in Procs : proc[p].run <= Len(txnRuns)
    /\ \A p, q \in Procs : proc[p].run = proc[q].run /\ proc[p].run # 0 => p = q
    /\ \A r \in kickTxs : r.run <= Len(txnRuns)

ProcsTrue == \A p \in Procs : /\ Shaped(proc[p]) /\ Holds(proc[p], sent, kickTxs, open, unrecorded)
                              /\ Counted(proc[p], kickTxs)

Totalled(n, t, R) ==
    /\ t.attempted = Cardinality(Told(R, n, Attempts))
    /\ t.ok  <= Cardinality(Told(R, n, {"CONFIRMED"}))
    /\ Cardinality(Told(R, n, Errors)) <= t.bad /\ t.bad <= Cardinality(Told(R, n, Bads))
RunsTrue ==
    \A n \in DOMAIN txnRuns : txnRuns[n].status # "RUNNING" =>
        (\A p \in Procs : proc[p].run # n) /\ Totalled(n, txnRuns[n], kickTxs)

\* Losses are of transactions that were sent.
LossesKnown(T, L) == \A n, a : <<n, a>> \in L => n \in DOMAIN T

\* Every pair of a transaction has its row, or will get it, unless it was lost.
ToldOf(n, a, op, R, P, L) ==
    \/ <<n, a>> \in L
    \/ \E p \in Procs : P[p].tx = n /\ a \in ToSet(P[p].left)
    \/ \E r \in R : r.tx = n /\ r.pair = a /\ r.op = op
BatchesTold ==
    \A n \in DOMAIN sent : \A a \in ToSet(sent[n].group) : ToldOf(n, a, sent[n].op, kickTxs, proc, unrecorded)

EngineInv == EngineTypes /\ RowsTrue /\ PoolEnds /\ LockTrue /\ ProcsTrue /\ RunsTrue /\ BatchesTold
             /\ LossesKnown(sent, unrecorded)

----------------------------------------------------------------------------
(* Lists of items.                                                         *)

EngineAssumption == IsFiniteSet(Traded) /\ None \notin Procs

LEMMA SetsOfPairs ==
    ASSUME EngineAssumption, NEW S \in SUBSET Traded
    PROVE  /\ IsFiniteSet(S) /\ Cardinality(S) \in Nat
           /\ \A U \in SUBSET S : Cardinality(U) \in Nat /\ Cardinality(U) <= Cardinality(S)
<1>1. IsFiniteSet(S)
  BY FS_Subset DEF EngineAssumption
<1>2. \A U \in SUBSET S : IsFiniteSet(U) /\ Cardinality(U) <= Cardinality(S)
  BY <1>1, FS_Subset
<1> QED BY <1>1, <1>2, FS_CardinalityType

LEMMA DisjointSets ==
    ASSUME EngineAssumption, NEW S \in SUBSET Traded, NEW U \in SUBSET Traded, S \intersect U = {}
    PROVE  Cardinality(S \union U) = Cardinality(S) + Cardinality(U)
<1>1. IsFiniteSet(S) /\ IsFiniteSet(U)
  BY SetsOfPairs
<1>2. Cardinality(S \union U) = Cardinality(S) + Cardinality(U) - Cardinality(S \intersect U)
  BY <1>1, FS_Union
<1>3. Cardinality(S \intersect U) = 0
  BY FS_EmptySet
<1>4. Cardinality(S) \in Nat /\ Cardinality(U) \in Nat
  BY SetsOfPairs
<1> QED BY ONLY <1>2, <1>3, <1>4

LEMMA DistinctCount ==
    ASSUME NEW g \in Seq(Traded), Distinct(g)
    PROVE  Cardinality(ToSet(g)) = Len(g) /\ IsFiniteSet(ToSet(g)) /\ ToSet(g) \subseteq Traded
<1> DEFINE n == Len(g)
           f == [i \in 1 .. n |-> g[i]]
<1>1. n \in Nat /\ DOMAIN g = 1 .. n
  OBVIOUS
<1>2. \A i, j \in 1 .. n : g[i] = g[j] => i = j
  BY <1>1 DEF Distinct
<1>3. ToSet(g) = {g[i] : i \in 1 .. n}
  BY <1>1 DEF ToSet
<1>4. f \in Bijection(1 .. n, ToSet(g))
  BY <1>2, <1>3 DEF Bijection, Injection, Surjection, IsInjective
<1>5. ExistsBijection(1 .. n, ToSet(g))
  BY <1>4 DEF ExistsBijection
<1>6. IsFiniteSet(ToSet(g)) /\ Cardinality(ToSet(g)) = n
  <2>1. IsFiniteSet(1 .. n) /\ Cardinality(1 .. n) = n
    BY <1>1, FS_Interval
  <2>2. IsFiniteSet(ToSet(g))
    BY <1>1, <1>5, FS_NatBijection
  <2> QED BY <1>1, <1>5, <2>2, FS_CountingElements
<1> QED BY <1>6, ToSetType

LEMMA CoversPairs ==
    ASSUME NEW todo \in Seq(Item)
    PROVE  Covers(todo) \subseteq Traded
<1>1. ASSUME NEW i \in DOMAIN todo
      PROVE  ToSet(todo[i].group) \subseteq Traded
  <2>1. todo[i] \in Item
    BY <1>1
  <2>2. todo[i].group \in Seq(Traded)
    BY <2>1 DEF Item
  <2> QED BY <2>2, ToSetType
<1> QED BY <1>1 DEF Covers

LEMMA EmptyList == ListTrue(<<>>) /\ Covers(<<>>) = {} /\ Kicked(<<>>) = {}
<1>1. DOMAIN <<>> = {} /\ <<>> \in Seq(Item)
  OBVIOUS
<1> QED BY <1>1 DEF ListTrue, Covers, Kicked

\* What is to be kicked is part of what is to be sent.
LEMMA KickedPairs == \A todo : Kicked(todo) \subseteq Covers(todo)
  BY DEF Kicked, Covers

LEMMA RestOfList ==
    ASSUME NEW todo, ListTrue(todo), todo # <<>>
    PROVE  /\ Head(todo) \in Item /\ ItemTrue(Head(todo))
           /\ ListTrue(Tail(todo))
           /\ Covers(todo) = ToSet(Head(todo).group) \union Covers(Tail(todo))
           /\ ToSet(Head(todo).group) \intersect Covers(Tail(todo)) = {}
           /\ Kicked(Tail(todo)) \subseteq Kicked(todo)
           /\ Head(todo).op = "kick" => ToSet(Head(todo).group) \subseteq Kicked(todo)
<1>1. /\ todo \in Seq(Item) /\ Head(todo) = todo[1] /\ Tail(todo) \in Seq(Item)
      /\ Len(todo) \in Nat \ {0} /\ DOMAIN todo = 1 .. Len(todo)
      /\ DOMAIN Tail(todo) = 1 .. Len(todo) - 1
      /\ \A i \in 1 .. Len(todo) - 1 : Tail(todo)[i] = todo[i + 1]
  BY DEF ListTrue
<1>2. 1 \in DOMAIN todo /\ Head(todo) \in Item /\ ItemTrue(Head(todo))
  BY <1>1 DEF ListTrue
<1>3. ASSUME NEW i \in DOMAIN Tail(todo)
      PROVE  /\ i + 1 \in DOMAIN todo /\ i + 1 # 1 /\ Tail(todo)[i] = todo[i + 1]
             /\ ItemTrue(Tail(todo)[i])
             /\ ToSet(todo[1].group) \intersect ToSet(Tail(todo)[i].group) = {}
  <2>1. i + 1 \in DOMAIN todo /\ i + 1 # 1 /\ Tail(todo)[i] = todo[i + 1]
    BY <1>1, <1>3
  <2> QED BY <1>2, <2>1 DEF ListTrue
<1>4. ASSUME NEW i \in DOMAIN Tail(todo), NEW j \in DOMAIN Tail(todo), i # j
      PROVE  ToSet(Tail(todo)[i].group) \intersect ToSet(Tail(todo)[j].group) = {}
  <2>1. i + 1 # j + 1
    BY <1>1, <1>4
  <2> QED BY <1>3, <1>4, <2>1 DEF ListTrue
<1>5. ListTrue(Tail(todo))
  BY <1>1, <1>3, <1>4 DEF ListTrue
<1>6. Covers(todo) = ToSet(todo[1].group) \union Covers(Tail(todo))
  <2>1. ASSUME NEW k \in DOMAIN todo, k # 1
        PROVE  \E i \in DOMAIN Tail(todo) : Tail(todo)[i] = todo[k]
    <3>1. k - 1 \in DOMAIN Tail(todo) /\ (k - 1) + 1 = k
      BY <1>1, <2>1
    <3> QED BY <1>3, <3>1
  <2>2. ASSUME NEW x \in Covers(todo) PROVE x \in ToSet(todo[1].group) \union Covers(Tail(todo))
    BY <2>1, <2>2 DEF Covers
  <2>3. ASSUME NEW x \in ToSet(todo[1].group) \union Covers(Tail(todo)) PROVE x \in Covers(todo)
    BY <1>2, <1>3, <2>3 DEF Covers
  <2> QED BY <2>2, <2>3
<1>7. ToSet(todo[1].group) \intersect Covers(Tail(todo)) = {}
  BY <1>3 DEF Covers
<1>8. Kicked(Tail(todo)) \subseteq Kicked(todo)
  BY <1>3 DEF Kicked
<1>9. todo[1].op = "kick" => ToSet(todo[1].group) \subseteq Kicked(todo)
  BY <1>2 DEF Kicked
<1> QED BY <1>1, <1>2, <1>5, <1>6, <1>7, <1>8, <1>9

LEMMA JoinedLists ==
    ASSUME NEW s, NEW t, ListTrue(s), ListTrue(t), Covers(s) \intersect Covers(t) = {}
    PROVE  /\ ListTrue(s \o t) /\ Covers(s \o t) = Covers(s) \union Covers(t)
           /\ Kicked(s \o t) \subseteq Kicked(s) \union Kicked(t)
<1> DEFINE u == s \o t
<1>1. /\ s \in Seq(Item) /\ t \in Seq(Item) /\ u \in Seq(Item) /\ Len(s) \in Nat /\ Len(t) \in Nat
      /\ DOMAIN s = 1 .. Len(s) /\ DOMAIN t = 1 .. Len(t) /\ DOMAIN u = 1 .. Len(s) + Len(t)
      /\ \A n \in 1 .. Len(s) + Len(t) : u[n] = IF n <= Len(s) THEN s[n] ELSE t[n - Len(s)]
  BY DEF ListTrue
<1> HIDE DEF u
<1>2. ASSUME NEW n \in DOMAIN u
      PROVE  \/ n \in DOMAIN s /\ u[n] = s[n]
             \/ n \notin DOMAIN s /\ n - Len(s) \in DOMAIN t /\ u[n] = t[n - Len(s)]
  BY <1>1, <1>2
<1>3. ASSUME NEW n \in DOMAIN s PROVE n \in DOMAIN u /\ u[n] = s[n]
  BY <1>1, <1>3
<1>4. ASSUME NEW n \in DOMAIN t PROVE n + Len(s) \in DOMAIN u /\ u[n + Len(s)] = t[n]
  BY <1>1, <1>4
<1>5. \A n \in DOMAIN u : ItemTrue(u[n])
  BY <1>2 DEF ListTrue
<1>6. ASSUME NEW i \in DOMAIN u, NEW j \in DOMAIN u, i # j
      PROVE  ToSet(u[i].group) \intersect ToSet(u[j].group) = {}
  <2>1. CASE i \in DOMAIN s /\ j \in DOMAIN s
    BY <1>3, <1>6, <2>1 DEF ListTrue
  <2>2. CASE i \notin DOMAIN s /\ j \notin DOMAIN s
    <3>1. i - Len(s) \in DOMAIN t /\ j - Len(s) \in DOMAIN t /\ u[i] = t[i - Len(s)] /\ u[j] = t[j - Len(s)]
      BY <1>2, <1>6, <2>2
    <3>2. i - Len(s) # j - Len(s)
      BY <1>1, <1>6
    <3> QED BY <3>1, <3>2 DEF ListTrue
  <2>3. ASSUME NEW k \in DOMAIN u, NEW l \in DOMAIN u, k \in DOMAIN s, l \notin DOMAIN s
        PROVE  ToSet(u[k].group) \intersect ToSet(u[l].group) = {}
    <3>1. ToSet(u[k].group) \subseteq Covers(s)
      BY <1>3, <2>3 DEF Covers
    <3>2. ToSet(u[l].group) \subseteq Covers(t)
      BY <1>2, <2>3 DEF Covers
    <3> QED BY <3>1, <3>2
  <2>4. CASE i \in DOMAIN s /\ j \notin DOMAIN s
    BY <1>6, <2>3, <2>4
  <2>5. CASE i \notin DOMAIN s /\ j \in DOMAIN s
    BY <1>6, <2>3, <2>5
  <2> QED BY <2>1, <2>2, <2>4, <2>5
<1>7. Covers(u) = Covers(s) \union Covers(t)
  <2>1. ASSUME NEW x \in Covers(u) PROVE x \in Covers(s) \union Covers(t)
    BY <1>2, <2>1 DEF Covers
  <2>2. ASSUME NEW x \in Covers(s) \union Covers(t) PROVE x \in Covers(u)
    BY <1>3, <1>4, <2>2 DEF Covers
  <2> QED BY <2>1, <2>2
<1>8. Kicked(u) \subseteq Kicked(s) \union Kicked(t)
  BY <1>2 DEF Kicked
<1> QED BY <1>1, <1>5, <1>6, <1>7, <1>8 DEF ListTrue, u

LEMMA SinglesAre ==
    ASSUME NEW op \in SendOps, NEW S \in SUBSET Traded, IsFiniteSet(S)
    PROVE  /\ ListTrue(Engine!Singles(op, S)) /\ Covers(Engine!Singles(op, S)) = S
           /\ op = "resolve" => Kicked(Engine!Singles(op, S)) = {}
<1>1. PICK q : q = SetToSeq(S)
  OBVIOUS
<1>2. q \in Seq(S) /\ ToSet(q) = S /\ Distinct(q)
  BY <1>1, SetToSeqLists
<1>3. PICK u : u = Engine!Singles(op, S)
  OBVIOUS
<1>4. DOMAIN q = 1 .. Len(q) /\ Len(q) \in Nat /\ \A i \in DOMAIN q : q[i] \in Traded
  BY <1>2
<1>5. u = [i \in DOMAIN q |-> [op |-> op, group |-> <<q[i]>>]]
  BY <1>1, <1>3, EngineOrders DEF Engine!Singles
<1>6. ASSUME NEW i \in DOMAIN q
      PROVE  u[i] \in Item /\ u[i].group = <<q[i]>> /\ ItemTrue(u[i]) /\ ToSet(u[i].group) = {q[i]}
  <2>1. u[i] = [op |-> op, group |-> <<q[i]>>]
    BY <1>5, <1>6
  <2>2. u[i].group = <<q[i]>> /\ u[i] \in Item
    BY <1>4, <1>6, <2>1 DEF Item
  <2>3. <<q[i]>> # <<>> /\ Len(<<q[i]>>) = 1 /\ Distinct(<<q[i]>>)
    BY DEF Distinct
  <2>4. ToSet(<<q[i]>>) = {q[i]}
    BY ToSetShort
  <2> QED BY <2>2, <2>3, <2>4 DEF ItemTrue
<1>7. u \in Seq(Item) /\ DOMAIN u = DOMAIN q
  <2>1. u \in [1 .. Len(q) -> Item]
    BY <1>4, <1>5, <1>6
  <2> QED BY <1>4, <1>5, <2>1
<1>8. \A i, j \in DOMAIN u : i # j => ToSet(u[i].group) \intersect ToSet(u[j].group) = {}
  <2> SUFFICES ASSUME NEW i \in DOMAIN q, NEW j \in DOMAIN q, i # j
               PROVE  ToSet(u[i].group) \intersect ToSet(u[j].group) = {}
    BY <1>7
  <2>1. q[i] # q[j]
    BY <1>2 DEF Distinct
  <2>2. ToSet(u[i].group) = {q[i]} /\ ToSet(u[j].group) = {q[j]}
    BY <1>6
  <2> QED BY <2>1, <2>2
<1>9. Covers(u) = S
  <2>1. ASSUME NEW x \in S PROVE x \in Covers(u)
    <3>1. PICK i \in DOMAIN q : x = q[i]
      BY <1>2, <2>1 DEF ToSet
    <3>2. x \in ToSet(u[i].group)
      BY <1>6, <3>1
    <3> QED BY <1>7, <3>2 DEF Covers
  <2>2. ASSUME NEW x \in Covers(u) PROVE x \in S
    <3>1. PICK i \in DOMAIN q : x \in ToSet(u[i].group)
      BY <1>7, <2>2 DEF Covers
    <3>2. x = q[i]
      BY <1>6, <3>1
    <3> QED BY <1>2, <3>2 DEF ToSet
  <2> QED BY <2>1, <2>2
<1>10. ASSUME op = "resolve" PROVE Kicked(u) = {}
  <2>1. \A i \in DOMAIN u : u[i].op = "resolve"
    BY <1>5, <1>10
  <2> QED BY <2>1 DEF Kicked
<1> QED BY <1>3, <1>6, <1>7, <1>8, <1>9, <1>10 DEF ListTrue

\* The groups of a plan cover what was chosen, each pair once.
LEMMA GroupsAre ==
    ASSUME EngineAssumption, NEW r, NEW resolves \in SUBSET Traded, NEW kicks \in SUBSET Traded,
           resolves \intersect kicks = {}, NEW together
    PROVE  LET g == Engine!Groups(r, resolves, kicks, together) IN
           ListTrue(g) /\ Covers(g) = resolves \union kicks /\ Kicked(g) \subseteq kicks
<1>1. IsFiniteSet(resolves) /\ IsFiniteSet(kicks)
  BY SetsOfPairs
<1>2. PICK s, k : /\ s = Engine!Singles("resolve", resolves)
                  /\ k = (IF r.live /\ r.batch /\ together /\ Cardinality(kicks) > 1
                          THEN <<[op |-> "kick", group |-> SetToSeq(kicks)]>> ELSE Engine!Singles("kick", kicks))
  OBVIOUS
<1>3. ListTrue(s) /\ Covers(s) = resolves /\ Kicked(s) = {}
  BY <1>1, <1>2, SinglesAre DEF SendOps
<1>4. ListTrue(k) /\ Covers(k) = kicks
  <2>1. CASE k = Engine!Singles("kick", kicks)
    BY <1>1, <2>1, SinglesAre DEF SendOps
  <2>2. CASE k # Engine!Singles("kick", kicks)
    <3>1. PICK q : q = SetToSeq(kicks)
      OBVIOUS
    <3>2. k = <<[op |-> "kick", group |-> q]>> /\ Cardinality(kicks) > 1
      BY <1>2, <2>2, <3>1
    <3>3. q \in Seq(kicks) /\ ToSet(q) = kicks /\ Distinct(q)
      BY <1>1, <3>1, SetToSeqLists
    <3>4. kicks # {}
      BY <3>2, FS_EmptySet
    <3>5. q # <<>> /\ q \in Seq(Traded)
      BY <3>3, <3>4, ToSetShort
    <3>6. PICK i : i = [op |-> "kick", group |-> q]
      OBVIOUS
    <3>7. i \in Item /\ ItemTrue(i) /\ i.group = q
      BY <3>3, <3>5, <3>6 DEF Item, ItemTrue, SendOps
    <3>8. k = <<i>> /\ k \in Seq(Item) /\ DOMAIN k = {1} /\ k[1] = i
      BY <3>2, <3>6, <3>7
    <3>9. ListTrue(k)
      BY <3>7, <3>8 DEF ListTrue
    <3>10. Covers(k) = kicks
      BY <3>3, <3>7, <3>8 DEF Covers
    <3> QED BY <3>9, <3>10
  <2> QED BY <2>1, <2>2
<1>5. Engine!Groups(r, resolves, kicks, together) = s \o k
  BY <1>2, EngineCounts, EngineOrders DEF Engine!Groups
<1> QED BY <1>3, <1>4, <1>5, JoinedLists, KickedPairs

----------------------------------------------------------------------------
(* What is told of a run.                                                  *)

ToldOnly(R, R2, n) == \A S \in SUBSET RowStates : Told(R2, n, S) = Told(R, n, S)

\* New rows of one run tell nothing of the others.
LEMMA NewRowsOf ==
    ASSUME NEW R, NEW N, NEW n, NEW m, \A x \in N : x.run = m, n # m
    PROVE  ToldOnly(R, R \union N, n)
BY DEF ToldOnly, Told

\* Rows are told again with what became of their transactions.
Retold(r, x) ==
    /\ x.run = r.run /\ x.op = r.op /\ x.pair = r.pair /\ x.tx = r.tx
    /\ r.status # "SUBMITTED" => x.status = r.status
    /\ r.status = "SUBMITTED" => x.status \in OnChain
Retelling(R, R2) == /\ \A x \in R2 : \E r \in R : Retold(r, x)
                    /\ \A r \in R : \E x \in R2 : Retold(r, x)

LEMMA RetoldRuns ==
    ASSUME NEW R \in SUBSET EngineRow, NEW R2 \in SUBSET EngineRow, Retelling(R, R2), NEW n
    PROVE  /\ Told(R2, n, RowStates) = Told(R, n, RowStates)
           /\ Told(R2, n, Attempts) = Told(R, n, Attempts)
           /\ Told(R2, n, Errors) = Told(R, n, Errors)
           /\ Told(R, n, Bads) \subseteq Told(R2, n, Bads)
           /\ Told(R, n, {"CONFIRMED"}) \subseteq Told(R2, n, {"CONFIRMED"})
<1>1. ASSUME NEW r \in R, NEW x \in R2, Retold(r, x)
      PROVE  /\ x.run = r.run /\ x.pair = r.pair
             /\ x.status \in RowStates /\ r.status \in RowStates
             /\ x.status \in Attempts <=> r.status \in Attempts
             /\ x.status \in Errors <=> r.status \in Errors
             /\ r.status \in Bads => x.status \in Bads
             /\ r.status = "CONFIRMED" => x.status = "CONFIRMED"
  <2>1. x.status \in RowStates /\ r.status \in RowStates
    BY DEF EngineRow
  <2> QED BY <1>1, <2>1 DEF Retold, OnChain, Attempts, Errors, Bads, RowStates
<1>2. \A x \in R2 : \E r \in R : Retold(r, x)
  BY DEF Retelling
<1>3. \A r \in R : \E x \in R2 : Retold(r, x)
  BY DEF Retelling
<1>4. Told(R2, n, RowStates) = Told(R, n, RowStates)
  <2>1. ASSUME NEW a \in Told(R2, n, RowStates) PROVE a \in Told(R, n, RowStates)
    BY <1>1, <1>2, <2>1 DEF Told
  <2>2. ASSUME NEW a \in Told(R, n, RowStates) PROVE a \in Told(R2, n, RowStates)
    BY <1>1, <1>3, <2>2 DEF Told
  <2> QED BY <2>1, <2>2
<1>5. Told(R2, n, Attempts) = Told(R, n, Attempts)
  <2>1. ASSUME NEW a \in Told(R2, n, Attempts) PROVE a \in Told(R, n, Attempts)
    BY <1>1, <1>2, <2>1 DEF Told
  <2>2. ASSUME NEW a \in Told(R, n, Attempts) PROVE a \in Told(R2, n, Attempts)
    BY <1>1, <1>3, <2>2 DEF Told
  <2> QED BY <2>1, <2>2
<1>6. Told(R2, n, Errors) = Told(R, n, Errors)
  <2>1. ASSUME NEW a \in Told(R2, n, Errors) PROVE a \in Told(R, n, Errors)
    BY <1>1, <1>2, <2>1 DEF Told
  <2>2. ASSUME NEW a \in Told(R, n, Errors) PROVE a \in Told(R2, n, Errors)
    BY <1>1, <1>3, <2>2 DEF Told
  <2> QED BY <2>1, <2>2
<1>7. Told(R, n, Bads) \subseteq Told(R2, n, Bads)
  BY <1>1, <1>3 DEF Told
<1>8. Told(R, n, {"CONFIRMED"}) \subseteq Told(R2, n, {"CONFIRMED"})
  BY <1>1, <1>3 DEF Told
<1> QED BY <1>4, <1>5, <1>6, <1>7, <1>8

LEMMA ToldAre ==
    ASSUME EngineAssumption, NEW R, NEW n, NEW S
    PROVE  /\ Told(R, n, S) \subseteq Traded /\ IsFiniteSet(Told(R, n, S))
           /\ Cardinality(Told(R, n, S)) \in Nat
<1>1. Told(R, n, S) \subseteq Traded
  BY DEF Told
<1> QED BY <1>1, SetsOfPairs

\* Totals stay right when rows are told again, those of a run under way included.
LEMMA RetoldTotals ==
    ASSUME EngineAssumption,
           NEW R \in SUBSET EngineRow, NEW R2 \in SUBSET EngineRow, Retelling(R, R2)
    PROVE  /\ \A n : \A t \in RunRow : Totalled(n, t, R) => Totalled(n, t, R2)
           /\ \A r \in EngineProc : Counted(r, R) => Counted(r, R2)
<1>1. ASSUME NEW n, NEW U
      PROVE  /\ Told(R2, n, RowStates) = Told(R, n, RowStates)
             /\ Told(R2, n, Attempts) = Told(R, n, Attempts)
             /\ Told(R2, n, Errors) = Told(R, n, Errors)
             /\ Cardinality(Told(R, n, Bads) \ U) \in Nat /\ Cardinality(Told(R2, n, Bads) \ U) \in Nat
             /\ Cardinality(Told(R, n, Bads) \ U) <= Cardinality(Told(R2, n, Bads) \ U)
             /\ Cardinality(Told(R, n, {"CONFIRMED"}) \ U) \in Nat
             /\ Cardinality(Told(R2, n, {"CONFIRMED"}) \ U) \in Nat
             /\ Cardinality(Told(R, n, {"CONFIRMED"}) \ U) <= Cardinality(Told(R2, n, {"CONFIRMED"}) \ U)
  <2>1. ASSUME NEW S, Told(R, n, S) \subseteq Told(R2, n, S)
        PROVE  /\ Cardinality(Told(R, n, S) \ U) \in Nat /\ Cardinality(Told(R2, n, S) \ U) \in Nat
               /\ Cardinality(Told(R, n, S) \ U) <= Cardinality(Told(R2, n, S) \ U)
    <3>1. Told(R2, n, S) \ U \in SUBSET Traded /\ Told(R, n, S) \ U \in SUBSET (Told(R2, n, S) \ U)
      BY <2>1, ToldAre
    <3> QED BY <3>1, SetsOfPairs
  <2> QED BY <2>1, RetoldRuns
<1>2. ASSUME NEW n, NEW t \in RunRow, Totalled(n, t, R)
      PROVE  Totalled(n, t, R2)
  <2>1. t.ok \in Nat /\ t.bad \in Nat /\ Told(R, n, Bads) \ {} = Told(R, n, Bads)
        /\ Told(R2, n, Bads) \ {} = Told(R2, n, Bads)
        /\ Told(R, n, {"CONFIRMED"}) \ {} = Told(R, n, {"CONFIRMED"})
        /\ Told(R2, n, {"CONFIRMED"}) \ {} = Told(R2, n, {"CONFIRMED"})
    BY DEF RunRow
  <2>2. /\ Cardinality(Told(R, n, Bads)) \in Nat /\ Cardinality(Told(R2, n, Bads)) \in Nat
        /\ Cardinality(Told(R, n, Bads)) <= Cardinality(Told(R2, n, Bads))
        /\ Cardinality(Told(R, n, {"CONFIRMED"})) \in Nat /\ Cardinality(Told(R2, n, {"CONFIRMED"})) \in Nat
        /\ Cardinality(Told(R, n, {"CONFIRMED"})) <= Cardinality(Told(R2, n, {"CONFIRMED"}))
    BY <1>1, <2>1
  <2>3. /\ Told(R2, n, Attempts) = Told(R, n, Attempts) /\ Told(R2, n, Errors) = Told(R, n, Errors)
    BY <1>1
  <2>4. /\ t.attempted = Cardinality(Told(R, n, Attempts))
        /\ t.ok <= Cardinality(Told(R, n, {"CONFIRMED"}))
        /\ Cardinality(Told(R, n, Errors)) <= t.bad /\ t.bad <= Cardinality(Told(R, n, Bads))
    BY <1>2 DEF Totalled
  <2>5. t.ok <= Cardinality(Told(R2, n, {"CONFIRMED"})) /\ t.bad <= Cardinality(Told(R2, n, Bads))
    BY ONLY <2>1, <2>2, <2>4
  <2> QED BY <2>3, <2>4, <2>5 DEF Totalled
<1>3. ASSUME NEW r \in EngineProc, Counted(r, R), r.at \notin {"idle", "plan"}
      PROVE  Counted(r, R2)
  <2>1. r.ok \in Nat /\ r.bad \in Nat
    BY DEF EngineProc
  <2>2. PICK n, U : n = r.run /\ U = ToSet(r.group)
    OBVIOUS
  <2>3. /\ Told(R2, n, RowStates) = Told(R, n, RowStates)
        /\ Told(R2, n, Attempts) = Told(R, n, Attempts)
        /\ Told(R2, n, Errors) = Told(R, n, Errors)
    BY <1>1
  <2>4. /\ Told(R, n, RowStates) \intersect Ahead(r) = {}
        /\ r.attempted = Cardinality(Told(R, n, Attempts) \union Ahead(r))
        /\ r.ok <= Cardinality(Told(R, n, {"CONFIRMED"}) \ U)
        /\ Cardinality(Told(R, n, Errors)) <= r.bad
        /\ r.bad <= Cardinality(Told(R, n, Bads) \ U)
    BY <1>3, <2>2 DEF Counted
  <2>5. /\ Cardinality(Told(R, n, Bads) \ U) \in Nat /\ Cardinality(Told(R2, n, Bads) \ U) \in Nat
        /\ Cardinality(Told(R, n, Bads) \ U) <= Cardinality(Told(R2, n, Bads) \ U)
        /\ Cardinality(Told(R, n, {"CONFIRMED"}) \ U) \in Nat
        /\ Cardinality(Told(R2, n, {"CONFIRMED"}) \ U) \in Nat
        /\ Cardinality(Told(R, n, {"CONFIRMED"}) \ U) <= Cardinality(Told(R2, n, {"CONFIRMED"}) \ U)
    BY <1>1
  <2>6. r.ok <= Cardinality(Told(R2, n, {"CONFIRMED"}) \ U) /\ r.bad <= Cardinality(Told(R2, n, Bads) \ U)
    BY ONLY <2>1, <2>4, <2>5
  <2> QED BY <1>3, <2>2, <2>3, <2>4, <2>6 DEF Counted
<1>4. ASSUME NEW r \in EngineProc, Counted(r, R), r.at = "plan"
      PROVE  Counted(r, R2)
  BY <1>1, <1>4 DEF Counted
<1>5. ASSUME NEW r \in EngineProc, r.at = "idle"
      PROVE  Counted(r, R2)
  BY <1>5 DEF Counted
<1> QED BY <1>2, <1>3, <1>4, <1>5

----------------------------------------------------------------------------
(* Steps of the chain.                                                     *)

\* Transactions keep what they are, an outcome is final, and a round that is over
\* stays over.
ChainGoesOn(T, T2, O, O2) ==
    /\ DOMAIN T2 = DOMAIN T
    /\ \A m \in DOMAIN T : /\ T2[m].op = T[m].op /\ T2[m].group = T[m].group
                           /\ T[m].state # "pending" => T2[m].state = T[m].state /\ T2[m].after = T[m].after
                           /\ T[m].state = "pending" => Ends(m, T2, O2)
    /\ \A a \in Traded, m \in DOMAIN T : T[m].state = "ok" /\ O[a] # m => O2[a] # m

LEMMA OverStays ==
    ASSUME NEW T \in Seq(EngineTx), NEW T2 \in Seq(EngineTx), NEW O, NEW O2, NEW L,
           ChainGoesOn(T, T2, O, O2)
    PROVE  /\ \A a \in Traded, m \in DOMAIN T : Over(a, m, T, O, L) => Over(a, m, T2, O2, L)
           /\ \A r \in EngineRow : RowTrue(r, T, O, L) => RowTrue(r, T2, O2, L)
           /\ \A r \in EngineProc : \A R : Holds(r, T, R, O, L) => Holds(r, T2, R, O2, L)
<1>1. ASSUME NEW a \in Traded, NEW m \in DOMAIN T, Over(a, m, T, O, L)
      PROVE  Over(a, m, T2, O2, L)
  BY <1>1 DEF ChainGoesOn, Over
<1>2. ASSUME NEW r \in EngineRow, RowTrue(r, T, O, L)
      PROVE  RowTrue(r, T2, O2, L)
  <2>1. r.pair \in Traded /\ r.status \in RowStates
    BY DEF EngineRow
  <2>2. r.tx # 0 => /\ r.tx \in DOMAIN T2 /\ r.op = T2[r.tx].op /\ r.pair \in ToSet(T2[r.tx].group)
                    /\ r.status \in OnChain /\ <<r.tx, r.pair>> \notin L
    BY <1>2 DEF RowTrue, ChainGoesOn
  <2>3. /\ r.status \in OnChain => r.tx # 0
        /\ r.closed => r.op = "kick" /\ r.status = "CONFIRMED" /\ O[r.pair] # r.tx
        /\ r.status = "CONFIRMED" => r.tx \in DOMAIN T /\ T[r.tx].state = "ok"
        /\ r.status = "REVERTED" => r.tx \in DOMAIN T /\ T[r.tx].state = "reverted"
    BY <1>2 DEF RowTrue, OnChain
  <2>4. /\ r.status = "CONFIRMED" => T2[r.tx].state = "ok"
        /\ r.status = "REVERTED" => T2[r.tx].state = "reverted"
    BY <2>3 DEF ChainGoesOn
  <2>5. r.closed => O2[r.pair] # r.tx
    BY <2>1, <2>3 DEF ChainGoesOn
  <2> QED BY <2>2, <2>3, <2>4, <2>5 DEF RowTrue
<1>3. ASSUME NEW r \in EngineProc, NEW R, Holds(r, T, R, O, L)
      PROVE  Holds(r, T2, R, O2, L)
  <2>1. Kicked(r.todo) \subseteq Traded /\ ToSet(r.group) \subseteq Traded
    BY CoversPairs, KickedPairs, ToSetType DEF EngineProc
  <2>2. DOMAIN T2 = DOMAIN T /\ \A m \in DOMAIN T : T2[m].op = T[m].op /\ T2[m].group = T[m].group
    BY DEF ChainGoesOn
  <2>3. r.live => \A a \in Kicked(r.todo) : \A m \in DOMAIN T2 : Over(a, m, T2, O2, L)
    BY <1>1, <1>3, <2>1, <2>2 DEF Holds
  <2>4. r.at \in Before /\ r.op = "kick" =>
            \A a \in ToSet(r.group) : \A m \in DOMAIN T2 : Over(a, m, T2, O2, L)
    BY <1>1, <1>3, <2>1, <2>2 DEF Holds
  <2> QED BY <1>3, <2>2, <2>3, <2>4 DEF Holds
<1> QED BY <1>1, <1>2, <1>3

LEMMA ChainKeepsInv ==
    ASSUME EngineInv, sent' \in Seq(EngineTx), ChainGoesOn(sent, sent', open, open'),
           lots' \in [Traded -> {"clean", "live", "leftover"}], open' \in [Traded -> Nat],
           UNCHANGED <<kickTxs, txnRuns, lock, proc, unrecorded>>
    PROVE  EngineInv'
<1>1. EngineTypes' /\ sent \in Seq(EngineTx) /\ kickTxs \in SUBSET EngineRow /\ proc \in [Procs -> EngineProc]
  BY DEF EngineInv, EngineTypes
<1>2. /\ \A a \in Traded, m \in DOMAIN sent : Over(a, m, sent, open, unrecorded) => Over(a, m, sent', open', unrecorded)
      /\ \A r \in EngineRow : RowTrue(r, sent, open, unrecorded) => RowTrue(r, sent', open', unrecorded)
      /\ \A r \in EngineProc : \A R : Holds(r, sent, R, open, unrecorded) => Holds(r, sent', R, open', unrecorded)
  BY <1>1, OverStays
<1>3. RowsTrue'
  BY <1>1, <1>2 DEF EngineInv, RowsTrue
<1>10. LossesKnown(sent', unrecorded')
  BY DEF EngineInv, ChainGoesOn, LossesKnown
<1>4. /\ DOMAIN sent' = DOMAIN sent
      /\ \A n \in DOMAIN sent : sent'[n].op = sent[n].op /\ sent'[n].group = sent[n].group
  BY DEF ChainGoesOn
<1>5. PoolEnds'
  <2> SUFFICES ASSUME NEW n \in DOMAIN sent PROVE Ends(n, sent', open')
    BY <1>4 DEF PoolEnds
  <2>1. ToSet(sent[n].group) \subseteq Traded
    <3>1. sent[n] \in EngineTx
      BY <1>1
    <3>2. sent[n].group \in Seq(Traded)
      BY <3>1 DEF EngineTx
    <3> QED BY <3>2, ToSetType
  <2>2. CASE sent[n].state = "pending"
    BY <2>2 DEF ChainGoesOn
  <2>3. CASE sent[n].state # "pending"
    <3>1. Ends(n, sent, open) /\ sent'[n].state = sent[n].state /\ sent'[n].after = sent[n].after
      BY <2>3 DEF EngineInv, PoolEnds, ChainGoesOn
    <3>2. ASSUME sent'[n].op = "resolve", sent'[n].state = "ok", NEW m \in sent'[n].after
          PROVE  /\ m \in DOMAIN sent' /\ sent'[m].state = "ok"
                 /\ \A a \in ToSet(sent'[n].group) : open'[a] # m
      <4>1. m \in DOMAIN sent /\ sent[m].state = "ok" /\ \A a \in ToSet(sent[n].group) : open[a] # m
        BY <1>4, <3>1, <3>2 DEF Ends
      <4> QED BY <1>4, <2>1, <4>1 DEF ChainGoesOn
    <3> QED BY <3>2 DEF Ends
  <2> QED BY <2>2, <2>3
<1>6. LockTrue'
  BY DEF EngineInv, LockTrue
<1>7. ProcsTrue'
  BY <1>1, <1>2 DEF EngineInv, ProcsTrue
<1>8. RunsTrue'
  BY DEF EngineInv, RunsTrue
<1>9. BatchesTold'
  <2> SUFFICES ASSUME NEW n \in DOMAIN sent, NEW a \in ToSet(sent[n].group)
               PROVE  ToldOf(n, a, sent[n].op, kickTxs, proc, unrecorded)
    BY <1>4 DEF BatchesTold
  <2> QED BY DEF EngineInv, BatchesTold
<1> QED BY <1>1, <1>3, <1>5, <1>6, <1>7, <1>8, <1>9, <1>10 DEF EngineInv

LEMMA MineKeepsEngine ==
    ASSUME EngineInv, NEW n \in DOMAIN sent, Engine!Mine(n)
    PROVE  EngineInv'
<1>1. /\ sent \in Seq(EngineTx) /\ lots \in [Traded -> {"clean", "live", "leftover"}]
      /\ open \in [Traded -> Nat] /\ n \in Nat /\ n # 0 /\ sent[n].state = "pending"
      /\ UNCHANGED <<kickTxs, txnRuns, lock, proc, unrecorded>>
  BY DEF EngineInv, EngineTypes, Engine!Mine
<1>2. PICK before : before = {m \in DOMAIN sent : sent[m].state = "ok"}
  OBVIOUS
<1>3. sent[n] \in EngineTx /\ before \subseteq Nat
  BY <1>1, <1>2
<1>4. PICK t : /\ sent' = [sent EXCEPT ![n] = t]
               /\ \/ t = [sent[n] EXCEPT !.state = "reverted"]
                  \/ t = [sent[n] EXCEPT !.state = "ok", !.after = before]
  <2>1. \/ sent' = [sent EXCEPT ![n].state = "reverted"]
        \/ sent' = [sent EXCEPT ![n].state = "ok", ![n].after = before]
    BY <1>2 DEF Engine!Mine
  <2>2. CASE sent' = [sent EXCEPT ![n].state = "reverted"]
    BY <2>2
  <2>3. CASE sent' = [sent EXCEPT ![n].state = "ok", ![n].after = before]
    <3>1. sent' = [sent EXCEPT ![n] = [sent[n] EXCEPT !.state = "ok", !.after = before]]
      BY <1>1, <1>3, <2>3
    <3> QED BY <3>1
  <2> QED BY <2>1, <2>2, <2>3
<1>5. /\ t \in EngineTx /\ t.op = sent[n].op /\ t.group = sent[n].group
      /\ t.state = "reverted" \/ (t.state = "ok" /\ t.after = before)
  BY <1>3, <1>4 DEF EngineTx
<1>6. sent' = [sent EXCEPT ![n] = t]
  BY <1>4
<1>7. sent' \in Seq(EngineTx) /\ DOMAIN sent' = DOMAIN sent /\ sent'[n] = t
      /\ \A m \in DOMAIN sent : m # n => sent'[m] = sent[m]
  BY <1>1, <1>5, <1>6
<1>8. /\ lots' \in [Traded -> {"clean", "live", "leftover"}] /\ open' \in [Traded -> Nat]
      /\ \A a \in Traded : open'[a] \in {open[a], n, 0}
  <2>1. CASE UNCHANGED <<lots, open>>
    BY <1>1, <2>1
  <2>2. CASE /\ lots' = [a \in Traded |-> IF a \notin ToSet(sent[n].group) THEN lots[a]
                                              ELSE IF sent[n].op = "kick" THEN "live" ELSE "clean"]
             /\ open' = [a \in Traded |-> IF a \notin ToSet(sent[n].group) THEN open[a]
                                             ELSE IF sent[n].op = "kick" THEN n ELSE 0]
    BY <1>1, <2>2
  <2> QED BY <2>1, <2>2, EngineLists DEF Engine!Mine
<1>9. ASSUME NEW a \in Traded, NEW m \in DOMAIN sent, sent[m].state = "ok", open[a] # m
      PROVE  open'[a] # m
  <2>1. m # n
    BY <1>1, <1>9
  <2>2. m # 0
    BY <1>1
  <2> QED BY <1>8, <1>9, <2>1, <2>2
<1>11. Ends(n, sent', open')
  <2> SUFFICES ASSUME t.op = "resolve", t.state = "ok", NEW m \in before
               PROVE  /\ m \in DOMAIN sent /\ sent'[m].state = "ok"
                      /\ \A a \in ToSet(t.group) : open'[a] # m
    BY <1>5, <1>7 DEF Ends
  <2>1. m \in DOMAIN sent /\ sent[m].state = "ok" /\ m # 0
    BY <1>1, <1>2
  <2>2. m # n
    BY <1>1, <2>1
  <2>3. ToSet(t.group) \subseteq Traded
    BY <1>5, ToSetType DEF EngineTx
  <2>4. sent' # [sent EXCEPT ![n].state = "reverted"]
    <3>1. sent'[n].state = "ok"
      BY <1>7
    <3> QED BY <1>1, <1>3, <3>1 DEF EngineTx
  <2>5. open' = [a \in Traded |-> IF a \notin ToSet(sent[n].group) THEN open[a]
                                   ELSE IF sent[n].op = "kick" THEN n ELSE 0]
    BY <2>4, EngineLists DEF Engine!Mine
  <2> QED BY <1>5, <1>7, <2>1, <2>2, <2>3, <2>5
<1>12. ASSUME NEW m \in DOMAIN sent, sent[m].state = "pending" PROVE Ends(m, sent', open')
  <2>1. CASE m = n
    BY <1>11, <2>1
  <2>2. CASE m # n
    BY <1>7, <1>12, <2>2 DEF Ends
  <2> QED BY <2>1, <2>2
<1>13. \A m \in DOMAIN sent : /\ sent'[m].op = sent[m].op /\ sent'[m].group = sent[m].group
                              /\ sent[m].state # "pending" => sent'[m] = sent[m]
  BY <1>1, <1>5, <1>7
<1>10. ChainGoesOn(sent, sent', open, open')
  BY <1>7, <1>9, <1>12, <1>13 DEF ChainGoesOn
<1> QED BY <1>1, <1>7, <1>8, <1>10, ChainKeepsInv

LEMMA ElsewhereKeepsEngine ==
    ASSUME EngineInv, NEW a \in Traded, Engine!Elsewhere(a)
    PROVE  EngineInv'
<1>1. /\ sent \in Seq(EngineTx) /\ lots \in [Traded -> {"clean", "live", "leftover"}]
      /\ open \in [Traded -> Nat] /\ UNCHANGED <<sent, kickTxs, txnRuns, lock, proc, unrecorded>>
  BY DEF EngineInv, EngineTypes, Engine!Elsewhere
<1>2. /\ lots' \in [Traded -> {"clean", "live", "leftover"}] /\ open' \in [Traded -> Nat]
      /\ \A b \in Traded : open'[b] \in {open[b], 0}
  BY <1>1 DEF Engine!Elsewhere
<1>3. \A m \in DOMAIN sent : m # 0
  BY <1>1
<1>5. ASSUME NEW m \in DOMAIN sent, sent[m].state = "pending" PROVE Ends(m, sent', open')
  BY <1>1, <1>5 DEF Ends
<1>4. ChainGoesOn(sent, sent', open, open')
  BY <1>1, <1>2, <1>3, <1>5 DEF ChainGoesOn
<1> QED BY <1>1, <1>2, <1>4, ChainKeepsInv

----------------------------------------------------------------------------
(* Rows that are told again.                                               *)

LEMMA RetoldHolds ==
    ASSUME NEW r \in EngineProc, NEW T, NEW R, NEW R2, NEW O, NEW L,
           Retelling(R, R2), Holds(r, T, R, O, L)
    PROVE  Holds(r, T, R2, O, L)
<1>1. ASSUME r.at \in Behind, NEW x \in R2, x.tx = r.tx
      PROVE  x.pair \notin ToSet(r.left)
  <2>1. PICK y \in R : Retold(y, x)
    BY DEF Retelling
  <2> QED BY <1>1, <2>1 DEF Holds, Retold
<1>2. ASSUME r.at \in Behind, NEW a \in ToSet(r.group) \ ToSet(r.left)
      PROVE  \E x \in R2 : x.tx = r.tx /\ x.pair = a /\ x.run = r.run
  <2>1. PICK y \in R : y.tx = r.tx /\ y.pair = a /\ y.run = r.run
    BY <1>2 DEF Holds
  <2>2. PICK x \in R2 : Retold(y, x)
    BY DEF Retelling
  <2> QED BY <2>1, <2>2 DEF Retold
<1> QED BY <1>1, <1>2 DEF Holds

LEMMA RowsToldAgain ==
    ASSUME EngineAssumption, EngineInv, kickTxs' \in SUBSET EngineRow, Retelling(kickTxs, kickTxs'),
           \A x \in kickTxs' : RowTrue(x, sent, open, unrecorded),
           \A x, y \in kickTxs' : x.run = y.run /\ x.pair = y.pair => x = y,
           UNCHANGED <<lots, open, sent, txnRuns, unrecorded>>
    PROVE  /\ RowsTrue' /\ PoolEnds'
           /\ \A p \in Procs : Holds(proc[p], sent, kickTxs', open, unrecorded) /\ Counted(proc[p], kickTxs')
           /\ \A n \in DOMAIN txnRuns : txnRuns[n].status # "RUNNING" => Totalled(n, txnRuns[n], kickTxs')
           /\ \A r \in kickTxs' : r.run <= Len(txnRuns)
           /\ \A n, a, op : (\E r \in kickTxs : r.tx = n /\ r.pair = a /\ r.op = op)
                               => \E r \in kickTxs' : r.tx = n /\ r.pair = a /\ r.op = op
<1>1. /\ kickTxs \in SUBSET EngineRow /\ proc \in [Procs -> EngineProc] /\ txnRuns \in Seq(RunRow)
  BY DEF EngineInv, EngineTypes
<1>2. RowsTrue'
  BY DEF RowsTrue
<1>3. PoolEnds'
  BY DEF EngineInv, PoolEnds
<1>4. ASSUME NEW p \in Procs
      PROVE  Holds(proc[p], sent, kickTxs', open, unrecorded) /\ Counted(proc[p], kickTxs')
  <2>1. proc[p] \in EngineProc /\ Holds(proc[p], sent, kickTxs, open, unrecorded) /\ Counted(proc[p], kickTxs)
    BY <1>1 DEF EngineInv, ProcsTrue
  <2>2. Holds(proc[p], sent, kickTxs', open, unrecorded)
    BY <2>1, RetoldHolds
  <2>3. Counted(proc[p], kickTxs')
    BY <1>1, <2>1, RetoldTotals
  <2> QED BY <2>2, <2>3
<1>5. ASSUME NEW n \in DOMAIN txnRuns, txnRuns[n].status # "RUNNING"
      PROVE  Totalled(n, txnRuns[n], kickTxs')
  <2>1. txnRuns[n] \in RunRow /\ Totalled(n, txnRuns[n], kickTxs)
    BY <1>1, <1>5 DEF EngineInv, RunsTrue
  <2> QED BY <1>1, <2>1, RetoldTotals
<1>6. ASSUME NEW x \in kickTxs' PROVE x.run <= Len(txnRuns)
  <2>1. PICK r \in kickTxs : Retold(r, x)
    BY DEF Retelling
  <2> QED BY <2>1 DEF Retold, EngineInv, LockTrue
<1>7. ASSUME NEW n, NEW a, NEW op, NEW r \in kickTxs, r.tx = n, r.pair = a, r.op = op
      PROVE  \E x \in kickTxs' : x.tx = n /\ x.pair = a /\ x.op = op
  <2>1. PICK x \in kickTxs' : Retold(r, x)
    BY DEF Retelling
  <2> QED BY <1>7, <2>1 DEF Retold
<1> QED BY <1>2, <1>3, <1>4, <1>5, <1>6, <1>7

\* What a repair makes of a row.
Repaired(r, a) ==
    IF r.pair # a \/ r.tx = 0 THEN r
    ELSE IF r.status = "SUBMITTED" /\ sent[r.tx].state # "pending"
         THEN [r EXCEPT !.status = Engine!StatusOf(r.tx)]
    ELSE IF r.op = "kick" /\ r.status = "CONFIRMED" /\ open[a] # r.tx
         THEN [r EXCEPT !.closed = TRUE]
    ELSE r

LEMMA RepairKeepsEngine ==
    ASSUME EngineAssumption, EngineInv, NEW a \in Traded, Engine!Repair(a)
    PROVE  EngineInv'
<1>1. /\ kickTxs \in SUBSET EngineRow /\ sent \in Seq(EngineTx) /\ open \in [Traded -> Nat]
      /\ UNCHANGED <<lots, open, others, sent, txnRuns, lock, proc, unrecorded>>
  BY DEF EngineInv, EngineTypes, Engine!Repair, Engine!chainVars
<1>2. kickTxs' = {Repaired(r, a) : r \in kickTxs}
  BY DEF Engine!Repair, Repaired
<1>3. ASSUME NEW r \in kickTxs
      PROVE  /\ Repaired(r, a) \in EngineRow /\ Retold(r, Repaired(r, a))
             /\ RowTrue(Repaired(r, a), sent, open, unrecorded)
  <2>1. r \in EngineRow /\ RowTrue(r, sent, open, unrecorded)
    BY <1>1 DEF EngineInv, RowsTrue
  <2>2. CASE Repaired(r, a) = r
    BY <2>1, <2>2 DEF Retold, OnChain
  <2>3. CASE /\ r.pair = a /\ r.tx # 0 /\ r.status = "SUBMITTED" /\ sent[r.tx].state # "pending"
             /\ Repaired(r, a) = [r EXCEPT !.status = Engine!StatusOf(r.tx)]
    <3>1. r.tx \in DOMAIN sent /\ ~r.closed
      BY <2>1, <2>3 DEF RowTrue
    <3>2. sent[r.tx] \in EngineTx
      BY <1>1, <3>1
    <3>3. /\ Engine!StatusOf(r.tx) \in {"CONFIRMED", "REVERTED"}
          /\ Engine!StatusOf(r.tx) = "CONFIRMED" => sent[r.tx].state = "ok"
          /\ Engine!StatusOf(r.tx) = "REVERTED" => sent[r.tx].state = "reverted"
      BY <2>3, <3>2 DEF Engine!StatusOf, EngineTx
    <3>4. PICK x : x = [r EXCEPT !.status = Engine!StatusOf(r.tx)]
      OBVIOUS
    <3>5. /\ x \in EngineRow /\ x.run = r.run /\ x.op = r.op /\ x.pair = r.pair /\ x.tx = r.tx
          /\ x.status = Engine!StatusOf(r.tx) /\ x.closed = r.closed
      BY <2>1, <3>3, <3>4 DEF EngineRow, RowStates, Attempts, Bads
    <3>6. Retold(r, x)
      BY <2>3, <3>3, <3>5 DEF Retold, OnChain
    <3>7. RowTrue(x, sent, open, unrecorded)
      BY <2>1, <2>3, <3>1, <3>3, <3>5 DEF RowTrue, OnChain
    <3> QED BY <2>3, <3>4, <3>5, <3>6, <3>7
  <2>4. CASE /\ r.pair = a /\ r.tx # 0 /\ r.op = "kick" /\ r.status = "CONFIRMED" /\ open[a] # r.tx
             /\ Repaired(r, a) = [r EXCEPT !.closed = TRUE]
    <3>1. PICK x : x = [r EXCEPT !.closed = TRUE]
      OBVIOUS
    <3>2. /\ x \in EngineRow /\ x.run = r.run /\ x.op = r.op /\ x.pair = r.pair /\ x.tx = r.tx
          /\ x.status = r.status /\ x.closed = TRUE
      BY <2>1, <3>1 DEF EngineRow
    <3>3. Retold(r, x)
      BY <2>4, <3>2 DEF Retold
    <3>4. RowTrue(x, sent, open, unrecorded)
      BY <2>1, <2>4, <3>2 DEF RowTrue, OnChain
    <3> QED BY <2>4, <3>1, <3>2, <3>3, <3>4
  <2>5. \/ Repaired(r, a) = r
        \/ /\ r.pair = a /\ r.tx # 0 /\ r.status = "SUBMITTED" /\ sent[r.tx].state # "pending"
           /\ Repaired(r, a) = [r EXCEPT !.status = Engine!StatusOf(r.tx)]
        \/ /\ r.pair = a /\ r.tx # 0 /\ r.op = "kick" /\ r.status = "CONFIRMED" /\ open[a] # r.tx
           /\ Repaired(r, a) = [r EXCEPT !.closed = TRUE]
    BY DEF Repaired
  <2> QED BY <2>2, <2>3, <2>4, <2>5
<1>4. kickTxs' \in SUBSET EngineRow /\ Retelling(kickTxs, kickTxs')
  BY <1>2, <1>3 DEF Retelling
<1>5. \A x \in kickTxs' : RowTrue(x, sent, open, unrecorded)
  BY <1>2, <1>3
<1>6. ASSUME NEW x \in kickTxs', NEW y \in kickTxs', x.run = y.run, x.pair = y.pair
      PROVE  x = y
  <2>1. PICK r \in kickTxs, s \in kickTxs : x = Repaired(r, a) /\ y = Repaired(s, a)
    BY <1>2
  <2>2. r.run = s.run /\ r.pair = s.pair
    BY <1>3, <1>6, <2>1 DEF Retold
  <2>3. r = s
    BY <2>2 DEF EngineInv, RowsTrue
  <2> QED BY <2>1, <2>3
<1>7. /\ RowsTrue' /\ PoolEnds'
      /\ \A p \in Procs : Holds(proc[p], sent, kickTxs', open, unrecorded) /\ Counted(proc[p], kickTxs')
      /\ \A n \in DOMAIN txnRuns : txnRuns[n].status # "RUNNING" => Totalled(n, txnRuns[n], kickTxs')
      /\ \A r \in kickTxs' : r.run <= Len(txnRuns)
      /\ \A n, b, op : (\E r \in kickTxs : r.tx = n /\ r.pair = b /\ r.op = op)
                          => \E r \in kickTxs' : r.tx = n /\ r.pair = b /\ r.op = op
  BY <1>1, <1>4, <1>5, <1>6, RowsToldAgain
<1>8. EngineTypes'
  BY <1>1, <1>4 DEF EngineInv, EngineTypes
<1>9. LockTrue'
  BY <1>1, <1>7 DEF EngineInv, LockTrue
<1>10. ProcsTrue'
  BY <1>1, <1>7 DEF EngineInv, ProcsTrue
<1>11. RunsTrue'
  BY <1>1, <1>7 DEF EngineInv, RunsTrue
<1>12. BatchesTold'
  <2> SUFFICES ASSUME NEW n \in DOMAIN sent, NEW b \in ToSet(sent[n].group)
               PROVE  ToldOf(n, b, sent[n].op, kickTxs', proc, unrecorded)
    BY <1>1 DEF BatchesTold
  <2>1. ToldOf(n, b, sent[n].op, kickTxs, proc, unrecorded)
    BY DEF EngineInv, BatchesTold
  <2> QED BY <1>7, <2>1 DEF ToldOf
<1>13. LossesKnown(sent', unrecorded')
  BY <1>1 DEF EngineInv
<1> QED BY <1>7, <1>8, <1>9, <1>10, <1>11, <1>12, <1>13 DEF EngineInv

----------------------------------------------------------------------------
(* Steps of a process.                                                     *)

Grows(T, T2) == DOMAIN T \subseteq DOMAIN T2 /\ \A m \in DOMAIN T : T2[m] = T[m]

LEMMA EngineFacts ==
    ASSUME EngineInv, NEW p \in Procs
    PROVE  /\ proc \in [Procs -> EngineProc] /\ proc[p] \in EngineProc
           /\ Shaped(proc[p]) /\ Holds(proc[p], sent, kickTxs, open, unrecorded) /\ Counted(proc[p], kickTxs)
           /\ proc[p].live => lock = p
           /\ kickTxs \in SUBSET EngineRow /\ sent \in Seq(EngineTx) /\ txnRuns \in Seq(RunRow)
           /\ lots \in [Traded -> {"clean", "live", "leftover"}] /\ open \in [Traded -> Nat]
           /\ LossesKnown(sent, unrecorded)
BY DEF EngineInv, EngineTypes, LockTrue, ProcsTrue

\* What a process p that moves leaves to the others: rows of its own run, and only if
\* it is live transactions and losses.
MovesAlone(p, T2, N, L2) ==
    /\ Grows(sent, T2) /\ unrecorded \subseteq L2
    /\ ~proc[p].live => T2 = sent /\ L2 = unrecorded
    /\ \A x \in N : /\ x.run = proc[p].run /\ x.run # 0
                    /\ x.tx # 0 => proc[p].live

LEMMA OthersKeep ==
    ASSUME EngineAssumption, EngineInv, NEW p \in Procs, NEW q \in Procs, q # p,
           NEW T2, NEW N \in SUBSET EngineRow, NEW L2, MovesAlone(p, T2, N, L2)
    PROVE  /\ Holds(proc[q], T2, kickTxs \union N, open, L2)
           /\ Counted(proc[q], kickTxs \union N)
<1>1. PICK r : r = proc[q]
  OBVIOUS
<1>2. r \in EngineProc /\ Shaped(r) /\ Holds(r, sent, kickTxs, open, unrecorded) /\ Counted(r, kickTxs)
  BY <1>1, EngineFacts
<1>3. r.live => ~proc[p].live
  <2>1. (r.live => lock = q) /\ (proc[p].live => lock = p)
    BY <1>1, EngineFacts
  <2> QED BY <2>1
<1>4. Holds(r, T2, kickTxs \union N, open, L2)
  <2>1. CASE ~r.live
    <3>1. r.at \notin Before /\ r.at \notin Behind /\ r.at # "insert"
      BY <1>2, <2>1 DEF Shaped, Behind
    <3> QED BY <2>1, <3>1 DEF Holds
  <2>2. CASE r.live
    <3>1. T2 = sent /\ L2 = unrecorded /\ \A x \in N : x.tx = 0
      BY <1>3, <2>2 DEF MovesAlone
    <3>2. r.at \in Behind => r.tx # 0
      <4>1. \A m \in DOMAIN sent : m # 0
        BY EngineFacts
      <4> QED BY <1>2, <4>1 DEF Holds
    <3>3. r.at \in Behind => /\ \A x \in kickTxs \union N : x.tx = r.tx => x.pair \notin ToSet(r.left)
                             /\ \A a \in ToSet(r.group) \ ToSet(r.left) :
                                  \E x \in kickTxs \union N : x.tx = r.tx /\ x.pair = a /\ x.run = r.run
      BY <1>2, <3>1, <3>2 DEF Holds
    <3> QED BY <1>2, <3>1, <3>3 DEF Holds
  <2> QED BY <2>1, <2>2
<1>5. Counted(r, kickTxs \union N)
  <2>1. CASE r.at = "idle"
    BY <2>1 DEF Counted
  <2>2. CASE r.at # "idle"
    <3>1. r.run # 0
      BY <1>2, <2>2 DEF Shaped
    <3>2. CASE proc[p].run = r.run
      BY <1>1, <3>1, <3>2 DEF EngineInv, LockTrue
    <3>3. CASE proc[p].run # r.run
      <4>1. \A x \in N : x.run = proc[p].run
        BY DEF MovesAlone
      <4>2. ToldOnly(kickTxs, kickTxs \union N, r.run)
        BY <3>3, <4>1, NewRowsOf
      <4>3. /\ RowStates \in SUBSET RowStates /\ Attempts \in SUBSET RowStates /\ Errors \in SUBSET RowStates
            /\ Bads \in SUBSET RowStates /\ {"CONFIRMED"} \in SUBSET RowStates
        BY DEF RowStates, Attempts, Bads
      <4>4. /\ Told(kickTxs \union N, r.run, RowStates) = Told(kickTxs, r.run, RowStates)
            /\ Told(kickTxs \union N, r.run, Attempts) = Told(kickTxs, r.run, Attempts)
            /\ Told(kickTxs \union N, r.run, Errors) = Told(kickTxs, r.run, Errors)
            /\ Told(kickTxs \union N, r.run, Bads) = Told(kickTxs, r.run, Bads)
            /\ Told(kickTxs \union N, r.run, {"CONFIRMED"}) = Told(kickTxs, r.run, {"CONFIRMED"})
        BY <4>2, <4>3 DEF ToldOnly
      <4> QED BY <1>2, <4>4 DEF Counted
    <3> QED BY <3>2, <3>3
  <2> QED BY <2>1, <2>2
<1> QED BY <1>1, <1>4, <1>5

\* The totals of finished runs are not touched by the rows of a run under way.
LEMMA FinishedKeep ==
    ASSUME EngineAssumption, EngineInv, NEW p \in Procs, NEW T2, NEW N \in SUBSET EngineRow, NEW L2,
           MovesAlone(p, T2, N, L2), NEW n \in DOMAIN txnRuns, txnRuns[n].status # "RUNNING"
    PROVE  proc[p].run # n /\ Totalled(n, txnRuns[n], kickTxs \union N)
<1>1. proc[p].run # n /\ Totalled(n, txnRuns[n], kickTxs)
  BY DEF EngineInv, RunsTrue
<1>2. \A x \in N : x.run = proc[p].run
  BY DEF MovesAlone
<1>3. ToldOnly(kickTxs, kickTxs \union N, n)
  BY <1>1, <1>2, NewRowsOf
<1>4. /\ Attempts \in SUBSET RowStates /\ Errors \in SUBSET RowStates
      /\ Bads \in SUBSET RowStates /\ {"CONFIRMED"} \in SUBSET RowStates
  BY DEF RowStates, Attempts, Bads
<1>5. /\ Told(kickTxs \union N, n, Attempts) = Told(kickTxs, n, Attempts)
      /\ Told(kickTxs \union N, n, Errors) = Told(kickTxs, n, Errors)
      /\ Told(kickTxs \union N, n, Bads) = Told(kickTxs, n, Bads)
      /\ Told(kickTxs \union N, n, {"CONFIRMED"}) = Told(kickTxs, n, {"CONFIRMED"})
  BY <1>3, <1>4 DEF ToldOnly
<1> QED BY <1>1, <1>5 DEF Totalled

\* New rows are true, and of pairs the run has no row for.
FreshRows(p, T2, N, L2) ==
    /\ \A x \in N : RowTrue(x, T2, open, L2) /\ x.pair \notin Told(kickTxs, proc[p].run, RowStates)
    /\ \A x, y \in N : x.pair = y.pair => x = y
    /\ \A r \in kickTxs : <<r.tx, r.pair>> \in L2 => <<r.tx, r.pair>> \in unrecorded

LEMMA RowsStayTrue ==
    ASSUME EngineInv, NEW p \in Procs, NEW T2, NEW N \in SUBSET EngineRow, NEW L2,
           MovesAlone(p, T2, N, L2), FreshRows(p, T2, N, L2)
    PROVE  /\ \A r \in kickTxs \union N : RowTrue(r, T2, open, L2)
           /\ \A r, s \in kickTxs \union N : r.run = s.run /\ r.pair = s.pair => r = s
<1>1. kickTxs \in SUBSET EngineRow
  BY EngineFacts
<1>2. ASSUME NEW r \in kickTxs PROVE RowTrue(r, T2, open, L2)
  <2>1. RowTrue(r, sent, open, unrecorded)
    BY DEF EngineInv, RowsTrue
  <2>2. r.tx # 0 => r.tx \in DOMAIN T2 /\ T2[r.tx] = sent[r.tx] /\ <<r.tx, r.pair>> \notin L2
    BY <2>1 DEF RowTrue, MovesAlone, Grows, FreshRows
  <2>3. r.status \in {"CONFIRMED", "REVERTED"} => r.tx # 0
    BY <2>1 DEF RowTrue, OnChain
  <2> QED BY <2>1, <2>2, <2>3 DEF RowTrue
<1>3. ASSUME NEW x \in N, NEW r \in kickTxs, x.run = r.run, x.pair = r.pair
      PROVE  FALSE
  <2>1. r.pair \in Traded /\ r.status \in RowStates
    BY <1>1 DEF EngineRow
  <2>2. r.run = proc[p].run
    BY <1>3 DEF MovesAlone
  <2>3. r.pair \in Told(kickTxs, proc[p].run, RowStates)
    BY <2>1, <2>2 DEF Told
  <2> QED BY <1>3, <2>3 DEF FreshRows
<1>4. \A r, s \in kickTxs : r.run = s.run /\ r.pair = s.pair => r = s
  BY DEF EngineInv, RowsTrue
<1>5. \A r, s \in N : r.run = s.run /\ r.pair = s.pair => r = s
  BY DEF FreshRows
<1>6. \A x \in N : RowTrue(x, T2, open, L2)
  BY DEF FreshRows
<1> QED BY <1>2, <1>3, <1>4, <1>5, <1>6

\* A step of one process that touches neither the chain nor the runs.
LEMMA Moved ==
    ASSUME EngineAssumption, EngineInv, NEW p \in Procs, NEW s \in EngineProc, NEW N \in SUBSET EngineRow,
           UNCHANGED <<lots, open, txnRuns>>, proc' = [proc EXCEPT ![p] = s], kickTxs' = kickTxs \union N,
           sent' \in Seq(EngineTx), MovesAlone(p, sent', N, unrecorded'), FreshRows(p, sent', N, unrecorded'),
           LossesKnown(sent', unrecorded'),
           Shaped(s), Holds(s, sent', kickTxs', open, unrecorded'), Counted(s, kickTxs'),
           s.run \in {proc[p].run, 0}, s.live => proc[p].live /\ lock' = p,
           lock' # lock => ~s.live /\ lock = p,
           \A n \in DOMAIN sent' \ DOMAIN sent :
               /\ sent'[n].state = "pending"
               /\ \A a \in ToSet(sent'[n].group) : ToldOf(n, a, sent'[n].op, kickTxs', proc', unrecorded'),
           \A a \in ToSet(proc[p].left) :
               ToldOf(proc[p].tx, a, sent[proc[p].tx].op, kickTxs', proc', unrecorded')
    PROVE  EngineInv'
<1>1. /\ proc \in [Procs -> EngineProc] /\ sent \in Seq(EngineTx) /\ kickTxs \in SUBSET EngineRow
      /\ txnRuns \in Seq(RunRow) /\ lots \in [Traded -> {"clean", "live", "leftover"}]
      /\ open \in [Traded -> Nat]
  BY EngineFacts
<1>2. /\ proc' \in [Procs -> EngineProc] /\ proc'[p] = s /\ \A q \in Procs : q # p => proc'[q] = proc[q]
  BY <1>1
<1>3. EngineTypes'
  BY <1>1, <1>2 DEF EngineTypes
<1>4. RowsTrue'
  <2>1. /\ \A r \in kickTxs' : RowTrue(r, sent', open, unrecorded')
        /\ \A r, s2 \in kickTxs' : r.run = s2.run /\ r.pair = s2.pair => r = s2
    BY RowsStayTrue
  <2> QED BY <2>1 DEF RowsTrue
<1>5. Grows(sent, sent') /\ unrecorded \subseteq unrecorded'
  BY DEF MovesAlone
<1>6. PoolEnds'
  <2> SUFFICES ASSUME NEW n \in DOMAIN sent' PROVE Ends(n, sent', open)
    BY DEF PoolEnds
  <2>1. CASE n \notin DOMAIN sent
    BY <2>1 DEF Ends
  <2>2. CASE n \in DOMAIN sent
    <3>1. Ends(n, sent, open) /\ sent'[n] = sent[n]
      BY <1>5, <2>2 DEF EngineInv, PoolEnds, Grows
    <3> QED BY <1>5, <3>1 DEF Ends, Grows
  <2> QED BY <2>1, <2>2
<1>7. LockTrue'
  <2>1. \A q \in Procs : proc'[q].live => lock' = q
    <3> SUFFICES ASSUME NEW q \in Procs, proc'[q].live PROVE lock' = q
      OBVIOUS
    <3>1. CASE q = p
      BY <1>2, <3>1
    <3>2. CASE q # p
      BY <1>2, <3>2 DEF EngineInv, LockTrue
    <3> QED BY <3>1, <3>2
  <2>2. \A q \in Procs : proc'[q].run <= Len(txnRuns)
    <3>1. Len(txnRuns) \in Nat /\ \A q \in Procs : proc[q].run <= Len(txnRuns)
      BY <1>1 DEF EngineInv, LockTrue
    <3>2. s.run <= Len(txnRuns)
      BY <3>1
    <3> QED BY <1>2, <3>1, <3>2
  <2>3. \A q, o \in Procs : proc'[q].run = proc'[o].run /\ proc'[q].run # 0 => q = o
    <3>1. \A q, o \in Procs : proc[q].run = proc[o].run /\ proc[q].run # 0 => q = o
      BY DEF EngineInv, LockTrue
    <3>2. \A q \in Procs : proc'[q].run \in {proc[q].run, 0}
      BY <1>2
    <3> QED BY <3>1, <3>2
  <2>4. \A r \in kickTxs' : r.run <= Len(txnRuns)
    BY DEF EngineInv, LockTrue, MovesAlone
  <2> QED BY <2>1, <2>2, <2>3, <2>4 DEF LockTrue
<1>8. ProcsTrue'
  <2> SUFFICES ASSUME NEW q \in Procs
               PROVE  /\ Shaped(proc'[q]) /\ Holds(proc'[q], sent', kickTxs', open, unrecorded')
                      /\ Counted(proc'[q], kickTxs')
    BY DEF ProcsTrue
  <2>1. CASE q = p
    BY <1>2, <2>1
  <2>2. CASE q # p
    BY <1>2, <2>2, OthersKeep, EngineFacts
  <2> QED BY <2>1, <2>2
<1>9. RunsTrue'
  <2> SUFFICES ASSUME NEW n \in DOMAIN txnRuns, txnRuns[n].status # "RUNNING"
               PROVE  (\A q \in Procs : proc'[q].run # n) /\ Totalled(n, txnRuns[n], kickTxs')
    BY DEF RunsTrue
  <2>1. proc[p].run # n /\ Totalled(n, txnRuns[n], kickTxs')
    BY FinishedKeep
  <2>2. n # 0
    BY <1>1
  <2>3. \A q \in Procs : proc[q].run # n
    BY DEF EngineInv, RunsTrue
  <2>4. \A q \in Procs : proc'[q].run \in {proc[q].run, 0}
    BY <1>2
  <2> QED BY <2>1, <2>2, <2>3, <2>4
<1>10. BatchesTold'
  <2> SUFFICES ASSUME NEW n \in DOMAIN sent', NEW a \in ToSet(sent'[n].group)
               PROVE  ToldOf(n, a, sent'[n].op, kickTxs', proc', unrecorded')
    BY DEF BatchesTold
  <2>1. CASE n \notin DOMAIN sent
    BY <2>1
  <2>2. CASE n \in DOMAIN sent
    <3>1. sent'[n] = sent[n]
      BY <1>5, <2>2 DEF Grows
    <3>2. ToldOf(n, a, sent[n].op, kickTxs, proc, unrecorded)
      BY <2>2, <3>1 DEF EngineInv, BatchesTold
    <3>3. CASE proc[p].tx = n /\ a \in ToSet(proc[p].left)
      BY <3>1, <3>3
    <3>4. CASE ~(proc[p].tx = n /\ a \in ToSet(proc[p].left))
      <4>1. ASSUME NEW q \in Procs, proc[q].tx = n, a \in ToSet(proc[q].left)
            PROVE  proc'[q].tx = n /\ a \in ToSet(proc'[q].left)
        BY <1>2, <3>4, <4>1
      <4> QED BY <1>5, <3>1, <3>2, <3>4, <4>1 DEF ToldOf
    <3> QED BY <3>3, <3>4
  <2> QED BY <2>1, <2>2
<1> QED BY <1>3, <1>4, <1>6, <1>7, <1>8, <1>9, <1>10 DEF EngineInv

\* A step that only concerns the process itself.
LEMMA MovedQuietly ==
    ASSUME EngineAssumption, EngineInv, NEW p \in Procs, NEW s \in EngineProc,
           proc' = [proc EXCEPT ![p] = s], UNCHANGED <<lots, open, sent, kickTxs, txnRuns, lock, unrecorded>>,
           proc[p].left = <<>>, s.run = proc[p].run, s.live = proc[p].live,
           Shaped(s), Holds(s, sent, kickTxs, open, unrecorded), Counted(s, kickTxs)
    PROVE  EngineInv'
<1>1. PICK N : N = {}
  OBVIOUS
<1>2. /\ N \in SUBSET EngineRow /\ kickTxs' = kickTxs \union N /\ sent' \in Seq(EngineTx)
      /\ LossesKnown(sent', unrecorded')
  BY <1>1, EngineFacts
<1>3. MovesAlone(p, sent', N, unrecorded')
  BY <1>1 DEF MovesAlone, Grows
<1>4. FreshRows(p, sent', N, unrecorded')
  BY <1>1 DEF FreshRows
<1>5. s.live => proc[p].live /\ lock' = p
  BY EngineFacts
<1>6. ToSet(proc[p].left) = {}
  BY ToSetShort
<1>7. Holds(s, sent', kickTxs', open, unrecorded') /\ Counted(s, kickTxs')
  OBVIOUS
<1>8. /\ \A n \in DOMAIN sent' \ DOMAIN sent :
               /\ sent'[n].state = "pending"
               /\ \A a \in ToSet(sent'[n].group) : ToldOf(n, a, sent'[n].op, kickTxs', proc', unrecorded')
      /\ \A a \in ToSet(proc[p].left) : ToldOf(proc[p].tx, a, sent[proc[p].tx].op, kickTxs', proc', unrecorded')
  BY <1>6
<1>9. UNCHANGED <<lots, open, txnRuns>> /\ s.run \in {proc[p].run, 0} /\ (lock' # lock => ~s.live /\ lock = p)
  OBVIOUS
<1> QED BY <1>2, <1>3, <1>4, <1>5, <1>7, <1>8, <1>9, Moved

\* What the guard lets through when a live run plans is due: the lock keeps out
\* everybody who could be about to write a row.
LEMMA PlannedAreDue ==
    ASSUME EngineInv, NEW p \in Procs, proc[p].live, proc[p].left = <<>>,
           NEW a \in Traded, Engine!GuardAllows(a), NEW m \in DOMAIN sent
    PROVE  Over(a, m, sent, open, unrecorded)
<1> SUFFICES ASSUME sent[m].op = "kick", a \in ToSet(sent[m].group), <<m, a>> \notin unrecorded
             PROVE  sent[m].state = "reverted" \/ (sent[m].state = "ok" /\ open[a] # m)
  BY DEF Over
<1>1. ToldOf(m, a, "kick", kickTxs, proc, unrecorded)
  BY DEF EngineInv, BatchesTold
<1>2. ASSUME NEW q \in Procs, proc[q].tx = m, a \in ToSet(proc[q].left)
      PROVE  FALSE
  <2>1. proc[q].left # <<>>
    BY <1>2, ToSetShort
  <2>2. proc[q].live
    BY <2>1, EngineFacts DEF Shaped, Behind
  <2>3. q = p
    BY <2>2, EngineFacts
  <2> QED BY <2>1, <2>3
<1>3. PICK r \in kickTxs : r.tx = m /\ r.pair = a /\ r.op = "kick"
  BY <1>1, <1>2 DEF ToldOf
<1>4. RowTrue(r, sent, open, unrecorded) /\ m # 0
  BY <1>3, EngineFacts DEF EngineInv, RowsTrue
<1>5. r.status \in OnChain
  BY <1>3, <1>4 DEF RowTrue
<1>6. r.status \in {"SUBMITTED", "CONFIRMED"} => r.status = "CONFIRMED" /\ r.closed
  BY <1>3 DEF Engine!GuardAllows
<1> QED BY <1>3, <1>4, <1>5, <1>6 DEF RowTrue, OnChain

LEMMA PlanKeepsEngine ==
    ASSUME EngineAssumption, EngineInv, NEW p \in Procs, Engine!Plan(p)
    PROVE  EngineInv'
<1>1. PICK r : r = proc[p]
  OBVIOUS
<1>2. /\ r \in EngineProc /\ Shaped(r) /\ Counted(r, kickTxs) /\ r.at = "plan"
      /\ UNCHANGED <<lots, open, sent, kickTxs, txnRuns, lock, unrecorded>>
  BY <1>1, EngineFacts DEF Engine!Plan, Engine!At, Engine!chainVars
<1>3. PICK resolves \in SUBSET Traded, kicks \in SUBSET Traded, together \in BOOLEAN :
        /\ resolves \intersect kicks = {}
        /\ \A a \in kicks : Engine!GuardAllows(a)
        /\ Engine!Become(p, [proc[p] EXCEPT !.at = "next", !.todo = Engine!Groups(proc[p], resolves, kicks, together),
                                    !.attempted = Cardinality(resolves \union kicks)])
  <2> DEFINE Due(chosen) == {y \in UNION {Engine!LotsOf(x) : x \in chosen} : lots[y] = "leftover"}
             Ready(chosen) == {x \in chosen : \A y \in Engine!LotsOf(x) : lots[y] = "clean"}
             Planned(resolves, kicks, together) ==
                 Engine!Become(p, [proc[p] EXCEPT !.at = "next", !.todo = Engine!Groups(proc[p], resolves, kicks, together),
                                                  !.attempted = Cardinality(resolves \union kicks)])
  <2>1. PICK chosen \in SUBSET {a \in Traded : Engine!GuardAllows(a)}, together \in BOOLEAN :
          \E resolves \in IF proc[p].live THEN SUBSET Due(chosen) ELSE {Due(chosen)},
             kicks \in SUBSET Ready(chosen) : Planned(resolves, kicks, together)
    BY EngineCounts DEF Engine!Plan
  <2>2. PICK resolves \in SUBSET Due(chosen), kicks \in SUBSET Ready(chosen) : Planned(resolves, kicks, together)
    BY <2>1
  <2>3. resolves \in SUBSET Traded /\ \A y \in resolves : lots[y] = "leftover"
    BY <2>1, <2>2 DEF Engine!LotsOf
  <2>4. kicks \in SUBSET Traded /\ \A x \in kicks : Engine!GuardAllows(x) /\ lots[x] = "clean"
    <3>1. \A x \in kicks : x \in Engine!LotsOf(x)
      BY <2>1, <2>2 DEF Engine!LotsOf
    <3> QED BY <2>1, <2>2, <3>1
  <2>5. resolves \intersect kicks = {}
    BY <2>3, <2>4
  <2>6. \A a \in kicks : Engine!GuardAllows(a)
    BY <2>4
  <2> QED BY <2>2, <2>3, <2>4, <2>5, <2>6
<1>4. PICK g, k : g = Engine!Groups(r, resolves, kicks, together) /\ k = Cardinality(resolves \union kicks)
  OBVIOUS
<1>5. ListTrue(g) /\ Covers(g) = resolves \union kicks /\ Kicked(g) \subseteq kicks /\ k \in Nat
  BY <1>3, <1>4, GroupsAre, SetsOfPairs
<1>6. PICK s : s = [r EXCEPT !.at = "next", !.todo = g, !.attempted = k]
  OBVIOUS
<1>7. proc' = [proc EXCEPT ![p] = s]
  BY <1>1, <1>3, <1>4, <1>6 DEF Engine!Become
<1>8. /\ s \in EngineProc /\ s.at = "next" /\ s.todo = g /\ s.attempted = k
      /\ s.run = r.run /\ s.live = r.live /\ s.group = r.group /\ s.left = r.left /\ s.ok = r.ok
      /\ s.bad = r.bad
  BY <1>2, <1>5, <1>6 DEF EngineProc, EnginePlaces, ListTrue
<1>9. r.group = <<>> /\ r.left = <<>> /\ r.ok = 0 /\ r.bad = 0 /\ r.run # 0
      /\ ToSet(r.group) = {} /\ ToSet(r.left) = {}
  BY <1>2, ToSetShort DEF Shaped
<1>10. Shaped(s)
  BY <1>5, <1>8, <1>9 DEF Shaped, Before, Behind
<1>11. Holds(s, sent, kickTxs, open, unrecorded)
  <2>1. ASSUME r.live, NEW a \in Kicked(s.todo), NEW m \in DOMAIN sent
        PROVE  Over(a, m, sent, open, unrecorded)
    BY <1>1, <1>3, <1>5, <1>8, <1>9, <2>1, PlannedAreDue
  <2> QED BY <1>8, <2>1 DEF Holds, Before, Behind
<1>12. Counted(s, kickTxs)
  <2>1. Told(kickTxs, r.run, RowStates) = {}
    BY <1>2 DEF Counted
  <2>2. /\ Told(kickTxs, r.run, Attempts) = {} /\ Told(kickTxs, r.run, Errors) = {}
        /\ Told(kickTxs, r.run, Bads) = {} /\ Told(kickTxs, r.run, {"CONFIRMED"}) = {}
    BY <2>1 DEF Told, RowStates, Attempts, Bads
  <2>3. Ahead(s) = resolves \union kicks
    BY <1>5, <1>8, <1>9 DEF Ahead, Before
  <2>4. Cardinality({}) = 0 /\ {} \ ToSet(s.group) = {}
    BY FS_EmptySet
  <2>5. s.attempted = Cardinality({} \union Ahead(s)) /\ {} \intersect Ahead(s) = {}
    BY <1>4, <1>8, <2>3
  <2>6. /\ Told(kickTxs, s.run, RowStates) \intersect Ahead(s) = {}
        /\ s.attempted = Cardinality(Told(kickTxs, s.run, Attempts) \union Ahead(s))
        /\ Cardinality(Told(kickTxs, s.run, {"CONFIRMED"}) \ ToSet(s.group)) = 0
        /\ Cardinality(Told(kickTxs, s.run, Errors)) = 0
        /\ Cardinality(Told(kickTxs, s.run, Bads) \ ToSet(s.group)) = 0
    BY <1>8, <2>1, <2>2, <2>4, <2>5
  <2>7. s.ok = 0 /\ s.bad = 0 /\ s.at = "next"
    BY <1>8, <1>9
  <2> QED BY <2>6, <2>7 DEF Counted
<1> QED BY <1>1, <1>2, <1>7, <1>8, <1>9, <1>10, <1>11, <1>12, MovedQuietly

LEMMA OnwardIs ==
    ASSUME NEW r \in EngineProc
    PROVE  LET s == Engine!Onward(r) IN
           /\ s \in EngineProc /\ s.at = "next" /\ s.todo = r.todo /\ s.group = <<>> /\ s.left = <<>>
           /\ s.tx = 0 /\ s.run = r.run /\ s.live = r.live /\ s.op = r.op
           /\ s.ok = r.ok /\ s.bad = r.bad /\ s.attempted = r.attempted
           /\ ToSet(s.group) = {} /\ ToSet(s.left) = {}
<1>1. PICK s : s = [r EXCEPT !.at = "next", !.group = <<>>, !.left = <<>>, !.tx = 0]
  OBVIOUS
<1>2. /\ s.at = "next" /\ s.todo = r.todo /\ s.group = <<>> /\ s.left = <<>> /\ s.tx = 0
      /\ s.run = r.run /\ s.live = r.live /\ s.op = r.op
      /\ s.ok = r.ok /\ s.bad = r.bad /\ s.attempted = r.attempted
  BY <1>1 DEF EngineProc
<1>3. <<>> \in Seq(Traded) /\ 0 \in Nat /\ "next" \in EnginePlaces
  BY DEF EnginePlaces
<1>4. s \in EngineProc
  BY <1>1, <1>3 DEF EngineProc
<1> QED BY <1>1, <1>2, <1>4, ToSetShort DEF Engine!Onward

LEMMA TakeKeepsEngine ==
    ASSUME EngineAssumption, EngineInv, NEW p \in Procs, Engine!Take(p)
    PROVE  EngineInv'
<1>1. PICK r, i, rest : r = proc[p] /\ i = Head(r.todo) /\ rest = Tail(r.todo)
  OBVIOUS
<1>2. /\ r \in EngineProc /\ Shaped(r) /\ Holds(r, sent, kickTxs, open, unrecorded) /\ Counted(r, kickTxs)
      /\ r.at = "next" /\ r.live /\ r.todo # <<>>
      /\ UNCHANGED <<lots, open, sent, kickTxs, txnRuns, lock, unrecorded>>
  BY <1>1, EngineFacts DEF Engine!Take, Engine!At, Engine!chainVars
<1>3. /\ i \in Item /\ ItemTrue(i) /\ ListTrue(rest)
      /\ Covers(r.todo) = ToSet(i.group) \union Covers(rest)
      /\ ToSet(i.group) \intersect Covers(rest) = {}
      /\ Kicked(rest) \subseteq Kicked(r.todo)
      /\ i.op = "kick" => ToSet(i.group) \subseteq Kicked(r.todo)
  BY <1>1, <1>2, RestOfList DEF Shaped
<1>4. PICK s : s = [r EXCEPT !.at = "fees", !.todo = rest, !.op = i.op, !.group = i.group]
  OBVIOUS
<1>5. proc' = [proc EXCEPT ![p] = s]
  BY <1>1, <1>4 DEF Engine!Take, Engine!Become
<1>6. /\ s \in EngineProc /\ s.at = "fees" /\ s.todo = rest /\ s.op = i.op /\ s.group = i.group
      /\ s.run = r.run /\ s.live = r.live /\ s.left = r.left /\ s.ok = r.ok /\ s.bad = r.bad
      /\ s.attempted = r.attempted
  BY <1>2, <1>3, <1>4 DEF EngineProc, EnginePlaces, ListTrue, Item
<1>7. r.group = <<>> /\ r.left = <<>> /\ r.run # 0 /\ ToSet(r.group) = {} /\ ToSet(r.left) = {}
  BY <1>2, ToSetShort DEF Shaped
<1>8. Shaped(s)
  BY <1>2, <1>3, <1>6, <1>7 DEF Shaped, Before, Behind, ItemTrue, Item
<1>9. Holds(s, sent, kickTxs, open, unrecorded)
  BY <1>2, <1>3, <1>6 DEF Holds, Before, Behind
<1>10. Counted(s, kickTxs)
  <2>1. Ahead(s) = Ahead(r)
    BY <1>2, <1>3, <1>6, <1>7 DEF Ahead, Before
  <2>2. ToSet(s.group) \subseteq Ahead(r)
    BY <1>3, <1>6 DEF Ahead
  <2>3. Told(kickTxs, r.run, RowStates) \intersect Ahead(r) = {}
    BY <1>2 DEF Counted
  <2>4. /\ Told(kickTxs, r.run, {"CONFIRMED"}) \subseteq Told(kickTxs, r.run, RowStates)
        /\ Told(kickTxs, r.run, Bads) \subseteq Told(kickTxs, r.run, RowStates)
    BY DEF Told, RowStates, Attempts, Bads
  <2>5. /\ Told(kickTxs, r.run, {"CONFIRMED"}) \ ToSet(s.group)
           = Told(kickTxs, r.run, {"CONFIRMED"}) \ ToSet(r.group)
        /\ Told(kickTxs, r.run, Bads) \ ToSet(s.group) = Told(kickTxs, r.run, Bads) \ ToSet(r.group)
    BY <1>7, <2>2, <2>3, <2>4
  <2> QED BY <1>2, <1>6, <2>1, <2>5 DEF Counted
<1> QED BY <1>1, <1>2, <1>5, <1>6, <1>7, <1>8, <1>9, <1>10, MovedQuietly

\* Checks and prompts that let the transaction pass.
LEMMA PassedKeepsEngine ==
    ASSUME EngineAssumption, EngineInv, NEW p \in Procs, proc[p].at \in Before,
           NEW at \in Before, Engine!Become(p, [proc[p] EXCEPT !.at = at]),
           UNCHANGED <<Engine!chainVars, sent, kickTxs, txnRuns, lock, unrecorded>>
    PROVE  EngineInv'
<1>1. PICK r : r = proc[p]
  OBVIOUS
<1>2. /\ r \in EngineProc /\ Shaped(r) /\ Holds(r, sent, kickTxs, open, unrecorded) /\ Counted(r, kickTxs)
      /\ r.at \in Before /\ UNCHANGED <<lots, open, sent, kickTxs, txnRuns, lock, unrecorded>>
  BY <1>1, EngineFacts DEF Engine!chainVars
<1>3. PICK s : s = [r EXCEPT !.at = at]
  OBVIOUS
<1>4. proc' = [proc EXCEPT ![p] = s]
  BY <1>1, <1>3 DEF Engine!Become
<1>5. /\ s \in EngineProc /\ s.at = at /\ s.todo = r.todo /\ s.op = r.op /\ s.group = r.group
      /\ s.run = r.run /\ s.live = r.live /\ s.left = r.left /\ s.ok = r.ok /\ s.bad = r.bad
      /\ s.attempted = r.attempted /\ s.tx = r.tx
  BY <1>2, <1>3 DEF EngineProc, EnginePlaces, Before
<1>6. r.left = <<>>
  BY <1>2 DEF Shaped, Before
<1>7. Shaped(s)
  BY <1>2, <1>5, <1>6 DEF Shaped, Before, Behind
<1>8. Holds(s, sent, kickTxs, open, unrecorded)
  BY <1>2, <1>5 DEF Holds, Before, Behind
<1>9. Counted(s, kickTxs)
  <2>1. Ahead(s) = Ahead(r)
    BY <1>2, <1>5 DEF Ahead
  <2> QED BY <1>2, <1>5, <2>1 DEF Counted, Before
<1> QED BY <1>1, <1>2, <1>4, <1>5, <1>6, <1>7, <1>8, <1>9, MovedQuietly

LEMMA SplitKeepsEngine ==
    ASSUME EngineAssumption, EngineInv, NEW p \in Procs, Engine!SplitBatch(p)
    PROVE  EngineInv'
<1>1. PICK r, u : r = proc[p] /\ u = Engine!Singles("kick", ToSet(r.group)) \o r.todo
  OBVIOUS
<1>2. /\ r \in EngineProc /\ Shaped(r) /\ Holds(r, sent, kickTxs, open, unrecorded) /\ Counted(r, kickTxs)
      /\ r.at = "fees" /\ r.op = "kick" /\ UNCHANGED <<lots, open, sent, kickTxs, txnRuns, lock, unrecorded>>
  BY <1>1, EngineFacts DEF Engine!SplitBatch, Engine!At, Engine!chainVars
<1>3. /\ ToSet(r.group) \subseteq Traded /\ r.live /\ r.left = <<>> /\ r.run # 0
      /\ ListTrue(r.todo) /\ Covers(r.todo) \intersect ToSet(r.group) = {} /\ ToSet(r.left) = {}
  BY <1>2, ToSetType, ToSetShort DEF Shaped, Before, EngineProc
<1>4. /\ ListTrue(u) /\ Covers(u) = ToSet(r.group) \union Covers(r.todo)
      /\ Kicked(u) \subseteq ToSet(r.group) \union Kicked(r.todo)
  <2>1. IsFiniteSet(ToSet(r.group)) /\ "kick" \in SendOps
    BY <1>3, SetsOfPairs DEF SendOps
  <2>2. PICK k : k = Engine!Singles("kick", ToSet(r.group))
    OBVIOUS
  <2>3. ListTrue(k) /\ Covers(k) = ToSet(r.group)
    BY <1>3, <2>1, <2>2, SinglesAre
  <2>4. u = k \o r.todo
    BY <1>1, <2>2
  <2> QED BY <1>3, <2>3, <2>4, JoinedLists, KickedPairs
<1>5. PICK o, s : o = Engine!Onward(r) /\ s = [o EXCEPT !.todo = u]
  OBVIOUS
<1>12. /\ o \in EngineProc /\ o.at = "next" /\ o.todo = r.todo /\ o.group = <<>> /\ o.left = <<>> /\ o.tx = 0
       /\ o.run = r.run /\ o.live = r.live /\ o.ok = r.ok /\ o.bad = r.bad /\ o.attempted = r.attempted
  BY <1>2, <1>5, OnwardIs
<1>6. proc' = [proc EXCEPT ![p] = s]
  <2>1. Engine!SplitBatch(p)
        => Engine!Become(p, [Engine!Onward(r) EXCEPT !.todo = Engine!Singles("kick", ToSet(r.group)) \o @])
    BY <1>1, EngineLists DEF Engine!SplitBatch
  <2> QED BY <1>1, <1>5, <1>12, <2>1 DEF Engine!Become
<1>7. /\ s \in EngineProc /\ s.at = "next" /\ s.todo = u /\ s.group = <<>> /\ s.left = <<>> /\ s.tx = 0
      /\ s.run = r.run /\ s.live = r.live /\ s.ok = r.ok /\ s.bad = r.bad /\ s.attempted = r.attempted
  BY <1>4, <1>5, <1>12 DEF EngineProc, ListTrue
<1>8. ToSet(s.group) = {} /\ ToSet(s.left) = {}
  BY <1>7, ToSetShort
<1>9. Shaped(s)
  BY <1>3, <1>4, <1>7, <1>8 DEF Shaped, Before, Behind
<1>10. Holds(s, sent, kickTxs, open, unrecorded)
  BY <1>2, <1>4, <1>7 DEF Holds, Before, Behind
<1>11. Counted(s, kickTxs)
  <2>1. Ahead(s) = Ahead(r) /\ ToSet(r.group) \subseteq Ahead(r)
    BY <1>2, <1>4, <1>7, <1>8 DEF Ahead, Before
  <2>2. Told(kickTxs, r.run, RowStates) \intersect Ahead(r) = {}
    BY <1>2 DEF Counted
  <2>3. /\ Told(kickTxs, r.run, {"CONFIRMED"}) \subseteq Told(kickTxs, r.run, RowStates)
        /\ Told(kickTxs, r.run, Bads) \subseteq Told(kickTxs, r.run, RowStates)
    BY DEF Told, RowStates, Attempts, Bads
  <2>4. /\ Told(kickTxs, r.run, {"CONFIRMED"}) \ ToSet(s.group)
           = Told(kickTxs, r.run, {"CONFIRMED"}) \ ToSet(r.group)
        /\ Told(kickTxs, r.run, Bads) \ ToSet(s.group) = Told(kickTxs, r.run, Bads) \ ToSet(r.group)
    BY <1>8, <2>1, <2>2, <2>3
  <2> QED BY <1>2, <1>7, <2>1, <2>4 DEF Counted
<1> QED BY <1>1, <1>2, <1>3, <1>6, <1>7, <1>9, <1>10, <1>11, MovedQuietly

LEMMA GiveUpKeepsEngine ==
    ASSUME EngineAssumption, EngineInv, NEW p \in Procs, Engine!GiveUpWaiting(p)
    PROVE  EngineInv'
<1>1. PICK r : r = proc[p]
  OBVIOUS
<1>2. /\ r \in EngineProc /\ Shaped(r) /\ Holds(r, sent, kickTxs, open, unrecorded) /\ Counted(r, kickTxs)
      /\ r.at = "wait" /\ UNCHANGED <<lots, open, sent, kickTxs, txnRuns, lock, unrecorded>>
  BY <1>1, EngineFacts DEF Engine!GiveUpWaiting, Engine!At, Engine!chainVars
<1>3. PICK s : s = Engine!Onward(r)
  OBVIOUS
<1>4. proc' = [proc EXCEPT ![p] = s]
  BY <1>1, <1>3 DEF Engine!GiveUpWaiting, Engine!Become
<1>5. /\ s \in EngineProc /\ s.at = "next" /\ s.todo = r.todo /\ s.group = <<>> /\ s.left = <<>> /\ s.tx = 0
      /\ s.run = r.run /\ s.live = r.live /\ s.ok = r.ok /\ s.bad = r.bad /\ s.attempted = r.attempted
      /\ ToSet(s.group) = {} /\ ToSet(s.left) = {}
  BY <1>2, <1>3, OnwardIs
<1>6. /\ r.left = <<>> /\ r.run # 0 /\ ListTrue(r.todo) /\ ToSet(r.left) = {}
      /\ ToSet(s.group) = {} /\ ToSet(s.left) = {}
  BY <1>2, <1>5, ToSetShort DEF Shaped
<1>7. Shaped(s)
  BY <1>5, <1>6 DEF Shaped, Before, Behind
<1>8. Holds(s, sent, kickTxs, open, unrecorded)
  BY <1>2, <1>5 DEF Holds, Before, Behind
<1>9. Counted(s, kickTxs)
  <2>1. Ahead(s) = Ahead(r)
    BY <1>2, <1>5, <1>6 DEF Ahead, Before
  <2>2. PICK n, U, c, b : /\ n = r.run /\ U = ToSet(r.group)
                          /\ c = Told(kickTxs, n, {"CONFIRMED"}) /\ b = Told(kickTxs, n, Bads)
    OBVIOUS
  <2>3. /\ c \subseteq Traded /\ b \subseteq Traded
        /\ ToSet(s.group) = {} /\ c \ {} = c /\ b \ {} = b
    BY <1>6, <2>2, ToldAre
  <2>4. /\ Cardinality(c) \in Nat /\ Cardinality(c \ U) \in Nat /\ Cardinality(c \ U) <= Cardinality(c)
        /\ Cardinality(b) \in Nat /\ Cardinality(b \ U) \in Nat /\ Cardinality(b \ U) <= Cardinality(b)
    <3>1. c \ U \in SUBSET c /\ b \ U \in SUBSET b
      OBVIOUS
    <3> QED BY <2>3, <3>1, SetsOfPairs
  <2>5. /\ Told(kickTxs, n, RowStates) \intersect Ahead(r) = {}
        /\ r.attempted = Cardinality(Told(kickTxs, n, Attempts) \union Ahead(r))
        /\ r.ok <= Cardinality(c \ U)
        /\ Cardinality(Told(kickTxs, n, Errors)) <= r.bad
        /\ r.bad <= Cardinality(b \ U)
        /\ r.ok \in Nat /\ r.bad \in Nat
    BY <1>2, <2>2 DEF Counted, EngineProc
  <2>6. r.ok <= Cardinality(c) /\ r.bad <= Cardinality(b)
    BY ONLY <2>4, <2>5
  <2> QED BY <1>5, <2>1, <2>2, <2>3, <2>5, <2>6 DEF Counted
<1> QED BY <1>1, <1>2, <1>4, <1>5, <1>6, <1>7, <1>8, <1>9, MovedQuietly

----------------------------------------------------------------------------
(* Steps that write rows without a transaction.                            *)

\* A row for each pair of G, all of one run and alike.
RowsForEach(N, run, op, G, status, n) ==
    /\ \A x \in N : /\ x \in EngineRow /\ x.run = run /\ x.op = op /\ x.pair \in G
                    /\ x.status = status /\ x.tx = n /\ ~x.closed
    /\ \A a \in G : \E x \in N : x.pair = a
    /\ \A x, y \in N : x.pair = y.pair => x = y

LEMMA NewRowsAre ==
    ASSUME NEW r \in EngineProc, NEW op \in SendOps, NEW status \in RowStates, NEW n \in Nat,
           NEW G \in SUBSET Traded, NEW N, N = {Engine!Row(r, op, a, status, n) : a \in G}
    PROVE  RowsForEach(N, r.run, op, G, status, n)
<1>1. ASSUME NEW a \in G, NEW x, x = Engine!Row(r, op, a, status, n)
      PROVE  /\ x \in EngineRow /\ x.run = r.run /\ x.op = op /\ x.pair = a
             /\ x.status = status /\ x.tx = n /\ ~x.closed
  <2>1. x = [run |-> r.run, op |-> op, pair |-> a, status |-> status, tx |-> n, closed |-> FALSE]
    BY <1>1 DEF Engine!Row
  <2>2. r.run \in Nat /\ a \in Traded
    BY DEF EngineProc
  <2> QED BY <2>1, <2>2 DEF EngineRow
<1>2. ASSUME NEW x \in N PROVE \E a \in G : x = Engine!Row(r, op, a, status, n)
  BY <1>2
<1>3. ASSUME NEW a \in G PROVE \E x \in N : x.pair = a
  <2>1. PICK x : x = Engine!Row(r, op, a, status, n)
    OBVIOUS
  <2>2. x \in N
    BY <2>1
  <2> QED BY <1>1, <2>1, <2>2
<1>4. ASSUME NEW x \in N, NEW y \in N, x.pair = y.pair PROVE x = y
  <2>1. PICK a \in G, b \in G : x = Engine!Row(r, op, a, status, n) /\ y = Engine!Row(r, op, b, status, n)
    BY <1>2
  <2>2. x.pair = a /\ y.pair = b
    BY <1>1, <2>1
  <2> QED BY <1>4, <2>1, <2>2
<1>5. \A x \in N : /\ x \in EngineRow /\ x.run = r.run /\ x.op = op /\ x.pair \in G
                    /\ x.status = status /\ x.tx = n /\ ~x.closed
  BY <1>1, <1>2
<1> QED BY <1>3, <1>4, <1>5 DEF RowsForEach

\* What they add to what is told of the run.
LEMMA NewTold ==
    ASSUME NEW R, NEW run, NEW op, NEW status, NEW n, NEW G \in SUBSET Traded,
           NEW N, RowsForEach(N, run, op, G, status, n), NEW S
    PROVE  /\ status \in S => Told(R \union N, run, S) = Told(R, run, S) \union G
           /\ status \notin S => Told(R \union N, run, S) = Told(R, run, S)
<1>1. \A x \in N : x.run = run /\ x.pair \in G /\ x.status = status
  BY DEF RowsForEach
<1>2. \A a \in G : \E x \in N : x.run = run /\ x.pair = a /\ x.status = status
  BY <1>1 DEF RowsForEach
<1>3. ASSUME status \in S
      PROVE  Told(R \union N, run, S) = Told(R, run, S) \union G
  <2>1. ASSUME NEW a \in Told(R \union N, run, S) PROVE a \in Told(R, run, S) \union G
    BY <1>1, <2>1 DEF Told
  <2>2. ASSUME NEW a \in Told(R, run, S) \union G PROVE a \in Told(R \union N, run, S)
    BY <1>2, <1>3, <2>2 DEF Told
  <2> QED BY <2>1, <2>2
<1>4. ASSUME status \notin S
      PROVE  Told(R \union N, run, S) = Told(R, run, S)
  BY <1>1, <1>4 DEF Told
<1> QED BY <1>3, <1>4

\* Rows without a hash.
LEMMA NewRowsFit ==
    ASSUME EngineInv, NEW p \in Procs, proc[p].at \notin {"idle", "plan"},
           NEW op \in SendOps, NEW status \in RowStates \ OnChain, NEW G \in SUBSET Ahead(proc[p]),
           NEW N, RowsForEach(N, proc[p].run, op, G, status, 0),
           NEW T2, NEW L2, Grows(sent, T2), unrecorded \subseteq L2,
           ~proc[p].live => T2 = sent /\ L2 = unrecorded,
           \A x \in kickTxs : <<x.tx, x.pair>> \in L2 => <<x.tx, x.pair>> \in unrecorded
    PROVE  N \in SUBSET EngineRow /\ MovesAlone(p, T2, N, L2) /\ FreshRows(p, T2, N, L2)
<1>1. proc[p] \in EngineProc /\ Shaped(proc[p]) /\ Counted(proc[p], kickTxs)
  BY EngineFacts
<1>2. /\ \A x \in N : /\ x \in EngineRow /\ x.run = proc[p].run /\ x.tx = 0 /\ x.pair \in G
                      /\ x.status = status /\ ~x.closed
      /\ \A x, y \in N : x.pair = y.pair => x = y
  BY DEF RowsForEach
<1>3. proc[p].run # 0
  BY <1>1 DEF Shaped
<1>4. MovesAlone(p, T2, N, L2)
  BY <1>2, <1>3 DEF MovesAlone
<1>5. \A x \in N : RowTrue(x, T2, open, L2)
  BY <1>2 DEF RowTrue, OnChain
<1>6. \A x \in N : x.pair \notin Told(kickTxs, proc[p].run, RowStates)
  BY <1>1, <1>2 DEF Counted
<1>7. FreshRows(p, T2, N, L2)
  BY <1>2, <1>5, <1>6 DEF FreshRows
<1> QED BY <1>2, <1>4, <1>7

LEMMA MovedWithRows ==
    ASSUME EngineAssumption, EngineInv, NEW p \in Procs,
           proc[p].at \notin {"idle", "plan"}, proc[p].left = <<>>,
           NEW op \in SendOps, NEW status \in RowStates \ OnChain, NEW G \in SUBSET Ahead(proc[p]),
           NEW N, RowsForEach(N, proc[p].run, op, G, status, 0),
           NEW s \in EngineProc, proc' = [proc EXCEPT ![p] = s], kickTxs' = kickTxs \union N,
           UNCHANGED <<lots, open, sent, txnRuns, lock, unrecorded>>,
           s.run = proc[p].run, s.live = proc[p].live, s.at \notin Behind, s.at # "insert",
           Shaped(s), Holds(s, sent, kickTxs, open, unrecorded), Counted(s, kickTxs \union N)
    PROVE  EngineInv'
<1>1. N \in SUBSET EngineRow /\ MovesAlone(p, sent', N, unrecorded') /\ FreshRows(p, sent', N, unrecorded')
  <2>1. Grows(sent, sent)
    BY DEF Grows
  <2>2. N \in SUBSET EngineRow /\ MovesAlone(p, sent, N, unrecorded) /\ FreshRows(p, sent, N, unrecorded)
    BY <2>1, NewRowsFit
  <2> QED BY <2>2
<1>2. Holds(s, sent', kickTxs', open, unrecorded') /\ Counted(s, kickTxs')
  BY DEF Holds
<1>3. ToSet(proc[p].left) = {}
  BY ToSetShort
<1>4. s.live => proc[p].live /\ lock' = p
  BY EngineFacts
<1>5. /\ \A n \in DOMAIN sent' \ DOMAIN sent :
               /\ sent'[n].state = "pending"
               /\ \A a \in ToSet(sent'[n].group) : ToldOf(n, a, sent'[n].op, kickTxs', proc', unrecorded')
      /\ \A a \in ToSet(proc[p].left) : ToldOf(proc[p].tx, a, sent[proc[p].tx].op, kickTxs', proc', unrecorded')
  BY <1>3
<1>6. /\ sent' \in Seq(EngineTx) /\ UNCHANGED <<lots, open, txnRuns>> /\ s.run \in {proc[p].run, 0}
      /\ LossesKnown(sent', unrecorded')
      /\ (lock' # lock => ~s.live /\ lock = p)
  BY EngineFacts
<1> QED BY <1>1, <1>2, <1>4, <1>5, <1>6, Moved

LEMMA DryRowKeepsEngine ==
    ASSUME EngineAssumption, EngineInv, NEW p \in Procs, Engine!DryRow(p)
    PROVE  EngineInv'
<1>1. PICK r, i, rest, G, N : /\ r = proc[p] /\ i = Head(r.todo) /\ rest = Tail(r.todo)
                              /\ G = ToSet(i.group) /\ N = {Engine!Row(r, i.op, a, "DRY_RUN", 0) : a \in G}
  OBVIOUS
<1>2. /\ r \in EngineProc /\ Shaped(r) /\ Holds(r, sent, kickTxs, open, unrecorded) /\ Counted(r, kickTxs)
      /\ r.at = "next" /\ ~r.live /\ r.todo # <<>> /\ kickTxs' = kickTxs \union N
      /\ UNCHANGED <<lots, open, sent, txnRuns, lock, unrecorded>>
  BY <1>1, EngineFacts, EngineLists DEF Engine!DryRow, Engine!At, Engine!chainVars
<1>3. /\ i \in Item /\ ItemTrue(i) /\ ListTrue(rest)
      /\ Covers(r.todo) = G \union Covers(rest) /\ G \intersect Covers(rest) = {}
  BY <1>1, <1>2, RestOfList DEF Shaped
<1>4. PICK s : s = [r EXCEPT !.todo = rest]
  OBVIOUS
<1>5. proc' = [proc EXCEPT ![p] = s]
  BY <1>1, <1>4 DEF Engine!DryRow, Engine!Become
<1>6. /\ s \in EngineProc /\ s.at = "next" /\ s.todo = rest /\ s.op = r.op /\ s.group = r.group
      /\ s.run = r.run /\ s.live = r.live /\ s.left = r.left /\ s.ok = r.ok /\ s.bad = r.bad
      /\ s.attempted = r.attempted
  BY <1>2, <1>3, <1>4 DEF EngineProc, ListTrue
<1>7. r.group = <<>> /\ r.left = <<>> /\ r.run # 0 /\ ToSet(r.group) = {} /\ ToSet(r.left) = {}
  BY <1>2, ToSetShort DEF Shaped
<1>8. Shaped(s)
  BY <1>2, <1>3, <1>6, <1>7 DEF Shaped, Before, Behind
<1>9. Holds(s, sent, kickTxs, open, unrecorded)
  BY <1>2, <1>6 DEF Holds, Before, Behind
<1>10. G \in SUBSET Ahead(r) /\ Ahead(r) = G \union Ahead(s)
  BY <1>2, <1>3, <1>6, <1>7 DEF Ahead, Before
<1>11. "DRY_RUN" \in RowStates \ OnChain /\ i.op \in SendOps /\ G \subseteq Traded
  BY <1>2, <1>3, <1>10, CoversPairs DEF RowStates, Attempts, OnChain, Item, EngineProc
<1>14. RowsForEach(N, r.run, i.op, G, "DRY_RUN", 0)
  <2>1. "DRY_RUN" \in RowStates /\ 0 \in Nat
    BY <1>11
  <2> QED BY <1>1, <1>2, <1>11, <2>1, NewRowsAre
<1>12. Counted(s, kickTxs \union N)
  <2>1. /\ Told(kickTxs \union N, r.run, RowStates) = Told(kickTxs, r.run, RowStates) \union G
        /\ Told(kickTxs \union N, r.run, Attempts) = Told(kickTxs, r.run, Attempts) \union G
        /\ Told(kickTxs \union N, r.run, {"CONFIRMED"}) = Told(kickTxs, r.run, {"CONFIRMED"})
        /\ Told(kickTxs \union N, r.run, Errors) = Told(kickTxs, r.run, Errors)
        /\ Told(kickTxs \union N, r.run, Bads) = Told(kickTxs, r.run, Bads)
    <3>1. /\ "DRY_RUN" \in RowStates /\ "DRY_RUN" \in Attempts /\ "DRY_RUN" \notin {"CONFIRMED"}
          /\ "DRY_RUN" \notin Errors /\ "DRY_RUN" \notin Bads
      BY DEF RowStates, Attempts, Errors, Bads
    <3>2. ASSUME NEW S
          PROVE  /\ "DRY_RUN" \in S => Told(kickTxs \union N, r.run, S) = Told(kickTxs, r.run, S) \union G
                 /\ "DRY_RUN" \notin S => Told(kickTxs \union N, r.run, S) = Told(kickTxs, r.run, S)
      BY <1>11, <1>14, NewTold
    <3> QED BY <3>1, <3>2
  <2>2. Told(kickTxs, r.run, RowStates) \intersect Ahead(r) = {}
    BY <1>2 DEF Counted
  <2>3. (Told(kickTxs, r.run, RowStates) \union G) \intersect Ahead(s) = {}
    <3>1. G \intersect Ahead(s) = {}
      BY <1>3, <1>6, <1>7 DEF Ahead, Before
    <3> QED BY <1>10, <2>2, <3>1
  <2>4. (Told(kickTxs, r.run, Attempts) \union G) \union Ahead(s) = Told(kickTxs, r.run, Attempts) \union Ahead(r)
    BY <1>10
  <2> QED BY <1>2, <1>6, <2>1, <2>3, <2>4 DEF Counted
<1>13. s.at \notin Behind /\ s.at # "insert" /\ r.at \notin {"idle", "plan"}
  BY <1>2, <1>6 DEF Behind
<1> QED BY <1>1, <1>2, <1>5, <1>6, <1>7, <1>8, <1>9, <1>10, <1>11, <1>12, <1>13, <1>14, MovedWithRows

\* A resolution that failed.
LEMMA FailedIs ==
    ASSUME EngineAssumption, NEW r \in EngineProc, Shaped(r), r.at \in Before, r.op = "resolve",
           NEW T, NEW R, NEW O, NEW L, Holds(r, T, R, O, L), Counted(r, R),
           NEW status \in Errors, NEW N, N = Engine!RowsFor(r, status)
    PROVE  /\ RowsForEach(N, r.run, "resolve", ToSet(r.group), status, 0)
           /\ ToSet(r.group) \in SUBSET Ahead(r) /\ status \in RowStates \ OnChain
           /\ Engine!Failed(r) \in EngineProc /\ Shaped(Engine!Failed(r))
           /\ Holds(Engine!Failed(r), T, R, O, L)
           /\ Counted(Engine!Failed(r), R \union N)
           /\ Engine!Failed(r).run = r.run /\ Engine!Failed(r).live = r.live /\ Engine!Failed(r).at = "next"
           /\ Engine!Failed(r).left = <<>> /\ Engine!Failed(r).tx = 0
<1>1. PICK G : G = ToSet(r.group)
  OBVIOUS
<1>3. status \in RowStates \ OnChain /\ status \in RowStates /\ status \in Attempts /\ status \in Bads
      /\ status \in Errors /\ status \notin {"CONFIRMED"}
  BY DEF RowStates, Attempts, Bads, Errors, OnChain
<1>4. /\ r.group \in Seq(Traded) /\ Distinct(r.group) /\ Len(r.group) = 1 /\ r.left = <<>> /\ r.run # 0
      /\ ListTrue(r.todo) /\ Covers(r.todo) \intersect G = {}
      /\ r.todo \in Seq(Item) /\ r.ok \in Nat /\ r.bad \in Nat /\ r.bad + 1 \in Nat
  BY <1>1 DEF Shaped, Before, EngineProc
<1>5. Cardinality(G) = 1 /\ G \subseteq Traded /\ IsFiniteSet(G)
  BY <1>1, <1>4, DistinctCount
<1>2. RowsForEach(N, r.run, "resolve", G, status, 0)
  <2>1. N = {Engine!Row(r, "resolve", a, status, 0) : a \in G}
    BY <1>1, EngineLists DEF Engine!RowsFor
  <2>2. "resolve" \in SendOps /\ 0 \in Nat
    BY DEF SendOps
  <2> QED BY <1>3, <1>5, <2>1, <2>2, NewRowsAre
<1>6. PICK o, s : o = Engine!Onward(r) /\ s = [o EXCEPT !.bad = @ + 1]
  OBVIOUS
<1>7. /\ o \in EngineProc /\ o.at = "next" /\ o.todo = r.todo /\ o.group = <<>> /\ o.left = <<>> /\ o.tx = 0
      /\ o.run = r.run /\ o.live = r.live /\ o.ok = r.ok /\ o.bad = r.bad /\ o.attempted = r.attempted
      /\ ToSet(o.group) = {} /\ ToSet(o.left) = {}
  BY <1>6, OnwardIs
<1>8. /\ s \in EngineProc /\ s.at = "next" /\ s.todo = r.todo /\ s.group = <<>> /\ s.left = <<>> /\ s.tx = 0
      /\ s.run = r.run /\ s.live = r.live /\ s.ok = r.ok /\ s.bad = r.bad + 1 /\ s.attempted = r.attempted
  BY <1>4, <1>6, <1>7 DEF EngineProc
<1>9. Engine!Failed(r) = s /\ ToSet(s.group) = {} /\ ToSet(s.left) = {}
  BY <1>6, <1>7, <1>8 DEF Engine!Failed
<1>10. Ahead(r) = Covers(r.todo) \union G /\ Ahead(s) = Covers(r.todo)
  BY <1>1, <1>8, <1>9 DEF Ahead, Before
<1>11. Shaped(s)
  BY <1>4, <1>8, <1>9 DEF Shaped, Before, Behind
<1>12. Holds(s, T, R, O, L)
  BY <1>8 DEF Holds, Before, Behind
<1>13. Counted(s, R \union N)
  <2>1. /\ Told(R \union N, r.run, RowStates) = Told(R, r.run, RowStates) \union G
        /\ Told(R \union N, r.run, Attempts) = Told(R, r.run, Attempts) \union G
        /\ Told(R \union N, r.run, {"CONFIRMED"}) = Told(R, r.run, {"CONFIRMED"})
        /\ Told(R \union N, r.run, Errors) = Told(R, r.run, Errors) \union G
        /\ Told(R \union N, r.run, Bads) = Told(R, r.run, Bads) \union G
    <3>1. ASSUME NEW S
          PROVE  /\ status \in S => Told(R \union N, r.run, S) = Told(R, r.run, S) \union G
                 /\ status \notin S => Told(R \union N, r.run, S) = Told(R, r.run, S)
      BY <1>2, <1>5, NewTold
    <3> QED BY <1>3, <3>1
  <2>2. /\ Told(R, r.run, RowStates) \intersect Ahead(r) = {}
        /\ r.attempted = Cardinality(Told(R, r.run, Attempts) \union Ahead(r))
        /\ r.ok <= Cardinality(Told(R, r.run, {"CONFIRMED"}) \ G)
        /\ Cardinality(Told(R, r.run, Errors)) <= r.bad
        /\ r.bad <= Cardinality(Told(R, r.run, Bads) \ G)
    BY <1>1 DEF Counted, Before
  <2>3. /\ Told(R, r.run, {"CONFIRMED"}) \subseteq Told(R, r.run, RowStates)
        /\ Told(R, r.run, Bads) \subseteq Told(R, r.run, RowStates)
        /\ Told(R, r.run, Errors) \subseteq Told(R, r.run, RowStates)
    BY DEF Told, RowStates, Attempts, Bads
  <2>4. /\ Told(R, r.run, Errors) \intersect G = {} /\ Told(R, r.run, Bads) \intersect G = {}
        /\ Told(R, r.run, {"CONFIRMED"}) \ G = Told(R, r.run, {"CONFIRMED"})
        /\ Told(R, r.run, Bads) \ G = Told(R, r.run, Bads)
    BY <1>10, <2>2, <2>3
  <2>5. /\ Cardinality(Told(R, r.run, Errors) \union G) = Cardinality(Told(R, r.run, Errors)) + 1
        /\ Cardinality(Told(R, r.run, Bads) \union G) = Cardinality(Told(R, r.run, Bads)) + 1
    BY <1>5, <2>4, ToldAre, DisjointSets
  <2>6. Cardinality(Told(R, r.run, Errors)) \in Nat /\ Cardinality(Told(R, r.run, Bads)) \in Nat
    BY ToldAre
  <2>7. /\ Cardinality(Told(R, r.run, Errors) \union G) <= s.bad
        /\ s.bad <= Cardinality(Told(R, r.run, Bads) \union G)
    <3>1. s.bad = r.bad + 1 /\ r.bad \in Nat
      BY <1>4, <1>8
    <3>2. Cardinality(Told(R, r.run, Errors)) <= r.bad /\ r.bad <= Cardinality(Told(R, r.run, Bads))
      BY <2>2, <2>4
    <3> QED BY ONLY <2>5, <2>6, <3>1, <3>2
  <2>8. (Told(R, r.run, RowStates) \union G) \intersect Ahead(s) = {}
    BY <1>4, <1>10, <2>2
  <2>9. (Told(R, r.run, Attempts) \union G) \union Ahead(s) = Told(R, r.run, Attempts) \union Ahead(r)
    BY <1>10
  <2>10. /\ (Told(R, r.run, Bads) \union G) \ ToSet(s.group) = Told(R, r.run, Bads) \union G
         /\ Told(R, r.run, {"CONFIRMED"}) \ ToSet(s.group) = Told(R, r.run, {"CONFIRMED"}) \ G
    BY <1>9, <2>4
  <2>11. /\ Told(R \union N, s.run, RowStates) \intersect Ahead(s) = {}
         /\ s.attempted = Cardinality(Told(R \union N, s.run, Attempts) \union Ahead(s))
         /\ s.ok <= Cardinality(Told(R \union N, s.run, {"CONFIRMED"}) \ ToSet(s.group))
         /\ Cardinality(Told(R \union N, s.run, Errors)) <= s.bad
         /\ s.bad <= Cardinality(Told(R \union N, s.run, Bads) \ ToSet(s.group))
    BY <1>8, <2>1, <2>2, <2>7, <2>8, <2>9, <2>10
  <2> QED BY <1>8, <2>11 DEF Counted
<1> QED BY <1>1, <1>2, <1>3, <1>8, <1>9, <1>10, <1>11, <1>12, <1>13

LEMMA CheckResolveKeepsEngine ==
    ASSUME EngineAssumption, EngineInv, NEW p \in Procs, Engine!CheckResolve(p)
    PROVE  EngineInv'
<1>1. /\ proc[p].at = "fees" /\ proc[p].op = "resolve"
      /\ UNCHANGED <<Engine!chainVars, sent, txnRuns, lock, unrecorded>>
  BY DEF Engine!CheckResolve, Engine!At
<1>2. CASE Engine!Become(p, [proc[p] EXCEPT !.at = "send"]) /\ UNCHANGED kickTxs
  <2>1. proc[p].at \in Before /\ "send" \in Before
    BY <1>1 DEF Before
  <2> QED BY <1>1, <1>2, <2>1, PassedKeepsEngine
<1>3. ASSUME NEW status \in Errors, kickTxs' = kickTxs \union Engine!RowsFor(proc[p], status),
             Engine!Become(p, Engine!Failed(proc[p]))
      PROVE  EngineInv'
  <2>1. PICK r, N, s, G : /\ r = proc[p] /\ N = Engine!RowsFor(r, status) /\ s = Engine!Failed(r)
                          /\ G = ToSet(r.group)
    OBVIOUS
  <2>2. /\ r \in EngineProc /\ Shaped(r) /\ Holds(r, sent, kickTxs, open, unrecorded) /\ Counted(r, kickTxs)
        /\ r.at \in Before /\ r.op = "resolve"
    BY <1>1, <2>1, EngineFacts DEF Before
  <2>3. /\ RowsForEach(N, r.run, "resolve", G, status, 0)
        /\ G \in SUBSET Ahead(r) /\ status \in RowStates \ OnChain
        /\ s \in EngineProc /\ Shaped(s) /\ Holds(s, sent, kickTxs, open, unrecorded)
        /\ Counted(s, kickTxs \union N)
        /\ s.run = r.run /\ s.live = r.live /\ s.at = "next"
    BY <2>1, <2>2, FailedIs
  <2>4. r.at \notin {"idle", "plan"} /\ r.left = <<>> /\ s.at \notin Behind /\ s.at # "insert"
        /\ "resolve" \in SendOps
    BY <2>2, <2>3 DEF Shaped, Before, Behind, SendOps
  <2>5. proc' = [proc EXCEPT ![p] = s] /\ kickTxs' = kickTxs \union N
    BY <1>3, <2>1 DEF Engine!Become
  <2>6. UNCHANGED <<lots, open, sent, txnRuns, lock, unrecorded>>
    BY <1>1 DEF Engine!chainVars
  <2> QED BY <2>1, <2>3, <2>4, <2>5, <2>6, MovedWithRows
<1> QED BY <1>2, <1>3 DEF Engine!CheckResolve, Errors

LEMMA DeclineKeepsEngine ==
    ASSUME EngineAssumption, EngineInv, NEW p \in Procs, Engine!Decline(p)
    PROVE  EngineInv'
<1>1. PICK r, G, N, k : /\ r = proc[p] /\ G = ToSet(r.group) /\ N = Engine!RowsFor(r, "USER_SKIPPED")
                        /\ k = r.attempted - Len(r.group)
  OBVIOUS
<1>2. /\ r \in EngineProc /\ Shaped(r) /\ Holds(r, sent, kickTxs, open, unrecorded) /\ Counted(r, kickTxs)
      /\ r.at = "confirm" /\ kickTxs' = kickTxs \union N
      /\ UNCHANGED <<lots, open, sent, txnRuns, lock, unrecorded>>
  BY <1>1, EngineFacts DEF Engine!Decline, Engine!At, Engine!chainVars
<1>3. PICK o, s : o = Engine!Onward(r) /\ s = [o EXCEPT !.attempted = k]
  OBVIOUS
<1>4. /\ o \in EngineProc /\ o.at = "next" /\ o.todo = r.todo /\ o.group = <<>> /\ o.left = <<>> /\ o.tx = 0
      /\ o.run = r.run /\ o.live = r.live /\ o.ok = r.ok /\ o.bad = r.bad /\ o.attempted = r.attempted
      /\ ToSet(o.group) = {} /\ ToSet(o.left) = {}
  BY <1>2, <1>3, OnwardIs
<1>5. proc' = [proc EXCEPT ![p] = s]
  <2>1. Engine!Become(p, [Engine!Onward(r) EXCEPT !.attempted = @ - Len(r.group)])
    BY <1>1 DEF Engine!Decline
  <2> QED BY <1>1, <1>3, <1>4, <2>1 DEF Engine!Become
<1>6. /\ r.group \in Seq(Traded) /\ Distinct(r.group) /\ r.left = <<>> /\ r.run # 0 /\ r.live
      /\ ListTrue(r.todo) /\ Covers(r.todo) \intersect G = {} /\ r.op \in SendOps
  BY <1>1, <1>2 DEF Shaped, Before, EngineProc
<1>7. Cardinality(G) = Len(r.group) /\ G \subseteq Traded /\ Len(r.group) \in Nat
  BY <1>1, <1>6, DistinctCount
<1>8. Ahead(r) = Covers(r.todo) \union G /\ Covers(r.todo) \subseteq Traded
  BY <1>1, <1>2, <1>6, CoversPairs DEF Ahead, Before, ListTrue
<1>9. PICK A : A = Told(kickTxs, r.run, Attempts)
  OBVIOUS
<1>10. /\ A \subseteq Traded /\ Told(kickTxs, r.run, RowStates) \intersect Ahead(r) = {}
       /\ A \subseteq Told(kickTxs, r.run, RowStates) /\ r.attempted = Cardinality(A \union Ahead(r))
  BY <1>2, <1>9 DEF Counted, Told, RowStates
<1>11. k = Cardinality(A \union Covers(r.todo)) /\ k \in Nat
  <2>1. (A \union Covers(r.todo)) \intersect G = {} /\ A \union Ahead(r) = (A \union Covers(r.todo)) \union G
    BY <1>6, <1>8, <1>10
  <2>2. A \union Covers(r.todo) \in SUBSET Traded
    BY <1>8, <1>10
  <2>3. Cardinality(A \union Ahead(r)) = Cardinality(A \union Covers(r.todo)) + Cardinality(G)
    BY <1>7, <2>1, <2>2, DisjointSets
  <2>4. Cardinality(A \union Covers(r.todo)) \in Nat
    BY <2>2, SetsOfPairs
  <2> QED BY <1>1, <1>7, <1>10, <2>3, <2>4
<1>12. /\ s \in EngineProc /\ s.at = "next" /\ s.todo = r.todo /\ s.group = <<>> /\ s.left = <<>> /\ s.tx = 0
       /\ s.run = r.run /\ s.live = r.live /\ s.ok = r.ok /\ s.bad = r.bad /\ s.attempted = k
  BY <1>3, <1>4, <1>11 DEF EngineProc
<1>13. ToSet(s.group) = {} /\ ToSet(s.left) = {}
  BY <1>12, ToSetShort
<1>14. Shaped(s)
  BY <1>6, <1>12, <1>13 DEF Shaped, Before, Behind
<1>15. Holds(s, sent, kickTxs, open, unrecorded)
  BY <1>2, <1>12 DEF Holds, Before, Behind
<1>16. /\ "USER_SKIPPED" \in RowStates \ OnChain /\ "USER_SKIPPED" \in RowStates
       /\ "USER_SKIPPED" \notin Attempts /\ "USER_SKIPPED" \notin Errors
       /\ "USER_SKIPPED" \notin Bads /\ "USER_SKIPPED" \notin {"CONFIRMED"}
  BY DEF RowStates, OnChain, Attempts, Bads, Errors
<1>17. RowsForEach(N, r.run, r.op, G, "USER_SKIPPED", 0)
  <2>1. N = {Engine!Row(r, r.op, a, "USER_SKIPPED", 0) : a \in G}
    BY <1>1, EngineLists DEF Engine!RowsFor
  <2> QED BY <1>2, <1>6, <1>7, <1>16, <2>1, NewRowsAre
<1>18. Counted(s, kickTxs \union N)
  <2>1. ASSUME NEW S
        PROVE  /\ "USER_SKIPPED" \in S => Told(kickTxs \union N, r.run, S) = Told(kickTxs, r.run, S) \union G
               /\ "USER_SKIPPED" \notin S => Told(kickTxs \union N, r.run, S) = Told(kickTxs, r.run, S)
    BY <1>7, <1>17, NewTold
  <2>2. /\ Told(kickTxs \union N, r.run, RowStates) = Told(kickTxs, r.run, RowStates) \union G
        /\ Told(kickTxs \union N, r.run, Attempts) = A
        /\ Told(kickTxs \union N, r.run, {"CONFIRMED"}) = Told(kickTxs, r.run, {"CONFIRMED"})
        /\ Told(kickTxs \union N, r.run, Errors) = Told(kickTxs, r.run, Errors)
        /\ Told(kickTxs \union N, r.run, Bads) = Told(kickTxs, r.run, Bads)
    BY <1>9, <1>16, <2>1
  <2>3. Ahead(s) = Covers(r.todo)
    BY <1>12, <1>13 DEF Ahead, Before
  <2>4. (Told(kickTxs, r.run, RowStates) \union G) \intersect Ahead(s) = {}
    BY <1>6, <1>8, <1>10, <2>3
  <2>5. /\ Told(kickTxs, r.run, {"CONFIRMED"}) \subseteq Told(kickTxs, r.run, RowStates)
        /\ Told(kickTxs, r.run, Bads) \subseteq Told(kickTxs, r.run, RowStates)
    BY DEF Told, RowStates, Attempts, Bads
  <2>6. /\ Told(kickTxs, r.run, {"CONFIRMED"}) \ ToSet(s.group) = Told(kickTxs, r.run, {"CONFIRMED"}) \ G
        /\ Told(kickTxs, r.run, Bads) \ ToSet(s.group) = Told(kickTxs, r.run, Bads) \ G
    BY <1>8, <1>10, <1>13, <2>5
  <2>7. s.attempted = Cardinality(A \union Ahead(s))
    BY <1>11, <1>12, <2>3
  <2> QED BY <1>1, <1>2, <1>12, <2>2, <2>4, <2>6, <2>7 DEF Counted
<1>19. s.at \notin Behind /\ s.at # "insert" /\ r.at \notin {"idle", "plan"} /\ G \in SUBSET Ahead(r)
  BY <1>2, <1>8, <1>12 DEF Behind
<1> QED BY <1>1, <1>2, <1>5, <1>6, <1>12, <1>14, <1>15, <1>16, <1>17, <1>18, <1>19, MovedWithRows

----------------------------------------------------------------------------
(* Steps that send, and steps that end a run.                              *)

LEMMA IdleIs ==
    /\ Engine!Idle \in EngineProc /\ Shaped(Engine!Idle) /\ Engine!Idle.run = 0 /\ ~Engine!Idle.live
    /\ Engine!Idle.left = <<>>
    /\ \A T, R, O, L : Holds(Engine!Idle, T, R, O, L)
    /\ \A R : Counted(Engine!Idle, R)
<1>1. /\ Engine!Idle.at = "idle" /\ Engine!Idle.run = 0 /\ Engine!Idle.live = FALSE /\ Engine!Idle.todo = <<>>
      /\ Engine!Idle.group = <<>> /\ Engine!Idle.left = <<>>
  BY DEF Engine!Idle
<1>2. <<>> \in Seq(Traded) /\ <<>> \in Seq(Item) /\ 0 \in Nat /\ "idle" \in EnginePlaces
  BY DEF EnginePlaces
<1>3. Engine!Idle \in EngineProc
  BY <1>2 DEF Engine!Idle, EngineProc
<1>4. ListTrue(<<>>) /\ Covers(<<>>) = {} /\ ToSet(<<>>) = {}
  BY EmptyList, ToSetShort
<1>5. Shaped(Engine!Idle)
  BY <1>1, <1>4 DEF Shaped, Before, Behind
<1>6. \A T, R, O, L : Holds(Engine!Idle, T, R, O, L)
  BY <1>1 DEF Holds, Before, Behind
<1>7. \A R : Counted(Engine!Idle, R)
  BY <1>1 DEF Counted
<1> QED BY <1>1, <1>3, <1>5, <1>6, <1>7

\* A transaction k is sent for the pairs r has in hand.
OneMore(r, T2, k, L2) ==
    /\ T2 \in Seq(EngineTx) /\ Grows(sent, T2)
    /\ k \in Nat /\ k # 0 /\ DOMAIN T2 = DOMAIN sent \union {k} /\ k \notin DOMAIN sent
    /\ T2[k].op = r.op /\ T2[k].group = r.group /\ T2[k].state = "pending"
    /\ \A x \in kickTxs : x.tx # k
    /\ \A a \in Kicked(r.todo), m \in DOMAIN T2 : Over(a, m, T2, open, L2)

LEMMA SentIs ==
    ASSUME EngineInv, NEW p \in Procs, NEW r, r = proc[p], r.at = "send",
           NEW T2, T2 = Engine!Sent(r), NEW k, k = Len(sent) + 1, NEW L2, unrecorded \subseteq L2
    PROVE  OneMore(r, T2, k, L2)
<1>1. /\ r \in EngineProc /\ Shaped(r) /\ Holds(r, sent, kickTxs, open, unrecorded)
      /\ sent \in Seq(EngineTx)
  BY EngineFacts
<1>2. r.group \in Seq(Traded) /\ r.op \in SendOps /\ Covers(r.todo) \intersect ToSet(r.group) = {} /\ r.live
  BY <1>1 DEF Shaped, Before, EngineProc
<1>3. PICK t : t = [op |-> r.op, group |-> r.group, state |-> "pending", after |-> {}]
  OBVIOUS
<1>4. t \in EngineTx /\ t.op = r.op /\ t.group = r.group /\ t.state = "pending"
  BY <1>2, <1>3 DEF EngineTx
<1>5. T2 = Append(sent, t)
  BY <1>3 DEF Engine!Sent
<1>6. /\ T2 \in Seq(EngineTx) /\ k \in Nat /\ k # 0 /\ DOMAIN T2 = DOMAIN sent \union {k}
      /\ k \notin DOMAIN sent
      /\ T2[k] = t /\ \A m \in DOMAIN sent : T2[m] = sent[m]
  BY <1>1, <1>4, <1>5
<1>7. Grows(sent, T2)
  BY <1>6 DEF Grows
<1>8. \A x \in kickTxs : x.tx # k
  BY <1>6 DEF EngineInv, RowsTrue, RowTrue
<1>9. ASSUME NEW a, NEW m \in DOMAIN sent, Over(a, m, sent, open, unrecorded)
      PROVE  Over(a, m, T2, open, L2)
  BY <1>6, <1>9 DEF Over
<1>10. ASSUME NEW a \in Kicked(r.todo), NEW m \in DOMAIN T2
       PROVE  Over(a, m, T2, open, L2)
  <2>1. CASE m = k
    BY <1>2, <1>4, <1>6, <2>1, KickedPairs DEF Over
  <2>2. CASE m \in DOMAIN sent
    BY <1>1, <1>2, <1>9, <2>2 DEF Holds
  <2> QED BY <1>6, <2>1, <2>2
<1> QED BY <1>4, <1>6, <1>7, <1>8, <1>10 DEF OneMore

LEMMA SendKeepsEngine ==
    ASSUME EngineAssumption, EngineInv, NEW p \in Procs, Engine!Send(p)
    PROVE  EngineInv'
<1>1. PICK r, T2, k, N : r = proc[p] /\ T2 = Engine!Sent(r) /\ k = Len(sent) + 1 /\ N = {}
  OBVIOUS
<1>2. /\ r \in EngineProc /\ Shaped(r) /\ Holds(r, sent, kickTxs, open, unrecorded) /\ Counted(r, kickTxs)
      /\ r.at = "send" /\ sent' = T2 /\ kickTxs \in SUBSET EngineRow
      /\ UNCHANGED <<lots, open, kickTxs, txnRuns, lock, unrecorded>> /\ LossesKnown(sent, unrecorded)
  BY <1>1, EngineFacts DEF Engine!Send, Engine!At, Engine!chainVars
<1>3. /\ T2 \in Seq(EngineTx) /\ Grows(sent, T2)
      /\ k \in Nat /\ k # 0 /\ DOMAIN T2 = DOMAIN sent \union {k} /\ k \notin DOMAIN sent
      /\ T2[k].op = r.op /\ T2[k].group = r.group /\ T2[k].state = "pending"
      /\ \A x \in kickTxs : x.tx # k
      /\ \A a \in Kicked(r.todo), m \in DOMAIN T2 : Over(a, m, T2, open, unrecorded)
  <2>1. PICK L : L = unrecorded /\ unrecorded \subseteq L
    OBVIOUS
  <2>2. r.at = "send"
    BY <1>2
  <2>3. OneMore(r, T2, k, L)
    BY <1>1, <2>1, <2>2, SentIs
  <2> QED BY <2>1, <2>3 DEF OneMore
<1>4. PICK s : s = [r EXCEPT !.at = "insert", !.tx = k, !.left = r.group]
  OBVIOUS
<1>5. proc' = [proc EXCEPT ![p] = s]
  BY <1>1, <1>4 DEF Engine!Send, Engine!Become
<1>6. /\ s \in EngineProc /\ s.at = "insert" /\ s.todo = r.todo /\ s.op = r.op /\ s.group = r.group
      /\ s.run = r.run /\ s.live = r.live /\ s.left = r.group /\ s.ok = r.ok /\ s.bad = r.bad
      /\ s.attempted = r.attempted /\ s.tx = k
  BY <1>2, <1>3, <1>4 DEF EngineProc, EnginePlaces
<1>7. r.left = <<>> /\ r.live /\ r.group # <<>> /\ Distinct(r.group) /\ r.run # 0
  BY <1>2 DEF Shaped, Before
<1>8. Shaped(s)
  BY <1>2, <1>6, <1>7 DEF Shaped, Before, Behind
<1>9. \A a : <<k, a>> \notin unrecorded
  BY <1>2, <1>3 DEF LossesKnown
<1>10. Holds(s, T2, kickTxs, open, unrecorded)
  BY <1>3, <1>6, <1>9 DEF Holds, Before, Behind
<1>11. Counted(s, kickTxs)
  <2>1. Ahead(s) = Ahead(r)
    BY <1>2, <1>6 DEF Ahead, Before
  <2> QED BY <1>2, <1>6, <2>1 DEF Counted
<1>12. /\ N \in SUBSET EngineRow /\ kickTxs' = kickTxs \union N
       /\ Holds(s, sent', kickTxs', open, unrecorded')
       /\ Counted(s, kickTxs') /\ sent' \in Seq(EngineTx)
  BY <1>1, <1>2, <1>3, <1>10, <1>11
<1>13. MovesAlone(p, sent', N, unrecorded')
  BY <1>1, <1>2, <1>3, <1>7 DEF MovesAlone
<1>14. FreshRows(p, sent', N, unrecorded')
  BY <1>1, <1>2 DEF FreshRows
<1>15. LossesKnown(sent', unrecorded')
  BY <1>2, <1>3 DEF LossesKnown
<1>16. s.live => proc[p].live /\ lock' = p
  BY <1>1, <1>2, <1>7, EngineFacts
<1>20. ASSUME NEW n \in DOMAIN sent' \ DOMAIN sent PROVE sent'[n].state = "pending"
  BY <1>2, <1>3
<1>17. ASSUME NEW n \in DOMAIN sent' \ DOMAIN sent, NEW a \in ToSet(sent'[n].group)
       PROVE  ToldOf(n, a, sent'[n].op, kickTxs', proc', unrecorded')
  <2>1. n = k /\ a \in ToSet(r.group)
    BY <1>2, <1>3
  <2>2. proc'[p].tx = n /\ a \in ToSet(proc'[p].left)
    <3>1. proc'[p] = s
      BY <1>5, EngineFacts
    <3> QED BY <1>6, <2>1, <3>1
  <2> QED BY <2>2 DEF ToldOf
<1>18. ToSet(proc[p].left) = {}
  BY <1>1, <1>7, ToSetShort
<1>19. /\ UNCHANGED <<lots, open, txnRuns>> /\ s.run \in {proc[p].run, 0}
       /\ (lock' # lock => ~s.live /\ lock = p)
  BY <1>1, <1>2, <1>6
<1> QED BY <1>5, <1>6, <1>8, <1>12, <1>13, <1>14, <1>15, <1>16, <1>17, <1>18, <1>19, <1>20, Moved

\* A send that fails, whether the node took the transaction or not.
LEMMA SendFailsIs ==
    ASSUME EngineInv, NEW p \in Procs, NEW r, r = proc[p], r.at = "send", Engine!SendFails(p)
    PROVE  /\ sent' \in Seq(EngineTx) /\ Grows(sent, sent') /\ unrecorded \subseteq unrecorded'
           /\ LossesKnown(sent', unrecorded')
           /\ \A x \in kickTxs : <<x.tx, x.pair>> \in unrecorded' => <<x.tx, x.pair>> \in unrecorded
           /\ \A a \in Kicked(r.todo), m \in DOMAIN sent' : Over(a, m, sent', open, unrecorded')
           /\ \A n \in DOMAIN sent' \ DOMAIN sent :
                  sent'[n].state = "pending" /\ \A a \in ToSet(sent'[n].group) : <<n, a>> \in unrecorded'
<1>1. /\ r \in EngineProc /\ Shaped(r) /\ Holds(r, sent, kickTxs, open, unrecorded)
      /\ sent \in Seq(EngineTx) /\ LossesKnown(sent, unrecorded)
  BY EngineFacts
<1>2. CASE UNCHANGED <<sent, unrecorded>>
  <2>1. r.live
    BY <1>1 DEF Shaped, Before
  <2> QED BY <1>1, <1>2, <2>1 DEF Grows, Holds
<1>3. CASE /\ sent' = Engine!Sent(r)
           /\ unrecorded' = unrecorded \union {<<Len(sent) + 1, a>> : a \in ToSet(r.group)}
  <2>1. PICK k, T2, L2 : /\ k = Len(sent) + 1 /\ T2 = Engine!Sent(r)
                         /\ L2 = unrecorded \union {<<k, a>> : a \in ToSet(r.group)}
    OBVIOUS
  <2>2. unrecorded \subseteq L2 /\ sent' = T2 /\ unrecorded' = L2
    BY <1>3, <2>1
  <2>3. OneMore(r, T2, k, L2)
    BY <2>1, <2>2, SentIs
  <2>4. \A n, a : <<n, a>> \in L2 => <<n, a>> \in unrecorded \/ n = k
    BY <2>1
  <2>5. \A a \in ToSet(r.group) : <<k, a>> \in L2
    BY <2>1
  <2>6. LossesKnown(T2, L2)
    BY <1>1, <2>3, <2>4 DEF LossesKnown, OneMore
  <2>7. \A x \in kickTxs : <<x.tx, x.pair>> \in L2 => <<x.tx, x.pair>> \in unrecorded
    BY <2>3, <2>4 DEF OneMore
  <2>8. ASSUME NEW n \in DOMAIN T2 \ DOMAIN sent
        PROVE  T2[n].state = "pending" /\ \A a \in ToSet(T2[n].group) : <<n, a>> \in L2
    BY <2>3, <2>5 DEF OneMore
  <2>9. T2 \in Seq(EngineTx) /\ Grows(sent, T2)
        /\ \A a \in Kicked(r.todo), m \in DOMAIN T2 : Over(a, m, T2, open, L2)
    BY <2>3 DEF OneMore
  <2> QED BY <2>2, <2>6, <2>7, <2>8, <2>9
<1> QED BY <1>2, <1>3, EngineLists DEF Engine!SendFails

LEMMA SendFailsKeepsEngine ==
    ASSUME EngineAssumption, EngineInv, NEW p \in Procs, Engine!SendFails(p)
    PROVE  EngineInv'
<1>1. PICK r : r = proc[p]
  OBVIOUS
<1>2. /\ r \in EngineProc /\ Shaped(r) /\ Holds(r, sent, kickTxs, open, unrecorded) /\ Counted(r, kickTxs)
      /\ r.at = "send" /\ UNCHANGED <<lots, open, txnRuns>> /\ kickTxs \in SUBSET EngineRow
      /\ (r.live => lock = p)
  BY <1>1, EngineFacts DEF Engine!SendFails, Engine!At, Engine!chainVars
<1>3. /\ sent' \in Seq(EngineTx) /\ Grows(sent, sent') /\ unrecorded \subseteq unrecorded'
      /\ LossesKnown(sent', unrecorded')
      /\ \A x \in kickTxs : <<x.tx, x.pair>> \in unrecorded' => <<x.tx, x.pair>> \in unrecorded
      /\ \A a \in Kicked(r.todo), m \in DOMAIN sent' : Over(a, m, sent', open, unrecorded')
      /\ \A n \in DOMAIN sent' \ DOMAIN sent :
            sent'[n].state = "pending" /\ \A a \in ToSet(sent'[n].group) : <<n, a>> \in unrecorded'
  BY <1>1, <1>2, SendFailsIs
<1>4. r.live /\ r.left = <<>> /\ ToSet(r.left) = {} /\ r.run # 0
  BY <1>2, ToSetShort DEF Shaped, Before
<1>5. \A n \in DOMAIN sent' \ DOMAIN sent :
          /\ sent'[n].state = "pending"
          /\ \A a \in ToSet(sent'[n].group) : ToldOf(n, a, sent'[n].op, kickTxs', proc', unrecorded')
  BY <1>3 DEF ToldOf
<1>6. \A a \in ToSet(proc[p].left) : ToldOf(proc[p].tx, a, sent[proc[p].tx].op, kickTxs', proc', unrecorded')
  BY <1>1, <1>4
<1>7. CASE r.op # "resolve"
  <2>1. PICK s, N : s = Engine!Idle /\ N = {}
    OBVIOUS
  <2>2. proc' = [proc EXCEPT ![p] = s] /\ kickTxs' = kickTxs \union N /\ lock' = None
    BY <1>1, <1>7, <2>1 DEF Engine!SendFails, Engine!Become
  <2>3. s \in EngineProc /\ Shaped(s) /\ Holds(s, sent', kickTxs', open, unrecorded') /\ Counted(s, kickTxs')
        /\ s.run = 0 /\ ~s.live
    BY <2>1, IdleIs
  <2>4. N \in SUBSET EngineRow /\ MovesAlone(p, sent', N, unrecorded') /\ FreshRows(p, sent', N, unrecorded')
    BY <1>1, <1>3, <1>4, <2>1 DEF MovesAlone, FreshRows
  <2> QED BY <1>1, <1>2, <1>3, <1>4, <1>5, <1>6, <2>2, <2>3, <2>4, Moved
<1>8. CASE r.op = "resolve"
  <2>1. PICK s, N, G : s = Engine!Failed(r) /\ N = Engine!RowsFor(r, "ERROR") /\ G = ToSet(r.group)
    OBVIOUS
  <2>2. proc' = [proc EXCEPT ![p] = s] /\ kickTxs' = kickTxs \union N /\ lock' = lock
    BY <1>1, <1>8, <2>1 DEF Engine!SendFails, Engine!Become
  <2>3. r.at \in Before /\ "ERROR" \in Errors
    BY <1>2 DEF Before, Errors
  <2>4. /\ RowsForEach(N, r.run, "resolve", G, "ERROR", 0)
        /\ G \in SUBSET Ahead(r) /\ "ERROR" \in RowStates \ OnChain
        /\ s \in EngineProc /\ Shaped(s) /\ Counted(s, kickTxs \union N)
        /\ s.run = r.run /\ s.live = r.live /\ s.at = "next"
    BY <1>2, <1>8, <2>1, <2>3, FailedIs
  <2>5. s.todo = r.todo
    BY <1>2, <2>1, OnwardIs DEF Engine!Failed
  <2>6. Holds(s, sent', kickTxs', open, unrecorded')
    BY <1>3, <2>4, <2>5 DEF Holds, Before, Behind
  <2>7. PICK T2, L2 : T2 = sent' /\ L2 = unrecorded'
    OBVIOUS
  <2>8. N \in SUBSET EngineRow /\ MovesAlone(p, T2, N, L2) /\ FreshRows(p, T2, N, L2)
    <3>1. r.at \notin {"idle", "plan"} /\ "resolve" \in SendOps
      BY <1>2 DEF SendOps
    <3>2. Grows(sent, T2) /\ unrecorded \subseteq L2
          /\ \A x \in kickTxs : <<x.tx, x.pair>> \in L2 => <<x.tx, x.pair>> \in unrecorded
      BY <1>3, <2>7
    <3> QED BY <1>1, <1>4, <2>4, <3>1, <3>2, NewRowsFit
  <2>9. MovesAlone(p, sent', N, unrecorded') /\ FreshRows(p, sent', N, unrecorded')
    BY <2>7, <2>8
  <2>10. Counted(s, kickTxs')
    BY <2>2, <2>4
  <2> QED BY <1>1, <1>2, <1>3, <1>4, <1>5, <1>6, <2>2, <2>4, <2>6, <2>8, <2>9, <2>10, Moved
<1> QED BY <1>7, <1>8

LEMMA DieKeepsEngine ==
    ASSUME EngineAssumption, EngineInv, NEW p \in Procs, Engine!Die(p)
    PROVE  EngineInv'
<1>1. PICK r, s, N : r = proc[p] /\ s = Engine!Idle /\ N = {}
  OBVIOUS
<1>2. /\ r \in EngineProc /\ Shaped(r) /\ Holds(r, sent, kickTxs, open, unrecorded) /\ Counted(r, kickTxs)
      /\ sent \in Seq(EngineTx) /\ LossesKnown(sent, unrecorded)
      /\ UNCHANGED <<lots, open, sent, kickTxs, txnRuns>>
      /\ proc' = [proc EXCEPT ![p] = s] /\ lock' = (IF lock = p THEN None ELSE lock)
      /\ unrecorded' = unrecorded \union {<<r.tx, a>> : a \in ToSet(r.left)}
  BY <1>1, EngineFacts, EngineLists DEF Engine!Die, Engine!Become, Engine!Released, Engine!chainVars
<1>3. \A n, a : <<n, a>> \in unrecorded' => <<n, a>> \in unrecorded \/ (n = r.tx /\ a \in ToSet(r.left))
  BY <1>2
<1>4. ASSUME NEW a \in ToSet(r.left)
      PROVE  <<r.tx, a>> \in unrecorded' /\ r.at \in Behind /\ r.live /\ r.tx \in DOMAIN sent
             /\ \A x \in kickTxs : x.tx = r.tx => x.pair \notin ToSet(r.left)
  <2>1. r.left # <<>>
    BY <1>4, ToSetShort
  <2>2. r.at \in Behind /\ r.live
    BY <1>2, <2>1 DEF Shaped, Behind
  <2> QED BY <1>2, <1>4, <2>2 DEF Holds
<1>5. s \in EngineProc /\ Shaped(s) /\ Holds(s, sent', kickTxs', open, unrecorded') /\ Counted(s, kickTxs')
      /\ s.run = 0 /\ ~s.live
  BY <1>1, IdleIs
<1>6. unrecorded \subseteq unrecorded' /\ (~r.live => unrecorded' = unrecorded)
  <2>1. ASSUME ~r.live PROVE ToSet(r.left) = {}
    BY <1>4, <2>1
  <2> QED BY <1>2, <2>1
<1>7. N \in SUBSET EngineRow /\ MovesAlone(p, sent', N, unrecorded')
  BY <1>1, <1>2, <1>6 DEF MovesAlone, Grows
<1>8. FreshRows(p, sent', N, unrecorded')
  BY <1>1, <1>3, <1>4 DEF FreshRows
<1>9. LossesKnown(sent', unrecorded')
  <2>1. ASSUME NEW n, NEW a, <<n, a>> \in unrecorded' PROVE n \in DOMAIN sent'
    BY <1>2, <1>3, <1>4, <2>1 DEF LossesKnown
  <2> QED BY <2>1 DEF LossesKnown
<1>10. \A a \in ToSet(proc[p].left) : ToldOf(proc[p].tx, a, sent[proc[p].tx].op, kickTxs', proc', unrecorded')
  BY <1>1, <1>4 DEF ToldOf
<1>11. \A n \in DOMAIN sent' \ DOMAIN sent :
          /\ sent'[n].state = "pending"
          /\ \A a \in ToSet(sent'[n].group) : ToldOf(n, a, sent'[n].op, kickTxs', proc', unrecorded')
  BY <1>2
<1>12. /\ sent' \in Seq(EngineTx) /\ kickTxs' = kickTxs \union N /\ s.run \in {proc[p].run, 0}
       /\ (s.live => proc[p].live /\ lock' = p) /\ (lock' # lock => ~s.live /\ lock = p)
  BY <1>1, <1>2, <1>5
<1> QED BY <1>2, <1>5, <1>7, <1>8, <1>9, <1>10, <1>11, <1>12, Moved

LEMMA InsertKeepsEngine ==
    ASSUME EngineAssumption, EngineInv, NEW p \in Procs, Engine!Insert(p)
    PROVE  EngineInv'
<1>1. PICK r, h, rest, k, N : /\ r = proc[p] /\ h = Head(r.left) /\ rest = Tail(r.left) /\ k = r.tx
                              /\ N = {Engine!Row(r, r.op, h, "SUBMITTED", r.tx)}
  OBVIOUS
<1>2. /\ r \in EngineProc /\ Shaped(r) /\ Holds(r, sent, kickTxs, open, unrecorded) /\ Counted(r, kickTxs)
      /\ r.at = "insert" /\ kickTxs' = kickTxs \union N /\ LossesKnown(sent, unrecorded)
      /\ UNCHANGED <<lots, open, sent, txnRuns, lock, unrecorded>> /\ sent \in Seq(EngineTx)
      /\ (r.live => lock = p)
  BY <1>1, EngineFacts DEF Engine!Insert, Engine!At, Engine!chainVars
<1>3. /\ r.left \in Seq(Traded) /\ r.group \in Seq(Traded) /\ r.left # <<>> /\ Distinct(r.left)
      /\ ToSet(r.left) \subseteq ToSet(r.group) /\ ToSet(r.group) \subseteq Traded
      /\ r.op \in SendOps /\ r.live /\ r.run # 0 /\ r.group # <<>> /\ Distinct(r.group)
      /\ Covers(r.todo) \intersect ToSet(r.group) = {} /\ k \in DOMAIN sent /\ k \in Nat /\ k # 0
  BY <1>1, <1>2, ToSetType DEF Shaped, Holds, Behind, EngineProc
<1>4. /\ h \in Traded /\ rest \in Seq(Traded) /\ h \in ToSet(r.left)
      /\ ToSet(r.left) = {h} \union ToSet(rest) /\ Distinct(rest) /\ h \notin ToSet(rest)
  BY <1>1, <1>3, HeadAndTail
<1>5. PICK G : G = {h}
  OBVIOUS
<1>6. RowsForEach(N, r.run, r.op, G, "SUBMITTED", k)
  <2>1. N = {Engine!Row(r, r.op, a, "SUBMITTED", k) : a \in G}
    BY <1>1, <1>5
  <2>2. "SUBMITTED" \in RowStates /\ G \in SUBSET Traded
    BY <1>4, <1>5 DEF RowStates, Attempts
  <2> QED BY <1>2, <1>3, <2>1, <2>2, NewRowsAre
<1>7. /\ \A x \in N : /\ x \in EngineRow /\ x.run = r.run /\ x.op = r.op /\ x.pair = h
                      /\ x.status = "SUBMITTED" /\ x.tx = k /\ ~x.closed
      /\ \E x \in N : x.pair = h
  BY <1>5, <1>6 DEF RowsForEach
<1>8. PICK at : at = IF Len(r.left) = 1 THEN "wait" ELSE "insert"
  OBVIOUS
<1>9. PICK s : s = [r EXCEPT !.left = rest, !.at = at]
  OBVIOUS
<1>10. proc' = [proc EXCEPT ![p] = s]
  BY <1>1, <1>2, <1>8, <1>9 DEF Engine!Insert, Engine!Become
<1>11. /\ s \in EngineProc /\ s.at = at /\ s.todo = r.todo /\ s.op = r.op /\ s.group = r.group
       /\ s.run = r.run /\ s.live = r.live /\ s.left = rest /\ s.ok = r.ok /\ s.bad = r.bad
       /\ s.attempted = r.attempted /\ s.tx = k
  BY <1>1, <1>2, <1>4, <1>8, <1>9 DEF EngineProc, EnginePlaces
<1>12. rest = <<>> <=> at # "insert"
  <2>1. Len(rest) = Len(r.left) - 1 /\ Len(r.left) \in Nat /\ Len(rest) \in Nat
    BY <1>1, <1>3, <1>4
  <2>2. rest = <<>> <=> Len(rest) = 0
    BY <1>4
  <2> QED BY <1>8, <2>1, <2>2
<1>13. at \in Behind /\ at \notin Before /\ at \notin {"idle", "plan", "next"}
  BY <1>8 DEF Behind, Before
<1>14. Shaped(s)
  <2>1. ListTrue(r.todo) /\ (r.op = "resolve" => Len(r.group) = 1)
    BY <1>2 DEF Shaped, Behind
  <2>2. ToSet(rest) \subseteq ToSet(r.group)
    BY <1>3, <1>4
  <2> QED BY <1>3, <1>4, <1>11, <1>12, <1>13, <2>1, <2>2 DEF Shaped
<1>15. Holds(s, sent, kickTxs', open, unrecorded)
  <2>1. \A x \in kickTxs' : x.tx = k => x.pair \notin ToSet(rest)
    BY <1>1, <1>2, <1>4, <1>7 DEF Holds, Behind
  <2>2. ASSUME NEW a \in ToSet(r.group) \ ToSet(rest)
        PROVE  \E x \in kickTxs' : x.tx = k /\ x.pair = a /\ x.run = r.run
    <3>1. CASE a = h
      BY <1>2, <1>7, <3>1
    <3>2. CASE a # h
      BY <1>1, <1>2, <1>4, <3>2 DEF Holds, Behind
    <3> QED BY <3>1, <3>2
  <2>3. \A a \in ToSet(rest) : <<k, a>> \notin unrecorded
    BY <1>1, <1>2, <1>4 DEF Holds
  <2>4. s.live => \A a \in Kicked(s.todo) : \A m \in DOMAIN sent : Over(a, m, sent, open, unrecorded)
    BY <1>2, <1>11 DEF Holds
  <2>5. k \in DOMAIN sent /\ sent[k].op = r.op /\ sent[k].group = r.group
    BY <1>1, <1>2 DEF Holds, Behind
  <2> QED BY <1>11, <1>13, <2>1, <2>2, <2>3, <2>4, <2>5 DEF Holds
<1>16. Told(kickTxs, r.run, RowStates) \intersect Ahead(r) = {} /\ Ahead(r) = {h} \union Ahead(s)
       /\ h \notin Ahead(s)
  <2>1. Ahead(r) = Covers(r.todo) \union ToSet(r.left) /\ Ahead(s) = Covers(r.todo) \union ToSet(rest)
    BY <1>2, <1>11, <1>13 DEF Ahead, Before
  <2> QED BY <1>2, <1>3, <1>4, <2>1 DEF Counted
<1>17. Counted(s, kickTxs')
  <2>1. ASSUME NEW S
        PROVE  /\ "SUBMITTED" \in S => Told(kickTxs', r.run, S) = Told(kickTxs, r.run, S) \union G
               /\ "SUBMITTED" \notin S => Told(kickTxs', r.run, S) = Told(kickTxs, r.run, S)
    <3>1. G \in SUBSET Traded
      BY <1>4, <1>5
    <3>2. /\ "SUBMITTED" \in S => Told(kickTxs \union N, r.run, S) = Told(kickTxs, r.run, S) \union G
          /\ "SUBMITTED" \notin S => Told(kickTxs \union N, r.run, S) = Told(kickTxs, r.run, S)
      BY <1>6, <3>1, NewTold
    <3> QED BY <1>2, <3>2
  <2>2. /\ "SUBMITTED" \in RowStates /\ "SUBMITTED" \in Attempts /\ "SUBMITTED" \notin Errors
        /\ "SUBMITTED" \notin Bads /\ "SUBMITTED" \notin {"CONFIRMED"}
    BY DEF RowStates, Attempts, Bads, Errors
  <2>3. /\ Told(kickTxs', r.run, RowStates) = Told(kickTxs, r.run, RowStates) \union G
        /\ Told(kickTxs', r.run, Attempts) = Told(kickTxs, r.run, Attempts) \union G
        /\ Told(kickTxs', r.run, {"CONFIRMED"}) = Told(kickTxs, r.run, {"CONFIRMED"})
        /\ Told(kickTxs', r.run, Errors) = Told(kickTxs, r.run, Errors)
        /\ Told(kickTxs', r.run, Bads) = Told(kickTxs, r.run, Bads)
    BY <2>1, <2>2
  <2>4. (Told(kickTxs, r.run, RowStates) \union G) \intersect Ahead(s) = {}
    BY <1>5, <1>16
  <2>5. (Told(kickTxs, r.run, Attempts) \union G) \union Ahead(s) = Told(kickTxs, r.run, Attempts) \union Ahead(r)
    BY <1>5, <1>16
  <2>6. /\ r.attempted = Cardinality(Told(kickTxs, r.run, Attempts) \union Ahead(r))
        /\ r.ok <= Cardinality(Told(kickTxs, r.run, {"CONFIRMED"}) \ ToSet(r.group))
        /\ Cardinality(Told(kickTxs, r.run, Errors)) <= r.bad
        /\ r.bad <= Cardinality(Told(kickTxs, r.run, Bads) \ ToSet(r.group))
    BY <1>2 DEF Counted
  <2>7. /\ Told(kickTxs', s.run, RowStates) \intersect Ahead(s) = {}
        /\ s.attempted = Cardinality(Told(kickTxs', s.run, Attempts) \union Ahead(s))
        /\ s.ok <= Cardinality(Told(kickTxs', s.run, {"CONFIRMED"}) \ ToSet(s.group))
        /\ Cardinality(Told(kickTxs', s.run, Errors)) <= s.bad
        /\ s.bad <= Cardinality(Told(kickTxs', s.run, Bads) \ ToSet(s.group))
    BY <1>11, <2>3, <2>4, <2>5, <2>6
  <2>8. s.at # "plan"
    BY <1>11, <1>13
  <2> QED BY <2>7, <2>8 DEF Counted
<1>18. MovesAlone(p, sent', N, unrecorded')
  BY <1>1, <1>2, <1>3, <1>7 DEF MovesAlone, Grows
<1>19. FreshRows(p, sent', N, unrecorded')
  <2>1. sent[k].op = r.op /\ sent[k].group = r.group /\ <<k, h>> \notin unrecorded
    BY <1>1, <1>2, <1>4 DEF Holds, Behind
  <2>2. ASSUME NEW x \in N PROVE RowTrue(x, sent, open, unrecorded)
    <3>1. x.op = sent[x.tx].op /\ x.pair \in ToSet(sent[x.tx].group) /\ x.tx \in DOMAIN sent
          /\ x.status \in OnChain /\ <<x.tx, x.pair>> \notin unrecorded
      BY <1>3, <1>4, <1>7, <2>1 DEF OnChain
    <3> QED BY <1>3, <1>7, <3>1 DEF RowTrue
  <2>3. \A x \in N : x.pair \notin Told(kickTxs, r.run, RowStates)
    BY <1>7, <1>16
  <2>4. \A x, y \in N : x = y
    BY <1>1
  <2> QED BY <1>1, <1>2, <2>2, <2>3, <2>4 DEF FreshRows
<1>20. ASSUME NEW a \in ToSet(proc[p].left)
       PROVE  ToldOf(proc[p].tx, a, sent[proc[p].tx].op, kickTxs', proc', unrecorded')
  <2>1. CASE a = h
    BY <1>1, <1>2, <1>7, <2>1 DEF ToldOf, Holds, Behind
  <2>2. CASE a \in ToSet(rest)
    <3>1. proc'[p] = s
      BY <1>10, EngineFacts
    <3> QED BY <1>1, <1>11, <2>2, <3>1 DEF ToldOf
  <2> QED BY <1>1, <1>4, <1>20, <2>1, <2>2
<1>21. \A n \in DOMAIN sent' \ DOMAIN sent :
          /\ sent'[n].state = "pending"
          /\ \A a \in ToSet(sent'[n].group) : ToldOf(n, a, sent'[n].op, kickTxs', proc', unrecorded')
  BY <1>2
<1>22. /\ sent' \in Seq(EngineTx) /\ N \in SUBSET EngineRow /\ s.run \in {proc[p].run, 0}
       /\ (s.live => proc[p].live /\ lock' = p) /\ (lock' # lock => ~s.live /\ lock = p)
       /\ Holds(s, sent', kickTxs', open, unrecorded') /\ LossesKnown(sent', unrecorded')
  BY <1>1, <1>2, <1>7, <1>11, <1>15
<1> QED BY <1>2, <1>10, <1>11, <1>14, <1>17, <1>18, <1>19, <1>20, <1>21, <1>22, Moved

----------------------------------------------------------------------------
(* The receipt, the start and the end of a run.                            *)

\* What finalize_receipt makes of a row.
FinalRow(r, n) ==
    [r EXCEPT !.status = IF r.tx = n THEN Engine!StatusOf(n) ELSE @,
              !.closed = @ \/ (/\ sent[n].op = "resolve" /\ sent[n].state = "ok"
                               /\ r.op = "kick" /\ r.status = "CONFIRMED"
                               /\ r.pair \in ToSet(sent[n].group) /\ r.tx \in sent[n].after)]

LEMMA FinalRowIs ==
    ASSUME EngineInv, NEW n \in DOMAIN sent, sent[n].state # "pending", NEW r \in kickTxs
    PROVE  /\ FinalRow(r, n) \in EngineRow /\ Retold(r, FinalRow(r, n))
           /\ RowTrue(FinalRow(r, n), sent, open, unrecorded)
           /\ r.tx = n => FinalRow(r, n).status = Engine!StatusOf(n)
<1>1. r \in EngineRow /\ RowTrue(r, sent, open, unrecorded) /\ sent \in Seq(EngineTx) /\ sent[n] \in EngineTx
  BY DEF EngineInv, EngineTypes, RowsTrue
<1>2. PICK status, c, x : /\ status = (IF r.tx = n THEN Engine!StatusOf(n) ELSE r.status)
                          /\ c = (/\ sent[n].op = "resolve" /\ sent[n].state = "ok"
                                  /\ r.op = "kick" /\ r.status = "CONFIRMED"
                                  /\ r.pair \in ToSet(sent[n].group) /\ r.tx \in sent[n].after)
                          /\ x = [r EXCEPT !.status = status, !.closed = @ \/ c]
  OBVIOUS
<1>3. x = FinalRow(r, n)
  BY <1>2 DEF FinalRow
<1>4. /\ Engine!StatusOf(n) \in {"CONFIRMED", "REVERTED"}
      /\ Engine!StatusOf(n) = "CONFIRMED" => sent[n].state = "ok"
      /\ Engine!StatusOf(n) = "REVERTED" => sent[n].state = "reverted"
  BY <1>1 DEF Engine!StatusOf, EngineTx
<1>5. status \in RowStates /\ c \in BOOLEAN /\ r.closed \in BOOLEAN
  BY <1>1, <1>2, <1>4 DEF EngineRow, RowStates, Attempts, Bads
<1>6. /\ x \in EngineRow /\ x.run = r.run /\ x.op = r.op /\ x.pair = r.pair /\ x.tx = r.tx
      /\ x.status = status /\ x.closed = (r.closed \/ c)
  BY <1>1, <1>2, <1>5 DEF EngineRow
<1>7. r.tx = n => /\ r.status \in OnChain /\ r.op = sent[n].op /\ r.tx # 0
                  /\ r.status = "CONFIRMED" => status = "CONFIRMED"
                  /\ r.status = "REVERTED" => status = "REVERTED"
                  /\ status \in OnChain
  <2>1. n # 0
    BY <1>1
  <2>2. r.status = "CONFIRMED" => sent[r.tx].state = "ok"
    BY <1>1 DEF RowTrue
  <2>3. r.status = "REVERTED" => sent[r.tx].state = "reverted"
    BY <1>1 DEF RowTrue
  <2>4. r.tx # 0 => r.status \in OnChain /\ r.op = sent[r.tx].op
    BY <1>1 DEF RowTrue
  <2> QED BY <1>2, <1>4, <2>1, <2>2, <2>3, <2>4 DEF OnChain, Engine!StatusOf
<1>8. Retold(r, x)
  BY <1>2, <1>6, <1>7 DEF Retold, OnChain
<1>9. r.closed => r.op = "kick" /\ status = "CONFIRMED" /\ open[r.pair] # r.tx
  BY <1>1, <1>2, <1>7 DEF RowTrue
<1>10. c => r.op = "kick" /\ status = "CONFIRMED" /\ open[r.pair] # r.tx
  <2> SUFFICES ASSUME c PROVE r.op = "kick" /\ status = "CONFIRMED" /\ open[r.pair] # r.tx
    OBVIOUS
  <2>1. /\ sent[n].op = "resolve" /\ sent[n].state = "ok" /\ r.op = "kick" /\ r.status = "CONFIRMED"
        /\ r.pair \in ToSet(sent[n].group) /\ r.tx \in sent[n].after
    BY <1>2
  <2>2. r.tx # n
    BY <1>7, <2>1
  <2>3. open[r.pair] # r.tx
    BY <2>1 DEF EngineInv, PoolEnds, Ends
  <2> QED BY <1>2, <2>1, <2>2, <2>3
<1>11. RowTrue(x, sent, open, unrecorded)
  <2>1. x.tx # 0 => /\ x.tx \in DOMAIN sent /\ x.op = sent[x.tx].op /\ x.pair \in ToSet(sent[x.tx].group)
                    /\ x.status \in OnChain /\ <<x.tx, x.pair>> \notin unrecorded
    BY <1>1, <1>2, <1>6, <1>7 DEF RowTrue
  <2>2. x.status \in OnChain => x.tx # 0
    BY <1>1, <1>2, <1>6, <1>7 DEF RowTrue
  <2>3. /\ (x.status = "CONFIRMED" => sent[x.tx].state = "ok")
        /\ (x.status = "REVERTED" => sent[x.tx].state = "reverted")
    <3>1. CASE r.tx = n
      BY <1>2, <1>4, <1>6, <3>1
    <3>2. CASE r.tx # n
      BY <1>1, <1>2, <1>6, <3>2 DEF RowTrue
    <3> QED BY <3>1, <3>2
  <2>4. x.closed => x.op = "kick" /\ x.status = "CONFIRMED" /\ open[x.pair] # x.tx
    BY <1>6, <1>9, <1>10
  <2> QED BY <2>1, <2>2, <2>3, <2>4 DEF RowTrue
<1> QED BY <1>2, <1>3, <1>6, <1>8, <1>11

LEMMA FinalisedIs ==
    ASSUME EngineInv, NEW n \in DOMAIN sent, sent[n].state # "pending", kickTxs' = Engine!Finalised(n)
    PROVE  /\ kickTxs' \in SUBSET EngineRow /\ Retelling(kickTxs, kickTxs')
           /\ \A x \in kickTxs' : RowTrue(x, sent, open, unrecorded)
           /\ \A x, y \in kickTxs' : x.run = y.run /\ x.pair = y.pair => x = y
           /\ \A r \in kickTxs : r.tx = n => \E x \in kickTxs' : /\ x.run = r.run /\ x.pair = r.pair
                                                                 /\ x.status = Engine!StatusOf(n)
<1>1. kickTxs' = {FinalRow(r, n) : r \in kickTxs}
  BY EngineLists DEF Engine!Finalised, FinalRow
<1>2. ASSUME NEW r \in kickTxs
      PROVE  /\ FinalRow(r, n) \in kickTxs' /\ FinalRow(r, n) \in EngineRow /\ Retold(r, FinalRow(r, n))
             /\ RowTrue(FinalRow(r, n), sent, open, unrecorded)
             /\ r.tx = n => FinalRow(r, n).status = Engine!StatusOf(n)
  <2>1. FinalRow(r, n) \in kickTxs'
    BY <1>1
  <2> QED BY <2>1, FinalRowIs
<1>3. \A x \in kickTxs' : \E r \in kickTxs : x = FinalRow(r, n)
  BY <1>1
<1>4. /\ kickTxs' \in SUBSET EngineRow /\ Retelling(kickTxs, kickTxs')
      /\ \A x \in kickTxs' : RowTrue(x, sent, open, unrecorded)
  BY <1>2, <1>3 DEF Retelling
<1>5. ASSUME NEW x \in kickTxs', NEW y \in kickTxs', x.run = y.run, x.pair = y.pair
      PROVE  x = y
  <2>1. PICK r \in kickTxs, s \in kickTxs : x = FinalRow(r, n) /\ y = FinalRow(s, n)
    BY <1>3
  <2>2. r.run = s.run /\ r.pair = s.pair
    BY <1>2, <1>5, <2>1 DEF Retold
  <2>3. r = s
    BY <2>2 DEF EngineInv, RowsTrue
  <2> QED BY <2>1, <2>3
<1>6. ASSUME NEW r \in kickTxs, r.tx = n
      PROVE  \E x \in kickTxs' : x.run = r.run /\ x.pair = r.pair /\ x.status = Engine!StatusOf(n)
  BY <1>2, <1>6 DEF Retold
<1> QED BY <1>4, <1>5, <1>6

\* A batch whose rows all tell of the same outcome adds its length to that count.
LEMMA BatchCounts ==
    ASSUME EngineAssumption, NEW g \in Seq(Traded), Distinct(g),
           NEW A \in SUBSET Traded, ToSet(g) \subseteq A, NEW c \in Nat,
           c <= Cardinality(A \ ToSet(g))
    PROVE  c + Len(g) <= Cardinality(A)
<1>1. Cardinality(ToSet(g)) = Len(g) /\ Len(g) \in Nat /\ ToSet(g) \in SUBSET Traded
  BY DistinctCount
<1>2. (A \ ToSet(g)) \intersect ToSet(g) = {} /\ (A \ ToSet(g)) \union ToSet(g) = A
  OBVIOUS
<1>3. Cardinality((A \ ToSet(g)) \union ToSet(g)) = Cardinality(A \ ToSet(g)) + Cardinality(ToSet(g))
  BY <1>1, <1>2, DisjointSets
<1>4. Cardinality(A) = Cardinality(A \ ToSet(g)) + Len(g)
  BY <1>1, <1>2, <1>3
<1>5. Cardinality(A \ ToSet(g)) \in Nat
  BY SetsOfPairs
<1>6. c \in Nat /\ c <= Cardinality(A \ ToSet(g)) /\ Len(g) \in Nat
  BY <1>1
<1> QED BY ONLY <1>4, <1>5, <1>6

\* A batch is counted once its rows tell of its outcome.
GoesOn(r, s, R) == /\ s \in EngineProc /\ Shaped(s) /\ Counted(s, R)
                   /\ s.at = "next" /\ s.todo = r.todo /\ s.left = <<>> /\ s.run = r.run /\ s.live = r.live

LEMMA OutcomeCounted ==
    ASSUME EngineAssumption, NEW r \in EngineProc, Shaped(r), r.at = "wait", NEW R, Counted(r, R), NEW s,
           \/ /\ s = [Engine!Onward(r) EXCEPT !.ok = @ + Len(r.group)]
              /\ ToSet(r.group) \subseteq Told(R, r.run, {"CONFIRMED"})
           \/ /\ s = [Engine!Onward(r) EXCEPT !.bad = @ + Len(r.group)]
              /\ ToSet(r.group) \subseteq Told(R, r.run, Bads)
    PROVE  GoesOn(r, s, R)
<1>1. PICK o, l : o = Engine!Onward(r) /\ l = Len(r.group)
  OBVIOUS
<1>2. /\ o \in EngineProc /\ o.at = "next" /\ o.todo = r.todo /\ o.group = <<>> /\ o.left = <<>> /\ o.tx = 0
      /\ o.run = r.run /\ o.live = r.live /\ o.ok = r.ok /\ o.bad = r.bad /\ o.attempted = r.attempted
  BY <1>1, OnwardIs
<1>3. /\ r.group \in Seq(Traded) /\ Distinct(r.group) /\ l \in Nat /\ r.left = <<>> /\ r.run # 0
      /\ ListTrue(r.todo) /\ ToSet(r.left) = {} /\ r.ok \in Nat /\ r.bad \in Nat
      /\ r.ok + l \in Nat /\ r.bad + l \in Nat
  BY <1>1, ToSetShort DEF Shaped, Behind, EngineProc
<1>4. PICK c, b : c = Told(R, r.run, {"CONFIRMED"}) /\ b = Told(R, r.run, Bads)
  OBVIOUS
<1>5. /\ Told(R, r.run, RowStates) \intersect Ahead(r) = {}
      /\ r.attempted = Cardinality(Told(R, r.run, Attempts) \union Ahead(r))
      /\ r.ok <= Cardinality(c \ ToSet(r.group))
      /\ Cardinality(Told(R, r.run, Errors)) <= r.bad
      /\ r.bad <= Cardinality(b \ ToSet(r.group))
  BY <1>4 DEF Counted
<1>6. /\ c \in SUBSET Traded /\ b \in SUBSET Traded
      /\ Cardinality(Told(R, r.run, Errors)) \in Nat
  BY <1>4, ToldAre
<1>7. /\ Cardinality(c) \in Nat /\ Cardinality(c \ ToSet(r.group)) \in Nat
      /\ Cardinality(c \ ToSet(r.group)) <= Cardinality(c)
      /\ Cardinality(b) \in Nat /\ Cardinality(b \ ToSet(r.group)) \in Nat
      /\ Cardinality(b \ ToSet(r.group)) <= Cardinality(b)
  <2>1. c \ ToSet(r.group) \in SUBSET c /\ b \ ToSet(r.group) \in SUBSET b
    OBVIOUS
  <2> QED BY <1>6, <2>1, SetsOfPairs
<1>8. /\ s \in EngineProc /\ s.at = "next" /\ s.todo = r.todo /\ s.group = <<>> /\ s.left = <<>> /\ s.tx = 0
      /\ s.run = r.run /\ s.live = r.live /\ s.attempted = r.attempted
      /\ \/ s.ok = r.ok + l /\ s.bad = r.bad /\ ToSet(r.group) \subseteq c
         \/ s.ok = r.ok /\ s.bad = r.bad + l /\ ToSet(r.group) \subseteq b
  <2>1. CASE s = [o EXCEPT !.ok = @ + l] /\ ToSet(r.group) \subseteq c
    <3>1. s = [o EXCEPT !.ok = r.ok + l]
      BY <1>2, <2>1
    <3> QED BY <1>2, <1>3, <2>1, <3>1 DEF EngineProc
  <2>2. CASE s = [o EXCEPT !.bad = @ + l] /\ ToSet(r.group) \subseteq b
    <3>1. s = [o EXCEPT !.bad = r.bad + l]
      BY <1>2, <2>2
    <3> QED BY <1>2, <1>3, <2>2, <3>1 DEF EngineProc
  <2> QED BY <1>1, <1>4, <2>1, <2>2
<1>9. ToSet(s.group) = {} /\ ToSet(s.left) = {}
  BY <1>8, ToSetShort
<1>10. Shaped(s)
  BY <1>3, <1>8, <1>9 DEF Shaped, Before, Behind
<1>11. Ahead(s) = Ahead(r)
  BY <1>3, <1>8, <1>9 DEF Ahead, Before
<1>12. s.ok <= Cardinality(c) /\ Cardinality(Told(R, r.run, Errors)) <= s.bad /\ s.bad <= Cardinality(b)
  <2>1. ToSet(r.group) \subseteq c => r.ok + l <= Cardinality(c)
    BY <1>1, <1>3, <1>5, <1>6, BatchCounts
  <2>2. ToSet(r.group) \subseteq b => r.bad + l <= Cardinality(b)
    BY <1>1, <1>3, <1>5, <1>6, BatchCounts
  <2>3. r.ok <= Cardinality(c) /\ r.bad <= Cardinality(b)
    BY ONLY <1>3, <1>5, <1>7
  <2>4. Cardinality(Told(R, r.run, Errors)) <= r.bad + l
    BY ONLY <1>3, <1>5, <1>6
  <2> QED BY <1>5, <1>8, <2>1, <2>2, <2>3, <2>4
<1>13. /\ Told(R, s.run, RowStates) \intersect Ahead(s) = {}
       /\ s.attempted = Cardinality(Told(R, s.run, Attempts) \union Ahead(s))
       /\ s.ok <= Cardinality(Told(R, s.run, {"CONFIRMED"}) \ ToSet(s.group))
       /\ Cardinality(Told(R, s.run, Errors)) <= s.bad
       /\ s.bad <= Cardinality(Told(R, s.run, Bads) \ ToSet(s.group))
  <2>1. c \ ToSet(s.group) = c /\ b \ ToSet(s.group) = b
    BY <1>9
  <2> QED BY <1>4, <1>5, <1>8, <1>11, <1>12, <2>1
<1>14. Counted(s, R)
  BY <1>8, <1>13 DEF Counted
<1> QED BY <1>8, <1>10, <1>14 DEF GoesOn

LEMMA AwaitKeepsEngine ==
    ASSUME EngineAssumption, EngineInv, NEW p \in Procs, Engine!Await(p)
    PROVE  EngineInv'
<1>1. PICK r, n, G, s : /\ r = proc[p] /\ n = r.tx /\ G = ToSet(r.group)
                        /\ s = (IF sent[n].state = "ok" THEN [Engine!Onward(r) EXCEPT !.ok = @ + Len(r.group)]
                                ELSE [Engine!Onward(r) EXCEPT !.bad = @ + Len(r.group)])
  OBVIOUS
<1>2. /\ r \in EngineProc /\ Shaped(r) /\ Holds(r, sent, kickTxs, open, unrecorded) /\ Counted(r, kickTxs)
      /\ r.at = "wait" /\ sent[n].state # "pending" /\ kickTxs' = Engine!Finalised(n)
      /\ proc \in [Procs -> EngineProc]
      /\ UNCHANGED <<lots, open, sent, txnRuns, lock, unrecorded>> /\ sent \in Seq(EngineTx)
      /\ proc' = [proc EXCEPT ![p] = s] /\ kickTxs \in SUBSET EngineRow /\ txnRuns \in Seq(RunRow)
  BY <1>1, EngineFacts DEF Engine!Await, Engine!At, Engine!Become, Engine!chainVars
<1>3. n \in DOMAIN sent /\ r.left = <<>> /\ ToSet(r.left) = {}
  BY <1>1, <1>2, ToSetShort DEF Holds, Behind, Shaped
<1>4. /\ kickTxs' \in SUBSET EngineRow /\ Retelling(kickTxs, kickTxs')
      /\ \A x \in kickTxs' : RowTrue(x, sent, open, unrecorded)
      /\ \A x, y \in kickTxs' : x.run = y.run /\ x.pair = y.pair => x = y
      /\ \A x \in kickTxs : x.tx = n => \E y \in kickTxs' : /\ y.run = x.run /\ y.pair = x.pair
                                                            /\ y.status = Engine!StatusOf(n)
  BY <1>2, <1>3, FinalisedIs
<1>5. /\ RowsTrue' /\ PoolEnds'
      /\ \A q \in Procs : Holds(proc[q], sent, kickTxs', open, unrecorded) /\ Counted(proc[q], kickTxs')
      /\ \A m \in DOMAIN txnRuns : txnRuns[m].status # "RUNNING" => Totalled(m, txnRuns[m], kickTxs')
      /\ \A x \in kickTxs' : x.run <= Len(txnRuns)
      /\ \A m, b, op : (\E x \in kickTxs : x.tx = m /\ x.pair = b /\ x.op = op)
                          => \E x \in kickTxs' : x.tx = m /\ x.pair = b /\ x.op = op
  BY <1>2, <1>4, RowsToldAgain
<1>6. ASSUME NEW a \in G
      PROVE  \E y \in kickTxs' : y.run = r.run /\ y.pair = a /\ y.status = Engine!StatusOf(n)
  <2>1. PICK x \in kickTxs : x.tx = n /\ x.pair = a /\ x.run = r.run
    BY <1>1, <1>2, <1>3 DEF Holds, Behind
  <2> QED BY <1>4, <2>1
<1>7. G \subseteq Traded
  BY <1>1, <1>2, ToSetType DEF EngineProc
<1>8. PICK R : R = kickTxs'
  OBVIOUS
<1>9. /\ Counted(r, R)
      /\ \A a \in G : \E y \in R : y.run = r.run /\ y.pair = a /\ y.status = Engine!StatusOf(n)
  BY <1>1, <1>5, <1>6, <1>8
<1>10. /\ s \in EngineProc /\ Shaped(s) /\ Counted(s, R)
       /\ s.at = "next" /\ s.todo = r.todo /\ s.left = <<>> /\ s.run = r.run /\ s.live = r.live
  <2> SUFFICES GoesOn(r, s, R)
    BY DEF GoesOn
  <2>1. CASE sent[n].state = "ok"
    <3>1. Engine!StatusOf(n) = "CONFIRMED" /\ s = [Engine!Onward(r) EXCEPT !.ok = @ + Len(r.group)]
      BY <1>1, <2>1 DEF Engine!StatusOf
    <3>2. G \subseteq Told(R, r.run, {"CONFIRMED"})
      BY <1>7, <1>9, <3>1 DEF Told
    <3>3. ToSet(r.group) \subseteq Told(R, r.run, {"CONFIRMED"})
      BY <1>1, <3>2
    <3> QED BY <1>2, <1>9, <3>1, <3>3, OutcomeCounted
  <2>2. CASE sent[n].state # "ok"
    <3>1. /\ Engine!StatusOf(n) = "REVERTED" /\ s = [Engine!Onward(r) EXCEPT !.bad = @ + Len(r.group)]
          /\ "REVERTED" \in Bads
      BY <1>1, <2>2 DEF Engine!StatusOf, Bads
    <3>2. G \subseteq Told(R, r.run, Bads)
      BY <1>7, <1>9, <3>1 DEF Told
    <3>3. ToSet(r.group) \subseteq Told(R, r.run, Bads)
      BY <1>1, <3>2
    <3> QED BY <1>2, <1>9, <3>1, <3>3, OutcomeCounted
  <2> QED BY <2>1, <2>2
<1>11. Holds(s, sent, kickTxs', open, unrecorded)
  BY <1>2, <1>10 DEF Holds, Before, Behind
<1>12. /\ proc' \in [Procs -> EngineProc] /\ proc'[p] = s /\ \A q \in Procs : q # p => proc'[q] = proc[q]
  BY <1>2, <1>10
<1>13. EngineTypes'
  BY <1>2, <1>4, <1>12 DEF EngineInv, EngineTypes
<1>14. \A q \in Procs : proc'[q].run = proc[q].run /\ proc'[q].live = proc[q].live
                        /\ (proc[q].left # <<>> => proc'[q] = proc[q])
  BY <1>1, <1>3, <1>10, <1>12
<1>15. LockTrue'
  <2>1. LockTrue /\ lock' = lock /\ txnRuns' = txnRuns
    BY <1>2 DEF EngineInv
  <2> QED BY <1>5, <1>14, <2>1 DEF LockTrue
<1>16. ProcsTrue'
  <2> SUFFICES ASSUME NEW q \in Procs
               PROVE  /\ Shaped(proc'[q]) /\ Holds(proc'[q], sent', kickTxs', open, unrecorded')
                      /\ Counted(proc'[q], kickTxs')
    BY <1>2 DEF ProcsTrue
  <2>1. CASE q = p
    BY <1>2, <1>8, <1>10, <1>11, <1>12, <2>1
  <2>2. CASE q # p
    BY <1>2, <1>5, <1>12, <2>2, EngineFacts
  <2> QED BY <2>1, <2>2
<1>17. RunsTrue'
  <2>1. RunsTrue /\ txnRuns' = txnRuns
    BY <1>2 DEF EngineInv
  <2> QED BY <1>5, <1>14, <2>1 DEF RunsTrue
<1>18. BatchesTold'
  <2> SUFFICES ASSUME NEW m \in DOMAIN sent, NEW b \in ToSet(sent[m].group)
               PROVE  ToldOf(m, b, sent[m].op, kickTxs', proc', unrecorded)
    BY <1>2 DEF BatchesTold
  <2>1. ToldOf(m, b, sent[m].op, kickTxs, proc, unrecorded)
    BY DEF EngineInv, BatchesTold
  <2>2. ASSUME NEW q \in Procs, proc[q].tx = m, b \in ToSet(proc[q].left)
        PROVE  proc'[q].tx = m /\ b \in ToSet(proc'[q].left)
    <3>1. proc[q].left # <<>>
      BY <2>2, ToSetShort
    <3> QED BY <1>14, <2>2, <3>1
  <2> QED BY <1>5, <2>1, <2>2 DEF ToldOf
<1>19. LossesKnown(sent', unrecorded')
  BY <1>2 DEF EngineInv
<1> QED BY <1>5, <1>13, <1>15, <1>16, <1>17, <1>18, <1>19 DEF EngineInv

LEMMA StartKeepsEngine ==
    ASSUME EngineAssumption, EngineInv, NEW p \in Procs, Engine!Start(p)
    PROVE  EngineInv'
<1>1. PICK live \in BOOLEAN, batch \in BOOLEAN :
        /\ live => Engine!LockFree
        /\ lock' = IF live THEN p ELSE lock
        /\ Engine!Become(p, [Engine!Idle EXCEPT !.at = "plan", !.run = Len(txnRuns) + 1, !.live = live, !.batch = batch])
        /\ txnRuns' = Append(txnRuns, [status |-> "RUNNING", live |-> live, attempted |-> 0, ok |-> 0, bad |-> 0])
  BY DEF Engine!Start
<1>2. PICK r, n, t, s : /\ r = proc[p] /\ n = Len(txnRuns) + 1
                        /\ t = [status |-> "RUNNING", live |-> live, attempted |-> 0, ok |-> 0, bad |-> 0]
                        /\ s = [Engine!Idle EXCEPT !.at = "plan", !.run = n, !.live = live, !.batch = batch]
  OBVIOUS
<1>3. /\ r \in EngineProc /\ Shaped(r) /\ r.at = "idle" /\ proc \in [Procs -> EngineProc]
      /\ txnRuns \in Seq(RunRow) /\ UNCHANGED <<lots, open, sent, kickTxs, unrecorded>>
      /\ proc' = [proc EXCEPT ![p] = s] /\ txnRuns' = Append(txnRuns, t)
  BY <1>1, <1>2, EngineFacts DEF Engine!Start, Engine!At, Engine!Become, Engine!chainVars
<1>4. t \in RunRow /\ t.status = "RUNNING"
  BY <1>2 DEF RunRow
<1>5. /\ txnRuns' \in Seq(RunRow) /\ n \in Nat /\ n # 0 /\ Len(txnRuns') = n /\ Len(txnRuns) < n
      /\ Len(txnRuns) \in Nat
      /\ DOMAIN txnRuns' = DOMAIN txnRuns \union {n} /\ n \notin DOMAIN txnRuns
      /\ txnRuns'[n] = t /\ \A m \in DOMAIN txnRuns : txnRuns'[m] = txnRuns[m]
  BY <1>2, <1>3, <1>4
<1>6. /\ s \in EngineProc /\ s.at = "plan" /\ s.run = n /\ s.live = live /\ s.todo = <<>> /\ s.group = <<>>
      /\ s.left = <<>> /\ s.ok = 0 /\ s.bad = 0
  <2>1. /\ Engine!Idle \in EngineProc /\ Engine!Idle.todo = <<>> /\ Engine!Idle.group = <<>>
        /\ Engine!Idle.left = <<>>
        /\ Engine!Idle.ok = 0 /\ Engine!Idle.bad = 0
    BY IdleIs DEF Engine!Idle
  <2> QED BY <1>2, <1>5, <2>1 DEF EngineProc, EnginePlaces
<1>7. Shaped(s)
  <2>1. ListTrue(<<>>) /\ Covers(<<>>) = {} /\ ToSet(<<>>) = {}
    BY EmptyList, ToSetShort
  <2> QED BY <1>5, <1>6, <2>1 DEF Shaped, Before, Behind
<1>8. Holds(s, sent, kickTxs, open, unrecorded)
  <2>1. Kicked(s.todo) = {}
    BY <1>6, EmptyList
  <2> QED BY <1>6, <2>1 DEF Holds, Before, Behind
<1>9. Counted(s, kickTxs)
  <2>1. \A x \in kickTxs : x.run # n
    <3>1. \A x \in kickTxs : x.run <= Len(txnRuns) /\ x.run \in Nat
      BY DEF EngineInv, LockTrue, EngineTypes, EngineRow
    <3> QED BY <1>5, <3>1
  <2>2. Told(kickTxs, s.run, RowStates) = {}
    BY <1>6, <2>1 DEF Told
  <2> QED BY <1>6, <2>2 DEF Counted
<1>10. /\ proc' \in [Procs -> EngineProc] /\ proc'[p] = s /\ \A q \in Procs : q # p => proc'[q] = proc[q]
  BY <1>3, <1>6
<1>11. EngineTypes'
  BY <1>3, <1>5, <1>10 DEF EngineInv, EngineTypes
<1>12. RowsTrue' /\ PoolEnds' /\ LossesKnown(sent', unrecorded')
  BY <1>3 DEF EngineInv, RowsTrue, PoolEnds
<1>13. LockTrue'
  <2>1. \A q \in Procs : proc[q].run \in Nat /\ proc[q].run <= Len(txnRuns)
    BY <1>3 DEF EngineInv, LockTrue, EngineProc
  <2>2. \A q \in Procs : proc'[q].live => lock' = q
    <3> SUFFICES ASSUME NEW q \in Procs, proc'[q].live PROVE lock' = q
      OBVIOUS
    <3>1. CASE q = p
      BY <1>1, <1>6, <1>10, <3>1
    <3>2. CASE q # p
      <4>1. lock = q /\ lock # None
        BY <1>10, <3>2 DEF EngineInv, LockTrue, EngineAssumption
      <4> QED BY <1>1, <4>1 DEF Engine!LockFree
    <3> QED BY <3>1, <3>2
  <2>3. \A q \in Procs : proc'[q].run <= Len(txnRuns')
    <3> SUFFICES ASSUME NEW q \in Procs PROVE proc'[q].run <= n
      BY <1>5
    <3>1. CASE q = p
      BY <1>5, <1>6, <1>10, <3>1
    <3>2. CASE q # p
      BY <1>5, <1>10, <2>1, <3>2
    <3> QED BY <3>1, <3>2
  <2>4. \A q \in Procs : q # p => proc'[q].run # n
    BY <1>5, <1>10, <2>1
  <2>5. \A q, o \in Procs : proc'[q].run = proc'[o].run /\ proc'[q].run # 0 => q = o
    <3>1. \A q, o \in Procs : proc[q].run = proc[o].run /\ proc[q].run # 0 => q = o
      BY DEF EngineInv, LockTrue
    <3> QED BY <1>6, <1>10, <2>4, <3>1
  <2>6. \A x \in kickTxs' : x.run <= Len(txnRuns')
    <3>1. \A x \in kickTxs : x.run <= Len(txnRuns) /\ x.run \in Nat
      BY DEF EngineInv, LockTrue, EngineTypes, EngineRow
    <3> QED BY <1>3, <1>5, <3>1
  <2> QED BY <2>2, <2>3, <2>5, <2>6 DEF LockTrue
<1>14. ProcsTrue'
  <2> SUFFICES ASSUME NEW q \in Procs
               PROVE  /\ Shaped(proc'[q]) /\ Holds(proc'[q], sent, kickTxs, open, unrecorded)
                      /\ Counted(proc'[q], kickTxs)
    BY <1>3 DEF ProcsTrue
  <2>1. CASE q = p
    BY <1>7, <1>8, <1>9, <1>10, <2>1
  <2>2. CASE q # p
    BY <1>10, <2>2, EngineFacts
  <2> QED BY <2>1, <2>2
<1>15. RunsTrue'
  <2> SUFFICES ASSUME NEW m \in DOMAIN txnRuns', txnRuns'[m].status # "RUNNING"
               PROVE  (\A q \in Procs : proc'[q].run # m) /\ Totalled(m, txnRuns'[m], kickTxs)
    BY <1>3 DEF RunsTrue
  <2>1. m \in DOMAIN txnRuns /\ txnRuns'[m] = txnRuns[m] /\ m # n
    BY <1>4, <1>5
  <2> QED BY <1>6, <1>10, <2>1 DEF EngineInv, RunsTrue
<1>16. BatchesTold'
  <2> SUFFICES ASSUME NEW m \in DOMAIN sent, NEW b \in ToSet(sent[m].group)
               PROVE  ToldOf(m, b, sent[m].op, kickTxs, proc', unrecorded)
    BY <1>3 DEF BatchesTold
  <2>1. ToldOf(m, b, sent[m].op, kickTxs, proc, unrecorded)
    BY DEF EngineInv, BatchesTold
  <2>2. ASSUME NEW q \in Procs, proc[q].tx = m, b \in ToSet(proc[q].left)
        PROVE  proc'[q].tx = m /\ b \in ToSet(proc'[q].left)
    <3>1. proc[q].left # <<>>
      BY <2>2, ToSetShort
    <3>2. q # p
      BY <1>2, <1>3, <3>1 DEF Shaped
    <3> QED BY <1>10, <2>2, <3>2
  <2> QED BY <2>1, <2>2 DEF ToldOf
<1> QED BY <1>11, <1>12, <1>13, <1>14, <1>15, <1>16 DEF EngineInv

LEMMA FinishKeepsEngine ==
    ASSUME EngineAssumption, EngineInv, NEW p \in Procs, Engine!Finish(p)
    PROVE  EngineInv'
<1>1. PICK r, n, t, s : /\ r = proc[p] /\ n = r.run /\ s = Engine!Idle
                        /\ t = [status |-> Engine!RunStatus(r), live |-> r.live,
                                attempted |-> r.attempted, ok |-> r.ok, bad |-> r.bad]
  OBVIOUS
<1>2. /\ r \in EngineProc /\ Shaped(r) /\ Counted(r, kickTxs) /\ r.at = "next" /\ r.todo = <<>>
      /\ proc \in [Procs -> EngineProc] /\ txnRuns \in Seq(RunRow)
      /\ UNCHANGED <<lots, open, sent, kickTxs, unrecorded>>
      /\ proc' = [proc EXCEPT ![p] = s] /\ txnRuns' = [txnRuns EXCEPT ![n] = t]
      /\ lock' = (IF lock = p THEN None ELSE lock)
  BY <1>1, EngineFacts DEF Engine!Finish, Engine!At, Engine!Become, Engine!Released, Engine!chainVars
<1>3. /\ t \in RunRow /\ t.attempted = r.attempted /\ t.ok = r.ok /\ t.bad = r.bad
  <2>1. Engine!RunStatus(r) \in {"RUNNING", "DRY_RUN", "FAILED", "PARTIAL_SUCCESS", "SUCCESS"}
    BY DEF Engine!RunStatus
  <2> QED BY <1>1, <1>2, <2>1 DEF RunRow, EngineProc
<1>4. n \in DOMAIN txnRuns
  <2>1. n # 0 /\ n \in Nat /\ n <= Len(txnRuns) /\ Len(txnRuns) \in Nat /\ DOMAIN txnRuns = 1 .. Len(txnRuns)
    BY <1>1, <1>2 DEF Shaped, EngineInv, LockTrue, EngineProc
  <2> QED BY ONLY <2>1
<1>5. /\ txnRuns' \in Seq(RunRow) /\ Len(txnRuns') = Len(txnRuns) /\ DOMAIN txnRuns' = DOMAIN txnRuns
      /\ txnRuns'[n] = t
      /\ \A m \in DOMAIN txnRuns : m # n => txnRuns'[m] = txnRuns[m]
      /\ \A m \in DOMAIN txnRuns : m # 0
  BY <1>2, <1>3, <1>4
<1>6. s \in EngineProc /\ Shaped(s) /\ s.run = 0 /\ ~s.live /\ s.left = <<>>
      /\ Holds(s, sent, kickTxs, open, unrecorded) /\ Counted(s, kickTxs)
  BY <1>1, IdleIs
<1>7. Totalled(n, t, kickTxs)
  <2>1. r.group = <<>> /\ r.left = <<>> /\ Covers(r.todo) = {} /\ ToSet(r.group) = {} /\ ToSet(r.left) = {}
    BY <1>2, EmptyList, ToSetShort DEF Shaped
  <2>2. Ahead(r) = {}
    BY <1>2, <2>1 DEF Ahead, Before
  <2>3. /\ r.attempted = Cardinality(Told(kickTxs, n, Attempts) \union {})
        /\ r.ok <= Cardinality(Told(kickTxs, n, {"CONFIRMED"}) \ {})
        /\ Cardinality(Told(kickTxs, n, Errors)) <= r.bad
        /\ r.bad <= Cardinality(Told(kickTxs, n, Bads) \ {})
    BY <1>1, <1>2, <2>1, <2>2 DEF Counted
  <2>4. /\ Told(kickTxs, n, Attempts) \union {} = Told(kickTxs, n, Attempts)
        /\ Told(kickTxs, n, {"CONFIRMED"}) \ {} = Told(kickTxs, n, {"CONFIRMED"})
        /\ Told(kickTxs, n, Bads) \ {} = Told(kickTxs, n, Bads)
    OBVIOUS
  <2> QED BY <1>3, <2>3, <2>4 DEF Totalled
<1>8. /\ proc' \in [Procs -> EngineProc] /\ proc'[p] = s /\ \A q \in Procs : q # p => proc'[q] = proc[q]
  BY <1>2, <1>6
<1>9. EngineTypes'
  BY <1>2, <1>5, <1>8 DEF EngineInv, EngineTypes
<1>10. RowsTrue' /\ PoolEnds' /\ LossesKnown(sent', unrecorded')
  BY <1>2 DEF EngineInv, RowsTrue, PoolEnds
<1>11. LockTrue'
  <2>1. \A q \in Procs : proc[q].run <= Len(txnRuns)
    BY DEF EngineInv, LockTrue
  <2>2. \A q \in Procs : proc'[q].live => lock' = q
    <3> SUFFICES ASSUME NEW q \in Procs, proc'[q].live PROVE lock' = q
      OBVIOUS
    <3>1. q # p
      BY <1>6, <1>8
    <3>2. lock = q
      BY <1>8, <3>1 DEF EngineInv, LockTrue
    <3> QED BY <1>2, <3>1, <3>2
  <2>3. \A q \in Procs : proc'[q].run <= Len(txnRuns')
    <3>1. s.run <= Len(txnRuns)
      <4>1. Len(txnRuns) \in Nat
        BY <1>2
      <4> QED BY <1>6, <4>1
    <3> QED BY <1>5, <1>8, <2>1, <3>1
  <2>4. \A q, o \in Procs : proc'[q].run = proc'[o].run /\ proc'[q].run # 0 => q = o
    <3>1. \A q, o \in Procs : proc[q].run = proc[o].run /\ proc[q].run # 0 => q = o
      BY DEF EngineInv, LockTrue
    <3> QED BY <1>6, <1>8, <3>1
  <2>5. \A x \in kickTxs' : x.run <= Len(txnRuns')
    BY <1>2, <1>5 DEF EngineInv, LockTrue
  <2> QED BY <2>2, <2>3, <2>4, <2>5 DEF LockTrue
<1>12. ProcsTrue'
  <2> SUFFICES ASSUME NEW q \in Procs
               PROVE  /\ Shaped(proc'[q]) /\ Holds(proc'[q], sent, kickTxs, open, unrecorded)
                      /\ Counted(proc'[q], kickTxs)
    BY <1>2 DEF ProcsTrue
  <2>1. CASE q = p
    BY <1>6, <1>8, <2>1
  <2>2. CASE q # p
    BY <1>8, <2>2, EngineFacts
  <2> QED BY <2>1, <2>2
<1>13. RunsTrue'
  <2> SUFFICES ASSUME NEW m \in DOMAIN txnRuns, txnRuns'[m].status # "RUNNING"
               PROVE  (\A q \in Procs : proc'[q].run # m) /\ Totalled(m, txnRuns'[m], kickTxs)
    BY <1>2, <1>5 DEF RunsTrue
  <2>1. CASE m = n
    <3>1. n # 0
      BY <1>4, <1>5
    <3>2. \A q \in Procs : q # p => proc[q].run # n
      BY <1>1, <3>1 DEF EngineInv, LockTrue
    <3> QED BY <1>5, <1>6, <1>7, <1>8, <2>1, <3>1, <3>2
  <2>2. CASE m # n
    <3>1. txnRuns'[m] = txnRuns[m] /\ m # 0
      BY <1>5, <2>2
    <3> QED BY <1>6, <1>8, <3>1 DEF EngineInv, RunsTrue
  <2> QED BY <2>1, <2>2
<1>14. BatchesTold'
  <2> SUFFICES ASSUME NEW m \in DOMAIN sent, NEW b \in ToSet(sent[m].group)
               PROVE  ToldOf(m, b, sent[m].op, kickTxs, proc', unrecorded)
    BY <1>2 DEF BatchesTold
  <2>1. ToldOf(m, b, sent[m].op, kickTxs, proc, unrecorded)
    BY DEF EngineInv, BatchesTold
  <2>2. ASSUME NEW q \in Procs, proc[q].tx = m, b \in ToSet(proc[q].left)
        PROVE  proc'[q].tx = m /\ b \in ToSet(proc'[q].left)
    <3>1. proc[q].left # <<>>
      BY <2>2, ToSetShort
    <3>2. q # p
      BY <1>1, <1>2, <3>1 DEF Shaped
    <3> QED BY <1>8, <2>2, <3>2
  <2> QED BY <2>1, <2>2 DEF ToldOf
<1> QED BY <1>9, <1>10, <1>11, <1>12, <1>13, <1>14 DEF EngineInv

LEMMA InitHoldsEngine ==
    ASSUME EngineAssumption, Engine!Init
    PROVE  EngineInv
<1>1. /\ lots = [a \in Traded |-> "clean"] /\ open = [a \in Traded |-> 0]
      /\ sent = <<>> /\ kickTxs = {} /\ txnRuns = <<>> /\ unrecorded = {}
      /\ proc = [p \in Procs |-> Engine!Idle]
  BY DEF Engine!Init
<1>2. /\ Engine!Idle \in EngineProc /\ Shaped(Engine!Idle) /\ Engine!Idle.run = 0 /\ ~Engine!Idle.live
      /\ Holds(Engine!Idle, sent, kickTxs, open, unrecorded) /\ Counted(Engine!Idle, kickTxs)
  BY IdleIs
<1>3. /\ sent \in Seq(EngineTx) /\ txnRuns \in Seq(RunRow) /\ DOMAIN sent = {} /\ DOMAIN txnRuns = {}
      /\ Len(txnRuns) = 0
  BY <1>1
<1>4. EngineTypes
  BY <1>1, <1>2, <1>3 DEF EngineTypes
<1>5. RowsTrue /\ PoolEnds /\ LossesKnown(sent, unrecorded) /\ RunsTrue /\ BatchesTold
  BY <1>1, <1>3 DEF RowsTrue, PoolEnds, LossesKnown, RunsTrue, BatchesTold
<1>6. \A p \in Procs : proc[p] = Engine!Idle
  BY <1>1
<1>7. LockTrue
  BY <1>1, <1>2, <1>3, <1>6 DEF LockTrue
<1>8. ProcsTrue
  BY <1>2, <1>6 DEF ProcsTrue
<1> QED BY <1>4, <1>5, <1>7, <1>8 DEF EngineInv

LEMMA StepKeepsEngine ==
    ASSUME EngineAssumption, EngineInv, Engine!Next
    PROVE  EngineInv'
<1>1. ASSUME NEW p \in Procs, Engine!CheckKick(p) PROVE EngineInv'
  <2>1. /\ proc[p].at \in Before /\ "confirm" \in Before
        /\ Engine!Become(p, [proc[p] EXCEPT !.at = "confirm"])
        /\ UNCHANGED <<Engine!chainVars, sent, kickTxs, txnRuns, lock, unrecorded>>
    BY <1>1 DEF Engine!CheckKick, Engine!At, Before
  <2> QED BY <2>1, PassedKeepsEngine
<1>2. ASSUME NEW p \in Procs, Engine!Confirm(p) PROVE EngineInv'
  <2>1. /\ proc[p].at \in Before /\ "send" \in Before
        /\ Engine!Become(p, [proc[p] EXCEPT !.at = "send"])
        /\ UNCHANGED <<Engine!chainVars, sent, kickTxs, txnRuns, lock, unrecorded>>
    BY <1>2 DEF Engine!Confirm, Engine!At, Before
  <2> QED BY <2>1, PassedKeepsEngine
<1>3. ASSUME NEW p \in Procs, Engine!Step(p) PROVE EngineInv'
  BY <1>1, <1>2, <1>3, StartKeepsEngine, PlanKeepsEngine, TakeKeepsEngine, DryRowKeepsEngine,
     SplitKeepsEngine, CheckResolveKeepsEngine, DeclineKeepsEngine, SendKeepsEngine,
     SendFailsKeepsEngine, InsertKeepsEngine, AwaitKeepsEngine, GiveUpKeepsEngine,
     FinishKeepsEngine, DieKeepsEngine DEF Engine!Step
<1>4. ASSUME NEW a \in Traded, Engine!Repair(a) \/ Engine!Elsewhere(a) PROVE EngineInv'
  BY <1>4, RepairKeepsEngine, ElsewhereKeepsEngine
<1>5. ASSUME NEW n \in DOMAIN sent, Engine!Mine(n) PROVE EngineInv'
  BY <1>5, MineKeepsEngine
<1> QED BY <1>3, <1>4, <1>5 DEF Engine!Next

LEMMA StutterKeepsEngine ==
    ASSUME EngineInv, UNCHANGED Engine!vars
    PROVE  EngineInv'
<1>1. UNCHANGED <<lots, open, sent, kickTxs, txnRuns, lock, proc, unrecorded>>
  BY DEF Engine!vars, Engine!chainVars
<1> QED BY <1>1 DEF EngineInv, EngineTypes, RowsTrue, PoolEnds, LockTrue, ProcsTrue, RunsTrue, BatchesTold

\* The inductive invariant of the engine: only due kicks are planned and sent, one
\* process at a time, and each pair in hand has its row or none yet.
THEOREM EngineIsSound == ASSUME EngineAssumption PROVE Engine!Spec => []EngineInv
<1>1. Engine!Init => EngineInv
  BY InitHoldsEngine
<1>2. EngineInv /\ [Engine!Next]_(Engine!vars) => EngineInv'
  BY StepKeepsEngine, StutterKeepsEngine
<1> QED BY <1>1, <1>2, PTL DEF Engine!Spec

\* Only a send adds a transaction, and what is in hand then is due.
LEMMA OnlyDueKicksAreSent ==
    ASSUME EngineInv, Engine!Next
    PROVE  Engine!OnlyDueKicks
<1> SUFFICES ASSUME NEW n \in DOMAIN sent' \ DOMAIN sent, sent'[n].op = "kick",
                    NEW a \in ToSet(sent'[n].group), NEW m \in DOMAIN sent
             PROVE  Over(a, m, sent, open, unrecorded)
  BY EngineLists DEF Engine!OnlyDueKicks, Over
<1>1. sent \in Seq(EngineTx)
  BY DEF EngineInv, EngineTypes
<1>2. ASSUME NEW p \in Procs, proc[p].at = "send", sent' = Engine!Sent(proc[p])
      PROVE  Over(a, m, sent, open, unrecorded)
  <2>1. PICK r, T2, k, L2 : r = proc[p] /\ T2 = Engine!Sent(r) /\ k = Len(sent) + 1 /\ L2 = unrecorded
    OBVIOUS
  <2>2. unrecorded \subseteq L2 /\ r.at = "send"
    BY <1>2, <2>1
  <2>3. OneMore(r, T2, k, L2)
    BY <2>1, <2>2, SentIs
  <2>4. sent' = T2
    BY <1>2, <2>1
  <2>5. n = k /\ a \in ToSet(r.group) /\ r.op = "kick"
    BY <2>3, <2>4 DEF OneMore
  <2>6. Holds(r, sent, kickTxs, open, unrecorded)
    BY <2>1, EngineFacts
  <2> QED BY <2>2, <2>5, <2>6 DEF Holds, Before
<1>3. ASSUME NEW p \in Procs, Engine!Step(p)
      PROVE  proc[p].at = "send" /\ sent' = Engine!Sent(proc[p])
  <2>1. sent' # sent
    OBVIOUS
  <2>2. Engine!Send(p) \/ Engine!SendFails(p)
    BY <1>3, <2>1 DEF Engine!Step, Engine!Start, Engine!Plan, Engine!Take, Engine!DryRow,
                      Engine!CheckKick, Engine!SplitBatch, Engine!CheckResolve, Engine!Confirm,
                      Engine!Decline, Engine!Insert, Engine!Await, Engine!GiveUpWaiting, Engine!Finish, Engine!Die
  <2>3. CASE Engine!Send(p)
    BY <2>3 DEF Engine!Send, Engine!At
  <2>4. CASE Engine!SendFails(p)
    BY <2>1, <2>4 DEF Engine!SendFails, Engine!At
  <2> QED BY <2>2, <2>3, <2>4
<1>4. ASSUME NEW k \in DOMAIN sent, Engine!Mine(k)
      PROVE  FALSE
  <2>1. DOMAIN sent' = DOMAIN sent
    BY <1>1, <1>4 DEF Engine!Mine
  <2> QED BY <2>1
<1>5. ASSUME NEW b \in Traded, Engine!Repair(b) \/ Engine!Elsewhere(b)
      PROVE  FALSE
  BY <1>5 DEF Engine!Repair, Engine!Elsewhere
<1> QED BY <1>2, <1>3, <1>4, <1>5 DEF Engine!Next

\* run_once: no interleaving of plans, repairs, receipts and moves of others lets a
\* kick out while its pair has a round that is not known to be over.
THEOREM EngineKicksWhatIsDue == ASSUME EngineAssumption PROVE Engine!Spec => KicksFollowClosedRounds
<1>1. EngineInv /\ [Engine!Next]_(Engine!vars) => [Engine!OnlyDueKicks]_engineVars
  <2>1. UNCHANGED Engine!vars => UNCHANGED engineVars
    BY DEF Engine!vars, Engine!chainVars, engineVars
  <2> QED BY <2>1, OnlyDueKicksAreSent
<1>2. Engine!Spec => []EngineInv
  BY EngineIsSound
<1> QED BY <1>1, <1>2, PTL DEF Engine!Spec, KicksFollowClosedRounds

\* A run has one row for a pair, so that its rows can be counted by pair.
LEMMA RowsCounted ==
    ASSUME EngineAssumption, EngineInv, NEW n, NEW S
    PROVE  Engine!RowsOfRun(n, S) = Cardinality(Told(kickTxs, n, S)) /\ Engine!RowsOfRun(n, S) \in Nat
<1>1. PICK X, A : X = {r \in kickTxs : r.run = n /\ r.status \in S} /\ A = Told(kickTxs, n, S)
  OBVIOUS
<1>2. kickTxs \in SUBSET EngineRow /\ \A r, s \in kickTxs : r.run = s.run /\ r.pair = s.pair => r = s
  BY DEF EngineInv, EngineTypes, RowsTrue
<1>3. \A r \in X : r.pair \in A
  BY <1>1, <1>2 DEF Told, EngineRow
<1>4. \A a \in A : \E r \in X : r.pair = a
  BY <1>1 DEF Told
<1>5. \A r, s \in X : r.pair = s.pair => r = s
  BY <1>1, <1>2
<1>6. PICK f : f = [a \in A |-> CHOOSE r \in X : r.pair = a]
  OBVIOUS
<1>7. \A a \in A : f[a] \in X /\ f[a].pair = a
  BY <1>4, <1>6
<1>8. f \in Bijection(A, X)
  <2>1. f \in [A -> X]
    BY <1>6, <1>7
  <2>2. \A a, b \in A : f[a] = f[b] => a = b
    BY <1>7
  <2>3. ASSUME NEW r \in X PROVE \E a \in A : f[a] = r
    BY <1>3, <1>5, <1>7
  <2> QED BY <2>1, <2>2, <2>3 DEF Bijection, Injection, Surjection, IsInjective
<1>9. IsFiniteSet(A) /\ Cardinality(A) \in Nat
  BY <1>1, ToldAre
<1>10. Cardinality(X) = Cardinality(A)
  BY <1>8, <1>9, FS_Bijection DEF ExistsBijection
<1> QED BY <1>1, <1>9, <1>10, EngineCounts DEF Engine!RowsOfRun

\* _insert_operation_tx, finalize_receipt, finalize: what a run leaves in kick_txs and
\* in txn_runs is what it did, however it ended and whatever a repair has found since.
THEOREM EngineTellsWhatItDid == ASSUME EngineAssumption PROVE Engine!Spec => []RunsAreRecorded
<1>1. ASSUME EngineInv
      PROVE  Engine!RowsTellTheBatch
  <2>1. \A n \in DOMAIN sent : \A a \in ToSet(sent[n].group) :
         \/ <<n, a>> \in unrecorded
         \/ \E p \in Procs : proc[p].tx = n /\ a \in ToSet(proc[p].left)
         \/ \E r \in kickTxs : r.tx = n /\ r.pair = a /\ r.op = sent[n].op
    BY <1>1 DEF EngineInv, BatchesTold, ToldOf
  <2>2. \A r \in kickTxs : /\ r.status = "CONFIRMED" => sent[r.tx].state = "ok"
                           /\ r.status = "REVERTED"  => sent[r.tx].state = "reverted"
    BY <1>1 DEF EngineInv, RowsTrue, RowTrue
  <2> QED BY <2>1, <2>2, EngineLists DEF Engine!RowsTellTheBatch
<1>2. ASSUME EngineInv
      PROVE  Engine!TotalsAddUp
  <2> SUFFICES ASSUME NEW n \in DOMAIN txnRuns, txnRuns[n].status # "RUNNING"
               PROVE  /\ txnRuns[n].attempted = Engine!RowsOfRun(n, Attempts)
                      /\ txnRuns[n].ok  <= Engine!RowsOfRun(n, {"CONFIRMED"})
                      /\ txnRuns[n].bad >= Engine!RowsOfRun(n, Errors)
                      /\ txnRuns[n].bad <= Engine!RowsOfRun(n, Bads)
    <3>1. /\ Attempts = {"DRY_RUN", "SUBMITTED", "CONFIRMED", "REVERTED", "ERROR", "ESTIMATE_FAILED"}
          /\ Errors = {"ERROR", "ESTIMATE_FAILED"} /\ Bads = {"REVERTED", "ERROR", "ESTIMATE_FAILED"}
      BY DEF Attempts, Bads, Errors
    <3> QED BY <3>1 DEF Engine!TotalsAddUp
  <2>1. Totalled(n, txnRuns[n], kickTxs)
    BY <1>2 DEF EngineInv, RunsTrue
  <2>2. \A S : Engine!RowsOfRun(n, S) = Cardinality(Told(kickTxs, n, S)) /\ Engine!RowsOfRun(n, S) \in Nat
    BY <1>2, RowsCounted
  <2>3. txnRuns[n].bad \in Nat
    <3>1. txnRuns[n] \in RunRow
      BY <1>2 DEF EngineInv, EngineTypes
    <3> QED BY <3>1 DEF RunRow
  <2>4. Engine!RowsOfRun(n, Errors) <= txnRuns[n].bad /\ Engine!RowsOfRun(n, Errors) \in Nat
    BY <2>1, <2>2 DEF Totalled
  <2>5. txnRuns[n].bad >= Engine!RowsOfRun(n, Errors)
    BY ONLY <2>3, <2>4
  <2> QED BY <2>1, <2>2, <2>5 DEF Totalled
<1>3. EngineInv => RunsAreRecorded
  BY <1>1, <1>2 DEF RunsAreRecorded, Engine!RunsAreRecorded
<1> QED BY <1>3, EngineIsSound, PTL

----------------------------------------------------------------------------
(* The fleet: AuctionFleetProofs has the proofs, of an instance of its     *)
(* own, which is the same fleet definition by definition.                  *)

Proofs == INSTANCE AuctionFleetProofs WITH
    auctions <- created, pool <- deployments, others <- strangers,
    MaxTx <- MaxDeployments, MaxOthers <- MaxStrangers

LEMMA SameFleet ==
    /\ Fleet!Init <=> Proofs!Init
    /\ Fleet!Next <=> Proofs!Next
    /\ Fleet!vars = Proofs!vars
    /\ Fleet!TypeOK <=> Proofs!TypeOK
    /\ Fleet!FleetIsSound <=> Proofs!FleetIsSound
    /\ Fleet!NeverOlder <=> Proofs!NeverOlder
<1> USE DEF Fleet!Factories, Proofs!Factories, Fleet!NewFactory, Proofs!NewFactory, Fleet!Order,
            Proofs!Order, Fleet!NoEntries, Proofs!NoEntries, Fleet!Quiet, Proofs!Quiet,
            Fleet!Asked, Proofs!Asked, Fleet!Address, Proofs!Address, Fleet!Exists,
            Proofs!Exists, Fleet!Deployment, Proofs!Deployment, Fleet!Salt, Proofs!Salt,
            Fleet!Price, Proofs!Price, Fleet!Entry, Proofs!Entry, Fleet!AddressFor,
            Proofs!AddressFor, Fleet!PlannedFor, Proofs!PlannedFor, Fleet!BuiltPlans,
            Proofs!BuiltPlans, Fleet!Fits, Proofs!Fits, Fleet!Matches, Proofs!Matches, Fleet!Indexes, Proofs!Indexes,
            Fleet!Source, Proofs!Source, Fleet!Here, Proofs!Here, Fleet!InIndex, Proofs!InIndex,
            Fleet!Written, Proofs!Written, Fleet!Verifies, Proofs!Verifies, Fleet!Finalised,
            Proofs!Finalised, Fleet!OnEntry, Proofs!OnEntry, Fleet!Handled, Proofs!Handled,
            Fleet!Outcome, Proofs!Outcome, Fleet!New, Proofs!New, Fleet!Submitted,
            Proofs!Submitted, Fleet!Input, Proofs!Input, Fleet!Inputs, Proofs!Inputs,
            Fleet!Matching, Proofs!Matching, Fleet!Shown, Proofs!Shown, Fleet!Simulates,
            Proofs!Simulates, Fleet!Rank, Proofs!Rank, Fleet!Newer, Proofs!Newer, Fleet!Valid,
            Proofs!Valid, Fleet!Latest, Proofs!Latest, Fleet!chainVars, Proofs!chainVars,
            Fleet!scriptVars, Proofs!scriptVars, Fleet!ToSet, Proofs!ToSet, Fleet!SetToSeq,
            Proofs!SetToSeq, Fleet!IsInjective, Proofs!IsInjective, Fleet!Cardinality,
            Proofs!Cardinality
<1>1. Fleet!StartScript <=> Proofs!StartScript
  BY DEF Fleet!StartScript, Proofs!StartScript
<1>2. Fleet!ReadIndex <=> Proofs!ReadIndex
  BY DEF Fleet!ReadIndex, Proofs!ReadIndex
<1>3. Fleet!SkipEntry <=> Proofs!SkipEntry
  BY DEF Fleet!SkipEntry, Proofs!SkipEntry
<1>4. Fleet!CheckSubmitted <=> Proofs!CheckSubmitted
  BY DEF Fleet!CheckSubmitted, Proofs!CheckSubmitted
<1>5. Fleet!TakeExisting <=> Proofs!TakeExisting
  BY DEF Fleet!TakeExisting, Proofs!TakeExisting
<1>6. Fleet!SimulateOnly <=> Proofs!SimulateOnly
  BY DEF Fleet!SimulateOnly, Proofs!SimulateOnly
<1>7. Fleet!SendDeployment <=> Proofs!SendDeployment
  BY DEF Fleet!SendDeployment, Proofs!SendDeployment
<1>8. Fleet!PersistSubmitted <=> Proofs!PersistSubmitted
  BY DEF Fleet!PersistSubmitted, Proofs!PersistSubmitted
<1>9. Fleet!AwaitDeployment <=> Proofs!AwaitDeployment
  BY DEF Fleet!AwaitDeployment, Proofs!AwaitDeployment
<1>10. Fleet!EntryFails <=> Proofs!EntryFails
  BY DEF Fleet!EntryFails, Proofs!EntryFails
<1>11. Fleet!StopScript <=> Proofs!StopScript
  BY DEF Fleet!StopScript, Proofs!StopScript
<1>12. Fleet!RefreshMapping <=> Proofs!RefreshMapping
  BY DEF Fleet!RefreshMapping, Proofs!RefreshMapping
<1>13. \A x : Fleet!Mine(x) <=> Proofs!Mine(x)
  BY DEF Fleet!Mine, Proofs!Mine
<1>14. \A x : Fleet!OthersDeploy(x) <=> Proofs!OthersDeploy(x)
  BY DEF Fleet!OthersDeploy, Proofs!OthersDeploy
<1>25. \A x : Fleet!GovernanceMoves(x) <=> Proofs!GovernanceMoves(x)
  BY DEF Fleet!GovernanceMoves, Proofs!GovernanceMoves
<1>15. \A x : Fleet!Admit(x) <=> Proofs!Admit(x)
  BY DEF Fleet!Admit, Proofs!Admit
<1>16. \A x : Fleet!Disconnect(x) <=> Proofs!Disconnect(x)
  BY DEF Fleet!Disconnect, Proofs!Disconnect
<1>17. \A x : Fleet!FinishRead(x) <=> Proofs!FinishRead(x)
  BY DEF Fleet!FinishRead, Proofs!FinishRead
<1>18. \A x : Fleet!Sign(x) <=> Proofs!Sign(x)
  BY DEF Fleet!Sign, Proofs!Sign
<1>19. \A x : Fleet!DeploySingle(x) <=> Proofs!DeploySingle(x)
  BY DEF Fleet!DeploySingle, Proofs!DeploySingle
<1>20. Fleet!Next <=> Proofs!Next
  BY <1>1, <1>2, <1>3, <1>4, <1>5, <1>6, <1>7, <1>8, <1>9, <1>10, <1>11, <1>12, <1>13, <1>14,
     <1>15, <1>16, <1>17, <1>18, <1>19, <1>25
     DEF Fleet!Next, Proofs!Next, Fleet!Script, Proofs!Script
<1>21. (Fleet!Init <=> Proofs!Init) /\ Fleet!vars = Proofs!vars
  BY DEF Fleet!Init, Proofs!Init, Fleet!vars, Proofs!vars
<1>22. Fleet!TypeOK <=> Proofs!TypeOK
  BY DEF Fleet!TypeOK, Proofs!TypeOK, Fleet!EntryOK, Proofs!EntryOK
<1>23. Fleet!FleetIsSound <=> Proofs!FleetIsSound
  BY DEF Fleet!FleetIsSound, Proofs!FleetIsSound, Fleet!RecreatedOnce, Proofs!RecreatedOnce,
         Fleet!VerifiedIsTrue, Proofs!VerifiedIsTrue, Fleet!IsThere, Proofs!IsThere,
         Fleet!SlotsAccounted, Proofs!SlotsAccounted
<1>24. Fleet!NeverOlder <=> Proofs!NeverOlder
  BY DEF Fleet!NeverOlder, Proofs!NeverOlder
<1> QED BY <1>20, <1>21, <1>22, <1>23, <1>24

LEMMA FleetIsProved == Fleet!Spec => Proofs!Spec
<1>1. [Fleet!Next]_(Fleet!vars) => [Proofs!Next]_(Proofs!vars)
  <2>1. UNCHANGED Fleet!vars => UNCHANGED Proofs!vars
    BY DEF Fleet!vars, Fleet!chainVars, Fleet!scriptVars, Proofs!vars, Proofs!chainVars, Proofs!scriptVars
  <2> QED BY <2>1, SameFleet
<1>2. Fleet!Init => Proofs!Init
  BY SameFleet
<1> QED BY <1>1, <1>2, PTL DEF Fleet!Spec, Proofs!Spec

\* build_salt, verify_entry_against_auction, run_deployment_rpc: however often the
\* migration is run, timed out or killed, a legacy auction is recreated at most once,
\* what the cache file calls verified is there, and slots come back.
THEOREM FleetStaysSound == ASSUME Proofs!FleetAssumption PROVE Fleet!Spec => []FleetIsSound
<1>1. Proofs!FleetIsSound => FleetIsSound
  BY SameFleet DEF FleetIsSound
<1>2. Proofs!Spec => []Proofs!FleetIsSound
  BY Proofs!FleetIsAlwaysSound
<1> QED BY <1>1, <1>2, FleetIsProved, PTL

----------------------------------------------------------------------------
(* Scans, engine and fleet together.                                       *)

\* factory_verified, refresh_for_strategies: tokens are enabled only for auctions of a
\* listed factory, and a scan never takes a source from an auction that has its
\* governance to an older one.
THEOREM MappingsAreTrusted ==
    ASSUME Proofs!FleetAssumption
    PROVE  Spec /\ Fleet!Spec => MappingIsTrusted
<1>1. [Proofs!NeverOlder]_(Proofs!vars) => [Fleet!NeverOlder]_fleetVars
  <2>1. UNCHANGED Proofs!vars => UNCHANGED fleetVars
    BY DEF Proofs!vars, Proofs!chainVars, Proofs!scriptVars, fleetVars
  <2> QED BY <2>1, SameFleet
<1>2. Proofs!Spec => [][Proofs!NeverOlder]_(Proofs!vars)
  BY Proofs!NeverFallsBack DEF Proofs!MappingNeverFallsBack
<1> QED BY <1>1, <1>2, FleetIsProved, EnablesListedOnly, PTL DEF MappingIsTrusted

\* The scanner's and the fleet's variables keep their types.
THEOREM ServicesKeepTypes ==
    ASSUME Proofs!FleetAssumption
    PROVE  Spec /\ Fleet!Spec => []MCTypeOK
<1>1. Proofs!TypeOK /\ TypeOK => MCTypeOK
  BY SameFleet DEF MCTypeOK
<1>2. Proofs!Spec => []Proofs!TypeOK
  BY Proofs!FleetTypes
<1> QED BY <1>1, <1>2, ScanTypes, FleetIsProved, PTL

\* MCScanStages takes the three in turn: each of its behaviours is one of the scans,
\* one of the engine and one of the fleet, with the properties of all three.
THEOREM EachServiceIsItself == MCSpec => Spec /\ Engine!Spec /\ Fleet!Spec
<1>1. MCInit => Init /\ Engine!Init /\ Fleet!Init
  BY DEF MCInit
<1>2. UNCHANGED engineVars => UNCHANGED Engine!vars
  BY DEF Engine!vars, Engine!chainVars, engineVars
<1>3. UNCHANGED fleetVars => UNCHANGED Fleet!vars
  BY DEF Fleet!vars, Fleet!chainVars, Fleet!scriptVars, fleetVars
<1>4. [MCNext]_<<vars, engineVars, fleetVars>>
      => [Next]_vars /\ [Engine!Next]_(Engine!vars) /\ [Fleet!Next]_(Fleet!vars)
  BY <1>2, <1>3 DEF MCNext
<1> QED BY <1>1, <1>4, PTL DEF MCSpec, Spec, Engine!Spec, Fleet!Spec
=============================================================================
