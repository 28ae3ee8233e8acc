-------------------------- MODULE AuctionFleetProofs --------------------------
(***************************************************************************)
(* Proofs about AuctionFleet, for any sources, requests, slots and legacy  *)
(* auctions, and any number of transactions and of runs of the script.     *)
(*                                                                         *)
(* The arguments.  An auction's address is its own, and the salt of a      *)
(* recreated auction is a function of its source and its price, so two     *)
(* recreations of one legacy auction would be one auction.  Auctions never *)
(* change, so an entry that was verified once stays true, in the file and  *)
(* in the script that holds it.  The requests being read are counted.  And *)
(* a mapping that is not empty is the newest of the valid auctions it was  *)
(* taken from, to which later ones are only added.                         *)
(***************************************************************************)
EXTENDS AuctionFleet, SequenceLemmas

Salts       == {"migration", "manual", "other"} \X Sources \X Nat
Kinds       == {"v1.0.4", "v1.0.5"}
Addresses   == Kinds \X Salts
AuctionType == [factory : Kinds, source : Sources, price : Nat, good : BOOLEAN, salt : Salts,
                state : {"pending", "ok", "reverted"}]
EntryType   == [status : {"planned", "submitted", "verified", "error"}, legacy : Nat,
                addr : {None} \union Addresses, tx : Nat]
RequestType == [at : {"new", "reading", "known", "prepared", "over"}, source : Sources \union {None},
                factory : Kinds, price : Nat, salt : Salts \union {<<>>},
                kind : {"defaults", "prepare"}, waits : BOOLEAN, shown : SUBSET Nat]
ScriptType  == [at : {"idle", "index", "entries", "sent", "wait"}, live : BOOLEAN,
                entries : [Sources -> EntryType \union {None}], index : SUBSET Nat,
                i : 1..(Len(Order) + 1), tx : Nat]

\* Finitely many sources and requests; None is neither an address nor an entry.
FleetAssumption ==
    /\ IsFiniteSet(Sources) /\ IsFiniteSet(Requests)
    /\ Slots \in Nat /\ MaxOthers \in Nat
    /\ None \notin EntryType /\ \A a, b : None # <<a, b>>

\* A recreated auction has the salt of its source and legacy auction.
SaltTrue(d) ==
    d.salt[1] = "migration" => d.factory = NewFactory /\ d.salt = <<"migration", d.source, d.price>>

ChainInv ==
    /\ others \in Nat /\ others <= MaxOthers
    /\ legacy \in [Sources -> Nat] /\ \A s \in Sources : legacy[s] <= 1 + others
    /\ auctions \in Seq(AuctionType) /\ pool \in Seq(AuctionType)
    /\ \A n \in DOMAIN pool : SaltTrue(pool[n]) /\ pool[n].salt[1] # "other"
    /\ \A i \in DOMAIN auctions : /\ SaltTrue(auctions[i])
                                  /\ auctions[i].salt[1] = "other" => auctions[i].salt[3] < others
    /\ \A i, j \in DOMAIN auctions : Address(auctions[i]) = Address(auctions[j]) => i = j

\* What the script holds, and what it has written, is true of the chain.
EntryTrue(s, e) ==
    e # None => e \in EntryType /\ EntryOK(e) /\ (e.status = "verified" => IsThere(s, e, e.addr))

ScriptInv ==
    /\ script \in ScriptType /\ file \in [Sources -> EntryType \union {None}]
    /\ script.tx <= Len(pool) /\ script.index \subseteq DOMAIN auctions
    /\ script.at \in {"sent", "wait"} => script.tx # 0 /\ script.i <= Len(Order) /\ Here # None
    /\ \A s \in Sources : EntryTrue(s, file[s]) /\ EntryTrue(s, script.entries[s])

Reading == {r \in Requests : requests[r].at = "reading"}

RequestInv ==
    /\ requests \in [Requests -> RequestType] /\ slots \in Nat
    /\ \A r \in Requests :
         /\ requests[r].shown \subseteq DOMAIN auctions
         /\ requests[r].at \in {"reading", "known", "prepared"} =>
              /\ requests[r].source \in Sources
              /\ requests[r].salt \in Salts /\ requests[r].salt[1] = "manual"
    /\ slots + Cardinality(Reading) = Slots

\* A mapping is to an auction that exists.
MappedInv == mapped \in [Sources -> {None} \union DOMAIN auctions]

FleetInv == ChainInv /\ ScriptInv /\ RequestInv /\ MappedInv

SameClone(a, b) == /\ b.factory = a.factory /\ b.source = a.source
                   /\ b.price = a.price /\ b.salt = a.salt

\* The chain only grows, and of an auction nothing changes but its governance.
ChainGrows ==
    /\ DOMAIN auctions \subseteq DOMAIN auctions'
    /\ \A i \in DOMAIN auctions : SameClone(auctions[i], auctions'[i])
    /\ Len(pool) <= Len(pool')

----------------------------------------------------------------------------
(* Order, and what growth keeps.                                           *)

\* The script goes through every source once.
LEMMA OrderLists ==
    ASSUME FleetAssumption
    PROVE  Order \in Seq(Sources) /\ Len(Order) \in Nat
BY SetToSeqLists DEF FleetAssumption, Order

LEMMA EntryKept ==
    ASSUME ChainInv, ChainInv', ChainGrows, NEW s, NEW e, EntryTrue(s, e)
    PROVE  EntryTrue(s, e)'
<1> SUFFICES ASSUME e # None PROVE EntryTrue(s, e)'
  BY DEF EntryTrue
<1>1. Len(pool) \in Nat /\ Len(pool') \in Nat
  BY DEF ChainInv
<1>2. e \in EntryType /\ EntryOK(e)
  BY DEF EntryTrue
<1>3. EntryOK(e)'
  <2>1. e.tx \in 0..Len(pool')
    BY <1>1, <1>2 DEF EntryOK, EntryType, ChainGrows
  <2> QED BY <1>2, <2>1 DEF EntryOK
<1>4. IsThere(s, e, e.addr) => IsThere(s, e, e.addr)'
  <2> SUFFICES ASSUME NEW i \in DOMAIN auctions, Address(auctions[i]) = e.addr, Fits(auctions[i], s, e)
               PROVE  IsThere(s, e, e.addr)'
    BY DEF IsThere
  <2>1. Address(auctions'[i]) = Address(auctions[i]) /\ Fits(auctions'[i], s, e)
    BY DEF ChainGrows, SameClone, Address, Fits, Price
  <2> QED BY <2>1 DEF IsThere, ChainGrows
<1> QED BY <1>2, <1>3, <1>4 DEF EntryTrue

LEMMA ScriptKept ==
    ASSUME ChainInv, ChainInv', ChainGrows, ScriptInv, UNCHANGED <<file, script>>
    PROVE  ScriptInv'
<1>1. Len(pool) \in Nat /\ Len(pool') \in Nat /\ script.tx \in Nat
  BY DEF ChainInv, ScriptInv, ScriptType
<1>2. script'.tx <= Len(pool')
  BY <1>1 DEF ScriptInv, ChainGrows
<1>3. \A s \in Sources : EntryTrue(s, file[s])' /\ EntryTrue(s, script.entries[s])'
  <2> TAKE s \in Sources
  <2>1. PICK e, f : e = script.entries[s] /\ f = file[s] /\ EntryTrue(s, e) /\ EntryTrue(s, f)
    BY DEF ScriptInv
  <2>2. EntryTrue(s, e)' /\ EntryTrue(s, f)'
    BY <2>1, EntryKept
  <2>3. e = script'.entries[s] /\ f = file'[s]
    BY <2>1
  <2> QED BY <2>2, <2>3
<1>4. script' \in ScriptType /\ file' \in [Sources -> EntryType \union {None}]
      /\ script'.index \subseteq DOMAIN auctions'
  BY DEF ScriptInv, ChainGrows
<1>5. script'.at \in {"sent", "wait"} => script'.tx # 0 /\ script'.i <= Len(Order) /\ Here' # None
  BY DEF ScriptInv, Here, Source
<1> QED BY <1>2, <1>3, <1>4, <1>5 DEF ScriptInv

LEMMA RequestsKept ==
    ASSUME ChainGrows, RequestInv, UNCHANGED <<requests, slots>>
    PROVE  RequestInv'
BY DEF ChainGrows, RequestInv, Reading

LEMMA MappingKept ==
    ASSUME ChainGrows, MappedInv, UNCHANGED mapped
    PROVE  MappedInv'
BY DEF ChainGrows, MappedInv

----------------------------------------------------------------------------
(* The chain.                                                              *)

LEMMA SaltParts ==
    ASSUME ChainInv, NEW i \in DOMAIN auctions
    PROVE  auctions[i].salt \in Salts /\ auctions[i].salt[3] \in Nat
<1>1. auctions[i] \in AuctionType
  BY DEF ChainInv
<1>2. auctions[i].salt \in Salts
  BY <1>1 DEF AuctionType
<1> QED BY <1>2 DEF Salts

\* A new auction at a new address.
LEMMA AuctionAdded ==
    ASSUME ChainInv, NEW d \in AuctionType, SaltTrue(d), ~Exists(Address(d)),
           auctions' = Append(auctions, d), others' \in Nat, others <= others',
           d.salt[1] = "other" => d.salt[3] < others'
    PROVE  /\ auctions' \in Seq(AuctionType)
           /\ DOMAIN auctions \subseteq DOMAIN auctions'
           /\ \A i \in DOMAIN auctions : auctions'[i] = auctions[i]
           /\ \A i \in DOMAIN auctions' : /\ SaltTrue(auctions'[i])
                                          /\ auctions'[i].salt[1] = "other" => auctions'[i].salt[3] < others'
           /\ \A i, j \in DOMAIN auctions' : Address(auctions'[i]) = Address(auctions'[j]) => i = j
<1> DEFINE N == Len(auctions) + 1
<1>1. /\ auctions \in Seq(AuctionType) /\ auctions' \in Seq(AuctionType)
      /\ DOMAIN auctions' = DOMAIN auctions \union {N} /\ auctions'[N] = d
      /\ \A i \in DOMAIN auctions : auctions'[i] = auctions[i] /\ i # N
  BY DEF ChainInv
<1> HIDE DEF N
<1>2. ASSUME NEW i \in DOMAIN auctions'
      PROVE  /\ SaltTrue(auctions'[i])
             /\ auctions'[i].salt[1] = "other" => auctions'[i].salt[3] < others'
  <2>1. CASE i = N
    BY <1>1, <2>1
  <2>2. CASE i \in DOMAIN auctions
    <3>1. /\ SaltTrue(auctions[i])
          /\ auctions[i].salt[1] = "other" => auctions[i].salt[3] < others
      BY <2>2 DEF ChainInv
    <3>2. auctions[i].salt[3] \in Nat /\ others \in Nat
      BY <2>2, SaltParts DEF ChainInv
    <3> QED BY <1>1, <2>2, <3>1, <3>2
  <2> QED BY <1>1, <1>2, <2>1, <2>2
<1>3. \A i \in DOMAIN auctions : Address(auctions[i]) # Address(d)
  BY DEF Exists
<1>4. \A i, j \in DOMAIN auctions' : Address(auctions'[i]) = Address(auctions'[j]) => i = j
  BY <1>1, <1>3 DEF ChainInv
<1> QED BY <1>1, <1>2, <1>4

LEMMA MineKeepsChain ==
    ASSUME ChainInv, NEW n \in DOMAIN pool, Mine(n)
    PROVE  ChainInv' /\ ChainGrows
<1>1. /\ pool \in Seq(AuctionType) /\ pool[n] \in AuctionType /\ SaltTrue(pool[n])
      /\ pool[n].salt[1] # "other" /\ n \in Nat /\ n <= Len(pool) /\ others \in Nat
      /\ UNCHANGED <<legacy, others>>
  BY DEF ChainInv, Mine
<1>2. PICK state \in {"ok", "reverted"} :
        /\ pool' = [pool EXCEPT ![n].state = state]
        /\ IF state = "ok" THEN ~Exists(Address(pool[n])) /\ auctions' = Append(auctions, pool'[n])
                           ELSE auctions' = auctions
  BY DEF Mine
<1>3. PICK d : d = [pool[n] EXCEPT !.state = state]
  OBVIOUS
<1>4. /\ d \in AuctionType /\ SaltTrue(d) /\ d.salt = pool[n].salt /\ Address(d) = Address(pool[n])
  BY <1>1, <1>3 DEF AuctionType, SaltTrue, Address
<1>5. /\ pool' = [pool EXCEPT ![n] = d] /\ pool'[n] = d
  BY <1>1, <1>2, <1>3
<1>6. /\ pool' \in Seq(AuctionType) /\ Len(pool') = Len(pool)
      /\ \A m \in DOMAIN pool' : m \in DOMAIN pool /\ pool'[m] = IF m = n THEN d ELSE pool[m]
  BY <1>1, <1>4, <1>5
<1>7. \A m \in DOMAIN pool' : SaltTrue(pool'[m]) /\ pool'[m].salt[1] # "other"
  BY <1>1, <1>4, <1>6 DEF ChainInv
<1>8. Len(pool) <= Len(pool')
  BY <1>1, <1>6
<1>9. CASE state = "ok"
  <2>1. auctions' = Append(auctions, d) /\ ~Exists(Address(d)) /\ others' \in Nat /\ others <= others'
    <3>1. auctions' = Append(auctions, d) /\ ~Exists(Address(pool[n]))
      BY <1>2, <1>5, <1>9
    <3>2. ~Exists(Address(d))
      BY <1>4, <3>1 DEF Exists
    <3> QED BY <1>1, <3>1, <3>2
  <2> QED BY <1>1, <1>4, <1>6, <1>7, <1>8, <2>1, AuctionAdded DEF ChainInv, ChainGrows, SameClone
<1>10. CASE state = "reverted"
  BY <1>1, <1>2, <1>6, <1>7, <1>8, <1>10 DEF ChainInv, ChainGrows, SameClone
<1> QED BY <1>9, <1>10

LEMMA OthersKeepChain ==
    ASSUME FleetAssumption, ChainInv, NEW s \in Sources, OthersDeploy(s)
    PROVE  ChainInv' /\ ChainGrows
<1>1. /\ others \in Nat /\ MaxOthers \in Nat /\ others' = others + 1 /\ others' <= MaxOthers
      /\ others' \in Nat /\ others <= others' /\ others < others' /\ UNCHANGED pool
  <2>1. others \in Nat /\ MaxOthers \in Nat
    BY DEF ChainInv, FleetAssumption
  <2>2. others < MaxOthers /\ others' = others + 1 /\ UNCHANGED pool
    BY DEF OthersDeploy
  <2> QED BY ONLY <2>1, <2>2
<1>2. CASE UNCHANGED auctions /\ legacy' = [legacy EXCEPT ![s] = @ + 1]
  <2>1. legacy \in [Sources -> Nat] /\ \A q \in Sources : legacy[q] <= 1 + others
    BY DEF ChainInv
  <2>2. legacy' \in [Sources -> Nat]
        /\ \A q \in Sources : legacy'[q] = IF q = s THEN legacy[q] + 1 ELSE legacy[q]
    BY <1>2, <2>1
  <2>3. \A q \in Sources : legacy'[q] <= 1 + others'
    BY <1>1, <2>1, <2>2
  <2>4. ASSUME NEW i \in DOMAIN auctions, auctions[i].salt[1] = "other"
        PROVE  auctions[i].salt[3] < others'
    <3>1. auctions[i].salt[3] < others
      BY <2>4 DEF ChainInv
    <3> QED BY <1>1, <2>4, <3>1, SaltParts
  <2>5. Len(pool) <= Len(pool')
    BY <1>1 DEF ChainInv
  <2> QED BY <1>1, <1>2, <2>2, <2>3, <2>4, <2>5 DEF ChainInv, ChainGrows, SameClone
<1>3. CASE /\ UNCHANGED legacy
           /\ \E f \in ToSet(Factories), good \in BOOLEAN :
                auctions' = Append(auctions,
                    [Deployment(f, s, 1, <<"other", s, others>>) EXCEPT !.good = good, !.state = "ok"])
  <2>1. PICK f \in ToSet(Factories), good \in BOOLEAN :
          auctions' = Append(auctions,
              [Deployment(f, s, 1, <<"other", s, others>>) EXCEPT !.good = good, !.state = "ok"])
    BY <1>3
  <2>2. f \in Kinds
    BY DEF Factories, ToSet, Kinds
  <2>3. PICK d : d = [Deployment(f, s, 1, <<"other", s, others>>) EXCEPT !.good = good, !.state = "ok"]
    OBVIOUS
  <2>4. d = [factory |-> f, source |-> s, price |-> 1, good |-> good,
             salt |-> <<"other", s, others>>, state |-> "ok"]
    BY <2>3 DEF Deployment
  <2>5. <<"other", s, others>> \in Salts
    BY <1>1 DEF Salts
  <2>6. d \in AuctionType /\ SaltTrue(d) /\ d.salt = <<"other", s, others>>
    BY <2>2, <2>4, <2>5 DEF AuctionType, SaltTrue
  <2>7. ~Exists(Address(d))
    <3>1. ASSUME NEW i \in DOMAIN auctions, Address(auctions[i]) = Address(d)
          PROVE  FALSE
      <4>1. auctions[i].salt = <<"other", s, others>>
        BY <2>6, <3>1 DEF Address
      <4>2. others < others
        BY <4>1 DEF ChainInv
      <4> QED BY <1>1, <4>2
    <3> QED BY <3>1 DEF Exists
  <2>8. d.salt[1] = "other" => d.salt[3] < others'
    BY <1>1, <2>6
  <2>9. auctions' = Append(auctions, d)
    BY <2>1, <2>3
  <2>10. Len(pool) <= Len(pool') /\ \A q \in Sources : legacy[q] <= 1 + others'
    <3>1. \A q \in Sources : legacy[q] \in Nat /\ legacy[q] <= 1 + others
      BY DEF ChainInv
    <3> QED BY <1>1, <3>1 DEF ChainInv
  <2> QED BY <1>1, <1>3, <2>6, <2>7, <2>8, <2>9, <2>10, AuctionAdded DEF ChainInv, ChainGrows, SameClone
<1> QED BY <1>2, <1>3 DEF OthersDeploy

\* Only who governs an auction changes, not where it is.
LEMMA GovernanceKeepsChain ==
    ASSUME FleetAssumption, ChainInv, NEW i \in DOMAIN auctions, GovernanceMoves(i)
    PROVE  ChainInv' /\ ChainGrows
<1>1. /\ others \in Nat /\ MaxOthers \in Nat /\ others' = others + 1 /\ others' <= MaxOthers
      /\ others' \in Nat /\ others < others' /\ UNCHANGED <<legacy, pool>>
  BY DEF FleetAssumption, ChainInv, GovernanceMoves
<1>2. auctions \in Seq(AuctionType) /\ auctions[i] \in AuctionType
  BY DEF ChainInv
<1>3. auctions' = [auctions EXCEPT ![i].good = ~@]
  BY DEF GovernanceMoves
<1>4. PICK d : d = [auctions[i] EXCEPT !.good = ~@]
  OBVIOUS
<1>5. /\ d \in AuctionType /\ Address(d) = Address(auctions[i]) /\ d.salt = auctions[i].salt
      /\ SaltTrue(auctions[i]) => SaltTrue(d)
  BY <1>2, <1>4 DEF AuctionType, Address, SaltTrue
<1>6. auctions' = [auctions EXCEPT ![i] = d]
  BY <1>2, <1>3, <1>4
<1>7. /\ auctions' \in Seq(AuctionType) /\ DOMAIN auctions' = DOMAIN auctions
      /\ \A j \in DOMAIN auctions : auctions'[j] = IF j = i THEN d ELSE auctions[j]
  BY <1>2, <1>5, <1>6
<1>8. \A s \in Sources : legacy'[s] <= 1 + others'
  BY <1>1 DEF ChainInv
<1>9. \A j \in DOMAIN auctions' : /\ SaltTrue(auctions'[j])
                                  /\ auctions'[j].salt[1] = "other" => auctions'[j].salt[3] < others'
  <2> TAKE j \in DOMAIN auctions'
  <2>1. /\ SaltTrue(auctions[j]) /\ auctions[j].salt[3] \in Nat
        /\ auctions[j].salt[1] = "other" => auctions[j].salt[3] < others
    BY <1>7, SaltParts DEF ChainInv
  <2>2. auctions'[j].salt = auctions[j].salt /\ SaltTrue(auctions'[j])
    BY <1>5, <1>7, <2>1
  <2> QED BY <1>1, <2>1, <2>2
<1>10. \A j, k \in DOMAIN auctions' : Address(auctions'[j]) = Address(auctions'[k]) => j = k
  <2>1. \A j \in DOMAIN auctions : Address(auctions'[j]) = Address(auctions[j])
    BY <1>5, <1>7
  <2> QED BY <1>7, <2>1 DEF ChainInv
<1>11. ChainInv'
  BY <1>1, <1>7, <1>8, <1>9, <1>10 DEF ChainInv
<1>12. ChainGrows
  <2>1. \A j \in DOMAIN auctions : SameClone(auctions[j], auctions'[j])
    <3>1. SameClone(auctions[i], d)
      BY <1>2, <1>4 DEF AuctionType, SameClone
    <3> QED BY <1>7, <3>1 DEF SameClone
  <2> QED BY <1>1, <1>2, <1>7, <2>1 DEF ChainGrows
<1> QED BY <1>11, <1>12

\* A transaction that is not another's.
LEMMA SendKeepsChain ==
    ASSUME ChainInv, NEW d \in AuctionType, SaltTrue(d), d.salt[1] # "other",
           pool' = Append(pool, d), UNCHANGED <<legacy, auctions, others>>
    PROVE  ChainInv' /\ ChainGrows
<1>1. /\ pool \in Seq(AuctionType) /\ pool' \in Seq(AuctionType) /\ Len(pool) <= Len(pool')
      /\ \A n \in DOMAIN pool' : pool'[n] = d \/ (n \in DOMAIN pool /\ pool'[n] = pool[n])
  BY DEF ChainInv
<1>2. \A n \in DOMAIN pool' : SaltTrue(pool'[n]) /\ pool'[n].salt[1] # "other"
  BY <1>1 DEF ChainInv
<1> QED BY <1>1, <1>2 DEF ChainInv, ChainGrows, SameClone

LEMMA ChainUntouched ==
    ASSUME ChainInv, UNCHANGED chainVars
    PROVE  ChainInv' /\ ChainGrows
BY DEF ChainInv, ChainGrows, SameClone, chainVars

----------------------------------------------------------------------------
(* The migration script.                                                   *)

\* The entry at hand.
LEMMA HereFacts ==
    ASSUME FleetAssumption, ScriptInv, script.i <= Len(Order)
    PROVE  /\ Source \in Sources /\ EntryTrue(Source, Here)
           /\ Here # None => Here \in EntryType /\ EntryOK(Here)
           /\ script.i \in 1..Len(Order)
<1>1. script.i \in 1..Len(Order)
  BY OrderLists DEF ScriptInv, ScriptType
<1>2. Source \in Sources
  BY <1>1, OrderLists DEF Source
<1>3. EntryTrue(Source, Here)
  BY <1>2 DEF ScriptInv, Here
<1> QED BY <1>1, <1>2, <1>3 DEF EntryTrue

\* What became of an entry is true: it is not done with, or its auction is there.
LEMMA EntryChanged ==
    ASSUME ChainInv, NEW s, NEW e \in EntryType, e # None, EntryOK(e),
           NEW f \in EntryType, f.legacy = e.legacy, f.tx = e.tx,
           f.addr # None => f.addr[1] = NewFactory,
           \/ f.status \in {"planned", "error"}
           \/ f.status = "verified" /\ IsThere(s, e, f.addr)
    PROVE  EntryTrue(s, f)
<1>1. EntryOK(f)
  BY DEF EntryOK, EntryType
<1>2. f.status = "verified" => IsThere(s, f, f.addr)
  BY DEF IsThere, Fits, Price
<1> QED BY <1>1, <1>2 DEF EntryTrue

LEMMA ErrorTrue ==
    ASSUME ChainInv, NEW s, NEW e \in EntryType, e # None, EntryOK(e)
    PROVE  [e EXCEPT !.status = "error"] \in EntryType
           /\ EntryTrue(s, [e EXCEPT !.status = "error"])
<1> DEFINE f == [e EXCEPT !.status = "error"]
<1>1. /\ f \in EntryType /\ f.legacy = e.legacy /\ f.tx = e.tx /\ f.addr = e.addr
      /\ f.status = "error"
  BY DEF EntryType
<1>2. f.addr # None => f.addr[1] = NewFactory
  BY <1>1 DEF EntryOK
<1> HIDE DEF f
<1>3. EntryTrue(s, f)
  BY <1>1, <1>2, EntryChanged
<1> QED BY <1>1, <1>3 DEF f

LEMMA FinalisedTrue ==
    ASSUME ChainInv, NEW s, NEW e \in EntryType, e # None, EntryOK(e),
           NEW addr \in {None} \union Addresses, addr # None => addr[1] = NewFactory
    PROVE  Finalised(s, e, addr) \in EntryType /\ EntryTrue(s, Finalised(s, e, addr))
<1>1. CASE Verifies(s, e, addr)
  <2> DEFINE f == [e EXCEPT !.status = "verified", !.addr = addr]
  <2>1. /\ f \in EntryType /\ f.legacy = e.legacy /\ f.tx = e.tx /\ f.addr = addr
        /\ f.status = "verified"
    BY DEF EntryType
  <2> HIDE DEF f
  <2>2. IsThere(s, e, addr)
    BY <1>1 DEF Verifies, IsThere, Matches
  <2>3. EntryTrue(s, f)
    BY <2>1, <2>2, EntryChanged
  <2>4. Finalised(s, e, addr) = f
    BY <1>1 DEF Finalised, f
  <2> QED BY <2>1, <2>3, <2>4
<1>2. CASE ~Verifies(s, e, addr)
  BY <1>2, ErrorTrue DEF Finalised
<1> QED BY <1>1, <1>2

LEMMA WrittenKeepsScript ==
    ASSUME FleetAssumption, ChainInv, ChainInv', ChainGrows, ScriptInv, script.i <= Len(Order),
           NEW e \in EntryType, EntryTrue(Source, e), Written(e)
    PROVE  ScriptInv'
<1>1. PICK s \in Sources : s = Source /\ EntryTrue(s, e)
  BY HereFacts
<1>2. /\ script \in ScriptType /\ script.i \in 1..Len(Order) /\ Len(Order) \in Nat
      /\ script.entries \in [Sources -> EntryType \union {None}]
  BY HereFacts, OrderLists DEF ScriptInv, ScriptType
<1> DEFINE entries == [script.entries EXCEPT ![s] = e]
<1>3. /\ entries \in [Sources -> EntryType \union {None}]
      /\ \A q \in Sources : entries[q] = IF q = s THEN e ELSE script.entries[q]
  BY <1>2
<1>4. file' = entries /\ script' = [script EXCEPT !.at = "entries", !.entries = entries, !.i = @ + 1]
  BY <1>1 DEF Written
<1> HIDE DEF entries
<1>5. script.i + 1 \in 1..(Len(Order) + 1)
  BY ONLY <1>2
<1>6. script' \in ScriptType
  BY ONLY <1>2, <1>3, <1>4, <1>5 DEF ScriptType
<1>7. script'.at = "entries" /\ script'.tx = script.tx /\ script'.index = script.index
      /\ script'.entries = entries
  BY ONLY <1>2, <1>4 DEF ScriptType
<1>8. script'.tx <= Len(pool') /\ script'.index \subseteq DOMAIN auctions'
  <2>1. script.tx \in Nat /\ script.tx <= Len(pool) /\ Len(pool) \in Nat /\ Len(pool') \in Nat
        /\ Len(pool) <= Len(pool')
    BY <1>2 DEF ScriptInv, ScriptType, ChainInv, ChainGrows
  <2>2. script'.tx <= Len(pool')
    BY ONLY <1>7, <2>1
  <2> QED BY <1>7, <2>2 DEF ScriptInv, ChainGrows
<1>9. ASSUME NEW q \in Sources
      PROVE  EntryTrue(q, file[q])' /\ EntryTrue(q, script.entries[q])'
  <2>1. PICK f : f = entries[q] /\ EntryTrue(q, f)
    BY <1>1, <1>3 DEF ScriptInv
  <2>2. EntryTrue(q, f)'
    BY <2>1, EntryKept
  <2>3. f = file'[q] /\ f = script'.entries[q]
    BY <1>4, <1>7, <2>1
  <2> QED BY <2>2, <2>3
<1> QED BY <1>3, <1>4, <1>6, <1>7, <1>8, <1>9 DEF ScriptInv

\* Moving on without writing anything.
LEMMA ScriptMoves ==
    ASSUME ChainInv, ChainInv', ChainGrows, ScriptInv, UNCHANGED file, script' \in ScriptType,
           script'.entries = script.entries \/ script'.entries = file \/ script'.entries = NoEntries,
           script'.tx <= Len(pool'), script'.index \subseteq DOMAIN auctions',
           script'.at \notin {"sent", "wait"}
    PROVE  ScriptInv'
<1>1. ASSUME NEW s \in Sources
      PROVE  EntryTrue(s, file[s])' /\ EntryTrue(s, script.entries[s])'
  <2>1. PICK e, f : e = script'.entries[s] /\ f = file[s] /\ EntryTrue(s, e) /\ EntryTrue(s, f)
    <3>1. EntryTrue(s, script'.entries[s])
      BY DEF ScriptInv, NoEntries, EntryTrue
    <3>2. EntryTrue(s, file[s])
      BY DEF ScriptInv
    <3> QED BY <3>1, <3>2
  <2>2. EntryTrue(s, e)' /\ EntryTrue(s, f)'
    BY <2>1, EntryKept
  <2>3. f = file'[s]
    BY <2>1
  <2> QED BY <2>1, <2>2, <2>3
<1> QED BY <1>1 DEF ScriptInv

LEMMA QuietScript ==
    ASSUME FleetAssumption, ChainInv, ChainInv', ChainGrows, ScriptInv, UNCHANGED file,
           script' = Quiet
    PROVE  ScriptInv'
<1>1. NoEntries \in [Sources -> EntryType \union {None}]
  BY DEF NoEntries
<1>2. 1 \in 1..(Len(Order) + 1)
  BY OrderLists
<1>3. Quiet \in ScriptType
  BY <1>1, <1>2 DEF Quiet, ScriptType
<1>4. /\ script'.at = "idle" /\ script'.entries = NoEntries /\ script'.index = {} /\ script'.tx = 0
  BY DEF Quiet
<1>5. script'.tx <= Len(pool')
  BY <1>4 DEF ChainInv
<1> QED BY <1>3, <1>4, <1>5, ScriptMoves

LEMMA StartKeepsScript ==
    ASSUME FleetAssumption, ChainInv, ScriptInv, StartScript
    PROVE  ScriptInv'
<1>1. PICK live \in BOOLEAN : script' = [Quiet EXCEPT !.at = "index", !.live = live, !.entries = file']
  BY DEF StartScript
<1>2. ChainInv' /\ ChainGrows /\ pool' = pool
  BY ChainUntouched DEF StartScript, chainVars
<1>3. ASSUME NEW s \in Sources, NEW e \in PlannedFor(s)
      PROVE  e \in EntryType \union {None} /\ EntryTrue(s, e)
  <2>1. CASE e = None
    BY <2>1 DEF EntryTrue
  <2>2. CASE \E old \in 1..legacy[s] : e = Entry(old)
    <3>1. PICK old \in 1..legacy[s] : e = Entry(old)
      BY <2>2
    <3>2. old \in Nat /\ old \in 1..(1 + MaxOthers)
      <4>1. legacy[s] \in Nat /\ legacy[s] <= 1 + others /\ others \in Nat /\ others <= MaxOthers
            /\ MaxOthers \in Nat
        BY DEF ChainInv, FleetAssumption
      <4> QED BY ONLY <4>1, <3>1, old \in 1..legacy[s]
    <3>3. e = [status |-> "planned", legacy |-> old, addr |-> None, tx |-> 0]
      BY <3>1 DEF Entry
    <3>4. e \in EntryType
      BY ONLY <3>2, <3>3 DEF EntryType
    <3>5. EntryOK(e) /\ e.status # "verified"
      <4>1. 0 \in 0..Len(pool)
        BY DEF ChainInv
      <4> QED BY <3>2, <3>3, <4>1 DEF EntryOK
    <3> QED BY <3>4, <3>5 DEF EntryTrue
  <2> QED BY <2>1, <2>2 DEF PlannedFor
<1>4. file' \in [Sources -> EntryType \union {None}] /\ \A s \in Sources : EntryTrue(s, file'[s])
  <2>1. CASE file' \in BuiltPlans
    <3>1. file' \in [Sources -> UNION {PlannedFor(s) : s \in Sources}]
          /\ \A s \in Sources : file'[s] \in PlannedFor(s)
      BY <2>1 DEF BuiltPlans
    <3> QED BY <1>3, <3>1
  <2>2. CASE file' = file
    BY <2>2 DEF ScriptInv
  <2> QED BY <2>1, <2>2 DEF StartScript
<1>5. /\ script'.at = "index" /\ script'.entries = file' /\ script'.index = {} /\ script'.tx = 0
      /\ script'.i = 1 /\ script'.live = live
  BY <1>1 DEF Quiet
<1>6. script' \in ScriptType
  <2>1. 1 \in 1..(Len(Order) + 1)
    BY OrderLists
  <2> QED BY <1>1, <1>4, <2>1 DEF Quiet, ScriptType
<1>7. script'.tx <= Len(pool')
  BY <1>2, <1>5 DEF ChainInv
<1>8. ASSUME NEW s \in Sources
      PROVE  EntryTrue(s, file[s])' /\ EntryTrue(s, script.entries[s])'
  <2>1. PICK e : e = file'[s] /\ EntryTrue(s, e)
    BY <1>4
  <2>2. EntryTrue(s, e)'
    BY <1>2, <2>1, EntryKept
  <2> QED BY <1>5, <2>1, <2>2
<1> QED BY <1>4, <1>5, <1>6, <1>7, <1>8 DEF ScriptInv

LEMMA ReadIndexKeepsScript ==
    ASSUME FleetAssumption, ChainInv, ScriptInv, ReadIndex
    PROVE  ScriptInv'
<1>1. PICK index \in Indexes : script' = [script EXCEPT !.at = "entries", !.index = index]
  BY DEF ReadIndex
<1>2. ChainInv' /\ ChainGrows /\ UNCHANGED <<pool, auctions, file>>
  BY ChainUntouched DEF ReadIndex, chainVars
<1>3. script \in ScriptType /\ index \subseteq DOMAIN auctions /\ index \subseteq Nat
      /\ script.tx <= Len(pool)
  BY DEF Indexes, ScriptInv, ChainInv
<1>4. script' \in ScriptType
  BY ONLY <1>1, <1>3 DEF ScriptType
<1>5. script'.at = "entries" /\ script'.index = index /\ script'.entries = script.entries
      /\ script'.tx = script.tx
  BY ONLY <1>1, <1>3 DEF ScriptType
<1> QED BY <1>2, <1>3, <1>4, <1>5, ScriptMoves

LEMMA SkipEntryKeepsScript ==
    ASSUME FleetAssumption, ChainInv, ScriptInv, SkipEntry
    PROVE  ScriptInv'
<1>1. script' = [script EXCEPT !.i = @ + 1] /\ script.at = "entries" /\ script.i <= Len(Order)
  BY DEF SkipEntry
<1>2. ChainInv' /\ ChainGrows /\ UNCHANGED <<pool, auctions, file>>
  BY ChainUntouched DEF SkipEntry, chainVars
<1>3. script \in ScriptType /\ script.tx <= Len(pool) /\ script.index \subseteq DOMAIN auctions
  BY DEF ScriptInv
<1>4. script.i + 1 \in 1..(Len(Order) + 1)
  <2>1. script.i \in 1..Len(Order) /\ Len(Order) \in Nat
    BY <1>1, HereFacts, OrderLists
  <2> QED BY ONLY <2>1
<1>5. script' \in ScriptType
  BY ONLY <1>1, <1>3, <1>4 DEF ScriptType
<1>6. script'.at = "entries" /\ script'.index = script.index /\ script'.entries = script.entries
      /\ script'.tx = script.tx
  BY ONLY <1>1, <1>3 DEF ScriptType
<1> QED BY <1>2, <1>3, <1>5, <1>6, ScriptMoves

\* Addresses of auctions are addresses, and the new factory's where they are taken.
LEMMA AddressTypes ==
    ASSUME ChainInv, NEW s \in Sources
    PROVE  /\ \A i \in DOMAIN auctions : /\ Address(auctions[i]) \in Addresses
                                         /\ Address(auctions[i])[1] = auctions[i].factory
           /\ \A e \in EntryType : /\ AddressFor(s, e) \in Addresses
                                   /\ AddressFor(s, e)[1] = NewFactory
                                   /\ Salt(s, e.legacy) \in Salts
<1>1. ASSUME NEW i \in DOMAIN auctions
      PROVE  /\ Address(auctions[i]) \in Addresses
             /\ Address(auctions[i])[1] = auctions[i].factory
  <2>1. auctions[i].factory \in Kinds /\ auctions[i].salt \in Salts
    <3>1. auctions[i] \in AuctionType
      BY DEF ChainInv
    <3> QED BY <3>1 DEF AuctionType
  <2> QED BY <2>1 DEF Address, Addresses
<1>2. ASSUME NEW e \in EntryType
      PROVE  /\ AddressFor(s, e) \in Addresses /\ AddressFor(s, e)[1] = NewFactory
             /\ Salt(s, e.legacy) \in Salts
  <2>1. Salt(s, e.legacy) \in Salts
    BY DEF Salt, Salts, EntryType
  <2>2. NewFactory \in Kinds
    BY DEF NewFactory, Factories, Kinds
  <2> QED BY <2>1, <2>2 DEF AddressFor, Addresses
<1> QED BY <1>1, <1>2

\* An entry is handled: what is written is true of the chain before the step.
LEMMA HandledKeepsScript ==
    ASSUME FleetAssumption, ChainInv, ScriptInv,
           CheckSubmitted \/ TakeExisting \/ SimulateOnly \/ AwaitDeployment
    PROVE  ScriptInv'
<1>1. ChainInv' /\ ChainGrows
  BY ChainUntouched DEF CheckSubmitted, TakeExisting, SimulateOnly, AwaitDeployment
<1>2. script.i <= Len(Order) /\ Here # None
  BY DEF CheckSubmitted, TakeExisting, SimulateOnly, AwaitDeployment, New, OnEntry, ScriptInv
<1>3. PICK s, h : /\ s = Source /\ h = Here /\ s \in Sources /\ EntryTrue(s, h)
                  /\ h # None /\ h \in EntryType /\ EntryOK(h)
  BY <1>2, HereFacts
<1>4. h.addr \in {None} \union Addresses /\ (h.addr # None => h.addr[1] = NewFactory)
      /\ h.status \in {"planned", "submitted", "verified", "error"}
  BY <1>3 DEF EntryType, EntryOK
<1>5. \E e \in EntryType : EntryTrue(s, e) /\ Written(e)
  <2>1. CASE CheckSubmitted
    <3>1. Written(Outcome(s, h, h.tx))
      BY <1>3, <2>1 DEF CheckSubmitted
    <3>2. \/ Outcome(s, h, h.tx) = h
          \/ Outcome(s, h, h.tx) = [h EXCEPT !.status = "error"]
          \/ Outcome(s, h, h.tx) = Finalised(s, h, h.addr)
      BY DEF Outcome
    <3> QED BY <1>3, <1>4, <3>1, <3>2, ErrorTrue, FinalisedTrue
  <2>2. CASE TakeExisting
    <3>1. PICK i \in InIndex(s, h) : Written(Finalised(s, h, Address(auctions[i])))
      BY <1>3, <2>2 DEF TakeExisting
    <3>2. i \in DOMAIN auctions /\ auctions[i].factory = NewFactory
      BY DEF InIndex, ScriptInv, Fits
    <3>3. Address(auctions[i]) \in {None} \union Addresses /\ Address(auctions[i])[1] = NewFactory
      BY <1>3, <3>2, AddressTypes
    <3> QED BY <1>3, <3>1, <3>3, FinalisedTrue
  <2>3. CASE SimulateOnly
    <3>1. Written([h EXCEPT !.addr = AddressFor(s, h)]) /\ h.status \in {"planned", "error"}
      BY <1>3, <1>4, <2>3 DEF SimulateOnly, New
    <3>2. AddressFor(s, h) \in Addresses /\ AddressFor(s, h)[1] = NewFactory
      BY <1>3, AddressTypes
    <3> DEFINE e == [h EXCEPT !.addr = AddressFor(s, h)]
    <3>3. /\ e \in EntryType /\ e.legacy = h.legacy /\ e.tx = h.tx /\ e.addr = AddressFor(s, h)
          /\ e.status = h.status
      BY <1>3, <3>2 DEF EntryType
    <3> HIDE DEF e
    <3>4. EntryTrue(s, e)
      BY <1>3, <3>1, <3>2, <3>3, EntryChanged
    <3>5. Written(e)
      BY <3>1 DEF e
    <3> QED BY <3>3, <3>4, <3>5
  <2>4. CASE AwaitDeployment
    <3>1. Written([h EXCEPT !.status = "error"]) \/ Written(Finalised(s, h, h.addr))
      BY <1>3, <2>4 DEF AwaitDeployment
    <3> QED BY <1>3, <1>4, <3>1, ErrorTrue, FinalisedTrue
  <2> QED BY <2>1, <2>2, <2>3, <2>4
<1> QED BY <1>1, <1>2, <1>3, <1>5, WrittenKeepsScript

\* The transaction of an entry: its salt is the migration's.
LEMMA Recreation ==
    ASSUME FleetAssumption, ChainInv, ScriptInv, OnEntry,
           pool' = Append(pool, Deployment(NewFactory, Source, Price(Here), Salt(Source, Here.legacy))),
           UNCHANGED <<legacy, auctions, others>>
    PROVE  ChainInv' /\ ChainGrows /\ Len(pool') = Len(pool) + 1
<1>1. Source \in Sources /\ Here \in EntryType
  BY HereFacts DEF OnEntry
<1>2. PICK s, h, d : /\ s = Source /\ h = Here /\ s \in Sources /\ h \in EntryType
                     /\ d = Deployment(NewFactory, s, Price(h), Salt(s, h.legacy))
  BY <1>1
<1>3. d = [factory |-> NewFactory, source |-> s, price |-> h.legacy, good |-> TRUE,
           salt |-> <<"migration", s, h.legacy>>, state |-> "pending"]
  BY <1>2 DEF Deployment, Price, Salt
<1>4. h.legacy \in Nat /\ <<"migration", s, h.legacy>> \in Salts /\ NewFactory \in Kinds
  BY <1>2 DEF EntryType, Salts, NewFactory, Factories, Kinds
<1>5. d \in AuctionType /\ SaltTrue(d) /\ d.salt[1] # "other"
  BY <1>2, <1>3, <1>4 DEF AuctionType, SaltTrue
<1>6. pool' = Append(pool, d)
  BY <1>2
<1>7. Len(pool') = Len(pool) + 1
  BY <1>6 DEF ChainInv
<1> QED BY <1>5, <1>6, <1>7, SendKeepsChain

LEMMA SendKeepsScript ==
    ASSUME FleetAssumption, ChainInv, ScriptInv, SendDeployment
    PROVE  ChainInv' /\ ChainGrows /\ ScriptInv'
<1>1. OnEntry
  BY DEF SendDeployment, New
<1>2. ChainInv' /\ ChainGrows /\ Len(pool') = Len(pool) + 1
  BY <1>1, Recreation DEF SendDeployment
<1>3. script' = [script EXCEPT !.at = "sent", !.tx = Len(pool) + 1] /\ UNCHANGED <<file, auctions>>
  BY DEF SendDeployment
<1>4. script \in ScriptType /\ Len(pool) + 1 \in Nat /\ Len(pool) + 1 # 0
  BY DEF ScriptInv, ChainInv
<1>5. script' \in ScriptType
  BY ONLY <1>3, <1>4 DEF ScriptType
<1>6. /\ script'.at = "sent" /\ script'.tx = Len(pool) + 1 /\ script'.entries = script.entries
      /\ script'.index = script.index /\ script'.i = script.i
  BY ONLY <1>3, <1>4 DEF ScriptType
<1>7. script'.i <= Len(Order) /\ Here' # None
  BY <1>1, <1>6 DEF OnEntry, Here, Source
<1>8. ASSUME NEW s \in Sources
      PROVE  EntryTrue(s, file[s])' /\ EntryTrue(s, script.entries[s])'
  <2>1. PICK e, f : e = script.entries[s] /\ f = file[s] /\ EntryTrue(s, e) /\ EntryTrue(s, f)
    BY DEF ScriptInv
  <2>2. EntryTrue(s, e)' /\ EntryTrue(s, f)'
    BY <1>2, <2>1, EntryKept
  <2>3. e = script'.entries[s] /\ f = file'[s]
    BY <1>3, <1>6, <2>1
  <2> QED BY <2>2, <2>3
<1>9. script'.tx <= Len(pool') /\ script'.tx # 0 /\ script'.index \subseteq DOMAIN auctions'
  BY <1>2, <1>3, <1>4, <1>6 DEF ScriptInv
<1> QED BY <1>2, <1>3, <1>5, <1>6, <1>7, <1>8, <1>9 DEF ScriptInv

LEMMA PersistKeepsScript ==
    ASSUME FleetAssumption, ChainInv, ScriptInv, PersistSubmitted
    PROVE  ScriptInv'
<1>1. ChainInv' /\ ChainGrows /\ UNCHANGED <<pool, auctions>>
  BY ChainUntouched DEF PersistSubmitted, chainVars
<1>2. script.at = "sent" /\ script.tx # 0 /\ script.i <= Len(Order) /\ Here # None
      /\ script \in ScriptType /\ script.tx \in Nat /\ script.tx <= Len(pool)
  BY DEF PersistSubmitted, ScriptInv, ScriptType
<1>3. PICK s, h, n : /\ s = Source /\ h = Here /\ s \in Sources /\ EntryTrue(s, h) /\ n = script.tx
                     /\ h # None /\ h \in EntryType /\ EntryOK(h)
  BY <1>2, HereFacts
<1>4. PICK e : e = [h EXCEPT !.status = "submitted", !.addr = AddressFor(s, h), !.tx = n]
  OBVIOUS
<1>5. AddressFor(s, h) \in Addresses /\ AddressFor(s, h)[1] = NewFactory /\ AddressFor(s, h) # None
  BY <1>3, AddressTypes DEF FleetAssumption, AddressFor
<1>6. /\ e \in EntryType /\ e.status = "submitted" /\ e.legacy = h.legacy /\ e.tx = n
      /\ e.addr = AddressFor(s, h)
  BY <1>2, <1>3, <1>4, <1>5 DEF EntryType
<1>7. EntryTrue(s, e)
  <2>1. n \in 0..Len(pool) /\ n # 0
    BY <1>2, <1>3 DEF ChainInv
  <2> QED BY <1>3, <1>5, <1>6, <2>1 DEF EntryTrue, EntryOK
<1> DEFINE entries == [script.entries EXCEPT ![s] = e]
<1>8. /\ entries \in [Sources -> EntryType \union {None}]
      /\ \A q \in Sources : entries[q] = IF q = s THEN e ELSE script.entries[q]
  BY <1>2, <1>6 DEF ScriptType
<1>9. script' = [script EXCEPT !.at = "wait", !.entries = entries] /\ file' = entries
  <2>1. Submitted(Here) = e
    BY <1>3, <1>4 DEF Submitted
  <2>2. script' = [script EXCEPT !.at = "wait", !.entries[s] = e] /\ file' = script'.entries
    BY <1>3, <2>1 DEF PersistSubmitted
  <2>3. [script EXCEPT !.at = "wait", !.entries[s] = e] = [script EXCEPT !.at = "wait", !.entries = entries]
    BY <1>2 DEF ScriptType
  <2>4. script'.entries = entries
    BY <1>2, <2>2, <2>3 DEF ScriptType
  <2> QED BY <2>2, <2>3, <2>4
<1> HIDE DEF entries
<1>10. script' \in ScriptType
  BY ONLY <1>2, <1>8, <1>9 DEF ScriptType
<1>11. /\ script'.at = "wait" /\ script'.entries = entries /\ script'.tx = script.tx
       /\ script'.i = script.i /\ script'.index = script.index
  BY ONLY <1>2, <1>9 DEF ScriptType
<1>12. Here' # None
  <2>1. s = Source'
    BY <1>3, <1>11 DEF Source
  <2>2. Here' = e
    BY <1>3, <1>8, <1>11, <2>1 DEF Here
  <2>3. e # None
    BY <1>6 DEF FleetAssumption
  <2> QED BY <2>2, <2>3
<1>13. ASSUME NEW q \in Sources
       PROVE  EntryTrue(q, file[q])' /\ EntryTrue(q, script.entries[q])'
  <2>1. PICK f : f = entries[q] /\ EntryTrue(q, f)
    BY <1>3, <1>7, <1>8 DEF ScriptInv
  <2>2. EntryTrue(q, f)'
    BY <1>1, <2>1, EntryKept
  <2>3. f = file'[q] /\ f = script'.entries[q]
    BY <1>9, <1>11, <2>1
  <2> QED BY <2>2, <2>3
<1> QED BY <1>1, <1>2, <1>8, <1>9, <1>10, <1>11, <1>12, <1>13 DEF ScriptInv

LEMMA FailKeepsScript ==
    ASSUME FleetAssumption, ChainInv, ScriptInv, EntryFails
    PROVE  ChainInv' /\ ChainGrows /\ ScriptInv'
<1>1. OnEntry /\ UNCHANGED <<legacy, auctions, others>>
  BY DEF EntryFails
<1>2. ChainInv' /\ ChainGrows
  BY <1>1, Recreation, ChainUntouched DEF EntryFails, chainVars
<1>3. PICK s, h : /\ s = Source /\ h = Here /\ h # None /\ h \in EntryType /\ EntryOK(h)
  BY <1>1, HereFacts DEF OnEntry
<1>4. PICK e : e = [h EXCEPT !.status = "error"]
  OBVIOUS
<1>5. e \in EntryType /\ EntryTrue(s, e)
  BY <1>3, <1>4, ErrorTrue
<1>6. Written(e) /\ EntryTrue(Source, e) /\ script.i <= Len(Order)
  BY <1>1, <1>3, <1>4, <1>5 DEF EntryFails, OnEntry
<1> QED BY <1>2, <1>5, <1>6, WrittenKeepsScript

LEMMA ScriptKeepsInv ==
    ASSUME FleetAssumption, ChainInv, ScriptInv, Script
    PROVE  ChainInv' /\ ChainGrows /\ ScriptInv'
<1>1. CASE StartScript \/ ReadIndex \/ SkipEntry \/ CheckSubmitted \/ TakeExisting \/ SimulateOnly
           \/ PersistSubmitted \/ AwaitDeployment \/ StopScript
  <2>1. ChainInv' /\ ChainGrows
    BY <1>1, ChainUntouched DEF StartScript, ReadIndex, SkipEntry, CheckSubmitted, TakeExisting,
      SimulateOnly, PersistSubmitted, AwaitDeployment, StopScript
  <2>2. StopScript => ScriptInv'
    BY <2>1, QuietScript DEF StopScript
  <2> QED BY <1>1, <2>1, <2>2, StartKeepsScript, ReadIndexKeepsScript, SkipEntryKeepsScript,
        HandledKeepsScript, PersistKeepsScript
<1>2. CASE SendDeployment
  BY <1>2, SendKeepsScript
<1>3. CASE EntryFails
  BY <1>3, FailKeepsScript
<1> QED BY <1>1, <1>2, <1>3 DEF Script

----------------------------------------------------------------------------
(* The requests.                                                           *)

Reads(q) == IF q.at = "reading" THEN 1 ELSE 0

\* A request that changes is counted anew.
LEMMA ReadingCounted ==
    ASSUME FleetAssumption, RequestInv, NEW r \in Requests, NEW q,
           requests' = [requests EXCEPT ![r] = q]
    PROVE  /\ Cardinality(Reading) \in Nat /\ Cardinality(Reading') \in Nat
           /\ Cardinality(Reading') + Reads(requests[r]) = Cardinality(Reading) + Reads(q)
<1>1. PICK R, S : R = Reading /\ S = Reading'
  OBVIOUS
<1>2. S = IF q.at = "reading" THEN R \union {r} ELSE R \ {r}
  BY <1>1 DEF Reading, RequestInv
<1>3. R \subseteq Requests /\ (r \in R <=> requests[r].at = "reading")
  BY <1>1 DEF Reading
<1>4. IsFiniteSet(R) /\ Cardinality(R) \in Nat
  <2>1. IsFiniteSet(R)
    BY <1>3, FS_Subset DEF FleetAssumption
  <2> QED BY <2>1, FS_CardinalityType
<1>5. CASE q.at = "reading" /\ r \notin R
  <2>1. Cardinality(R \union {r}) = Cardinality(R) + 1
    BY <1>4, <1>5, FS_AddElement
  <2> QED BY <1>1, <1>2, <1>3, <1>4, <1>5, <2>1 DEF Reads
<1>6. CASE q.at # "reading" /\ r \in R
  <2>1. Cardinality(R \ {r}) = Cardinality(R) - 1 /\ Cardinality(R \ {r}) \in Nat
    BY <1>4, <1>6, FS_RemoveElement, FS_CardinalityType
  <2> QED BY <1>1, <1>2, <1>3, <1>4, <1>6, <2>1 DEF Reads
<1>7. CASE (q.at = "reading") <=> (r \in R)
  <2>1. S = R
    BY <1>2, <1>7
  <2> QED BY <1>1, <1>3, <1>4, <1>7, <2>1 DEF Reads
<1> QED BY <1>5, <1>6, <1>7

LEMMA RequestChanged ==
    ASSUME FleetAssumption, ChainGrows, RequestInv, NEW r \in Requests, NEW q \in RequestType,
           q.shown \subseteq DOMAIN auctions,
           q.at \in {"reading", "known", "prepared"} =>
              q.source \in Sources /\ q.salt \in Salts /\ q.salt[1] = "manual",
           requests' = [requests EXCEPT ![r] = q], slots' \in Nat,
           slots' + Reads(q) = slots + Reads(requests[r])
    PROVE  RequestInv'
<1>1. slots' + Cardinality(Reading') = Slots
  <2>1. PICK s, t, c, d, x, y : /\ s = slots /\ t = slots' /\ c = Cardinality(Reading)
                                /\ d = Cardinality(Reading') /\ x = Reads(requests[r]) /\ y = Reads(q)
    OBVIOUS
  <2>2. s \in Nat /\ t \in Nat /\ c \in Nat /\ d \in Nat /\ s + c = Slots /\ Slots \in Nat
    BY <2>1, ReadingCounted DEF RequestInv, FleetAssumption
  <2>3. x \in 0..1 /\ y \in 0..1
    BY <2>1 DEF Reads
  <2>4. d + x = c + y /\ t + y = s + x
    BY <2>1, ReadingCounted
  <2>5. t + d = Slots
    BY ONLY <2>2, <2>3, <2>4
  <2> QED BY <2>1, <2>5
<1>2. requests' \in [Requests -> RequestType]
  BY DEF RequestInv
<1>3. ASSUME NEW p \in Requests
      PROVE  /\ requests'[p].shown \subseteq DOMAIN auctions'
             /\ requests'[p].at \in {"reading", "known", "prepared"} =>
                  /\ requests'[p].source \in Sources
                  /\ requests'[p].salt \in Salts /\ requests'[p].salt[1] = "manual"
  <2>1. requests'[p] = IF p = r THEN q ELSE requests[p]
    BY DEF RequestInv
  <2> QED BY <2>1 DEF RequestInv, ChainGrows
<1> QED BY <1>1, <1>2, <1>3 DEF RequestInv

LEMMA InputsAsked ==
    ASSUME NEW q \in Inputs
    PROVE  /\ q \in RequestType /\ q.source \in Sources /\ q.salt \in Salts
           /\ q.salt[1] = "manual" /\ q.shown = {} /\ q.price = 1
<1>1. PICK s \in Sources, f \in ToSet(Factories), second \in 0..1 : q = Input(s, f, second)
  BY DEF Inputs
<1>2. f \in Kinds
  BY DEF Factories, ToSet, Kinds
<1>3. q = [at |-> "new", source |-> s, factory |-> f, price |-> 1, salt |-> <<"manual", s, second>>,
           kind |-> "prepare", waits |-> FALSE, shown |-> {}]
  BY <1>1 DEF Asked, Input
<1>4. <<"manual", s, second>> \in Salts /\ <<"manual", s, second>>[1] = "manual"
  BY DEF Salts
<1> QED BY <1>2, <1>3, <1>4 DEF RequestType

LEMMA AdmitKeepsRequests ==
    ASSUME FleetAssumption, ChainInv, RequestInv, NEW r \in Requests, Admit(r)
    PROVE  RequestInv'
<1>1. ChainGrows /\ requests[r].at \in {"new", "known"}
  BY ChainUntouched DEF Admit
<1>2. requests[r] \in RequestType /\ requests[r].shown \subseteq DOMAIN auctions
      /\ Reads(requests[r]) = 0 /\ slots \in Nat
  BY <1>1 DEF RequestInv, Reads
<1>3. CASE requests' = [requests EXCEPT ![r].at = "over"] /\ UNCHANGED slots
  <2>1. PICK q : q = [requests[r] EXCEPT !.at = "over"]
    OBVIOUS
  <2>2. q \in RequestType /\ q.at = "over" /\ q.shown = requests[r].shown
    BY <1>2, <2>1 DEF RequestType
  <2>3. requests' = [requests EXCEPT ![r] = q]
    BY <1>3, <2>1
  <2>4. Reads(q) = 0
    BY <2>2 DEF Reads
  <2> QED BY <1>1, <1>2, <1>3, <2>2, <2>3, <2>4, RequestChanged
<1>4. CASE /\ slots > 0 /\ slots' = slots - 1
           /\ \E given \in IF requests[r].at = "new" THEN Inputs ELSE {requests[r]},
                 kind \in IF requests[r].at = "new" THEN {"defaults", "prepare"} ELSE {"prepare"} :
                requests' = [requests EXCEPT ![r] =
                   [given EXCEPT !.at = "reading", !.kind = kind, !.waits = TRUE]]
  <2>1. PICK given, kind :
          /\ given \in IF requests[r].at = "new" THEN Inputs ELSE {requests[r]}
          /\ kind \in {"defaults", "prepare"}
          /\ requests' = [requests EXCEPT ![r] =
                             [given EXCEPT !.at = "reading", !.kind = kind, !.waits = TRUE]]
    BY <1>4
  <2>2. /\ given \in RequestType /\ given.source \in Sources /\ given.salt \in Salts
        /\ given.salt[1] = "manual" /\ given.shown \subseteq DOMAIN auctions
    <3>1. CASE requests[r].at = "new"
      BY <2>1, <3>1, InputsAsked
    <3>2. CASE requests[r].at = "known"
      BY <1>2, <2>1, <3>2 DEF RequestInv
    <3> QED BY <1>1, <3>1, <3>2
  <2>3. PICK q : q = [given EXCEPT !.at = "reading", !.kind = kind, !.waits = TRUE]
    OBVIOUS
  <2>4. /\ q \in RequestType /\ q.at = "reading" /\ q.source = given.source /\ q.salt = given.salt
        /\ q.shown = given.shown
    BY <2>1, <2>2, <2>3 DEF RequestType
  <2>5. Reads(q) = 1 /\ slots' \in Nat /\ slots' + 1 = slots + 0
    BY <1>2, <1>4, <2>4 DEF Reads
  <2>6. requests' = [requests EXCEPT ![r] = q]
    BY <2>1, <2>3
  <2> QED BY <1>1, <1>2, <2>2, <2>4, <2>5, <2>6, RequestChanged
<1> QED BY <1>3, <1>4 DEF Admit

LEMMA DisconnectKeepsRequests ==
    ASSUME FleetAssumption, ChainInv, RequestInv, NEW r \in Requests, Disconnect(r)
    PROVE  RequestInv'
<1>1. /\ ChainGrows /\ requests[r].at = "reading" /\ UNCHANGED slots /\ slots \in Nat
      /\ requests[r] \in RequestType
  BY ChainUntouched DEF Disconnect, RequestInv
<1>2. PICK q : q = [requests[r] EXCEPT !.waits = FALSE]
  OBVIOUS
<1>3. /\ q \in RequestType /\ q.at = "reading" /\ q.source = requests[r].source
      /\ q.salt = requests[r].salt /\ q.shown = requests[r].shown
  BY <1>1, <1>2 DEF RequestType
<1>4. requests' = [requests EXCEPT ![r] = q]
  BY <1>2 DEF Disconnect
<1>5. /\ q.shown \subseteq DOMAIN auctions /\ q.source \in Sources /\ q.salt \in Salts
      /\ q.salt[1] = "manual"
  BY <1>1, <1>3 DEF RequestInv
<1>6. slots' + Reads(q) = slots + Reads(requests[r])
  BY <1>1, <1>3 DEF Reads
<1> QED BY <1>1, <1>3, <1>4, <1>5, <1>6, RequestChanged

LEMMA FinishKeepsRequests ==
    ASSUME FleetAssumption, ChainInv, RequestInv, NEW r \in Requests, FinishRead(r)
    PROVE  RequestInv'
<1>1. /\ ChainGrows /\ requests[r].at = "reading" /\ slots' = slots + 1 /\ slots \in Nat
      /\ slots' \in Nat /\ requests[r] \in RequestType
  BY ChainUntouched DEF FinishRead, RequestInv
<1>2. /\ requests[r].source \in Sources /\ requests[r].salt \in Salts
      /\ requests[r].salt[1] = "manual" /\ requests[r].shown \subseteq DOMAIN auctions
  BY <1>1 DEF RequestInv
<1>3. PICK q, at, shown : /\ at \in {"over", "known", "prepared"} /\ shown \subseteq DOMAIN auctions
                          /\ q = [requests[r] EXCEPT !.at = at, !.shown = shown]
                          /\ requests' = [requests EXCEPT ![r] = q]
  <2>1. CASE requests' = [requests EXCEPT ![r].at = "over"]
    <3>1. [requests[r] EXCEPT !.at = "over"] = [requests[r] EXCEPT !.at = "over", !.shown = requests[r].shown]
      BY <1>1 DEF RequestType
    <3>2. requests' = [requests EXCEPT ![r] = [requests[r] EXCEPT !.at = "over"]]
      BY <2>1
    <3> QED BY <1>2, <3>1, <3>2
  <2>2. CASE \E shown \in Shown(requests[r]) :
               requests' = [requests EXCEPT ![r].shown = shown,
                   ![r].at = IF requests[r].kind = "defaults" THEN "known" ELSE "prepared"]
    <3>1. PICK shown \in Shown(requests[r]) :
               requests' = [requests EXCEPT ![r].shown = shown,
                   ![r].at = IF requests[r].kind = "defaults" THEN "known" ELSE "prepared"]
      BY <2>2
    <3>2. PICK at : at = IF requests[r].kind = "defaults" THEN "known" ELSE "prepared"
      OBVIOUS
    <3>3. requests' = [requests EXCEPT ![r] = [requests[r] EXCEPT !.shown = shown, !.at = at]]
      BY <3>1, <3>2 DEF RequestInv
    <3>4. [requests[r] EXCEPT !.shown = shown, !.at = at] = [requests[r] EXCEPT !.at = at, !.shown = shown]
      BY <1>1 DEF RequestType
    <3>5. shown \subseteq DOMAIN auctions /\ at \in {"over", "known", "prepared"}
      BY <3>1, <3>2 DEF Shown, Matching
    <3> QED BY <3>3, <3>4, <3>5
  <2> QED BY <2>1, <2>2 DEF FinishRead
<1>4. /\ q \in RequestType /\ q.at = at /\ q.source = requests[r].source
      /\ q.salt = requests[r].salt /\ q.shown = shown
  <2>1. shown \subseteq Nat
    BY <1>3 DEF ChainInv
  <2> QED BY <1>1, <1>3, <2>1 DEF RequestType
<1>5. slots' + Reads(q) = slots + Reads(requests[r])
  BY <1>1, <1>3, <1>4 DEF Reads
<1> QED BY <1>1, <1>2, <1>3, <1>4, <1>5, RequestChanged

\* A deployment on behalf of a request, and what is left of the request.
LEMMA DeployedForRequest ==
    ASSUME FleetAssumption, ChainInv, RequestInv, NEW r \in Requests,
           NEW asked \in RequestType, asked.source \in Sources, asked.salt \in Salts,
           asked.salt[1] = "manual", Reads(requests[r]) = 0,
           NEW q \in RequestType, q.at = "over", q.shown \subseteq DOMAIN auctions,
           pool' = Append(pool, Deployment(asked.factory, asked.source, 1, asked.salt)),
           requests' = [requests EXCEPT ![r] = q], UNCHANGED <<legacy, auctions, others, slots>>
    PROVE  ChainInv' /\ ChainGrows /\ RequestInv'
<1>1. PICK d : d = Deployment(asked.factory, asked.source, 1, asked.salt)
  OBVIOUS
<1>2. d = [factory |-> asked.factory, source |-> asked.source, price |-> 1, good |-> TRUE,
           salt |-> asked.salt, state |-> "pending"]
  BY <1>1 DEF Deployment
<1>3. asked.factory \in Kinds
  BY DEF RequestType
<1>4. d \in AuctionType /\ d.salt = asked.salt
  BY <1>2, <1>3 DEF AuctionType
<1>5. SaltTrue(d) /\ d.salt[1] # "other"
  BY <1>4 DEF SaltTrue
<1>6. ChainInv' /\ ChainGrows
  BY <1>1, <1>4, <1>5, SendKeepsChain
<1>7. Reads(q) = 0 /\ slots' = slots /\ slots \in Nat
  BY DEF Reads, RequestInv
<1> QED BY <1>6, <1>7, RequestChanged

LEMMA SignKeepsInv ==
    ASSUME FleetAssumption, ChainInv, RequestInv, NEW r \in Requests, Sign(r)
    PROVE  ChainInv' /\ ChainGrows /\ RequestInv'
<1>1. PICK asked : asked = requests[r]
  OBVIOUS
<1>2. /\ asked \in RequestType /\ asked.at = "prepared" /\ asked.source \in Sources
      /\ asked.salt \in Salts /\ asked.salt[1] = "manual" /\ asked.shown \subseteq DOMAIN auctions
  BY <1>1 DEF Sign, RequestInv
<1>3. PICK q : q = [asked EXCEPT !.at = "over"]
  OBVIOUS
<1>4. q \in RequestType /\ q.at = "over" /\ q.shown = asked.shown
  BY <1>2, <1>3 DEF RequestType
<1>5. /\ requests' = [requests EXCEPT ![r] = q]
      /\ pool' = Append(pool, Deployment(asked.factory, asked.source, 1, asked.salt))
      /\ UNCHANGED <<legacy, auctions, others, slots>>
  BY <1>1, <1>3 DEF Sign
<1>6. Reads(requests[r]) = 0
  BY <1>1, <1>2 DEF Reads
<1> QED BY <1>2, <1>4, <1>5, <1>6, DeployedForRequest

LEMMA DeploySingleKeepsInv ==
    ASSUME FleetAssumption, ChainInv, RequestInv, NEW r \in Requests, DeploySingle(r)
    PROVE  ChainInv' /\ ChainGrows /\ RequestInv'
<1>1. PICK given \in Inputs, shown \in SUBSET DOMAIN auctions :
        /\ pool' = Append(pool, Deployment(given.factory, given.source, 1, given.salt))
        /\ requests' = [requests EXCEPT ![r] = [given EXCEPT !.at = "over", !.shown = shown]]
        /\ UNCHANGED <<legacy, auctions, others, slots>>
  BY DEF DeploySingle, Shown, Matching
<1>2. /\ given \in RequestType /\ given.source \in Sources /\ given.salt \in Salts
      /\ given.salt[1] = "manual"
  BY InputsAsked
<1>3. PICK q : q = [given EXCEPT !.at = "over", !.shown = shown]
  OBVIOUS
<1>4. q \in RequestType /\ q.at = "over" /\ q.shown = shown
  <2>1. shown \subseteq Nat
    BY DEF ChainInv
  <2> QED BY <1>2, <1>3, <2>1 DEF RequestType
<1>5. requests' = [requests EXCEPT ![r] = q]
  BY <1>1, <1>3
<1>6. Reads(requests[r]) = 0
  BY DEF DeploySingle, Reads
<1>7. q.shown \subseteq DOMAIN auctions
  BY <1>1, <1>4
<1> QED BY <1>1, <1>2, <1>4, <1>5, <1>6, <1>7, DeployedForRequest

----------------------------------------------------------------------------
(* The mapping.                                                            *)

LEMMA RankOf ==
    ASSUME ChainInv, NEW i \in DOMAIN auctions
    PROVE  Rank(i) = IF auctions[i].factory = "v1.0.4" THEN 1 ELSE 2
<1>1. auctions[i].factory \in Kinds
  <2>1. auctions[i] \in AuctionType
    BY DEF ChainInv
  <2> QED BY <2>1 DEF AuctionType
<1>2. DOMAIN Factories = {1, 2} /\ Factories[1] = "v1.0.4" /\ Factories[2] = "v1.0.5"
  BY DEF Factories
<1> QED BY <1>1, <1>2 DEF Rank, Kinds

\* Of auctions there is a newest: the last of the last factory that has one.
LEMMA NewestExists ==
    ASSUME ChainInv, NEW S \in SUBSET DOMAIN auctions, S # {}
    PROVE  \E i \in S : \A j \in S : j = i \/ Newer(i, j)
<1>1. /\ Len(auctions) \in Nat /\ S \subseteq Nat /\ \A i \in S : i <= Len(auctions)
      /\ \A i \in S : Rank(i) \in {1, 2}
  BY RankOf DEF ChainInv
<1> DEFINE Late == {i \in S : Rank(i) = 2}
<1>2. CASE Late # {}
  <2>1. PICK i \in Late : \A j \in Late : j <= i
    <3>1. Late \in SUBSET Nat /\ \A j \in Late : j <= Len(auctions)
      BY <1>1
    <3> HIDE DEF Late
    <3> QED BY <1>1, <1>2, <3>1, GreatestNumber
  <2>2. i \in S /\ Rank(i) = 2
    OBVIOUS
  <2>3. ASSUME NEW j \in S PROVE j = i \/ Newer(i, j)
    <3>1. CASE Rank(j) = 2
      <4>1. j <= i /\ i \in Nat /\ j \in Nat
        BY <1>1, <2>1, <3>1
      <4>2. j = i \/ i > j
        BY ONLY <4>1
      <4> QED BY <2>2, <3>1, <4>2 DEF Newer
    <3>2. CASE Rank(j) = 1
      BY <2>2, <3>2 DEF Newer
    <3> QED BY <1>1, <3>1, <3>2
  <2> QED BY <2>2, <2>3
<1>3. CASE Late = {}
  <2>1. PICK i \in S : \A j \in S : j <= i
    BY <1>1, GreatestNumber
  <2>2. \A j \in S : Rank(j) = 1
    BY <1>1, <1>3
  <2>3. \A j \in S : j = i \/ i > j
    BY <1>1, <2>1
  <2> QED BY <2>1, <2>2, <2>3 DEF Newer
<1> QED BY <1>2, <1>3

\* A refreshed mapping is the newest of the valid auctions.
LEMMA RefreshFacts ==
    ASSUME ChainInv, RefreshMapping, NEW s \in Sources
    PROVE  /\ mapped'[s] # None => mapped'[s] \in Valid(s)
           /\ mapped'[s] # None /\ mapped[s] \in Valid(s) /\ mapped'[s] # mapped[s]
                => Newer(mapped'[s], mapped[s])
<1>1. mapped'[s] = None \/ mapped'[s] = Latest(Valid(s))
  BY DEF RefreshMapping
<1>2. CASE Valid(s) # {} /\ mapped'[s] = Latest(Valid(s))
  <2>1. \E i \in Valid(s) : \A j \in Valid(s) : j = i \/ Newer(i, j)
    <3>1. Valid(s) \in SUBSET DOMAIN auctions
      BY DEF Valid
    <3> QED BY <1>2, <3>1, NewestExists
  <2>2. mapped'[s] = CHOOSE i \in Valid(s) : \A j \in Valid(s) : j = i \/ Newer(i, j)
    BY <1>2 DEF Latest
  <2>3. mapped'[s] \in Valid(s) /\ \A j \in Valid(s) : j = mapped'[s] \/ Newer(mapped'[s], j)
    BY <2>1, <2>2
  <2> QED BY <2>3
<1>3. CASE mapped'[s] = None
  BY <1>3
<1>4. CASE Valid(s) = {} /\ mapped'[s] = Latest(Valid(s))
  BY <1>4, <1>3 DEF Latest
<1> QED BY <1>1, <1>2, <1>3, <1>4

LEMMA RefreshKeepsInv ==
    ASSUME FleetInv, RefreshMapping
    PROVE  FleetInv'
<1>1. UNCHANGED <<chainVars, scriptVars, requests, slots>>
  BY DEF RefreshMapping
<1>2. ChainInv' /\ ChainGrows
  BY <1>1, ChainUntouched DEF FleetInv
<1>3. ScriptInv' /\ RequestInv'
  BY <1>1, <1>2, ScriptKept, RequestsKept DEF FleetInv, scriptVars
<1>4. MappedInv'
  <2>1. \A s \in Sources : mapped'[s] # None => mapped'[s] \in Valid(s)
    BY RefreshFacts DEF FleetInv
  <2>2. \A s \in Sources : Valid(s) \subseteq DOMAIN auctions'
    BY <1>1 DEF Valid, chainVars
  <2>3. DOMAIN mapped' = Sources /\ mapped' = [s \in Sources |-> mapped'[s]]
    BY DEF RefreshMapping
  <2> QED BY <2>1, <2>2, <2>3 DEF MappedInv
<1> QED BY <1>2, <1>3, <1>4 DEF FleetInv

----------------------------------------------------------------------------
(* The inductive invariant.                                                *)

LEMMA FleetInit == ASSUME FleetAssumption, Init PROVE FleetInv
<1>1. ChainInv
  <2>1. /\ others = 0 /\ auctions = <<>> /\ pool = <<>> /\ legacy \in [Sources -> 0..1]
    BY DEF Init
  <2>2. MaxOthers \in Nat
    BY DEF FleetAssumption
  <2> QED BY <2>1, <2>2 DEF ChainInv
<1>2. ScriptInv
  <2>1. file = NoEntries /\ script = Quiet /\ pool = <<>> /\ auctions = <<>>
    BY DEF Init
  <2>2. NoEntries \in [Sources -> EntryType \union {None}]
    BY DEF NoEntries
  <2>3. 1 \in 1..(Len(Order) + 1)
    BY OrderLists
  <2>4. Quiet \in ScriptType
    BY <2>2, <2>3 DEF Quiet, ScriptType
  <2>5. /\ Quiet.at = "idle" /\ Quiet.tx = 0 /\ Quiet.index = {} /\ Quiet.entries = NoEntries
    BY DEF Quiet
  <2>6. \A s \in Sources : EntryTrue(s, NoEntries[s])
    BY DEF EntryTrue, NoEntries
  <2> QED BY <2>1, <2>2, <2>4, <2>5, <2>6 DEF ScriptInv
<1>3. RequestInv
  <2>1. requests = [r \in Requests |-> Asked] /\ slots = Slots
    BY DEF Init
  <2>2. Asked \in RequestType /\ Asked.at = "new" /\ Asked.shown = {}
    BY DEF Asked, RequestType, NewFactory, Factories, Kinds
  <2>3. Reading = {}
    BY <2>1, <2>2 DEF Reading
  <2>4. Cardinality(Reading) = 0
    BY <2>3, FS_EmptySet
  <2> QED BY <2>1, <2>2, <2>4 DEF RequestInv, FleetAssumption
<1>4. MappedInv
  BY DEF Init, MappedInv
<1> QED BY <1>1, <1>2, <1>3, <1>4 DEF FleetInv

LEMMA FleetStep == ASSUME FleetAssumption, FleetInv, [Next]_vars PROVE FleetInv'
<1>1. CASE UNCHANGED vars
  <2>1. UNCHANGED <<chainVars, file, script, requests, slots, mapped>>
    BY <1>1 DEF vars, scriptVars
  <2> QED BY <2>1, ChainUntouched, ScriptKept, RequestsKept, MappingKept DEF FleetInv
<1>2. CASE Script
  <2>1. ChainInv' /\ ChainGrows /\ ScriptInv'
    BY <1>2, ScriptKeepsInv DEF FleetInv
  <2>2. UNCHANGED <<requests, slots, mapped>>
    BY <1>2 DEF Script, StartScript, ReadIndex, SkipEntry, CheckSubmitted, TakeExisting,
      SimulateOnly, SendDeployment, PersistSubmitted, AwaitDeployment, EntryFails, StopScript
  <2> QED BY <2>1, <2>2, RequestsKept, MappingKept DEF FleetInv
<1>3. CASE RefreshMapping
  BY <1>3, RefreshKeepsInv
<1>4. CASE \/ \E n \in DOMAIN pool : Mine(n)
           \/ \E s \in Sources : OthersDeploy(s)
           \/ \E i \in DOMAIN auctions : GovernanceMoves(i)
  <2>1. ChainInv' /\ ChainGrows
    BY <1>4, MineKeepsChain, OthersKeepChain, GovernanceKeepsChain DEF FleetInv
  <2>2. UNCHANGED <<file, script, requests, slots, mapped>>
    BY <1>4 DEF Mine, OthersDeploy, GovernanceMoves, scriptVars
  <2> QED BY <2>1, <2>2, ScriptKept, RequestsKept, MappingKept DEF FleetInv
<1>5. CASE \E r \in Requests : Admit(r) \/ Disconnect(r) \/ FinishRead(r) \/ Sign(r) \/ DeploySingle(r)
  <2>1. PICK r \in Requests : Admit(r) \/ Disconnect(r) \/ FinishRead(r) \/ Sign(r) \/ DeploySingle(r)
    BY <1>5
  <2>2. ChainInv' /\ ChainGrows /\ RequestInv'
    <3>1. CASE Admit(r) \/ Disconnect(r) \/ FinishRead(r)
      <4>1. UNCHANGED chainVars
        BY <3>1 DEF Admit, Disconnect, FinishRead
      <4> QED BY <3>1, <4>1, ChainUntouched, AdmitKeepsRequests, DisconnectKeepsRequests,
            FinishKeepsRequests DEF FleetInv
    <3>2. CASE Sign(r) \/ DeploySingle(r)
      BY <3>2, SignKeepsInv, DeploySingleKeepsInv DEF FleetInv
    <3> QED BY <2>1, <3>1, <3>2
  <2>3. UNCHANGED <<file, script, mapped>>
    BY <2>1 DEF Admit, Disconnect, FinishRead, Sign, DeploySingle, scriptVars
  <2> QED BY <2>2, <2>3, ScriptKept, MappingKept DEF FleetInv
<1> QED BY <1>1, <1>2, <1>3, <1>4, <1>5 DEF Next

\* The inductive invariant of the fleet: unique addresses, true entries, counted
\* reads, and mappings to auctions that exist.
THEOREM FleetInvariant == ASSUME FleetAssumption PROVE Spec => []FleetInv
<1>1. Init => FleetInv
  BY FleetInit
<1>2. FleetInv /\ [Next]_vars => FleetInv'
  BY FleetStep
<1> QED BY <1>1, <1>2, PTL DEF Spec

----------------------------------------------------------------------------
(* What follows.                                                           *)

LEMMA RecreationsAreUnique == ASSUME ChainInv PROVE RecreatedOnce
<1> SUFFICES ASSUME NEW i \in DOMAIN auctions, NEW j \in DOMAIN auctions,
                    auctions[i].salt[1] = "migration", auctions[j].salt[1] = "migration",
                    auctions[i].source = auctions[j].source, auctions[i].price = auctions[j].price
             PROVE  i = j
  BY DEF RecreatedOnce
<1>1. SaltTrue(auctions[i]) /\ SaltTrue(auctions[j])
  BY DEF ChainInv
<1>2. auctions[i].factory = auctions[j].factory /\ auctions[i].salt = auctions[j].salt
  BY <1>1 DEF SaltTrue
<1>3. Address(auctions[i]) = Address(auctions[j])
  BY <1>2 DEF Address
<1> QED BY <1>3 DEF ChainInv

\* build_salt, verify_entry_against_auction, run_deployment_rpc: however often the
\* migration is run, timed out or killed, a legacy auction is recreated at most once,
\* what the cache file calls verified is there, and every slot of the semaphore is
\* free or held by a read that is running.
THEOREM FleetIsAlwaysSound == ASSUME FleetAssumption PROVE Spec => []FleetIsSound
<1>1. FleetInv => FleetIsSound
  <2> SUFFICES ASSUME FleetInv PROVE FleetIsSound
    OBVIOUS
  <2>1. RecreatedOnce
    BY RecreationsAreUnique DEF FleetInv
  <2>2. VerifiedIsTrue
    BY DEF FleetInv, ScriptInv, EntryTrue, VerifiedIsTrue
  <2>3. SlotsAccounted
    BY DEF FleetInv, RequestInv, Reading, SlotsAccounted
  <2> QED BY <2>1, <2>2, <2>3 DEF FleetIsSound
<1> QED BY <1>1, FleetInvariant, PTL

\* The types of the migration, of the requests and of the mapping; what was submitted
\* has its transaction.
THEOREM FleetTypes == ASSUME FleetAssumption PROVE Spec => []TypeOK
<1>1. FleetInv => TypeOK
  <2> SUFFICES ASSUME FleetInv PROVE TypeOK
    OBVIOUS
  <2>1. \A s \in Sources : EntryOK(file[s]) /\ EntryOK(script.entries[s])
    <3>1. \A e : e = None => EntryOK(e)
      BY DEF EntryOK
    <3> QED BY <3>1 DEF FleetInv, ScriptInv, EntryTrue
  <2>2. script.at \in {"idle", "index", "entries", "sent", "wait"} /\ script.tx \in 0..Len(pool)
    <3>1. script \in ScriptType /\ script.tx <= Len(pool) /\ Len(pool) \in Nat
      BY DEF FleetInv, ScriptInv, ChainInv
    <3>2. script.at \in {"idle", "index", "entries", "sent", "wait"} /\ script.tx \in Nat
      BY <3>1 DEF ScriptType
    <3> QED BY <3>1, <3>2
  <2>3. script.index \subseteq DOMAIN auctions /\ script.i \in 1..(Len(Order) + 1)
    BY DEF FleetInv, ScriptInv, ScriptType
  <2>4. \A r \in Requests : /\ requests[r].at \in {"new", "reading", "known", "prepared", "over"}
                            /\ requests[r].shown \subseteq DOMAIN auctions
    BY DEF FleetInv, RequestInv, RequestType
  <2>5. \A s \in Sources : mapped[s] \in {None} \union DOMAIN auctions
    BY DEF FleetInv, MappedInv
  <2> QED BY <2>1, <2>2, <2>3, <2>4, <2>5 DEF TypeOK
<1> QED BY <1>1, FleetInvariant, PTL

\* refresh_for_strategies: a scan never takes a source from an auction that has its
\* governance to an older one, whatever it could not read.
THEOREM NeverFallsBack == ASSUME FleetAssumption PROVE Spec => MappingNeverFallsBack
<1>1. FleetInv /\ [Next]_vars => [NeverOlder]_vars
  <2> SUFFICES ASSUME FleetInv, Next PROVE NeverOlder
    OBVIOUS
  <2>1. CASE RefreshMapping
    BY <2>1, RefreshFacts DEF NeverOlder, FleetInv
  <2>2. CASE UNCHANGED mapped
    BY <2>2 DEF NeverOlder
  <2>3. RefreshMapping \/ UNCHANGED mapped
    BY DEF Next, Script, StartScript, ReadIndex, SkipEntry, CheckSubmitted, TakeExisting,
      SimulateOnly, SendDeployment, PersistSubmitted, AwaitDeployment, EntryFails, StopScript,
      Mine, OthersDeploy, GovernanceMoves, Admit, Disconnect, FinishRead, Sign, DeploySingle
  <2> QED BY <2>1, <2>2, <2>3
<1> QED BY <1>1, FleetInvariant, PTL DEF Spec, MappingNeverFallsBack
=============================================================================
