-------------------------- MODULE ScanAlertsProofs --------------------------
(***************************************************************************)
(* What the alerts after a scan guarantee for any number of scans, items,  *)
(* rounds and destinations: their types for any number of scanner          *)
(* processes, and with a single one, when no two `tidal-server scan run`   *)
(* overlap, what is announced and how often.                               *)
(*                                                                         *)
(* The argument: a message that is due is in the scanner's list until it   *)
(* has been tried or given up, and what the list announces was true of the *)
(* runs when it was made and stays true, because a lone scanner only ever  *)
(* finishes its newest run.                                                *)
(***************************************************************************)
EXTENDS ScanAlerts, SequenceLemmas

----------------------------------------------------------------------------
(* The inductive invariant.                                                *)

RunType  == [status : Done \union {"RUNNING"}, errors : SUBSET Items]
RowType  == [attempts : 0 .. AttemptLimit, sent : BOOLEAN]
Places   == {"idle", "scanning", "evaluate", "dispatch", "count", "send", "record"}
Holding  == {"count", "send", "record"}
ProcType == [at : Places, run : 0 .. MaxRuns, todo : Seq(Slots), seen : 0 .. AttemptLimit]

Types ==
    /\ runs \in Seq(RunType) /\ Len(runs) <= MaxRuns
    /\ round \in [Pairs -> [id : 1 .. MaxRounds, verdict : Verdicts]]
    /\ DOMAIN rows \subseteq Slots /\ DOMAIN received = DOMAIN rows
    /\ \A k \in DOMAIN rows : rows[k] \in RowType /\ received[k] \in Nat
    /\ cut \subseteq 1 .. MaxRuns
    /\ proc \in [Scanners -> ProcType]

\* A scanner has a run in hand, and in the middle of a delivery its row.
HandsAreSound ==
    \A s \in Scanners :
        /\ proc[s].at # "idle" => proc[s].run \in DOMAIN runs
        /\ proc[s].at \in Holding => proc[s].todo # <<>> /\ Slot(s) \in DOMAIN rows
        /\ proc[s].at = "count" => proc[s].seen < AttemptLimit

\* A lone scanner works on the newest run, which is unfinished while it scans.
NewestInHand ==
    \A s \in Scanners :
        /\ proc[s].at # "idle" => proc[s].run = Len(runs)
        /\ proc[s].at = "idle" => proc[s].run = 0
        /\ proc[s].at = "scanning" => runs[proc[s].run].status = "RUNNING"
        /\ proc[s].at \notin {"idle", "scanning"} => runs[proc[s].run].status # "RUNNING"

\* No delivery is made that was not counted, and a recorded one was made.
CountsAreSound ==
    /\ \A k \in DOMAIN rows :
         /\ received[k] <= rows[k].attempts
         /\ rows[k].sent => received[k] > 0
    /\ \A s \in Scanners :
         /\ proc[s].at \in {"count", "send"} => ~rows[Slot(s)].sent
         /\ proc[s].at = "count" => rows[Slot(s)].attempts = proc[s].seen
         /\ proc[s].at = "send" => received[Slot(s)] < rows[Slot(s)].attempts
         /\ proc[s].at = "record" => received[Slot(s)] > 0

\* A failure that was due for an announcement has been tried or is in the list.
FailureSlot(r, d) == [key |-> Key("scan_failed", "scanner", r), to |-> d]
Tried(k) == k \in DOMAIN rows /\ rows[k].attempts > 0
FailuresAreTried ==
    /\ \A r \in Finished \ cut :
         (runs[r].status = "FAILED" /\ \A s \in Scanners : proc[s].run # r) =>
             \A d \in Destinations : Tried(FailureSlot(r, d))
    /\ \A s \in Scanners :
         (proc[s].at \in {"dispatch"} \union Holding /\ runs[proc[s].run].status = "FAILED") =>
             \A d \in Destinations :
                 \/ FailureSlot(proc[s].run, d) \in ToSet(proc[s].todo)
                 \/ Tried(FailureSlot(proc[s].run, d))

\* An item's occurrence begins at a run that got through with it, and between
\* that run and any earlier one that got through there is one without it.
Begins(i, n) ==
    /\ n \in Through /\ i \in runs[n].errors
    /\ \A q \in Through : q < n => \E r \in Through : q <= r /\ r < n /\ i \notin runs[r].errors
OccurrencesBegin ==
    /\ \A k \in DOMAIN rows : k.key.kind = "repeated" => Begins(k.key.what, k.key.anchor)
    /\ \A s \in Scanners : \A k \in ToSet(proc[s].todo) :
         k.key.kind = "repeated" => Begins(k.key.what, k.key.anchor)

AlertsInv == Types /\ HandsAreSound
LoneInv   == NewestInHand /\ CountsAreSound /\ FailuresAreTried /\ OccurrencesBegin

----------------------------------------------------------------------------
(* What evaluate makes of the rounds and the runs.                         *)

\* A message for every key and destination, in a list without repetition.
LEMMA MessagesAre ==
    ASSUME NEW keys \in SUBSET Keys, IsFiniteSet(keys)
    PROVE  LET m == Messages(keys) IN
           m \in Seq(Slots) /\ ToSet(m) = {[key |-> k, to |-> d] : k \in keys, d \in Destinations}
<1> DEFINE T == {[key |-> k, to |-> d] : k \in keys, d \in Destinations}
           P == keys \X Destinations
           f == [p \in P |-> [key |-> p[1], to |-> p[2]]]
<1>1. IsFiniteSet(P)
  BY SetsAssumption, FS_Product
<1>2. f \in [P -> T]
  OBVIOUS
<1>3. ASSUME NEW y \in T
      PROVE  \E x \in P : f[x] = y
  <2>1. PICK k \in keys : \E d \in Destinations : y = [key |-> k, to |-> d]
    OBVIOUS
  <2>2. PICK d \in Destinations : y = [key |-> k, to |-> d]
    BY <2>1
  <2>3. <<k, d>> \in P /\ f[<<k, d>>] = y
    BY <2>2
  <2> QED BY <2>3
<1>4. IsFiniteSet(T)
  <2> HIDE DEF P, T, f
  <2>1. f \in Surjection(P, T)
    BY ONLY <1>2, <1>3 DEF Surjection
  <2> QED BY <1>1, <2>1, FS_Surjection
<1>5. T \subseteq Slots
  BY DEF Slots
<1>6. Messages(keys) = SetToSeq(T)
  BY DEF Messages
<1>7. SetToSeq(T) \in Seq(T) /\ ToSet(SetToSeq(T)) = T
  <2> HIDE DEF T
  <2> QED BY <1>4, SetToSeqLists
<1>8. Seq(T) \subseteq Seq(Slots)
  <2> HIDE DEF T
  <2> QED BY <1>5
<1> QED BY <1>6, <1>7, <1>8

\* The newest of some runs.
LEMMA NewestIs ==
    ASSUME NEW R \in SUBSET Nat, R # {}, NEW n \in Nat, \A r \in R : r <= n
    PROVE  Newest(R) \in R /\ \A r \in R : r <= Newest(R)
<1>1. \E r \in R : \A q \in R : q <= r
  BY GreatestNumber
<1> QED BY <1>1 DEF Newest

\* The oldest of some runs.
LEMMA OldestIs ==
    ASSUME NEW R \in SUBSET Nat, R # {}
    PROVE  Oldest(R) \in R /\ \A r \in R : Oldest(R) <= r
<1>1. \E r \in R : \A q \in R : r <= q
  BY LeastNumber
<1> QED BY <1>1 DEF Oldest

\* Runs are numbered from 1.
LEMMA RunsAreNumbered ==
    ASSUME Types
    PROVE  /\ Len(runs) \in Nat /\ DOMAIN runs = 1 .. Len(runs) /\ DOMAIN runs \subseteq 1 .. MaxRuns
           /\ \A r \in DOMAIN runs : /\ runs[r].status \in Done \union {"RUNNING"}
                                     /\ runs[r].errors \in SUBSET Items
<1>1. Len(runs) \in Nat /\ DOMAIN runs = 1 .. Len(runs) /\ Len(runs) <= MaxRuns
      /\ \A r \in DOMAIN runs : runs[r] \in RunType
  BY DEF Types
<1>2. MaxRuns \in Nat
  BY BoundsAssumption
<1>3. \A x \in RunType : x.status \in Done \union {"RUNNING"} /\ x.errors \in SUBSET Items
  BY DEF RunType
<1> QED BY <1>1, <1>2, <1>3

\* An item is announced under the run its unbroken failing began with.
LEMMA EpisodesBegin ==
    ASSUME Types, NEW i \in Repeated
    PROVE  i \in Items /\ Begins(i, EpisodeStart(i))
<1> DEFINE T == Through
           R == {r \in T : \A q \in T : q >= r => i \in runs[q].errors}
<1>1. T \in SUBSET Nat /\ T \subseteq DOMAIN runs /\ \A r \in T : r <= Len(runs)
  BY RunsAreNumbered DEF Through
<1>2. i \in Items /\ ~(Cardinality(T) < 3) /\ \A r \in LastThree : i \in runs[r].errors
  BY DEF Repeated
<1>3. T # {}
  BY <1>2, FS_EmptySet
<1>4. PICK n \in T : \A q \in T : q <= n
  <2> HIDE DEF T
  <2> QED BY <1>1, <1>3, GreatestNumber, RunsAreNumbered
<1>5. {q \in T : q > n} = {}
  <2>1. n \in Nat /\ \A q \in T : q \in Nat /\ q <= n
    BY <1>1, <1>4
  <2>2. \A q \in T : ~(q > n)
    BY <2>1
  <2> QED BY <2>2
<1>6. n \in LastThree
  BY <1>5, FS_EmptySet DEF LastThree
<1>7. n \in R
  <2>1. \A q \in T : q >= n => q = n
    BY <1>1, <1>4
  <2> QED BY <1>2, <1>6, <2>1
<1>8. R \in SUBSET Nat /\ R # {}
  BY <1>1, <1>7
<1>9. EpisodeStart(i) = Oldest(R)
  BY DEF EpisodeStart
<1>10. Oldest(R) \in R /\ \A r \in R : Oldest(R) <= r
  <2> HIDE DEF R
  <2> QED BY <1>8, OldestIs
<1> DEFINE o == Oldest(R)
<1>11. o \in T /\ i \in runs[o].errors /\ \A q \in T : q >= o => i \in runs[q].errors
  <2>1. o \in R
    BY <1>10
  <2> HIDE DEF o
  <2>2. o \in Nat
    BY <1>8, <2>1
  <2> QED BY <2>1, <2>2
<1>12. ASSUME NEW q \in T, q < o
       PROVE  \E r \in T : q <= r /\ r < o /\ i \notin runs[r].errors
  <2>1. q \notin R
    <3>1. q \in Nat /\ o \in Nat
      BY <1>1, <1>11
    <3> QED BY <1>10, <1>12, <3>1
  <2> HIDE DEF o
  <2>2. PICK r \in T : r >= q /\ i \notin runs[r].errors
    BY <2>1, <1>12
  <2>3. r < o
    BY <1>1, <1>11, <2>2
  <2> QED BY <1>1, <1>12, <2>2, <2>3
<1> QED BY <1>2, <1>9, <1>11, <1>12 DEF Begins

\* The keys of rounds, of a failed scan and of repeated errors.
LEMMA RoundKeysAre ==
    ASSUME Types
    PROVE  /\ RoundKeys \in SUBSET Keys /\ IsFiniteSet(RoundKeys)
           /\ \A k \in RoundKeys : k.kind \in {"unknown", "exhausted"}
<1> DEFINE P == {q \in Pairs : round[q].verdict # "quiet"}
           key(p) == Key(round[p].verdict, p, round[p].id)
           T == {key(p) : p \in P}
           f == [p \in P |-> key(p)]
<1>1. IsFiniteSet(P)
  BY SetsAssumption, FS_Subset
<1>2. f \in Surjection(P, T)
  BY DEF Surjection
<1>3. IsFiniteSet(T)
  <2> HIDE DEF P, T, f
  <2> QED BY <1>1, <1>2, FS_Surjection
<1>4. T = RoundKeys
  BY DEF RoundKeys
<1>5. ASSUME NEW p \in P
      PROVE  key(p) \in Keys /\ key(p).kind \in {"unknown", "exhausted"}
  <2>1. round[p] \in [id : 1 .. MaxRounds, verdict : Verdicts] /\ p \in Pairs /\ round[p].verdict # "quiet"
    BY DEF Types
  <2>2. \A x \in [id : 1 .. MaxRounds, verdict : Verdicts] : x.id \in 1 .. MaxRounds /\ x.verdict \in Verdicts
    OBVIOUS
  <2>3. round[p].id \in 1 .. MaxRounds /\ round[p].verdict \in {"unknown", "exhausted"}
    BY <2>1, <2>2 DEF Verdicts
  <2> QED BY <2>1, <2>3 DEF Key, Keys
<1> QED BY <1>3, <1>4, <1>5

LEMMA FailedKeysAre ==
    ASSUME Types
    PROVE  /\ FailedKeys \in SUBSET Keys /\ IsFiniteSet(FailedKeys)
           /\ \A k \in FailedKeys : k.kind = "scan_failed"
<1>1. CASE Finished # {} /\ runs[Newest(Finished)].status = "FAILED"
  <2>1. Finished \in SUBSET Nat /\ Finished \subseteq DOMAIN runs /\ \A r \in Finished : r <= Len(runs)
    BY RunsAreNumbered DEF Finished
  <2>2. Newest(Finished) \in Finished
    <3> HIDE DEF Finished
    <3> QED BY <1>1, <2>1, NewestIs, RunsAreNumbered
  <2>3. Newest(Finished) \in 1 .. MaxRuns
    BY <2>1, <2>2, RunsAreNumbered
  <2>4. FailedKeys = {Key("scan_failed", "scanner", Newest(Finished))}
    BY <1>1 DEF FailedKeys
  <2>5. Key("scan_failed", "scanner", Newest(Finished)) \in Keys
    BY <2>3 DEF Keys
  <2>6. Key("scan_failed", "scanner", Newest(Finished)).kind = "scan_failed"
    BY DEF Key
  <2> QED BY <2>4, <2>5, <2>6, FS_Singleton
<1>2. CASE ~(Finished # {} /\ runs[Newest(Finished)].status = "FAILED")
  <2>1. FailedKeys = {}
    BY <1>2 DEF FailedKeys
  <2> QED BY <2>1, FS_EmptySet
<1> QED BY <1>1, <1>2

LEMMA RepeatedKeysAre ==
    ASSUME Types
    PROVE  /\ RepeatedKeys \in SUBSET Keys /\ IsFiniteSet(RepeatedKeys)
           /\ \A k \in RepeatedKeys : k.kind = "repeated" /\ Begins(k.what, k.anchor)
<1> DEFINE key(i) == Key("repeated", i, EpisodeStart(i))
           T == {key(i) : i \in Repeated}
           f == [i \in Repeated |-> key(i)]
<1>1. IsFiniteSet(Repeated)
  <2>1. Repeated \subseteq Items
    BY DEF Repeated
  <2> QED BY <2>1, SetsAssumption, FS_Subset
<1>2. f \in Surjection(Repeated, T)
  BY DEF Surjection
<1>3. IsFiniteSet(T)
  <2> HIDE DEF T, f
  <2> QED BY <1>1, <1>2, FS_Surjection
<1>4. T = RepeatedKeys
  BY DEF RepeatedKeys
<1>5. ASSUME NEW i \in Repeated
      PROVE  key(i) \in Keys /\ key(i).kind = "repeated" /\ Begins(key(i).what, key(i).anchor)
  <2>1. i \in Items /\ Begins(i, EpisodeStart(i))
    BY EpisodesBegin
  <2>2. EpisodeStart(i) \in 1 .. MaxRuns
    BY <2>1, RunsAreNumbered DEF Begins, Through
  <2>3. key(i).kind = "repeated" /\ key(i).what = i /\ key(i).anchor = EpisodeStart(i)
    BY DEF Key
  <2>4. key(i) \in Keys
    BY <2>1, <2>2 DEF Keys
  <2> QED BY <2>1, <2>3, <2>4
<1> QED BY <1>3, <1>4, <1>5

\* The list of messages that evaluate hands to the dispatcher.
LEMMA TransitionsAre ==
    ASSUME Types
    PROVE  /\ Transitions \in Seq(Slots)
           /\ \A m \in ToSet(Transitions) : m.key.kind = "repeated" => Begins(m.key.what, m.key.anchor)
           /\ \A k \in FailedKeys, d \in Destinations : [key |-> k, to |-> d] \in ToSet(Transitions)
<1> DEFINE sends(keys) == {[key |-> k, to |-> d] : k \in keys, d \in Destinations}
           a == Messages(RoundKeys)
           b == Messages(FailedKeys)
           c == Messages(RepeatedKeys)
<1>1. a \in Seq(Slots) /\ ToSet(a) = sends(RoundKeys)
  BY MessagesAre, RoundKeysAre
<1>2. b \in Seq(Slots) /\ ToSet(b) = sends(FailedKeys)
  BY MessagesAre, FailedKeysAre
<1>3. c \in Seq(Slots) /\ ToSet(c) = sends(RepeatedKeys)
  BY MessagesAre, RepeatedKeysAre
<1>4. Transitions = (a \o b) \o c
  BY DEF Transitions
<1>5. (a \o b) \o c \in Seq(Slots) /\ ToSet((a \o b) \o c) = (ToSet(a) \union ToSet(b)) \union ToSet(c)
  <2> DEFINE ab == a \o b
  <2> HIDE DEF a, b, c
  <2>1. ab \in Seq(Slots) /\ ToSet(ab) = ToSet(a) \union ToSet(b)
    BY <1>1, <1>2, ToSetConcat
  <2> HIDE DEF ab
  <2>2. ab \o c \in Seq(Slots) /\ ToSet(ab \o c) = ToSet(ab) \union ToSet(c)
    BY <1>3, <2>1, ToSetConcat
  <2> QED BY <2>1, <2>2 DEF ab
<1>6. ToSet(Transitions) = (sends(RoundKeys) \union sends(FailedKeys)) \union sends(RepeatedKeys)
  BY <1>1, <1>2, <1>3, <1>4, <1>5
<1>7. \A m \in sends(RoundKeys) : m.key.kind # "repeated"
  BY RoundKeysAre
<1>8. \A m \in sends(FailedKeys) : m.key.kind # "repeated"
  BY FailedKeysAre
<1>9. \A m \in sends(RepeatedKeys) : Begins(m.key.what, m.key.anchor)
  BY RepeatedKeysAre
<1>10. \A m \in ToSet(Transitions) : m.key.kind = "repeated" => Begins(m.key.what, m.key.anchor)
  <2> HIDE DEF sends
  <2> QED BY <1>6, <1>7, <1>8, <1>9
<1>11. \A k \in FailedKeys, d \in Destinations : [key |-> k, to |-> d] \in ToSet(Transitions)
  <2> SUFFICES ASSUME NEW k \in FailedKeys, NEW d \in Destinations
               PROVE  [key |-> k, to |-> d] \in ToSet(Transitions)
    OBVIOUS
  <2>1. [key |-> k, to |-> d] \in sends(FailedKeys)
    OBVIOUS
  <2> HIDE DEF sends
  <2> QED BY <1>6, <2>1
<1> QED BY <1>4, <1>5, <1>10, <1>11

----------------------------------------------------------------------------
(* Types and hands, step by step, for any number of scanners.              *)

\* What a scanner's record holds.
LEMMA ProcFields ==
    ASSUME NEW x \in ProcType
    PROVE  /\ x.at \in Places /\ x.run \in 0 .. MaxRuns /\ x.todo \in Seq(Slots) /\ x.seen \in 0 .. AttemptLimit
           /\ x = [at |-> x.at, run |-> x.run, todo |-> x.todo, seen |-> x.seen]
  BY DEF ProcType

\* A step of scanner s writes proc[s]; the others keep theirs.
LEMMA AdvanceIs ==
    ASSUME Types, NEW s \in Scanners, proc[s].todo # <<>>, Advance(s)
    PROVE  /\ proc' \in [Scanners -> ProcType]
           /\ proc'[s].at = "dispatch" /\ proc'[s].run = proc[s].run /\ proc'[s].todo = Tail(proc[s].todo)
           /\ \A t \in Scanners \ {s} : proc'[t] = proc[t]
<1>1. proc[s] \in ProcType /\ proc \in [Scanners -> ProcType]
  BY DEF Types
<1>2. proc[s].todo \in Seq(Slots) /\ Tail(proc[s].todo) \in Seq(Slots)
  BY <1>1, ProcFields, HeadAndTail
<1>3. proc' = [proc EXCEPT ![s] = [proc[s] EXCEPT !.at = "dispatch", !.todo = Tail(proc[s].todo)]]
  BY <1>1 DEF Advance
<1>4. [proc[s] EXCEPT !.at = "dispatch", !.todo = Tail(proc[s].todo)] \in ProcType
  BY <1>1, <1>2 DEF ProcType, Places
<1>5. proc'[s] = [proc[s] EXCEPT !.at = "dispatch", !.todo = Tail(proc[s].todo)]
  BY <1>1, <1>3
<1>6. proc'[s].at = "dispatch" /\ proc'[s].run = proc[s].run /\ proc'[s].todo = Tail(proc[s].todo)
  BY <1>1, <1>5 DEF ProcType
<1> QED BY <1>1, <1>3, <1>4, <1>6

\* A row is put in place.
LEMMA PutIs ==
    ASSUME NEW f, NEW k, NEW v
    PROVE  /\ DOMAIN Put(f, k, v) = DOMAIN f \union {k}
           /\ Put(f, k, v)[k] = v
           /\ \A x \in DOMAIN f : x # k => Put(f, k, v)[x] = f[x]
  BY DEF Put

\* What has to be shown of hands when scanner s takes a step.
LEMMA HandsStep ==
    ASSUME HandsAreSound, NEW s \in Scanners,
           \A t \in Scanners \ {s} : proc'[t] = proc[t],
           DOMAIN runs \subseteq DOMAIN runs', DOMAIN rows \subseteq DOMAIN rows',
           proc'[s].at # "idle" => proc'[s].run \in DOMAIN runs',
           proc'[s].at \in Holding => proc'[s].todo # <<>> /\ Head(proc'[s].todo) \in DOMAIN rows',
           proc'[s].at = "count" => proc'[s].seen < AttemptLimit
    PROVE  HandsAreSound'
<1> SUFFICES ASSUME NEW t \in Scanners
             PROVE  /\ proc'[t].at # "idle" => proc'[t].run \in DOMAIN runs'
                    /\ proc'[t].at \in Holding => proc'[t].todo # <<>> /\ Head(proc'[t].todo) \in DOMAIN rows'
                    /\ proc'[t].at = "count" => proc'[t].seen < AttemptLimit
  BY DEF HandsAreSound, Slot
<1>1. CASE t = s
  BY <1>1
<1>2. CASE t # s
  <2>1. proc'[t] = proc[t]
    BY <1>2
  <2>2. /\ proc[t].at # "idle" => proc[t].run \in DOMAIN runs
        /\ proc[t].at \in Holding => proc[t].todo # <<>> /\ Head(proc[t].todo) \in DOMAIN rows
        /\ proc[t].at = "count" => proc[t].seen < AttemptLimit
    BY DEF HandsAreSound, Slot
  <2> QED BY <2>1, <2>2
<1> QED BY <1>1, <1>2

\* The scanner's own record after a step that gives it the value x.
LEMMA ProcBecomes ==
    ASSUME Types, NEW s \in Scanners, NEW x \in ProcType, proc' = [proc EXCEPT ![s] = x]
    PROVE  /\ proc' \in [Scanners -> ProcType] /\ proc'[s] = x
           /\ \A t \in Scanners \ {s} : proc'[t] = proc[t]
  BY DEF Types

\* A scanner between two scans.
LEMMA IdleIs ==
    Idle \in ProcType /\ Idle.at = "idle" /\ Idle.run = 0 /\ Idle.todo = <<>>
<1>1. 0 \in 0 .. MaxRuns /\ 0 \in 0 .. AttemptLimit /\ <<>> \in Seq(Slots)
  BY BoundsAssumption DEF AttemptLimit
<1> QED BY <1>1 DEF Idle, ProcType, Places

\* A scan begins.
LEMMA StartKeepsTypes ==
    ASSUME AlertsInv, NEW s \in Scanners, Start(s)
    PROVE  AlertsInv'
<1> DEFINE x == [Idle EXCEPT !.at = "scanning", !.run = Len(runs) + 1]
           new == [status |-> "RUNNING", errors |-> {}]
<1>1. Types /\ HandsAreSound /\ Len(runs) \in Nat /\ Len(runs) < MaxRuns
  BY RunsAreNumbered DEF AlertsInv, Start
<1>2. Idle \in ProcType
  BY IdleIs
<1>3. x \in ProcType /\ x.at = "scanning" /\ x.run = Len(runs) + 1
  <2> DEFINE n == Len(runs) + 1
  <2>1. n \in 0 .. MaxRuns
    BY <1>1, BoundsAssumption
  <2> HIDE DEF n
  <2>2. [Idle EXCEPT !.at = "scanning", !.run = n] \in ProcType
    BY <1>2, <2>1 DEF ProcType, Places
  <2>3. /\ [Idle EXCEPT !.at = "scanning", !.run = n].at = "scanning"
        /\ [Idle EXCEPT !.at = "scanning", !.run = n].run = n
    BY <1>2 DEF ProcType
  <2> QED BY <2>2, <2>3 DEF n
<1>4. proc' = [proc EXCEPT ![s] = x]
  BY DEF Start
<1>5. new \in RunType
  BY DEF RunType
<1>6. runs' \in Seq(RunType) /\ Len(runs') = Len(runs) + 1 /\ DOMAIN runs' = 1 .. Len(runs) + 1
      /\ DOMAIN runs = 1 .. Len(runs)
  BY <1>1, <1>5 DEF Start, Types
<1>7. proc' \in [Scanners -> ProcType] /\ proc'[s] = x /\ \A t \in Scanners \ {s} : proc'[t] = proc[t]
  <2> HIDE DEF x
  <2> QED BY <1>1, <1>3, <1>4, ProcBecomes
<1>8. Types'
  BY <1>1, <1>6, <1>7, BoundsAssumption DEF Types, Start
<1>9. HandsAreSound'
  <2>1. proc'[s].at = "scanning" /\ proc'[s].run = Len(runs) + 1
    BY <1>3, <1>7
  <2>2. proc'[s].run \in DOMAIN runs' /\ DOMAIN runs \subseteq DOMAIN runs' /\ DOMAIN rows \subseteq DOMAIN rows'
    BY <1>1, <1>6, <2>1 DEF Start
  <2> QED BY <1>1, <1>7, <2>1, <2>2, HandsStep DEF Holding
<1> QED BY <1>8, <1>9 DEF AlertsInv

\* A run's row is written, and its scanner goes on to evaluate.
LEMMA RunWritten ==
    ASSUME AlertsInv, NEW s \in Scanners, proc[s].at = "scanning",
           NEW y \in RunType, runs' = [runs EXCEPT ![proc[s].run] = y],
           proc' = [proc EXCEPT ![s].at = "evaluate"], UNCHANGED <<round, rows, received, cut>>
    PROVE  AlertsInv'
<1> DEFINE x == [proc[s] EXCEPT !.at = "evaluate"]
<1>1. Types /\ HandsAreSound /\ proc[s] \in ProcType
  BY DEF AlertsInv, Types
<1>2. x \in ProcType /\ x.at = "evaluate" /\ x.run = proc[s].run
  BY <1>1 DEF ProcType, Places
<1>3. proc' = [proc EXCEPT ![s] = x]
  BY <1>1 DEF Types
<1>4. proc' \in [Scanners -> ProcType] /\ proc'[s] = x /\ \A t \in Scanners \ {s} : proc'[t] = proc[t]
  <2> HIDE DEF x
  <2> QED BY <1>1, <1>2, <1>3, ProcBecomes
<1>5. proc[s].run \in DOMAIN runs
  BY <1>1 DEF HandsAreSound
<1>6. runs' \in Seq(RunType) /\ Len(runs') = Len(runs) /\ DOMAIN runs' = DOMAIN runs
  BY <1>1, <1>5 DEF Types
<1>7. Types'
  BY <1>1, <1>4, <1>6 DEF Types
<1>8. HandsAreSound'
  <2>1. proc'[s].at = "evaluate" /\ proc'[s].run \in DOMAIN runs'
    BY <1>2, <1>4, <1>5, <1>6
  <2>2. DOMAIN runs \subseteq DOMAIN runs' /\ DOMAIN rows \subseteq DOMAIN rows'
    BY <1>6
  <2> QED BY <1>1, <1>4, <2>1, <2>2, HandsStep DEF Holding
<1> QED BY <1>7, <1>8 DEF AlertsInv

\* What Finish and Raise write.
LEMMA FinishWrites ==
    ASSUME NEW s \in Scanners, Finish(s)
    PROVE  \E y \in RunType : y.status \in Done /\ runs' = [runs EXCEPT ![proc[s].run] = y]
<1>1. PICK status \in Done, found \in SUBSET Items :
         runs' = [runs EXCEPT ![proc[s].run] = [status |-> status, errors |-> found]]
  BY DEF Finish
<1>2. [status |-> status, errors |-> found] \in RunType
  BY DEF RunType
<1>3. [status |-> status, errors |-> found].status \in Done
  OBVIOUS
<1> QED BY <1>1, <1>2, <1>3

LEMMA RaiseWrites ==
    ASSUME AlertsInv, NEW s \in Scanners, Raise(s)
    PROVE  \E y \in RunType :
              /\ y.status = (IF runs[proc[s].run].status = "RUNNING" THEN "FAILED" ELSE runs[proc[s].run].status)
              /\ y.errors = runs[proc[s].run].errors
              /\ runs' = [runs EXCEPT ![proc[s].run] = y]
<1> DEFINE old == runs[proc[s].run]
           st == IF old.status = "RUNNING" THEN "FAILED" ELSE old.status
           y == [status |-> st, errors |-> old.errors]
<1>1. Types /\ proc[s].run \in DOMAIN runs
  BY DEF AlertsInv, HandsAreSound, Raise
<1>2. old \in RunType
  BY <1>1 DEF Types
<1>3. y \in RunType /\ y.status = st /\ y.errors = old.errors
  BY <1>2 DEF RunType, Done
<1>4. [old EXCEPT !.status = st] = y
  BY <1>2 DEF RunType
<1>5. runs' = [runs EXCEPT ![proc[s].run] = y]
  BY <1>1, <1>4 DEF Raise
<1> QED BY <1>3, <1>5

\* A step of a scanner that stays with its run.
LEMMA DeliveryStep ==
    ASSUME AlertsInv, NEW s \in Scanners, proc[s].at # "idle",
           NEW x \in ProcType, proc' = [proc EXCEPT ![s] = x], x.run = proc[s].run,
           UNCHANGED <<runs, round, cut>>,
           DOMAIN rows \subseteq DOMAIN rows', DOMAIN rows' \subseteq Slots, DOMAIN received' = DOMAIN rows',
           \A k \in DOMAIN rows' : rows'[k] \in RowType /\ received'[k] \in Nat,
           x.at \in Holding => x.todo # <<>> /\ Head(x.todo) \in DOMAIN rows',
           x.at = "count" => x.seen < AttemptLimit
    PROVE  AlertsInv'
<1>1. Types /\ HandsAreSound
  BY DEF AlertsInv
<1>2. proc' \in [Scanners -> ProcType] /\ proc'[s] = x /\ \A t \in Scanners \ {s} : proc'[t] = proc[t]
  BY <1>1, ProcBecomes
<1>3. Types'
  BY <1>1, <1>2 DEF Types
<1>4. proc[s].run \in DOMAIN runs
  BY <1>1 DEF HandsAreSound
<1>5. HandsAreSound'
  BY <1>1, <1>2, <1>4, HandsStep
<1> QED BY <1>3, <1>5 DEF AlertsInv

\* A scanner takes its message off the list.
LEMMA AdvanceStep ==
    ASSUME AlertsInv, NEW s \in Scanners, proc[s].at # "idle", proc[s].todo # <<>>, Advance(s),
           UNCHANGED <<runs, round, cut>>,
           DOMAIN rows \subseteq DOMAIN rows', DOMAIN rows' \subseteq Slots, DOMAIN received' = DOMAIN rows',
           \A k \in DOMAIN rows' : rows'[k] \in RowType /\ received'[k] \in Nat
    PROVE  AlertsInv'
<1> DEFINE x == [proc[s] EXCEPT !.at = "dispatch", !.todo = Tail(proc[s].todo)]
<1>1. Types /\ proc[s] \in ProcType
  BY DEF AlertsInv, Types
<1>2. Tail(proc[s].todo) \in Seq(Slots)
  BY <1>1, ProcFields, HeadAndTail
<1>3. x \in ProcType /\ x.at = "dispatch" /\ x.run = proc[s].run
  BY <1>1, <1>2 DEF ProcType, Places
<1>4. proc' = [proc EXCEPT ![s] = x]
  BY <1>1 DEF Advance, Types
<1> HIDE DEF x
<1> QED BY <1>3, <1>4, DeliveryStep DEF Holding

\* The list of messages is made.
LEMMA EvaluateKeepsTypes ==
    ASSUME AlertsInv, NEW s \in Scanners, Evaluate(s)
    PROVE  AlertsInv'
<1> DEFINE x == [proc[s] EXCEPT !.at = "dispatch", !.todo = Transitions]
<1>1. Types /\ HandsAreSound /\ proc[s] \in ProcType /\ proc[s].at = "evaluate"
  BY DEF AlertsInv, Types, Evaluate
<1>2. Transitions \in Seq(Slots)
  BY <1>1, TransitionsAre
<1>3. x \in ProcType /\ x.at = "dispatch" /\ x.run = proc[s].run
  BY <1>1, <1>2 DEF ProcType, Places
<1>4. proc' = [proc EXCEPT ![s] = x]
  BY <1>1 DEF Evaluate, Types
<1>5. UNCHANGED <<runs, round, rows, received, cut>>
  BY DEF Evaluate
<1> HIDE DEF x
<1>6. DOMAIN rows \subseteq Slots /\ DOMAIN received = DOMAIN rows
      /\ \A k \in DOMAIN rows : rows[k] \in RowType /\ received[k] \in Nat
  BY <1>1 DEF Types
<1> QED BY <1>1, <1>3, <1>4, <1>5, <1>6, DeliveryStep DEF Holding

\* What reading a delivery does to its row, which is inserted unless it is there.
LEMMA ReadDeliveryIs ==
    ASSUME AlertsInv, NEW s \in Scanners, ReadDelivery(s)
    PROVE  /\ proc[s].at = "dispatch" /\ proc[s].todo # <<>> /\ Slot(s) \in Slots
           /\ UNCHANGED <<runs, round, cut>>
           /\ DOMAIN rows' = DOMAIN rows \union {Slot(s)} /\ DOMAIN received' = DOMAIN rows'
           /\ \A k \in DOMAIN rows : rows'[k] = rows[k] /\ received'[k] = received[k]
           /\ Slot(s) \notin DOMAIN rows =>
                 rows'[Slot(s)] = [attempts |-> 0, sent |-> FALSE] /\ received'[Slot(s)] = 0
           /\ rows'[Slot(s)] \in RowType /\ received'[Slot(s)] \in Nat
           /\ \/ /\ Concluded(rows'[Slot(s)]) /\ Advance(s)
              \/ /\ ~Concluded(rows'[Slot(s)])
                 /\ proc' = [proc EXCEPT ![s].at = "count", ![s].seen = rows'[Slot(s)].attempts]
<1> DEFINE k0 == Slot(s)
           known == k0 \in DOMAIN rows
           row == IF known THEN rows[k0] ELSE [attempts |-> 0, sent |-> FALSE]
<1>1. Types /\ proc[s] \in ProcType
  BY DEF AlertsInv, Types
<1>2. /\ proc[s].at = "dispatch" /\ proc[s].todo # <<>>
      /\ rows' = Put(rows, k0, row)
      /\ received' = IF known THEN received ELSE Put(received, k0, 0)
      /\ IF Concluded(row) THEN Advance(s)
         ELSE proc' = [proc EXCEPT ![s].at = "count", ![s].seen = row.attempts]
      /\ UNCHANGED <<runs, round, cut>>
  BY DEF ReadDelivery
<1>3. k0 \in Slots
  BY <1>1, <1>2, ProcFields, HeadAndTail DEF Slot
<1>4. row \in RowType
  <2>1. CASE known
    BY <1>1, <2>1 DEF Types
  <2>2. CASE ~known
    BY <2>2 DEF RowType, AttemptLimit
  <2> QED BY <2>1, <2>2
<1>5. DOMAIN received = DOMAIN rows /\ \A k \in DOMAIN rows : received[k] \in Nat
  BY <1>1 DEF Types
<1> HIDE DEF k0
<1>6. /\ DOMAIN rows' = DOMAIN rows \union {k0} /\ rows'[k0] = row
      /\ \A k \in DOMAIN rows : rows'[k] = rows[k]
  <2>1. /\ DOMAIN rows' = DOMAIN rows \union {k0} /\ rows'[k0] = row
        /\ \A k \in DOMAIN rows : k # k0 => rows'[k] = rows[k]
    <3>1. rows' = Put(rows, k0, row)
      BY <1>2
    <3> HIDE DEF row
    <3>2. /\ DOMAIN Put(rows, k0, row) = DOMAIN rows \union {k0} /\ Put(rows, k0, row)[k0] = row
          /\ \A x \in DOMAIN rows : x # k0 => Put(rows, k0, row)[x] = rows[x]
      BY DEF Put
    <3> QED BY <3>1, <3>2
  <2> QED BY <2>1
<1>7. /\ DOMAIN received' = DOMAIN rows' /\ received'[k0] \in Nat
      /\ \A k \in DOMAIN rows : received'[k] = received[k]
      /\ ~known => received'[k0] = 0
  <2>1. CASE known
    BY <1>2, <1>5, <1>6, <2>1
  <2>2. CASE ~known
    <3>1. received' = Put(received, k0, 0)
      BY <1>2, <2>2
    <3>2. /\ DOMAIN received' = DOMAIN received \union {k0} /\ received'[k0] = 0
          /\ \A k \in DOMAIN received : k # k0 => received'[k] = received[k]
      BY <3>1, PutIs
    <3> QED BY <1>5, <1>6, <2>2, <3>2
  <2> QED BY <2>1, <2>2
<1>8. ~known => row = [attempts |-> 0, sent |-> FALSE]
  OBVIOUS
<1> HIDE DEF row
<1>9. \/ Concluded(rows'[k0]) /\ Advance(s)
      \/ ~Concluded(rows'[k0]) /\ proc' = [proc EXCEPT ![s].at = "count", ![s].seen = rows'[k0].attempts]
  BY <1>2, <1>6
<1>10. rows'[k0] \in RowType
  BY <1>4, <1>6
<1> USE DEF k0
<1> QED BY <1>2, <1>3, <1>6, <1>7, <1>8, <1>9, <1>10

LEMMA ReadDeliveryKeepsTypes ==
    ASSUME AlertsInv, NEW s \in Scanners, ReadDelivery(s)
    PROVE  AlertsInv'
<1>1. Types /\ proc[s] \in ProcType
  BY DEF AlertsInv, Types
<1>2. /\ proc[s].at = "dispatch" /\ proc[s].todo # <<>> /\ Slot(s) \in Slots
      /\ UNCHANGED <<runs, round, cut>>
      /\ DOMAIN rows' = DOMAIN rows \union {Slot(s)} /\ DOMAIN received' = DOMAIN rows'
      /\ \A k \in DOMAIN rows : rows'[k] = rows[k] /\ received'[k] = received[k]
      /\ rows'[Slot(s)] \in RowType /\ received'[Slot(s)] \in Nat
  BY ReadDeliveryIs
<1>3. /\ DOMAIN rows \subseteq DOMAIN rows' /\ DOMAIN rows' \subseteq Slots
      /\ \A k \in DOMAIN rows' : rows'[k] \in RowType /\ received'[k] \in Nat
  BY <1>1, <1>2 DEF Types
<1>4. CASE Advance(s)
  BY <1>2, <1>3, <1>4, AdvanceStep
<1>5. CASE /\ ~Concluded(rows'[Slot(s)])
           /\ proc' = [proc EXCEPT ![s].at = "count", ![s].seen = rows'[Slot(s)].attempts]
  <2> DEFINE n == rows'[Slot(s)].attempts
             x == [proc[s] EXCEPT !.at = "count", !.seen = n]
  <2>1. n \in 0 .. AttemptLimit /\ n < AttemptLimit
    BY <1>2, <1>5 DEF RowType, Concluded, AttemptLimit
  <2>2. proc' = [proc EXCEPT ![s] = x]
    BY <1>1, <1>5 DEF Types
  <2> HIDE DEF n
  <2>3. x \in ProcType /\ x.at = "count" /\ x.run = proc[s].run /\ x.todo = proc[s].todo /\ x.seen = n
    BY <1>1, <2>1 DEF ProcType, Places
  <2>4. Head(x.todo) \in DOMAIN rows'
    BY <1>2, <2>3 DEF Slot
  <2> HIDE DEF x
  <2> QED BY <1>2, <1>3, <2>1, <2>2, <2>3, <2>4, DeliveryStep
<1> QED BY <1>4, <1>5, ReadDeliveryIs

\* The steps that write a row or send it have the scanner's row in hand.
LEMMA InHand ==
    ASSUME AlertsInv, NEW s \in Scanners, proc[s].at \in Holding
    PROVE  /\ proc[s].at # "idle" /\ proc[s].todo # <<>> /\ Slot(s) \in DOMAIN rows
           /\ rows[Slot(s)].attempts \in 0 .. AttemptLimit /\ rows[Slot(s)].sent \in BOOLEAN
           /\ rows[Slot(s)] \in RowType /\ received[Slot(s)] \in Nat
<1>1. proc[s].at # "idle" /\ proc[s].todo # <<>> /\ Slot(s) \in DOMAIN rows
  BY DEF AlertsInv, HandsAreSound, Holding
<1>2. rows[Slot(s)] \in RowType /\ received[Slot(s)] \in Nat
  BY <1>1 DEF AlertsInv, Types
<1>3. rows[Slot(s)].attempts \in 0 .. AttemptLimit /\ rows[Slot(s)].sent \in BOOLEAN
  BY <1>2 DEF RowType
<1> QED BY <1>1, <1>2, <1>3

\* What the steps of a delivery do to its row and to what the destination has.
LEMMA CountIs ==
    ASSUME AlertsInv, NEW s \in Scanners, CountAttempt(s)
    PROVE  /\ proc[s].at = "count" /\ UNCHANGED <<runs, round, received, cut>>
           /\ DOMAIN rows' = DOMAIN rows /\ rows'[Slot(s)] \in RowType
           /\ rows'[Slot(s)].attempts = proc[s].seen + 1 /\ rows'[Slot(s)].sent = rows[Slot(s)].sent
           /\ \A k \in DOMAIN rows : k # Slot(s) => rows'[k] = rows[k]
           /\ rows' = [rows EXCEPT ![Slot(s)] = rows'[Slot(s)]]
           /\ proc' = [proc EXCEPT ![s] = [proc[s] EXCEPT !.at = "send"]]
<1> DEFINE k0 == Slot(s)
           row == [rows[k0] EXCEPT !.attempts = proc[s].seen + 1]
<1>1. Types /\ proc[s] \in ProcType /\ proc[s].at = "count" /\ proc[s].seen < AttemptLimit
  BY DEF AlertsInv, Types, HandsAreSound, CountAttempt
<1>2. k0 \in DOMAIN rows /\ rows[k0] \in RowType
  BY <1>1, InHand DEF Holding
<1>3. proc[s].seen + 1 \in 0 .. AttemptLimit
  BY <1>1, ProcFields DEF AttemptLimit
<1>4. row \in RowType /\ row.attempts = proc[s].seen + 1 /\ row.sent = rows[k0].sent
  BY <1>2, <1>3 DEF RowType
<1>5. rows' = [rows EXCEPT ![k0] = row] /\ UNCHANGED <<runs, round, received, cut>>
  BY DEF CountAttempt
<1>6. proc' = [proc EXCEPT ![s] = [proc[s] EXCEPT !.at = "send"]]
  BY <1>1 DEF CountAttempt, Types
<1> HIDE DEF k0, row
<1>7. DOMAIN rows' = DOMAIN rows /\ rows'[k0] = row /\ \A k \in DOMAIN rows : k # k0 => rows'[k] = rows[k]
  BY <1>2, <1>5
<1>8. rows' = [rows EXCEPT ![k0] = rows'[k0]]
  BY <1>5, <1>7
<1> USE DEF k0
<1> QED BY <1>1, <1>4, <1>5, <1>6, <1>7, <1>8

LEMMA RecordIs ==
    ASSUME AlertsInv, NEW s \in Scanners, RecordSent(s)
    PROVE  /\ proc[s].at = "record" /\ UNCHANGED <<runs, round, received, cut>>
           /\ DOMAIN rows' = DOMAIN rows /\ rows'[Slot(s)] \in RowType
           /\ rows'[Slot(s)].attempts = rows[Slot(s)].attempts /\ rows'[Slot(s)].sent = TRUE
           /\ \A k \in DOMAIN rows : k # Slot(s) => rows'[k] = rows[k]
           /\ Advance(s)
<1> DEFINE k0 == Slot(s)
           row == [rows[k0] EXCEPT !.sent = TRUE]
<1>1. proc[s].at = "record" /\ Advance(s)
  BY DEF RecordSent
<1>2. k0 \in DOMAIN rows /\ rows[k0] \in RowType
  BY <1>1, InHand DEF Holding
<1>3. row \in RowType /\ row.attempts = rows[k0].attempts /\ row.sent = TRUE
  BY <1>2 DEF RowType
<1>4. rows' = [rows EXCEPT ![k0] = row] /\ UNCHANGED <<runs, round, received, cut>>
  BY DEF RecordSent
<1> HIDE DEF k0, row
<1>5. DOMAIN rows' = DOMAIN rows /\ rows'[k0] = row /\ \A k \in DOMAIN rows : k # k0 => rows'[k] = rows[k]
  BY <1>2, <1>4
<1> USE DEF k0
<1> QED BY <1>1, <1>3, <1>4, <1>5

LEMMA SendIs ==
    ASSUME AlertsInv, NEW s \in Scanners, SendAccepted(s) \/ SendFails(s)
    PROVE  /\ proc[s].at = "send" /\ UNCHANGED <<runs, round, rows, cut>>
           /\ DOMAIN received' = DOMAIN received
           /\ received'[Slot(s)] \in {received[Slot(s)], received[Slot(s)] + 1}
           /\ \A k \in DOMAIN received : k # Slot(s) => received'[k] = received[k]
           /\ \/ /\ proc' = [proc EXCEPT ![s] = [proc[s] EXCEPT !.at = "record"]]
                 /\ received'[Slot(s)] = received[Slot(s)] + 1
              \/ Advance(s)
<1>1. proc[s].at = "send" /\ UNCHANGED <<runs, round, rows, cut>>
  BY DEF SendAccepted, SendFails
<1>2. Slot(s) \in DOMAIN received /\ received[Slot(s)] \in Nat
  BY <1>1, InHand DEF Holding, AlertsInv, Types
<1>3. CASE SendAccepted(s)
  <2>1. received' = [received EXCEPT ![Slot(s)] = @ + 1] /\ proc' = [proc EXCEPT ![s].at = "record"]
    BY <1>3 DEF SendAccepted
  <2>2. proc' = [proc EXCEPT ![s] = [proc[s] EXCEPT !.at = "record"]]
    BY <2>1 DEF AlertsInv, Types
  <2>3. /\ DOMAIN received' = DOMAIN received /\ received'[Slot(s)] = received[Slot(s)] + 1
        /\ \A k \in DOMAIN received : k # Slot(s) => received'[k] = received[k]
    BY <1>2, <2>1
  <2> QED BY <1>1, <2>2, <2>3
<1>4. CASE SendFails(s)
  <2>1. PICK accepted \in {0, 1} : received' = [received EXCEPT ![Slot(s)] = @ + accepted]
    BY <1>4 DEF SendFails
  <2>2. /\ DOMAIN received' = DOMAIN received /\ received'[Slot(s)] = received[Slot(s)] + accepted
        /\ \A k \in DOMAIN received : k # Slot(s) => received'[k] = received[k]
    BY <1>2, <2>1
  <2>3. received'[Slot(s)] \in {received[Slot(s)], received[Slot(s)] + 1}
    BY <1>2, <2>2
  <2> QED BY <1>1, <1>4, <2>2, <2>3 DEF SendFails
<1> QED BY <1>3, <1>4

LEMMA DeliveryKeepsTypes ==
    ASSUME AlertsInv, NEW s \in Scanners,
           CountAttempt(s) \/ SendAccepted(s) \/ SendFails(s) \/ RecordSent(s)
    PROVE  AlertsInv'
<1>1. /\ Types /\ HandsAreSound /\ proc[s] \in ProcType
      /\ DOMAIN rows \subseteq Slots /\ DOMAIN received = DOMAIN rows
      /\ \A k \in DOMAIN rows : rows[k] \in RowType /\ received[k] \in Nat
  BY DEF AlertsInv, Types
<1>2. CASE CountAttempt(s)
  <2> DEFINE x == [proc[s] EXCEPT !.at = "send"]
  <2>1. x \in ProcType /\ x.at = "send" /\ x.run = proc[s].run /\ x.todo = proc[s].todo
    BY <1>1 DEF ProcType, Places
  <2>2. /\ proc[s].at = "count" /\ UNCHANGED <<runs, round, received, cut>>
        /\ DOMAIN rows' = DOMAIN rows /\ rows'[Slot(s)] \in RowType
        /\ \A k \in DOMAIN rows : k # Slot(s) => rows'[k] = rows[k]
        /\ proc' = [proc EXCEPT ![s] = x]
    BY <1>2, CountIs
  <2>3. proc[s].at # "idle" /\ proc[s].todo # <<>> /\ Slot(s) \in DOMAIN rows
    BY <2>2, InHand DEF Holding
  <2>4. \A k \in DOMAIN rows' : rows'[k] \in RowType /\ received'[k] \in Nat
    BY <1>1, <2>2
  <2>5. x.todo # <<>> /\ Head(x.todo) \in DOMAIN rows'
    BY <2>1, <2>2, <2>3 DEF Slot
  <2> HIDE DEF x
  <2> QED BY <1>1, <2>1, <2>2, <2>3, <2>4, <2>5, DeliveryStep
<1>3. CASE SendAccepted(s) \/ SendFails(s)
  <2>1. /\ proc[s].at = "send" /\ UNCHANGED <<runs, round, rows, cut>>
        /\ DOMAIN received' = DOMAIN received
        /\ received'[Slot(s)] \in {received[Slot(s)], received[Slot(s)] + 1}
        /\ \A k \in DOMAIN received : k # Slot(s) => received'[k] = received[k]
    BY <1>3, SendIs
  <2>2. proc[s].at # "idle" /\ proc[s].todo # <<>> /\ Slot(s) \in DOMAIN rows
    BY <2>1, InHand DEF Holding
  <2>3. \A k \in DOMAIN rows' : rows'[k] \in RowType /\ received'[k] \in Nat
    BY <1>1, <2>1, <2>2
  <2>4. CASE Advance(s)
    BY <1>1, <2>1, <2>2, <2>3, <2>4, AdvanceStep
  <2>5. CASE proc' = [proc EXCEPT ![s] = [proc[s] EXCEPT !.at = "record"]]
    <3> DEFINE x == [proc[s] EXCEPT !.at = "record"]
    <3>1. x \in ProcType /\ x.at = "record" /\ x.run = proc[s].run /\ x.todo = proc[s].todo
      BY <1>1 DEF ProcType, Places
    <3>2. x.todo # <<>> /\ Head(x.todo) \in DOMAIN rows'
      BY <2>1, <2>2, <3>1 DEF Slot
    <3>3. proc' = [proc EXCEPT ![s] = x]
      BY <2>5
    <3> HIDE DEF x
    <3> QED BY <1>1, <2>1, <2>2, <2>3, <3>1, <3>2, <3>3, DeliveryStep
  <2> QED BY <1>3, <2>4, <2>5, SendIs
<1>4. CASE RecordSent(s)
  <2>1. /\ proc[s].at = "record" /\ UNCHANGED <<runs, round, received, cut>>
        /\ DOMAIN rows' = DOMAIN rows /\ rows'[Slot(s)] \in RowType
        /\ \A k \in DOMAIN rows : k # Slot(s) => rows'[k] = rows[k]
        /\ Advance(s)
    BY <1>4, RecordIs
  <2>2. proc[s].at # "idle" /\ proc[s].todo # <<>> /\ Slot(s) \in DOMAIN rows
    BY <2>1, InHand DEF Holding
  <2>3. \A k \in DOMAIN rows' : rows'[k] \in RowType /\ received'[k] \in Nat
    BY <1>1, <2>1
  <2> QED BY <1>1, <2>1, <2>2, <2>3, AdvanceStep
<1> QED BY <1>2, <1>3, <1>4

\* A scanner is done, or gives up.
LEMMA EndKeepsTypes ==
    ASSUME AlertsInv, NEW s \in Scanners, AllDispatched(s) \/ Interrupt(s)
    PROVE  AlertsInv'
<1>1. /\ Types /\ HandsAreSound /\ proc' = [proc EXCEPT ![s] = Idle] /\ Idle \in ProcType /\ Idle.at = "idle"
      /\ UNCHANGED <<runs, round, rows, received>> /\ cut' \in {cut, cut \union {proc[s].run}}
      /\ proc[s].at # "idle"
  BY IdleIs DEF AlertsInv, AllDispatched, Interrupt
<1>2. proc' \in [Scanners -> ProcType] /\ proc'[s] = Idle /\ \A t \in Scanners \ {s} : proc'[t] = proc[t]
  <2> HIDE DEF Idle
  <2> QED BY <1>1, ProcBecomes
<1>3. cut' \subseteq 1 .. MaxRuns
  BY <1>1, RunsAreNumbered DEF HandsAreSound, Types
<1>4. Types'
  BY <1>1, <1>2, <1>3 DEF Types
<1>5. HandsAreSound'
  <2> HIDE DEF Idle
  <2> QED BY <1>1, <1>2, HandsStep DEF Holding
<1> QED BY <1>4, <1>5 DEF AlertsInv

\* Rounds open and are repaired beside the scans.
LEMMA RoundsKeepTypes ==
    ASSUME AlertsInv, NEW p \in Pairs, NewRound(p) \/ Repair(p)
    PROVE  AlertsInv' /\ UNCHANGED <<runs, rows, received, proc, cut>>
<1> DEFINE R == [id : 1 .. MaxRounds, verdict : Verdicts]
<1>1. Types /\ HandsAreSound /\ UNCHANGED <<runs, rows, received, proc, cut>>
  BY DEF AlertsInv, NewRound, Repair
<1>2. round \in [Pairs -> R] /\ round[p] \in R
  BY <1>1 DEF Types
<1>3. \A x \in R : x.id \in 1 .. MaxRounds /\ x.verdict \in Verdicts
  OBVIOUS
<1>4. ASSUME NewRound(p)
      PROVE  round' \in [Pairs -> R]
  <2>1. PICK v \in Verdicts : round' = [round EXCEPT ![p] = [id |-> round[p].id + 1, verdict |-> v]]
    BY <1>2, <1>4 DEF NewRound
  <2>2. round[p].id + 1 \in 1 .. MaxRounds
    BY <1>2, <1>3, <1>4, BoundsAssumption DEF NewRound
  <2>3. [id |-> round[p].id + 1, verdict |-> v] \in R
    BY <2>2
  <2> HIDE DEF R
  <2> QED BY <1>2, <2>1, <2>3
<1>5. ASSUME Repair(p)
      PROVE  round' \in [Pairs -> R]
  <2>1. PICK v \in {"quiet", "exhausted"} : round' = [round EXCEPT ![p] = [round[p] EXCEPT !.verdict = v]]
    BY <1>2, <1>5 DEF Repair
  <2>2. [round[p] EXCEPT !.verdict = v] \in R
    BY <1>2 DEF Verdicts
  <2> HIDE DEF R
  <2> QED BY <1>2, <2>1, <2>2
<1>6. round' \in [Pairs -> R]
  BY <1>4, <1>5
<1>7. Types'
  BY <1>1, <1>6 DEF Types
<1>8. HandsAreSound'
  BY <1>1 DEF HandsAreSound, Slot
<1> QED BY <1>1, <1>7, <1>8 DEF AlertsInv

\* A scanner has a run, and in a delivery its row, in hand: the types and the hands
\* are an invariant of any number of scanners (ScannerService, AlertDispatcher).
THEOREM AlertsInvariant == Spec => []AlertsInv
<1>1. Init => AlertsInv
  <2> SUFFICES ASSUME Init
               PROVE  AlertsInv
    OBVIOUS
  <2>1. PICK v \in [Pairs -> Verdicts] : round = [p \in Pairs |-> [id |-> 1, verdict |-> v[p]]]
    BY DEF Init
  <2>2. round \in [Pairs -> [id : 1 .. MaxRounds, verdict : Verdicts]]
    BY <2>1, BoundsAssumption
  <2>3. /\ runs = <<>> /\ rows = <<>> /\ received = <<>> /\ cut = {}
        /\ proc = [s \in Scanners |-> Idle]
    BY DEF Init
  <2>4. runs \in Seq(RunType) /\ Len(runs) <= MaxRuns /\ DOMAIN rows = {} /\ DOMAIN received = {}
    BY <2>3, BoundsAssumption
  <2>5. Idle \in ProcType /\ Idle.at = "idle"
    BY IdleIs
  <2> HIDE DEF Idle
  <2>6. proc \in [Scanners -> ProcType] /\ \A s \in Scanners : proc[s].at = "idle"
    BY <2>3, <2>5
  <2>7. Types
    BY <2>2, <2>3, <2>4, <2>6 DEF Types
  <2>8. HandsAreSound
    BY <2>6 DEF HandsAreSound, Holding
  <2> QED BY <2>7, <2>8 DEF AlertsInv
<1>2. AlertsInv /\ [Next]_vars => AlertsInv'
  <2> SUFFICES ASSUME AlertsInv, [Next]_vars
               PROVE  AlertsInv'
    OBVIOUS
  <2>1. CASE UNCHANGED vars
    BY <2>1 DEF vars, AlertsInv, Types, HandsAreSound, Slot
  <2>2. ASSUME NEW s \in Scanners, Scan(s)
        PROVE  AlertsInv'
    <3>1. CASE Start(s)
      BY <3>1, StartKeepsTypes
    <3>2. CASE Finish(s)
      <4>1. PICK y \in RunType : runs' = [runs EXCEPT ![proc[s].run] = y]
        BY <3>2, FinishWrites
      <4> QED BY <3>2, <4>1, RunWritten DEF Finish
    <3>3. CASE Raise(s)
      <4>1. PICK y \in RunType : runs' = [runs EXCEPT ![proc[s].run] = y]
        BY <3>3, RaiseWrites
      <4> QED BY <3>3, <4>1, RunWritten DEF Raise
    <3>4. CASE Evaluate(s)
      BY <3>4, EvaluateKeepsTypes
    <3>5. CASE ReadDelivery(s)
      BY <3>5, ReadDeliveryKeepsTypes
    <3>6. CASE CountAttempt(s) \/ SendAccepted(s) \/ SendFails(s) \/ RecordSent(s)
      BY <3>6, DeliveryKeepsTypes
    <3>7. CASE AllDispatched(s) \/ Interrupt(s)
      BY <3>7, EndKeepsTypes
    <3> QED BY <2>2, <3>1, <3>2, <3>3, <3>4, <3>5, <3>6, <3>7 DEF Scan
  <2>3. ASSUME NEW p \in Pairs, NewRound(p) \/ Repair(p)
        PROVE  AlertsInv'
    BY <2>3, RoundsKeepTypes
  <2> QED BY <2>1, <2>2, <2>3 DEF Next
<1> QED BY <1>1, <1>2, PTL DEF Spec

\* Whatever any number of scanners interleave, the history of scans and the
\* alert_deliveries keep their shape, and no delivery is counted more than three
\* times (scan_runs, alert_deliveries, AlertDispatcher.dispatch).
THEOREM AlertsTypes == Spec => []TypeOK
<1>1. AlertsInv => TypeOK
  BY DEF AlertsInv, Types, TypeOK, RunType, RowType
<1> QED BY <1>1, AlertsInvariant, PTL

----------------------------------------------------------------------------
(* A lone scanner.                                                         *)

\* Where the steps of a scanner leave it.
LEMMA Moves ==
    ASSUME AlertsInv, NEW s \in Scanners
    PROVE  /\ Start(s) => /\ proc'[s].at = "scanning" /\ proc'[s].run = Len(runs) + 1 /\ proc'[s].todo = <<>>
           /\ proc' = [proc EXCEPT ![s].at = "evaluate"] =>
                 /\ proc'[s].at = "evaluate" /\ proc'[s].run = proc[s].run /\ proc'[s].todo = proc[s].todo
           /\ Evaluate(s) =>
                 /\ proc'[s].at = "dispatch" /\ proc'[s].run = proc[s].run /\ proc'[s].todo = Transitions
           /\ \A at \in {"send", "record"} : proc' = [proc EXCEPT ![s] = [proc[s] EXCEPT !.at = at]] =>
                 /\ proc'[s].at = at /\ proc'[s].run = proc[s].run /\ proc'[s].todo = proc[s].todo
           /\ AllDispatched(s) \/ Interrupt(s) =>
                 /\ proc'[s].at = "idle" /\ proc'[s].run = 0 /\ proc'[s].todo = <<>>
<1>1. proc \in [Scanners -> ProcType] /\ proc[s] \in ProcType
  BY DEF AlertsInv, Types
<1>2. ASSUME Start(s)
      PROVE  proc'[s].at = "scanning" /\ proc'[s].run = Len(runs) + 1 /\ proc'[s].todo = <<>>
  <2>1. proc'[s] = [Idle EXCEPT !.at = "scanning", !.run = Len(runs) + 1]
    BY <1>1, <1>2 DEF Start
  <2>2. Idle \in ProcType /\ Idle.todo = <<>>
    BY IdleIs
  <2> HIDE DEF Idle
  <2> DEFINE n == Len(runs) + 1
  <2> HIDE DEF n
  <2>3. /\ [Idle EXCEPT !.at = "scanning", !.run = n].at = "scanning"
        /\ [Idle EXCEPT !.at = "scanning", !.run = n].run = n
        /\ [Idle EXCEPT !.at = "scanning", !.run = n].todo = <<>>
    BY <2>2 DEF ProcType
  <2> QED BY <2>1, <2>3 DEF n
<1>3. ASSUME proc' = [proc EXCEPT ![s].at = "evaluate"]
      PROVE  proc'[s].at = "evaluate" /\ proc'[s].run = proc[s].run /\ proc'[s].todo = proc[s].todo
  <2>1. proc'[s] = [proc[s] EXCEPT !.at = "evaluate"]
    BY <1>1, <1>3
  <2> QED BY <1>1, <2>1 DEF ProcType
<1>4. ASSUME Evaluate(s)
      PROVE  proc'[s].at = "dispatch" /\ proc'[s].run = proc[s].run /\ proc'[s].todo = Transitions
  <2>1. proc'[s] = [proc[s] EXCEPT !.at = "dispatch", !.todo = Transitions]
    BY <1>1, <1>4 DEF Evaluate
  <2> QED BY <1>1, <2>1 DEF ProcType
<1>5. ASSUME NEW at \in {"send", "record"}, proc' = [proc EXCEPT ![s] = [proc[s] EXCEPT !.at = at]]
      PROVE  proc'[s].at = at /\ proc'[s].run = proc[s].run /\ proc'[s].todo = proc[s].todo
  <2>1. proc'[s] = [proc[s] EXCEPT !.at = at]
    BY <1>1, <1>5
  <2> QED BY <1>1, <2>1 DEF ProcType
<1>6. ASSUME AllDispatched(s) \/ Interrupt(s)
      PROVE  proc'[s].at = "idle" /\ proc'[s].run = 0 /\ proc'[s].todo = <<>>
  <2>1. proc'[s] = Idle
    BY <1>1, <1>6 DEF AllDispatched, Interrupt
  <2> QED BY <2>1, IdleIs
<1> QED BY <1>2, <1>3, <1>4, <1>5, <1>6

\* Reading a delivery leaves the scanner at its row or at the next message.
LEMMA ReadMoves ==
    ASSUME AlertsInv, NEW s \in Scanners, ReadDelivery(s)
    PROVE  /\ proc'[s].run = proc[s].run
           /\ \/ /\ proc'[s].at = "dispatch" /\ proc'[s].todo = Tail(proc[s].todo)
                 /\ Concluded(rows'[Slot(s)])
              \/ /\ proc'[s].at = "count" /\ proc'[s].todo = proc[s].todo
                 /\ proc'[s].seen = rows'[Slot(s)].attempts /\ ~Concluded(rows'[Slot(s)])
<1>1. proc \in [Scanners -> ProcType] /\ proc[s] \in ProcType /\ Types
  BY DEF AlertsInv, Types
<1>2. proc[s].todo # <<>>
  BY ReadDeliveryIs
<1>3. CASE Concluded(rows'[Slot(s)]) /\ Advance(s)
  BY <1>1, <1>2, <1>3, AdvanceIs
<1>4. CASE ~Concluded(rows'[Slot(s)])
           /\ proc' = [proc EXCEPT ![s].at = "count", ![s].seen = rows'[Slot(s)].attempts]
  <2> DEFINE n == rows'[Slot(s)].attempts
  <2>1. proc'[s] = [proc[s] EXCEPT !.at = "count", !.seen = n]
    BY <1>1, <1>4
  <2> HIDE DEF n
  <2>2. proc'[s].at = "count" /\ proc'[s].run = proc[s].run /\ proc'[s].todo = proc[s].todo /\ proc'[s].seen = n
    BY <1>1, <2>1 DEF ProcType
  <2> QED BY <1>4, <2>2 DEF n
<1> QED BY <1>3, <1>4, ReadDeliveryIs

\* A lone scanner stays with the newest run.
LEMMA NewestStays ==
    ASSUME AlertsInv, NewestInHand, NEW s \in Scanners, Scanners = {s}, Scan(s)
    PROVE  NewestInHand'
<1>1. /\ Types /\ proc[s].at \in Places
      /\ proc[s].at # "idle" => proc[s].run \in DOMAIN runs
      /\ proc[s].at # "idle" => proc[s].run = Len(runs)
      /\ proc[s].at = "scanning" => runs[proc[s].run].status = "RUNNING"
      /\ proc[s].at \notin {"idle", "scanning"} => runs[proc[s].run].status # "RUNNING"
  BY ProcFields DEF AlertsInv, Types, HandsAreSound, NewestInHand
<1>2. Len(runs) \in Nat /\ DOMAIN runs = 1 .. Len(runs) /\ runs \in Seq(RunType)
  BY <1>1, RunsAreNumbered DEF Types
<1> SUFFICES /\ proc'[s].at # "idle" => proc'[s].run = Len(runs')
             /\ proc'[s].at = "idle" => proc'[s].run = 0
             /\ proc'[s].at = "scanning" => runs'[proc'[s].run].status = "RUNNING"
             /\ proc'[s].at \notin {"idle", "scanning"} => runs'[proc'[s].run].status # "RUNNING"
  BY DEF NewestInHand
<1>3. CASE Start(s)
  <2>1. proc'[s].at = "scanning" /\ proc'[s].run = Len(runs) + 1
    BY <1>3, Moves
  <2> DEFINE new == [status |-> "RUNNING", errors |-> {}]
  <2>2. runs' = Append(runs, new) /\ new.status = "RUNNING" /\ new \in RunType
    BY <1>3 DEF Start, RunType
  <2> HIDE DEF new
  <2>3. Len(runs') = Len(runs) + 1 /\ runs'[Len(runs) + 1] = new
    BY <1>2, <2>2
  <2> QED BY <2>1, <2>2, <2>3
<1>4. CASE Finish(s) \/ Raise(s)
  <2>1. proc[s].at = "scanning" /\ proc' = [proc EXCEPT ![s].at = "evaluate"]
    BY <1>4 DEF Finish, Raise
  <2>2. proc'[s].at = "evaluate" /\ proc'[s].run = proc[s].run
    BY <2>1, Moves
  <2>3. PICK y \in RunType : y.status \in Done /\ runs' = [runs EXCEPT ![proc[s].run] = y]
    <3>1. "FAILED" \in Done
      BY DEF Done
    <3> QED BY <1>1, <1>4, <2>1, <3>1, FinishWrites, RaiseWrites
  <2>4. Len(runs') = Len(runs) /\ runs'[proc[s].run] = y
    BY <1>1, <1>2, <2>1, <2>3
  <2> QED BY <1>1, <2>1, <2>2, <2>3, <2>4 DEF Done
<1>5. CASE AllDispatched(s) \/ Interrupt(s)
  BY <1>5, Moves
<1>7. CASE Evaluate(s)
  <2>1. proc[s].at = "evaluate" /\ runs' = runs
    BY <1>7 DEF Evaluate
  <2>2. proc'[s].at = "dispatch" /\ proc'[s].run = proc[s].run
    BY <1>7, Moves
  <2> QED BY <1>1, <2>1, <2>2
<1>8. CASE ReadDelivery(s)
  <2>1. proc[s].at = "dispatch" /\ runs' = runs
    BY <1>8 DEF ReadDelivery
  <2>2. proc'[s].at \in {"dispatch", "count"} /\ proc'[s].run = proc[s].run
    BY <1>8, ReadMoves
  <2> QED BY <1>1, <2>1, <2>2
<1>9. CASE CountAttempt(s)
  <2>1. proc[s].at = "count" /\ runs' = runs
    BY <1>9 DEF CountAttempt
  <2>2. proc'[s].at = "send" /\ proc'[s].run = proc[s].run
    BY <1>9, CountIs, Moves
  <2> QED BY <1>1, <2>1, <2>2
<1>10. ASSUME proc[s].at \in Holding, Advance(s), runs' = runs
       PROVE  /\ proc'[s].at # "idle" => proc'[s].run = Len(runs')
              /\ proc'[s].at = "idle" => proc'[s].run = 0
              /\ proc'[s].at = "scanning" => runs'[proc'[s].run].status = "RUNNING"
              /\ proc'[s].at \notin {"idle", "scanning"} => runs'[proc'[s].run].status # "RUNNING"
  <2>1. proc[s].todo # <<>>
    BY <1>10, InHand
  <2>2. proc'[s].at = "dispatch" /\ proc'[s].run = proc[s].run
    BY <1>1, <1>10, <2>1, AdvanceIs
  <2> QED BY <1>1, <1>10, <2>2 DEF Holding
<1>11. CASE SendAccepted(s) \/ SendFails(s)
  <2>1. proc[s].at = "send" /\ runs' = runs
    BY <1>11, SendIs
  <2>2. CASE Advance(s)
    BY <1>10, <2>1, <2>2 DEF Holding
  <2>3. CASE proc' = [proc EXCEPT ![s] = [proc[s] EXCEPT !.at = "record"]]
    <3>1. proc'[s].at = "record" /\ proc'[s].run = proc[s].run
      BY <2>3, Moves
    <3> QED BY <1>1, <2>1, <3>1
  <2> QED BY <1>11, <2>2, <2>3, SendIs
<1>12. CASE RecordSent(s)
  BY <1>10, <1>12, RecordIs DEF Holding
<1> QED BY <1>3, <1>4, <1>5, <1>7, <1>8, <1>9, <1>11, <1>12 DEF Scan

\* The counts of a lone scanner stay sound.
LEMMA CountsStay ==
    ASSUME AlertsInv, CountsAreSound, NEW s \in Scanners, Scanners = {s}, Scan(s)
    PROVE  CountsAreSound'
<1>1. /\ Types /\ DOMAIN received = DOMAIN rows
      /\ \A k \in DOMAIN rows : /\ rows[k].attempts \in Nat /\ received[k] \in Nat
                                /\ received[k] <= rows[k].attempts
                                /\ rows[k].sent => received[k] > 0
  <2>1. \A x \in RowType : x.attempts \in Nat
    BY DEF RowType
  <2> QED BY <2>1 DEF AlertsInv, Types, CountsAreSound
<1>2. /\ proc[s].at \in {"count", "send"} => ~rows[Slot(s)].sent
      /\ proc[s].at = "count" => rows[Slot(s)].attempts = proc[s].seen
      /\ proc[s].at = "send" => received[Slot(s)] < rows[Slot(s)].attempts
      /\ proc[s].at = "record" => received[Slot(s)] > 0
  BY DEF CountsAreSound
<1> DEFINE RowsSound == \A k \in DOMAIN rows' : /\ received'[k] <= rows'[k].attempts
                                                /\ rows'[k].sent => received'[k] > 0
           HandSound == /\ proc'[s].at \in {"count", "send"} => ~rows'[Head(proc'[s].todo)].sent
                        /\ proc'[s].at = "count" => rows'[Head(proc'[s].todo)].attempts = proc'[s].seen
                        /\ proc'[s].at = "send" =>
                             received'[Head(proc'[s].todo)] < rows'[Head(proc'[s].todo)].attempts
                        /\ proc'[s].at = "record" => received'[Head(proc'[s].todo)] > 0
<1> SUFFICES RowsSound /\ HandSound
  BY DEF CountsAreSound, Slot
<1>3. ASSUME proc'[s].at \notin Holding
      PROVE  HandSound
  BY <1>3 DEF Holding
<1>4. ASSUME UNCHANGED <<rows, received>>
      PROVE  RowsSound
  BY <1>1, <1>4
<1>5. CASE Start(s) \/ Finish(s) \/ Raise(s) \/ Evaluate(s) \/ AllDispatched(s) \/ Interrupt(s)
  <2>1. UNCHANGED <<rows, received>>
    BY <1>5 DEF Start, Finish, Raise, Evaluate, AllDispatched, Interrupt
  <2>2. proc'[s].at \in {"scanning", "evaluate", "dispatch", "idle"}
    BY <1>5, Moves DEF Finish, Raise
  <2> QED BY <1>3, <1>4, <2>1, <2>2 DEF Holding
<1>6. ASSUME Advance(s), proc[s].todo # <<>>
      PROVE  HandSound
  BY <1>1, <1>3, <1>6, AdvanceIs DEF Holding
<1>7. CASE ReadDelivery(s)
  <2> DEFINE k0 == Slot(s)
  <2>1. /\ DOMAIN rows' = DOMAIN rows \union {k0}
        /\ \A k \in DOMAIN rows : rows'[k] = rows[k] /\ received'[k] = received[k]
        /\ k0 \notin DOMAIN rows => rows'[k0] = [attempts |-> 0, sent |-> FALSE] /\ received'[k0] = 0
    BY <1>7, ReadDeliveryIs
  <2> HIDE DEF k0
  <2>2. RowsSound
    BY <1>1, <2>1
  <2>3. CASE proc'[s].at = "dispatch"
    BY <1>3, <2>2, <2>3 DEF Holding
  <2>4. CASE /\ proc'[s].at = "count" /\ proc'[s].todo = proc[s].todo
             /\ proc'[s].seen = rows'[Slot(s)].attempts /\ ~Concluded(rows'[Slot(s)])
    <3>1. Head(proc'[s].todo) = Slot(s)
      BY <2>4 DEF Slot
    <3> QED BY <2>2, <2>4, <3>1 DEF Concluded
  <2> QED BY <1>7, <2>3, <2>4, ReadMoves
<1>8. CASE CountAttempt(s)
  <2> DEFINE k0 == Slot(s)
  <2>1. /\ proc[s].at = "count" /\ UNCHANGED received /\ DOMAIN rows' = DOMAIN rows
        /\ rows'[k0].attempts = proc[s].seen + 1 /\ rows'[k0].sent = rows[k0].sent
        /\ \A k \in DOMAIN rows : k # k0 => rows'[k] = rows[k]
    BY <1>8, CountIs
  <2>2. proc'[s].at = "send" /\ proc'[s].todo = proc[s].todo
    BY <1>8, CountIs, Moves
  <2>3. k0 \in DOMAIN rows /\ Head(proc'[s].todo) = k0
    BY <2>1, <2>2, InHand DEF Holding, Slot
  <2>4. ~rows[k0].sent /\ rows[k0].attempts = proc[s].seen
    BY <1>2, <2>1
  <2> HIDE DEF k0
  <2>5. received[k0] \in Nat /\ proc[s].seen \in Nat /\ received[k0] <= proc[s].seen
    BY <1>1, <2>3, <2>4
  <2>6. rows'[k0].attempts > received'[k0] /\ received'[k0] <= rows'[k0].attempts
    BY <2>1, <2>5
  <2>7. RowsSound
    BY <1>1, <2>1, <2>3, <2>6
  <2>8. HandSound
    BY <2>1, <2>2, <2>3, <2>4, <2>6
  <2> QED BY <2>7, <2>8
<1>9. CASE SendAccepted(s) \/ SendFails(s)
  <2> DEFINE k0 == Slot(s)
  <2>1. /\ proc[s].at = "send" /\ UNCHANGED rows /\ DOMAIN received' = DOMAIN received
        /\ received'[k0] \in {received[k0], received[k0] + 1}
        /\ \A k \in DOMAIN received : k # k0 => received'[k] = received[k]
    BY <1>9, SendIs
  <2>2. k0 \in DOMAIN rows /\ proc[s].todo # <<>>
    BY <2>1, InHand DEF Holding
  <2>3. ~rows[k0].sent /\ received[k0] < rows[k0].attempts
    BY <1>2, <2>1
  <2>4. received'[k0] <= rows[k0].attempts
    <3> HIDE DEF k0
    <3> QED BY <1>1, <2>1, <2>2, <2>3
  <2>5. RowsSound
    <3> HIDE DEF k0
    <3> QED BY <1>1, <2>1, <2>2, <2>3, <2>4
  <2>6. CASE Advance(s)
    BY <1>6, <2>2, <2>5, <2>6
  <2>7. CASE /\ proc' = [proc EXCEPT ![s] = [proc[s] EXCEPT !.at = "record"]]
             /\ received'[Slot(s)] = received[Slot(s)] + 1
    <3>1. proc'[s].at = "record" /\ Head(proc'[s].todo) = k0
      BY <2>7, Moves DEF Slot
    <3>2. received[k0] \in Nat
      BY <1>1, <2>2
    <3>3. received'[k0] > 0
      BY <2>7, <3>2
    <3> QED BY <2>5, <3>1, <3>3
  <2> QED BY <1>9, <2>6, <2>7, SendIs
<1>10. CASE RecordSent(s)
  <2> DEFINE k0 == Slot(s)
  <2>1. /\ proc[s].at = "record" /\ UNCHANGED received /\ DOMAIN rows' = DOMAIN rows
        /\ rows'[k0].attempts = rows[k0].attempts
        /\ \A k \in DOMAIN rows : k # k0 => rows'[k] = rows[k]
        /\ Advance(s)
    BY <1>10, RecordIs
  <2>2. k0 \in DOMAIN rows /\ proc[s].todo # <<>>
    BY <2>1, InHand DEF Holding
  <2>3. received[k0] > 0
    BY <1>2, <2>1
  <2>4. RowsSound
    <3> HIDE DEF k0
    <3> QED BY <1>1, <2>1, <2>2, <2>3
  <2> QED BY <1>6, <2>1, <2>2, <2>4
<1> QED BY <1>5, <1>7, <1>8, <1>9, <1>10 DEF Scan

\* A lone scanner finishes the newest run or leaves the finished ones alone.
LEMMA RunsStep ==
    ASSUME AlertsInv, NewestInHand, NEW s \in Scanners, Scanners = {s}, Scan(s)
    PROVE  /\ \A r \in Finished : r \in Finished' /\ runs'[r] = runs[r]
           /\ \A r \in Through : r \in Through' /\ runs'[r] = runs[r]
           /\ \A r \in Finished' \ Finished : r = proc[s].run /\ r = proc'[s].run /\ proc'[s].at = "evaluate"
           /\ \A r \in Through' \ Through : r = Len(runs)
<1>1. /\ Types /\ Len(runs) \in Nat /\ DOMAIN runs = 1 .. Len(runs) /\ runs \in Seq(RunType)
  BY RunsAreNumbered DEF AlertsInv, Types
<1>2. CASE runs' = runs
  BY <1>2 DEF Finished, Through
<1>3. CASE Start(s)
  <2> DEFINE new == [status |-> "RUNNING", errors |-> {}]
             m == Len(runs) + 1
  <2>1. runs' = Append(runs, new) /\ new.status = "RUNNING" /\ new \in RunType
    BY <1>3 DEF Start, RunType
  <2> HIDE DEF new
  <2>2. /\ DOMAIN runs' = DOMAIN runs \union {m} /\ m \notin DOMAIN runs /\ runs'[m] = new
        /\ \A r \in DOMAIN runs : runs'[r] = runs[r]
    BY <1>1, <2>1
  <2> HIDE DEF m
  <2>3. runs'[m].status = "RUNNING"
    BY <2>1, <2>2
  <2>4. Finished' = Finished
    BY <2>2, <2>3 DEF Finished
  <2>5. Through' = Through
    BY <2>2, <2>3 DEF Through
  <2>6. Finished \subseteq DOMAIN runs /\ Through \subseteq DOMAIN runs
    BY DEF Finished, Through
  <2> QED BY <2>2, <2>4, <2>5, <2>6
<1>4. CASE Finish(s) \/ Raise(s)
  <2> DEFINE m == proc[s].run
  <2>1. proc[s].at = "scanning" /\ proc' = [proc EXCEPT ![s].at = "evaluate"]
    BY <1>4 DEF Finish, Raise
  <2>2. proc'[s].at = "evaluate" /\ proc'[s].run = proc[s].run
    BY <2>1, Moves
  <2>3. m = Len(runs) /\ m \in DOMAIN runs /\ runs[m].status = "RUNNING"
    BY <2>1 DEF NewestInHand, AlertsInv, HandsAreSound
  <2>4. PICK y \in RunType : runs' = [runs EXCEPT ![m] = y]
    BY <1>1, <1>4, FinishWrites, RaiseWrites
  <2>5. DOMAIN runs' = DOMAIN runs /\ \A r \in DOMAIN runs : r # m => runs'[r] = runs[r]
    BY <1>1, <2>4
  <2>6. m \notin Finished /\ m \notin Through
    BY <2>3 DEF Finished, Through
  <2> HIDE DEF m
  <2>7. \A r \in Finished : r \in Finished' /\ runs'[r] = runs[r]
    BY <2>5, <2>6 DEF Finished
  <2>8. \A r \in Through : r \in Through' /\ runs'[r] = runs[r]
    BY <2>5, <2>6 DEF Through
  <2>9. \A r \in Finished' \ Finished : r = m
    BY <2>5 DEF Finished
  <2>10. \A r \in Through' \ Through : r = m
    BY <2>5 DEF Through
  <2> USE DEF m
  <2> QED BY <2>2, <2>3, <2>7, <2>8, <2>9, <2>10
<1>5. CASE Evaluate(s) \/ AllDispatched(s) \/ Interrupt(s)
  BY <1>2, <1>5 DEF Evaluate, AllDispatched, Interrupt
<1>6. CASE ReadDelivery(s) \/ CountAttempt(s) \/ SendAccepted(s) \/ SendFails(s) \/ RecordSent(s)
  BY <1>2, <1>6 DEF ReadDelivery, CountAttempt, SendAccepted, SendFails, RecordSent
<1> QED BY <1>3, <1>4, <1>5, <1>6 DEF Scan

\* A message that was tried stays so.
LEMMA TriedStays ==
    ASSUME AlertsInv, NEW s \in Scanners, Scan(s), NEW k, Tried(k)
    PROVE  k \in DOMAIN rows' /\ rows'[k].attempts > 0
<1>1. k \in DOMAIN rows /\ rows[k].attempts > 0
  BY DEF Tried
<1>2. CASE UNCHANGED rows
  BY <1>1, <1>2
<1>3. CASE ReadDelivery(s)
  BY <1>1, <1>3, ReadDeliveryIs
<1>4. CASE CountAttempt(s)
  <2>1. proc[s].seen \in 0 .. AttemptLimit
    BY ProcFields DEF AlertsInv, Types
  <2>2. proc[s].seen + 1 > 0
    BY <2>1 DEF AttemptLimit
  <2> QED BY <1>1, <1>4, <2>2, CountIs
<1>5. CASE RecordSent(s)
  BY <1>1, <1>5, RecordIs
<1>6. CASE Start(s) \/ Finish(s) \/ Raise(s) \/ Evaluate(s) \/ AllDispatched(s) \/ Interrupt(s)
  BY <1>2, <1>6 DEF Start, Finish, Raise, Evaluate, AllDispatched, Interrupt
<1>7. CASE SendAccepted(s) \/ SendFails(s)
  BY <1>2, <1>7, SendIs
<1> QED BY <1>3, <1>4, <1>5, <1>6, <1>7 DEF Scan

\* A message leaves the list with its row tried.
LEMMA LeavesTried ==
    ASSUME AlertsInv, CountsAreSound, CountsAreSound', NEW s \in Scanners, Scanners = {s}, Advance(s),
           \/ ReadDelivery(s) /\ Concluded(rows'[Slot(s)])
           \/ SendFails(s)
           \/ RecordSent(s)
    PROVE  Slot(s) \in DOMAIN rows' /\ rows'[Slot(s)].attempts > 0
<1> DEFINE k0 == Slot(s)
<1>1. CASE ReadDelivery(s) /\ Concluded(rows'[Slot(s)])
  <2>1. k0 \in DOMAIN rows' /\ rows'[k0] \in RowType /\ received'[k0] \in Nat
    BY <1>1, ReadDeliveryIs
  <2>2. \A k \in DOMAIN rows' : received'[k] <= rows'[k].attempts /\ (rows'[k].sent => received'[k] > 0)
    BY DEF CountsAreSound
  <2>3. rows'[k0].attempts \in Nat
    BY <2>1 DEF RowType
  <2>4. rows'[k0].sent \/ rows'[k0].attempts >= 3
    BY <1>1 DEF Concluded, AttemptLimit
  <2> HIDE DEF k0
  <2>5. rows'[k0].attempts > 0
    BY <2>1, <2>2, <2>3, <2>4
  <2> USE DEF k0
  <2> QED BY <2>1, <2>5
<1>2. CASE SendFails(s)
  <2>1. proc[s].at = "send" /\ UNCHANGED rows
    BY <1>2, SendIs
  <2>2. k0 \in DOMAIN rows /\ received[k0] \in Nat /\ rows[k0].attempts \in Nat
    BY <2>1, InHand DEF Holding, AttemptLimit
  <2>3. received[k0] < rows[k0].attempts
    BY <2>1 DEF CountsAreSound
  <2> HIDE DEF k0
  <2>4. rows'[k0].attempts > 0 /\ k0 \in DOMAIN rows'
    BY <2>1, <2>2, <2>3
  <2> QED BY <2>4 DEF k0
<1>3. CASE RecordSent(s)
  <2>1. proc[s].at = "record" /\ rows'[k0].attempts = rows[k0].attempts /\ DOMAIN rows' = DOMAIN rows
    BY <1>3, RecordIs
  <2>2. k0 \in DOMAIN rows /\ received[k0] \in Nat /\ rows[k0].attempts \in Nat
    BY <2>1, InHand DEF Holding, AttemptLimit
  <2>3. received[k0] > 0 /\ received[k0] <= rows[k0].attempts
    BY <2>1, <2>2 DEF CountsAreSound
  <2> HIDE DEF k0
  <2>4. rows'[k0].attempts > 0 /\ k0 \in DOMAIN rows'
    BY <2>1, <2>2, <2>3
  <2> QED BY <2>4 DEF k0
<1> QED BY <1>1, <1>2, <1>3

\* What is in the list stays there until it has been tried; only evaluate adds to it.
LEMMA ListStep ==
    ASSUME AlertsInv, CountsAreSound, CountsAreSound', NEW s \in Scanners, Scanners = {s}, Scan(s)
    PROVE  /\ ~Evaluate(s) => ToSet(proc'[s].todo) \subseteq ToSet(proc[s].todo)
           /\ (proc'[s].at \in {"dispatch"} \union Holding /\ ~Evaluate(s)) =>
                 /\ proc[s].at \in {"dispatch"} \union Holding /\ proc'[s].run = proc[s].run /\ runs' = runs
                 /\ \A k \in ToSet(proc[s].todo) :
                      k \in ToSet(proc'[s].todo) \/ (k \in DOMAIN rows' /\ rows'[k].attempts > 0)
<1> DEFINE Goal == /\ ToSet(proc'[s].todo) \subseteq ToSet(proc[s].todo)
                   /\ proc'[s].at \in {"dispatch"} \union Holding =>
                        /\ proc[s].at \in {"dispatch"} \union Holding /\ proc'[s].run = proc[s].run /\ runs' = runs
                        /\ \A k \in ToSet(proc[s].todo) :
                             k \in ToSet(proc'[s].todo) \/ (k \in DOMAIN rows' /\ rows'[k].attempts > 0)
<1>1. Types /\ proc[s].todo \in Seq(Slots)
  BY ProcFields DEF AlertsInv, Types
<1>2. CASE Start(s) \/ AllDispatched(s) \/ Interrupt(s)
  <2>1. proc'[s].at \in {"scanning", "idle"} /\ proc'[s].todo = <<>>
    BY <1>2, Moves
  <2> QED BY <2>1, ToSetShort DEF Holding
<1>3. CASE Finish(s) \/ Raise(s)
  <2>1. proc'[s].at = "evaluate" /\ proc'[s].todo = proc[s].todo
    BY <1>3, Moves DEF Finish, Raise
  <2> QED BY <2>1 DEF Holding
<1>4. ASSUME proc'[s].todo = proc[s].todo, proc'[s].run = proc[s].run, runs' = runs,
             proc[s].at \in {"dispatch"} \union Holding
      PROVE  Goal
  BY <1>4
<1>5. ASSUME Advance(s), runs' = runs, proc[s].at \in {"dispatch"} \union Holding, proc[s].todo # <<>>,
             Slot(s) \in DOMAIN rows' /\ rows'[Slot(s)].attempts > 0
      PROVE  Goal
  <2>1. proc'[s].run = proc[s].run /\ proc'[s].todo = Tail(proc[s].todo)
    BY <1>1, <1>5, AdvanceIs
  <2>2. ToSet(proc[s].todo) = {Slot(s)} \union ToSet(Tail(proc[s].todo))
    BY <1>1, <1>5, HeadAndTail DEF Slot
  <2> QED BY <1>5, <2>1, <2>2
<1>6. CASE ReadDelivery(s)
  <2>1. proc[s].at = "dispatch" /\ proc[s].todo # <<>> /\ runs' = runs
    BY <1>6, ReadDeliveryIs
  <2>2. CASE Concluded(rows'[Slot(s)]) /\ Advance(s)
    <3>1. Slot(s) \in DOMAIN rows' /\ rows'[Slot(s)].attempts > 0
      BY <1>6, <2>2, LeavesTried
    <3> QED BY <1>5, <2>1, <2>2, <3>1
  <2>3. CASE ~Concluded(rows'[Slot(s)])
    <3>1. proc'[s].run = proc[s].run /\ proc'[s].todo = proc[s].todo
      BY <1>6, <2>3, ReadMoves
    <3> QED BY <1>4, <2>1, <3>1
  <2> QED BY <1>6, <2>2, <2>3, ReadDeliveryIs
<1>7. CASE CountAttempt(s)
  <2>1. proc[s].at = "count" /\ runs' = runs /\ proc'[s].run = proc[s].run /\ proc'[s].todo = proc[s].todo
    BY <1>7, CountIs, Moves
  <2> QED BY <1>4, <2>1 DEF Holding
<1>8. CASE SendAccepted(s)
  <2>1. proc[s].at = "send" /\ runs' = runs /\ proc' = [proc EXCEPT ![s].at = "record"]
    BY <1>8 DEF SendAccepted
  <2>2. proc' = [proc EXCEPT ![s] = [proc[s] EXCEPT !.at = "record"]]
    BY <1>1, <2>1 DEF Types
  <2>3. proc'[s].run = proc[s].run /\ proc'[s].todo = proc[s].todo
    BY <2>2, Moves
  <2> QED BY <1>4, <2>1, <2>3 DEF Holding
<1>9. CASE SendFails(s) \/ RecordSent(s)
  <2>1. proc[s].at \in Holding /\ runs' = runs /\ Advance(s)
    BY <1>9 DEF SendFails, RecordSent, Holding
  <2>2. proc[s].todo # <<>>
    BY <2>1, InHand
  <2>3. Slot(s) \in DOMAIN rows' /\ rows'[Slot(s)].attempts > 0
    BY <1>9, <2>1, LeavesTried
  <2> QED BY <1>5, <2>1, <2>2, <2>3
<1> QED BY <1>2, <1>3, <1>6, <1>7, <1>8, <1>9 DEF Scan

\* A failed scan is announced.
LEMMA FailuresStay ==
    ASSUME AlertsInv, NewestInHand, CountsAreSound, CountsAreSound', FailuresAreTried,
           NEW s \in Scanners, Scanners = {s}, Scan(s)
    PROVE  FailuresAreTried'
<1>1. /\ Types /\ Len(runs) \in Nat /\ DOMAIN runs = 1 .. Len(runs) /\ 0 \notin DOMAIN runs
      /\ Finished \subseteq DOMAIN runs
  BY RunsAreNumbered DEF AlertsInv, Finished
<1>2. ASSUME NEW r \in Finished' \ cut', runs'[r].status = "FAILED", proc'[s].run # r,
             NEW d \in Destinations
      PROVE  FailureSlot(r, d) \in DOMAIN rows' /\ rows'[FailureSlot(r, d)].attempts > 0
  <2>1. r \in Finished /\ runs'[r] = runs[r]
    BY <1>2, RunsStep
  <2>2. r \notin cut
    <3>1. cut \subseteq cut'
      BY DEF Scan, Start, Finish, Raise, Evaluate, ReadDelivery, CountAttempt, SendAccepted, SendFails,
             RecordSent, AllDispatched, Interrupt
    <3> QED BY <1>2, <3>1
  <2> DEFINE k == FailureSlot(r, d)
  <2>3. CASE proc[s].run # r
    <3>1. Tried(k)
      BY <1>2, <2>1, <2>2, <2>3 DEF FailuresAreTried
    <3> HIDE DEF k
    <3>2. k \in DOMAIN rows' /\ rows'[k].attempts > 0
      BY <3>1, TriedStays
    <3> QED BY <3>2 DEF k
  <2>4. CASE proc[s].run = r
    <3>1. proc[s].at # "idle"
      BY <1>1, <2>1, <2>4 DEF NewestInHand
    <3>2. proc'[s].run # proc[s].run
      BY <1>2, <2>4
    <3>3. ~Interrupt(s)
      BY <1>2, <2>4 DEF Interrupt
    <3>4. ~Start(s)
      BY <3>1 DEF Start
    <3>5. ~Finish(s) /\ ~Raise(s) /\ ~Evaluate(s)
      BY <3>2, Moves DEF Finish, Raise
    <3>6. ~ReadDelivery(s)
      BY <3>2, ReadMoves
    <3>7. ~(SendAccepted(s) \/ SendFails(s) \/ RecordSent(s) \/ CountAttempt(s))
      <4>1. ASSUME SendAccepted(s) \/ SendFails(s) \/ RecordSent(s) \/ CountAttempt(s)
            PROVE  FALSE
        <5>1. proc[s].at \in Holding
          BY <4>1 DEF SendAccepted, SendFails, RecordSent, CountAttempt, Holding
        <5>2. proc[s].todo # <<>>
          BY <5>1, InHand
        <5>3. CASE Advance(s)
          BY <1>1, <3>2, <5>2, <5>3, AdvanceIs
        <5>4. CASE \E at \in {"send", "record"} : proc' = [proc EXCEPT ![s] = [proc[s] EXCEPT !.at = at]]
          BY <3>2, <5>4, Moves
        <5> QED BY <4>1, <5>3, <5>4, SendIs, CountIs, RecordIs
      <4> QED BY <4>1
    <3>8. AllDispatched(s)
      BY <3>3, <3>4, <3>5, <3>6, <3>7 DEF Scan
    <3>9. proc[s].at = "dispatch" /\ proc[s].todo = <<>> /\ rows' = rows
      BY <3>8 DEF AllDispatched
    <3>10. FailureSlot(proc[s].run, d) \in ToSet(proc[s].todo) \/ Tried(FailureSlot(proc[s].run, d))
      BY <1>2, <2>1, <2>4, <3>9 DEF FailuresAreTried
    <3> QED BY <2>4, <3>9, <3>10, ToSetShort DEF Tried
  <2> QED BY <2>3, <2>4
<1>3. ASSUME proc'[s].at \in {"dispatch"} \union Holding, runs'[proc'[s].run].status = "FAILED",
             NEW d \in Destinations
      PROVE  \/ FailureSlot(proc'[s].run, d) \in ToSet(proc'[s].todo)
             \/ FailureSlot(proc'[s].run, d) \in DOMAIN rows' /\ rows'[FailureSlot(proc'[s].run, d)].attempts > 0
  <2>1. CASE Evaluate(s)
    <3> DEFINE n == proc[s].run
    <3>1. /\ runs' = runs /\ proc[s].at = "evaluate" /\ proc'[s].run = n /\ proc'[s].todo = Transitions
      BY <2>1, Moves DEF Evaluate
    <3>2. n = Len(runs) /\ n \in DOMAIN runs /\ runs[n].status = "FAILED"
      BY <1>3, <3>1 DEF NewestInHand, AlertsInv, HandsAreSound
    <3> HIDE DEF n
    <3>3. n \in Finished /\ Finished \in SUBSET Nat /\ \A r \in Finished : r <= n
      BY <1>1, <3>2 DEF Finished
    <3>4. Newest(Finished) \in Finished /\ \A r \in Finished : r <= Newest(Finished)
      <4> HIDE DEF Finished
      <4> QED BY <3>3, NewestIs
    <3>5. Newest(Finished) = n
      <4> DEFINE m == Newest(Finished)
      <4> HIDE DEF m
      <4>1. m \in Finished /\ \A r \in Finished : r <= m
        BY <3>4 DEF m
      <4>2. m \in Nat /\ n \in Nat /\ m <= n /\ n <= m
        BY <3>3, <4>1
      <4>3. m = n
        BY <4>2
      <4> QED BY <4>3 DEF m
    <3>6. Key("scan_failed", "scanner", n) \in FailedKeys
      BY <3>2, <3>3, <3>5 DEF FailedKeys
    <3>7. [key |-> Key("scan_failed", "scanner", n), to |-> d] \in ToSet(Transitions)
      BY <1>1, <3>6, TransitionsAre
    <3> QED BY <3>1, <3>7 DEF FailureSlot
  <2>2. CASE ~Evaluate(s)
    <3>1. /\ proc[s].at \in {"dispatch"} \union Holding /\ proc'[s].run = proc[s].run /\ runs' = runs
          /\ \A k \in ToSet(proc[s].todo) :
               k \in ToSet(proc'[s].todo) \/ (k \in DOMAIN rows' /\ rows'[k].attempts > 0)
      BY <1>3, <2>2, ListStep
    <3> DEFINE k == FailureSlot(proc[s].run, d)
    <3>2. k \in ToSet(proc[s].todo) \/ Tried(k)
      BY <1>3, <3>1 DEF FailuresAreTried
    <3>3. Tried(k) => k \in DOMAIN rows' /\ rows'[k].attempts > 0
      <4> HIDE DEF k
      <4> QED BY TriedStays
    <3> HIDE DEF k
    <3>4. k \in ToSet(proc'[s].todo) \/ (k \in DOMAIN rows' /\ rows'[k].attempts > 0)
      BY <3>1, <3>2, <3>3
    <3> QED BY <3>1, <3>4 DEF k
  <2> QED BY <2>1, <2>2
<1> QED BY <1>2, <1>3 DEF FailuresAreTried, Tried, FailureSlot, Key

\* An occurrence's beginning is not moved by runs that finish later.
LEMMA BeginsStays ==
    ASSUME AlertsInv,
           \A r \in Through : r \in Through' /\ runs'[r] = runs[r],
           \A r \in Through' \ Through : r = Len(runs),
           NEW i, NEW n, Begins(i, n)
    PROVE  Begins(i, n)'
<1>1. Len(runs) \in Nat /\ Through \subseteq 1 .. Len(runs)
  BY RunsAreNumbered DEF AlertsInv, Through
<1>2. /\ n \in Through /\ i \in runs[n].errors
      /\ \A q \in Through : q < n => \E r \in Through : q <= r /\ r < n /\ i \notin runs[r].errors
  BY DEF Begins
<1>3. n \in Through' /\ i \in runs'[n].errors
  BY <1>2
<1>4. ASSUME NEW q \in Through', q < n
      PROVE  \E r \in Through' : q <= r /\ r < n /\ i \notin runs'[r].errors
  <2>1. q \in Through
    <3>1. ASSUME q \notin Through
          PROVE  FALSE
      <4>1. q = Len(runs) /\ n \in 1 .. Len(runs)
        BY <1>1, <1>2, <1>4, <3>1
      <4> QED BY <1>1, <1>4, <4>1
    <3> QED BY <3>1
  <2>2. PICK r \in Through : q <= r /\ r < n /\ i \notin runs[r].errors
    BY <1>2, <1>4, <2>1
  <2> QED BY <2>2
<1> QED BY <1>3, <1>4 DEF Begins

\* Every announced occurrence began where it says.
LEMMA OccurrencesStay ==
    ASSUME AlertsInv, NewestInHand, CountsAreSound, CountsAreSound', OccurrencesBegin,
           NEW s \in Scanners, Scanners = {s}, Scan(s)
    PROVE  OccurrencesBegin'
<1>1. Types
  BY DEF AlertsInv
<1>2. /\ \A r \in Through : r \in Through' /\ runs'[r] = runs[r]
      /\ \A r \in Through' \ Through : r = Len(runs)
  BY RunsStep
<1>3. ASSUME NEW k, k \in DOMAIN rows \/ k \in ToSet(proc[s].todo), k.key.kind = "repeated"
      PROVE  Begins(k.key.what, k.key.anchor)'
  <2>1. Begins(k.key.what, k.key.anchor)
    BY <1>3 DEF OccurrencesBegin
  <2> DEFINE i == k.key.what
             n == k.key.anchor
  <2> HIDE DEF i, n
  <2>2. Begins(i, n)
    BY <2>1 DEF i, n
  <2>3. Begins(i, n)'
    BY <1>2, <2>2, BeginsStays
  <2> QED BY <2>3 DEF i, n
<1>4. ASSUME NEW k \in DOMAIN rows'
      PROVE  k \in DOMAIN rows \/ k \in ToSet(proc[s].todo)
  <2>1. CASE ReadDelivery(s)
    <3>1. DOMAIN rows' = DOMAIN rows \union {Slot(s)} /\ proc[s].todo # <<>>
      BY <2>1, ReadDeliveryIs
    <3>2. Slot(s) \in ToSet(proc[s].todo)
      BY <1>1, <3>1, ProcFields, HeadAndTail DEF Slot, Types
    <3> QED BY <1>4, <3>1, <3>2
  <2>2. CASE CountAttempt(s) \/ RecordSent(s)
    BY <1>4, <2>2, CountIs, RecordIs
  <2>3. CASE ~(ReadDelivery(s) \/ CountAttempt(s) \/ RecordSent(s))
    <3>1. rows' = rows
      BY <2>3 DEF Scan, Start, Finish, Raise, Evaluate, SendAccepted, SendFails, AllDispatched, Interrupt
    <3> QED BY <1>4, <3>1
  <2> QED BY <2>1, <2>2, <2>3
<1>5. ASSUME NEW k \in ToSet(proc'[s].todo), k.key.kind = "repeated"
      PROVE  Begins(k.key.what, k.key.anchor)'
  <2>1. CASE Evaluate(s)
    <3>1. proc'[s].todo = Transitions
      BY <2>1, Moves
    <3>2. Begins(k.key.what, k.key.anchor)
      BY <1>1, <1>5, <3>1, TransitionsAre
    <3> DEFINE i == k.key.what
               n == k.key.anchor
    <3> HIDE DEF i, n
    <3>3. Begins(i, n)
      BY <3>2 DEF i, n
    <3>4. Begins(i, n)'
      BY <1>2, <3>3, BeginsStays
    <3> QED BY <3>4 DEF i, n
  <2>2. CASE ~Evaluate(s)
    <3>1. k \in ToSet(proc[s].todo)
      BY <1>5, <2>2, ListStep
    <3> QED BY <1>3, <1>5, <3>1
  <2> QED BY <2>1, <2>2
<1> QED BY <1>3, <1>4, <1>5 DEF OccurrencesBegin

\* A single process: no two `tidal-server scan run` overlap.
OneScanner == \E s : Scanners = {s}

LEMMA LoneInit ==
    ASSUME OneScanner, Init
    PROVE  LoneInv
<1>1. /\ runs = <<>> /\ rows = <<>> /\ DOMAIN rows = {} /\ DOMAIN runs = {}
      /\ proc = [s \in Scanners |-> Idle]
  BY DEF Init
<1>2. \A s \in Scanners : proc[s].at = "idle" /\ proc[s].run = 0 /\ proc[s].todo = <<>>
  BY <1>1, IdleIs
<1>3. NewestInHand
  BY <1>2 DEF NewestInHand
<1>4. CountsAreSound
  BY <1>1, <1>2 DEF CountsAreSound
<1>5. FailuresAreTried
  BY <1>1, <1>2 DEF FailuresAreTried, Finished, Holding
<1>6. OccurrencesBegin
  BY <1>1, <1>2, ToSetShort DEF OccurrencesBegin
<1> QED BY <1>3, <1>4, <1>5, <1>6 DEF LoneInv

LEMMA LoneStep ==
    ASSUME OneScanner, AlertsInv, LoneInv, [Next]_vars
    PROVE  LoneInv'
<1>1. NewestInHand /\ CountsAreSound /\ FailuresAreTried /\ OccurrencesBegin
  BY DEF LoneInv
<1>2. ASSUME UNCHANGED <<runs, rows, received, proc, cut>>
      PROVE  LoneInv'
  BY <1>1, <1>2 DEF LoneInv, NewestInHand, CountsAreSound, FailuresAreTried, OccurrencesBegin, Begins,
     Finished, Through, Tried, Slot
<1>3. CASE UNCHANGED vars
  BY <1>2, <1>3 DEF vars
<1>4. ASSUME NEW p \in Pairs, NewRound(p) \/ Repair(p)
      PROVE  LoneInv'
  BY <1>2, <1>4, RoundsKeepTypes
<1>5. ASSUME NEW s \in Scanners, Scan(s)
      PROVE  LoneInv'
  <2>1. Scanners = {s}
    BY <1>5 DEF OneScanner
  <2>2. NewestInHand'
    BY <1>1, <1>5, <2>1, NewestStays
  <2>3. CountsAreSound'
    BY <1>1, <1>5, <2>1, CountsStay
  <2>4. FailuresAreTried'
    BY <1>1, <1>5, <2>1, <2>3, FailuresStay
  <2>5. OccurrencesBegin'
    BY <1>1, <1>5, <2>1, <2>3, OccurrencesStay
  <2> QED BY <2>2, <2>3, <2>4, <2>5 DEF LoneInv
<1> QED BY <1>3, <1>4, <1>5 DEF Next

\* With one scanner, its newest run, its counts, the failures it announces and
\* the occurrences it counts hold together throughout (ScannerService.scan_once,
\* AlertService.evaluate, AlertDispatcher.dispatch).
THEOREM LoneInvariant == ASSUME OneScanner PROVE Spec => [](AlertsInv /\ LoneInv)
<1>1. Init => LoneInv
  BY LoneInit
<1>2. AlertsInv /\ LoneInv /\ [Next]_vars => LoneInv'
  BY LoneStep
<1> QED BY <1>1, <1>2, AlertsInvariant, PTL DEF Spec

\* _scan_unhealthy, dispatch: once a lone scanner has left a failed run that was
\* not cut short, its alert has been tried at every destination.
THEOREM FailureAnnouncedHolds == ASSUME OneScanner PROVE Spec => []FailureAnnounced
<1>1. LoneInv => FailureAnnounced
  BY DEF LoneInv, FailuresAreTried, FailureAnnounced, Tried, FailureSlot
<1> QED BY <1>1, LoneInvariant, PTL

\* _repeated_scan_failures: two alerts of the same item have a run between them
\* that got through without it.
THEOREM OneAlertPerEpisodeHolds == ASSUME OneScanner PROVE Spec => []OneAlertPerEpisode
<1>1. AlertsInv /\ LoneInv => OneAlertPerEpisode
  <2> SUFFICES ASSUME AlertsInv, LoneInv, NEW a \in DOMAIN rows, NEW b \in DOMAIN rows,
                      a.key.kind = "repeated", b.key.kind = "repeated",
                      a.key.what = b.key.what, a.key.anchor < b.key.anchor
               PROVE  \E r \in a.key.anchor .. b.key.anchor :
                         /\ runs[r].status \in {"SUCCESS", "PARTIAL_SUCCESS"}
                         /\ a.key.what \notin runs[r].errors
    BY DEF OneAlertPerEpisode
  <2> DEFINE m == a.key.anchor
             n == b.key.anchor
             i == a.key.what
  <2>1. Begins(i, m) /\ Begins(i, n)
    BY DEF LoneInv, OccurrencesBegin
  <2> HIDE DEF m, n, i
  <2>2. m < n
    BY DEF m, n
  <2>3. m \in Through /\ Through \subseteq Nat
    BY <2>1, RunsAreNumbered DEF AlertsInv, Begins, Through
  <2>4. n \in Through
    BY <2>1 DEF Begins
  <2>5. PICK r \in Through : m <= r /\ r < n /\ i \notin runs[r].errors
    BY <2>1, <2>2, <2>3 DEF Begins
  <2>6. r \in m .. n /\ runs[r].status \in {"SUCCESS", "PARTIAL_SUCCESS"}
    BY <2>3, <2>4, <2>5 DEF Through
  <2> QED BY <2>5, <2>6 DEF m, n, i
<1> QED BY <1>1, LoneInvariant, PTL

----------------------------------------------------------------------------
(* A lone scanner implements the bounded delivery.                         *)

\* What the abstract specification sees of the rows and of the destinations.
Attempts == [k \in Slots |-> IF k \in DOMAIN rows THEN rows[k].attempts ELSE 0]
Received == [k \in Slots |-> IF k \in DOMAIN received THEN received[k] ELSE 0]
Sent     == [k \in Slots |-> k \in DOMAIN rows /\ rows[k].sent]

\* A row that is inserted has nothing to show yet.
LEMMA ReadMaps ==
    ASSUME AlertsInv, NEW s \in Scanners, ReadDelivery(s)
    PROVE  UNCHANGED <<Attempts, Received, Sent>>
<1> DEFINE k0 == Slot(s)
<1>1. /\ DOMAIN rows' = DOMAIN rows \union {k0} /\ DOMAIN received' = DOMAIN rows'
      /\ \A k \in DOMAIN rows : rows'[k] = rows[k] /\ received'[k] = received[k]
      /\ k0 \notin DOMAIN rows => rows'[k0] = [attempts |-> 0, sent |-> FALSE] /\ received'[k0] = 0
  BY ReadDeliveryIs
<1>2. DOMAIN received = DOMAIN rows
  BY DEF AlertsInv, Types
<1> HIDE DEF k0
<1>3. k0 \notin DOMAIN rows => rows'[k0].attempts = 0 /\ rows'[k0].sent = FALSE
  BY <1>1
<1>4. ASSUME NEW k \in Slots
      PROVE  /\ (IF k \in DOMAIN rows' THEN rows'[k].attempts ELSE 0) = (IF k \in DOMAIN rows THEN rows[k].attempts ELSE 0)
             /\ (IF k \in DOMAIN received' THEN received'[k] ELSE 0) = (IF k \in DOMAIN received THEN received[k] ELSE 0)
  BY <1>1, <1>2, <1>3
<1>5. ASSUME NEW k \in Slots
      PROVE  (k \in DOMAIN rows' /\ rows'[k].sent) = (k \in DOMAIN rows /\ rows[k].sent)
  BY <1>1, <1>3
<1>6. Attempts' = Attempts /\ Received' = Received
  BY <1>4 DEF Attempts, Received
<1>7. Sent' = Sent
  BY <1>5 DEF Sent
<1> QED BY <1>6, <1>7

\* A counted attempt is counted.
LEMMA CountMaps ==
    ASSUME AlertsInv, CountsAreSound, NEW s \in Scanners, CountAttempt(s)
    PROVE  \E k \in Slots : Delivery!Count(k)
<1> DEFINE k0 == Slot(s)
<1>1. /\ proc[s].at = "count" /\ UNCHANGED received /\ DOMAIN rows' = DOMAIN rows
      /\ rows'[k0].attempts = proc[s].seen + 1 /\ rows'[k0].sent = rows[k0].sent
      /\ \A k \in DOMAIN rows : k # k0 => rows'[k] = rows[k]
  BY CountIs
<1>2. k0 \in DOMAIN rows /\ k0 \in Slots /\ rows[k0].attempts \in Nat
  BY <1>1, InHand DEF Holding, AlertsInv, Types, AttemptLimit
<1>3. ~rows[k0].sent /\ rows[k0].attempts = proc[s].seen /\ proc[s].seen < AttemptLimit
  BY <1>1 DEF CountsAreSound, AlertsInv, HandsAreSound
<1> HIDE DEF k0
<1>4. ~Sent[k0] /\ Attempts[k0] < AttemptLimit
  BY <1>2, <1>3 DEF Sent, Attempts
<1>5. Attempts' = [Attempts EXCEPT ![k0] = @ + 1]
  <2>1. ASSUME NEW k \in Slots
        PROVE  (IF k \in DOMAIN rows' THEN rows'[k].attempts ELSE 0)
                 = (IF k = k0 THEN (IF k0 \in DOMAIN rows THEN rows[k0].attempts ELSE 0) + 1
                    ELSE IF k \in DOMAIN rows THEN rows[k].attempts ELSE 0)
    BY <1>1, <1>2, <1>3
  <2> QED BY <1>2, <2>1 DEF Attempts
<1>6. Received' = Received
  BY <1>1 DEF Received
<1>7. Sent' = Sent
  <2>1. ASSUME NEW k \in Slots
        PROVE  (k \in DOMAIN rows' /\ rows'[k].sent) = (k \in DOMAIN rows /\ rows[k].sent)
    BY <1>1, <1>2
  <2> QED BY <2>1 DEF Sent
<1>8. PICK k1 \in Slots : k1 = k0
  BY <1>2
<1>9. Delivery!Count(k1)
  BY <1>8, <1>4, <1>5, <1>6, <1>7 DEF Delivery!Count, Attempts, Received, Sent
<1> QED BY <1>9

\* An accepted delivery was counted and not yet recorded.
LEMMA SendMaps ==
    ASSUME AlertsInv, CountsAreSound, NEW s \in Scanners, SendAccepted(s) \/ SendFails(s)
    PROVE  (\E k \in Slots : Delivery!Deliver(k)) \/ UNCHANGED <<Attempts, Received, Sent>>
<1> DEFINE k0 == Slot(s)
<1>1. /\ proc[s].at = "send" /\ UNCHANGED rows /\ DOMAIN received' = DOMAIN received
      /\ received'[k0] \in {received[k0], received[k0] + 1}
      /\ \A k \in DOMAIN received : k # k0 => received'[k] = received[k]
  BY SendIs
<1>2. k0 \in DOMAIN rows /\ k0 \in Slots /\ DOMAIN received = DOMAIN rows
  BY <1>1, InHand DEF Holding, AlertsInv, Types
<1>3. ~rows[k0].sent /\ received[k0] < rows[k0].attempts
  BY <1>1 DEF CountsAreSound
<1> HIDE DEF k0
<1>4. Attempts' = Attempts /\ Sent' = Sent
  BY <1>1 DEF Attempts, Sent
<1>5. CASE received'[k0] = received[k0]
  <2>1. ASSUME NEW k \in Slots
        PROVE  (IF k \in DOMAIN received' THEN received'[k] ELSE 0)
                 = (IF k \in DOMAIN received THEN received[k] ELSE 0)
    BY <1>1, <1>5
  <2>2. Received' = Received
    BY <2>1 DEF Received
  <2> QED BY <1>4, <2>2
<1>6. CASE received'[k0] = received[k0] + 1
  <2>1. ASSUME NEW k \in Slots
        PROVE  (IF k \in DOMAIN received' THEN received'[k] ELSE 0)
                 = (IF k = k0 THEN (IF k0 \in DOMAIN received THEN received[k0] ELSE 0) + 1
                    ELSE IF k \in DOMAIN received THEN received[k] ELSE 0)
    BY <1>1, <1>2, <1>6
  <2>2. Received' = [Received EXCEPT ![k0] = @ + 1]
    BY <1>2, <2>1 DEF Received
  <2>3. ~Sent[k0] /\ Received[k0] < Attempts[k0]
    BY <1>2, <1>3 DEF Sent, Received, Attempts
  <2>4. PICK k1 \in Slots : k1 = k0
    BY <1>2
  <2>5. Delivery!Deliver(k1)
    BY <2>4, <1>4, <2>2, <2>3 DEF Delivery!Deliver, Attempts, Received, Sent
  <2> QED BY <2>5
<1> QED BY <1>1, <1>5, <1>6

\* A success on record was delivered.
LEMMA RecordMaps ==
    ASSUME AlertsInv, CountsAreSound, NEW s \in Scanners, RecordSent(s)
    PROVE  \E k \in Slots : Delivery!Record(k)
<1> DEFINE k0 == Slot(s)
<1>1. /\ proc[s].at = "record" /\ UNCHANGED received /\ DOMAIN rows' = DOMAIN rows
      /\ rows'[k0].attempts = rows[k0].attempts /\ rows'[k0].sent = TRUE
      /\ \A k \in DOMAIN rows : k # k0 => rows'[k] = rows[k]
  BY RecordIs
<1>2. k0 \in DOMAIN rows /\ k0 \in Slots /\ DOMAIN received = DOMAIN rows
  BY <1>1, InHand DEF Holding, AlertsInv, Types
<1>3. received[k0] > 0
  BY <1>1 DEF CountsAreSound
<1> HIDE DEF k0
<1>4. Received[k0] > 0 /\ Received' = Received
  BY <1>1, <1>2, <1>3 DEF Received
<1>5. Attempts' = Attempts
  <2>1. ASSUME NEW k \in Slots
        PROVE  (IF k \in DOMAIN rows' THEN rows'[k].attempts ELSE 0)
                 = (IF k \in DOMAIN rows THEN rows[k].attempts ELSE 0)
    BY <1>1, <1>2
  <2> QED BY <2>1 DEF Attempts
<1>6. Sent' = [Sent EXCEPT ![k0] = TRUE]
  <2>1. ASSUME NEW k \in Slots
        PROVE  (k \in DOMAIN rows' /\ rows'[k].sent) = (IF k = k0 THEN TRUE ELSE k \in DOMAIN rows /\ rows[k].sent)
    BY <1>1, <1>2
  <2> QED BY <1>2, <2>1 DEF Sent
<1>7. PICK k1 \in Slots : k1 = k0
  BY <1>2
<1>8. Delivery!Record(k1)
  BY <1>7, <1>4, <1>5, <1>6 DEF Delivery!Record, Attempts, Received, Sent
<1> QED BY <1>8

\* dispatch: a lone scanner delivers within bounds. Each of its steps is a count,
\* a delivery or a recorded success of the abstract specification, or none.
THEOREM DeliversWithinBounds == ASSUME OneScanner PROVE Spec => ImplementsBoundedDelivery
<1>1. Init => Delivery!Init
  <2> SUFFICES ASSUME Init
               PROVE  Delivery!Init
    OBVIOUS
  <2>1. DOMAIN rows = {} /\ DOMAIN received = {}
    BY DEF Init
  <2>2. Attempts = [k \in Slots |-> 0] /\ Received = [k \in Slots |-> 0]
    BY <2>1 DEF Attempts, Received
  <2>3. Sent = [k \in Slots |-> FALSE]
    BY <2>1 DEF Sent
  <2> QED BY <2>2, <2>3 DEF Delivery!Init, Attempts, Received, Sent
<1>2. AlertsInv /\ LoneInv /\ (AlertsInv /\ LoneInv)' /\ [Next]_vars => [Delivery!Next]_(Delivery!vars)
  <2> SUFFICES ASSUME AlertsInv, LoneInv, AlertsInv', LoneInv', [Next]_vars
               PROVE  Delivery!Next \/ UNCHANGED <<Attempts, Received, Sent>>
    BY DEF Delivery!vars, Attempts, Received, Sent
  <2>1. ASSUME UNCHANGED <<rows, received>>
        PROVE  UNCHANGED <<Attempts, Received, Sent>>
    BY <2>1 DEF Attempts, Received, Sent
  <2>2. CASE UNCHANGED vars
    BY <2>1, <2>2 DEF vars
  <2>3. ASSUME NEW p \in Pairs, NewRound(p) \/ Repair(p)
        PROVE  UNCHANGED <<Attempts, Received, Sent>>
    BY <2>1, <2>3, RoundsKeepTypes
  <2>4. ASSUME NEW s \in Scanners, Scan(s)
        PROVE  Delivery!Next \/ UNCHANGED <<Attempts, Received, Sent>>
    <3> USE DEF LoneInv
    <3>1. CASE Start(s) \/ Finish(s) \/ Raise(s) \/ Evaluate(s) \/ AllDispatched(s) \/ Interrupt(s)
      <4>1. UNCHANGED <<rows, received>>
        BY <3>1 DEF Start, Finish, Raise, Evaluate, AllDispatched, Interrupt
      <4> QED BY <2>1, <4>1
    <3>2. CASE ReadDelivery(s)
      BY <3>2, ReadMaps
    <3>3. CASE CountAttempt(s)
      BY <3>3, CountMaps DEF Delivery!Next
    <3>4. CASE SendAccepted(s) \/ SendFails(s)
      BY <3>4, SendMaps DEF Delivery!Next
    <3>5. CASE RecordSent(s)
      BY <3>5, RecordMaps DEF Delivery!Next
    <3> QED BY <2>4, <3>1, <3>2, <3>3, <3>4, <3>5 DEF Scan
  <2> QED BY <2>2, <2>3, <2>4 DEF Next
<1> QED BY <1>1, <1>2, LoneInvariant, PTL DEF Spec, ImplementsBoundedDelivery, Delivery!Spec
=============================================================================
