------------------------------ MODULE ScanAlerts ------------------------------
(***************************************************************************)
(* The end of a scan: the scan_runs row, the errors that come with it, and *)
(* the alerts evaluated and dispatched after the commit                    *)
(* (ScannerService.scan_once, AlertService.evaluate,                       *)
(* AlertDispatcher.dispatch).                                              *)
(*                                                                         *)
(* What a scan finds is an input here; ScanStages models how it comes      *)
(* about.  Each commit of the dispatcher is one step, so a crash or, with  *)
(* several Scanners, another process may come between any two.             *)
(***************************************************************************)
EXTENDS Naturals, Sequences, FiniteSets, SequencesExt

CONSTANTS Scanners,      \* processes running `tidal-server scan run`
          Items,         \* identities of item errors outside the PRICE_READ stage
          Pairs,         \* (auction, token) pairs in automation scope
          Destinations,  \* sink.destination_codes
          MaxRuns,       \* bound: scans
          MaxRounds      \* bound: rounds of a pair

\* Rounds are counted from 1.
ASSUME BoundsAssumption == MaxRuns \in Nat /\ MaxRounds \in Nat \ {0}
ASSUME SetsAssumption   == IsFiniteSet(Items) /\ IsFiniteSet(Pairs) /\ IsFiniteSet(Destinations)

VARIABLES
    runs,      \* scan_runs with scan_item_errors, in the order of started_at
    round,     \* what the no-fill guard says of a pair's latest round
    rows,      \* alert_deliveries
    received,  \* history: deliveries the destination accepted
    proc,      \* where each scanner process is
    cut        \* history: runs whose alerting was cut short

vars == <<runs, round, rows, received, proc, cut>>

AttemptLimit == 3
Verdicts == {"quiet", "unknown", "exhausted"}
Done     == {"SUCCESS", "PARTIAL_SUCCESS", "FAILED"}
Idle     == [at |-> "idle", run |-> 0, todo |-> <<>>, seen |-> 0]

Key(kind, what, anchor) == [kind |-> kind, what |-> what, anchor |-> anchor]
Keys ==
    {Key(v, p, n) : v \in {"unknown", "exhausted"}, p \in Pairs, n \in 1 .. MaxRounds}
    \union {Key("scan_failed", "scanner", r) : r \in 1 .. MaxRuns}
    \union {Key("repeated", i, r) : i \in Items, r \in 1 .. MaxRuns}
Slots == [key : Keys, to : Destinations]

Init ==
    /\ runs = <<>>
    /\ \E v \in [Pairs -> Verdicts] : round = [p \in Pairs |-> [id |-> 1, verdict |-> v[p]]]
    /\ rows = <<>> /\ received = <<>>
    /\ proc = [s \in Scanners |-> Idle]
    /\ cut = {}

----------------------------------------------------------------------------
(* AlertService.evaluate.                                                  *)

Newest(R) == CHOOSE r \in R : \A q \in R : q <= r

\* _auction_retry_items: one key for each round that needs action.
RoundKeys ==
    { Key(round[p].verdict, p, round[p].id) :
        p \in {q \in Pairs : round[q].verdict # "quiet"} }

Finished == {r \in DOMAIN runs : runs[r].status # "RUNNING"}

\* Mutation: the oldest finished run is looked at.
OldestFailedKeys ==
    {Key("scan_failed", "scanner", r) : r \in {q \in Finished : runs[q].status = "FAILED"
                                                  /\ \A n \in Finished : q <= n}}

\* _scan_unhealthy: only a failure of the latest finished run is announced.
FailedKeys ==
    IF Finished # {} /\ runs[Newest(Finished)].status = "FAILED"
    THEN {Key("scan_failed", "scanner", Newest(Finished))}
    ELSE {}

\* _repeated_scan_failures: the runs that got through, and the newest three of them.
Through   == {r \in DOMAIN runs : runs[r].status \in {"SUCCESS", "PARTIAL_SUCCESS"}}
LastThree == {r \in Through : Cardinality({q \in Through : q > r}) < 3}
Repeated ==
    IF Cardinality(Through) < 3 THEN {}
    ELSE {i \in Items : \A r \in LastThree : i \in runs[r].errors}

Oldest(R) == CHOOSE r \in R : \A q \in R : r <= q

\* Mutation: the occurrence is the oldest run of the three looked at.
WindowStart(i) == Oldest(LastThree)

\* The oldest run of the unbroken series of failures gives the occurrence.
EpisodeStart(i) == Oldest({r \in Through : \A q \in Through : q >= r => i \in runs[q].errors})
RepeatedKeys == {Key("repeated", i, EpisodeStart(i)) : i \in Repeated}

\* Every message goes to every destination, the messages in the order of their kinds.
Messages(keys) == SetToSeq({[key |-> k, to |-> d] : k \in keys, d \in Destinations})
Transitions == Messages(RoundKeys) \o Messages(FailedKeys) \o Messages(RepeatedKeys)

----------------------------------------------------------------------------
(* One scan, from scan_once to its last delivery.                          *)

Start(s) ==
    /\ proc[s].at = "idle" /\ Len(runs) < MaxRuns
    /\ runs' = Append(runs, [status |-> "RUNNING", errors |-> {}])
    /\ proc' = [proc EXCEPT ![s] = [Idle EXCEPT !.at = "scanning", !.run = Len(runs) + 1]]
    /\ UNCHANGED <<round, rows, received, cut>>

\* The run's status and its errors are committed together.
Finish(s) ==
    /\ proc[s].at = "scanning"
    /\ \E status \in Done, found \in SUBSET Items :
         /\ status # "SUCCESS" => found # {}
         /\ runs' = [runs EXCEPT ![proc[s].run] = [status |-> status, errors |-> found]]
    /\ proc' = [proc EXCEPT ![s].at = "evaluate"]
    /\ UNCHANGED <<round, rows, received, cut>>

\* An exception rolls back; the errors collected so far are lost.
Raise(s) ==
    /\ proc[s].at = "scanning"
    /\ runs' = [runs EXCEPT ![proc[s].run].status =
                   IF @ = "RUNNING" THEN "FAILED" ELSE @]
    /\ proc' = [proc EXCEPT ![s].at = "evaluate"]
    /\ UNCHANGED <<round, rows, received, cut>>

Evaluate(s) ==
    /\ proc[s].at = "evaluate"
    /\ proc' = [proc EXCEPT ![s].at = "dispatch", ![s].todo = Transitions]
    /\ UNCHANGED <<runs, round, rows, received, cut>>

Put(f, k, v) == [x \in DOMAIN f \union {k} |-> IF x = k THEN v ELSE f[x]]
Slot(s) == Head(proc[s].todo)
Advance(s) == proc' = [proc EXCEPT ![s].at = "dispatch", ![s].todo = Tail(@)]

\* Mutation: a recorded success does not stop a delivery.
NoAttemptsLeft(row) == row.attempts >= AttemptLimit
\* Mutation: one attempt too many.
ConcludedOneLater(row) == row.sent \/ row.attempts > AttemptLimit

Concluded(row) == row.sent \/ row.attempts >= AttemptLimit

\* Insert the row unless it is there, commit, and read it.
ReadDelivery(s) ==
    LET known == Slot(s) \in DOMAIN rows
        row == IF known THEN rows[Slot(s)] ELSE [attempts |-> 0, sent |-> FALSE]
    IN  /\ proc[s].at = "dispatch" /\ proc[s].todo # <<>>
        /\ rows' = Put(rows, Slot(s), row)
        /\ received' = IF known THEN received ELSE Put(received, Slot(s), 0)
        /\ IF Concluded(row)
           THEN Advance(s)
           ELSE proc' = [proc EXCEPT ![s].at = "count", ![s].seen = row.attempts]
        /\ UNCHANGED <<runs, round, cut>>

\* The count written is the one read, plus one.
CountAttempt(s) ==
    /\ proc[s].at = "count"
    /\ rows' = [rows EXCEPT ![Slot(s)].attempts = proc[s].seen + 1]
    /\ proc' = [proc EXCEPT ![s].at = "send"]
    /\ UNCHANGED <<runs, round, received, cut>>

SendAccepted(s) ==
    /\ proc[s].at = "send"
    /\ received' = [received EXCEPT ![Slot(s)] = @ + 1]
    /\ proc' = [proc EXCEPT ![s].at = "record"]
    /\ UNCHANGED <<runs, round, rows, cut>>

\* sink.send raises: refused, or accepted with the answer lost.
SendFails(s) ==
    /\ proc[s].at = "send"
    /\ \E accepted \in {0, 1} : received' = [received EXCEPT ![Slot(s)] = @ + accepted]
    /\ Advance(s)
    /\ UNCHANGED <<runs, round, rows, cut>>

RecordSent(s) ==
    /\ proc[s].at = "record"
    /\ rows' = [rows EXCEPT ![Slot(s)].sent = TRUE]
    /\ Advance(s)
    /\ UNCHANGED <<runs, round, received, cut>>

AllDispatched(s) ==
    /\ proc[s].at = "dispatch" /\ proc[s].todo = <<>>
    /\ proc' = [proc EXCEPT ![s] = Idle]
    /\ UNCHANGED <<runs, round, rows, received, cut>>

\* The process dies, or _post_commit_alerts swallows an exception.
Interrupt(s) ==
    /\ proc[s].at # "idle"
    /\ cut' = cut \union {proc[s].run}
    /\ proc' = [proc EXCEPT ![s] = Idle]
    /\ UNCHANGED <<runs, round, rows, received>>

Scan(s) ==
    \/ Start(s) \/ Finish(s) \/ Raise(s) \/ Evaluate(s) \/ ReadDelivery(s)
    \/ CountAttempt(s) \/ SendAccepted(s) \/ SendFails(s) \/ RecordSent(s)
    \/ AllDispatched(s) \/ Interrupt(s)

\* Rounds open, and evidence that was ambiguous is repaired.
NewRound(p) ==
    /\ round[p].id < MaxRounds
    /\ \E v \in Verdicts : round' = [round EXCEPT ![p] = [id |-> @.id + 1, verdict |-> v]]
    /\ UNCHANGED <<runs, rows, received, proc, cut>>

Repair(p) ==
    /\ round[p].verdict = "unknown"
    /\ \E v \in {"quiet", "exhausted"} : round' = [round EXCEPT ![p].verdict = v]
    /\ UNCHANGED <<runs, rows, received, proc, cut>>

Next == (\E s \in Scanners : Scan(s)) \/ (\E p \in Pairs : NewRound(p) \/ Repair(p))
Spec == Init /\ [][Next]_vars

----------------------------------------------------------------------------
(* Properties.                                                             *)

TypeOK ==
    /\ runs \in Seq([status : Done \union {"RUNNING"}, errors : SUBSET Items])
    /\ round \in [Pairs -> [id : 1 .. MaxRounds, verdict : Verdicts]]
    /\ DOMAIN rows \subseteq Slots /\ DOMAIN received = DOMAIN rows
    /\ \A k \in DOMAIN rows : rows[k] \in [attempts : 0 .. AttemptLimit, sent : BOOLEAN]
    /\ cut \subseteq 1 .. MaxRuns

Delivery == INSTANCE BoundedDelivery WITH
    Keys <- Slots, Limit <- AttemptLimit,
    attempts <- [k \in Slots |-> IF k \in DOMAIN rows THEN rows[k].attempts ELSE 0],
    received <- [k \in Slots |-> IF k \in DOMAIN received THEN received[k] ELSE 0],
    sent <- [k \in Slots |-> k \in DOMAIN rows /\ rows[k].sent]

\* While scans do not overlap, whatever fails or crashes, a key is attempted at
\* most three times at a destination, delivered no more often than that, and
\* never again once its success is on record (AlertDispatcher.dispatch).
ImplementsBoundedDelivery == Delivery!Spec

\* A failed scan is announced by its own alerting or not at all, because the
\* next finished run hides it (_scan_unhealthy): so once the scanner is idle
\* its delivery has been tried at every destination.
FailureAnnounced ==
    \A r \in Finished \ cut :
        (runs[r].status = "FAILED" /\ \A s \in Scanners : proc[s].run # r) =>
            \A d \in Destinations :
                LET k == [key |-> Key("scan_failed", "scanner", r), to |-> d]
                IN  k \in DOMAIN rows /\ rows[k].attempts > 0

\* An item that keeps failing is one occurrence (_repeated_scan_failures): two
\* announcements of it have a run between them that got through without it.
OneAlertPerEpisode ==
    \A a, b \in DOMAIN rows :
        (a.key.kind = "repeated" /\ b.key.kind = "repeated"
           /\ a.key.what = b.key.what /\ a.key.anchor < b.key.anchor) =>
            \E r \in a.key.anchor .. b.key.anchor :
                /\ runs[r].status \in {"SUCCESS", "PARTIAL_SUCCESS"}
                /\ a.key.what \notin runs[r].errors
=============================================================================
