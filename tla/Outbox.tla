------------------------------- MODULE Outbox -------------------------------
(***************************************************************************)
(* The abuse reporter's metrics outbox: a finalized report becomes a point *)
(* in the memory of its run, then a row of the SQLite table                *)
(* metrics_outbox, then a row in InfluxDB or QuestDB (app/metrics.py,      *)
(* app/database.py, app/main.py).                                          *)
(*                                                                         *)
(* A run flushes twice: at its start, to push what an earlier run left,    *)
(* and at its end with its own points.  Each SQLite transaction and each   *)
(* HTTP request is one step; runs may overlap and die between any two.     *)
(* METRICS_BACKEND is set throughout.                                      *)
(*                                                                         *)
(* Rows inserted by one transaction share a birth number, so their order   *)
(* among themselves is left open.                                          *)
(***************************************************************************)
EXTENDS Naturals, FiniteSets

CONSTANTS
    Runs,           \* process slots that execute main.py
    Points,         \* the points finalized reports give
    Poison,         \* points the backend answers with an HTTP error status
    Backend,        \* METRICS_BACKEND
    MaxRows,        \* METRICS_OUTBOX_MAX_ROWS, 0 disables the bound
    MaxAge,         \* METRICS_OUTBOX_MAX_AGE_DAYS in ticks, 0 disables it
    BatchLimit,     \* _FLUSH_BATCH_LIMIT
    WriteRetries,   \* METRICS_WRITE_RETRIES
    MaxCopies       \* bound: copies of a point in the backend saturate here

ASSUME OutboxAssumption ==
    /\ IsFiniteSet(Points)          (* the reports of an installation *)
    /\ Poison \subseteq Points
    /\ Backend \in {"influxdb2", "questdb"}
    /\ MaxRows \in Nat
    /\ MaxAge \in Nat
    /\ BatchLimit \in Nat \ {0}
    /\ WriteRetries \in Nat
    /\ MaxCopies \in Nat \ {0}

VARIABLES
    \* table metrics_outbox
    outbox,         \* the points that have a row
    born,           \* birth number of a row
    age,            \* ticks since created_at, saturating above MaxAge
    \* memory of each run
    pc, lines, final, spooled, sending, attempt, verdict,
    \* the backend
    copies,         \* rows per point
    dedup,          \* rows with equal tags and timestamp collapse
    \* history
    finalized,      \* points of finalized reports
    pruned,         \* points the outbox bounds discarded
    lost            \* points a run had only in memory when it died or gave up

table   == <<outbox, born, age>>
memory  == <<pc, lines, final, spooled, sending, attempt, verdict>>
backend == <<copies, dedup>>
history == <<finalized, pruned, lost>>
vars    == <<table, memory, backend, history>>

Labels == {"idle", "start", "work", "spool", "prune", "load", "post",
           "declare", "delete", "returned"}

TypeOK ==
    /\ outbox \subseteq Points
    /\ born \in [Points -> Nat]
    /\ age \in [Points -> 0..(MaxAge + 1)]
    /\ pc \in [Runs -> Labels]
    /\ lines \in [Runs -> SUBSET Points]
    /\ final \in [Runs -> BOOLEAN]
    /\ spooled \in [Runs -> BOOLEAN]
    /\ sending \in [Runs -> SUBSET Points]
    /\ attempt \in [Runs -> 0..WriteRetries]
    /\ verdict \in [Runs -> {"none", "clear", "deferred"}]
    /\ copies \in [Points -> 0..MaxCopies]
    /\ dedup \in BOOLEAN
    /\ finalized \subseteq Points /\ pruned \subseteq Points /\ lost \subseteq Points

\* InfluxDB overwrites a repeated series and timestamp by itself; QuestDB
\* appends until ensure_questdb_dedup has run.
Init ==
    /\ outbox = {}
    /\ born = [p \in Points |-> 0]
    /\ age = [p \in Points |-> 0]
    /\ pc = [r \in Runs |-> "idle"]
    /\ lines = [r \in Runs |-> {}]
    /\ final = [r \in Runs |-> FALSE]
    /\ spooled = [r \in Runs |-> TRUE]
    /\ sending = [r \in Runs |-> {}]
    /\ attempt = [r \in Runs |-> 0]
    /\ verdict = [r \in Runs |-> "none"]
    /\ copies = [p \in Points |-> 0]
    /\ dedup = (Backend = "influxdb2")
    /\ finalized = {} /\ pruned = {} /\ lost = {}

GoTo(r, label) == pc' = [pc EXCEPT ![r] = label]

(***************************************************************************)
(* Rows: MaxRows, MaxAge and BatchLimit                                    *)
(***************************************************************************)
\* The sets "ORDER BY id LIMIT n" may return.
Oldest(S, n) == {B \in SUBSET S :
    /\ Cardinality(B) = (IF Cardinality(S) < n THEN Cardinality(S) ELSE n)
    /\ \A p \in B, q \in S \ B : born[p] <= born[q]}

\* Mutant: the age bound does not reach the oldest rows.
NeverTooOld == {}

\* Rows the age bound discards.
TooOld == {p \in outbox : MaxAge > 0 /\ age[p] > MaxAge}

\* The sets of rows one prune may discard: the aged ones, then the oldest
\* beyond the row bound.
Prunings ==
    LET young == outbox \ TooOld
        surplus == IF MaxRows > 0 /\ Cardinality(young) > MaxRows
                     THEN Cardinality(young) - MaxRows ELSE 0
    IN  {TooOld \cup B : B \in Oldest(young, surplus)}

(***************************************************************************)
(* A run                                                                   *)
(***************************************************************************)
\* main.py starts; the outbox has not been looked at yet.
Begin(r) ==
    /\ pc[r] = "idle"
    /\ GoTo(r, "start")
    /\ UNCHANGED <<table, lines, final, spooled, sending, attempt, verdict, backend, history>>

Outstanding == outbox # {}

\* "if outstanding: flush_points()", whose spooling has nothing to do.
StartFlush(r) ==
    /\ pc[r] = "start"
    /\ Outstanding
    /\ GoTo(r, "prune")
    /\ UNCHANGED <<table, lines, final, spooled, sending, attempt, verdict, backend, history>>

\* The outbox is empty, or it could not be counted.
SkipStartFlush(r) ==
    /\ pc[r] = "start"
    /\ GoTo(r, "work")
    /\ UNCHANGED <<table, lines, final, spooled, sending, attempt, verdict, backend, history>>

\* process_single_alert finalized a report: its point joins metric_lines.
Report(r, p) ==
    /\ pc[r] = "work"
    /\ p \notin finalized
    /\ finalized' = finalized \cup {p}
    /\ lines' = [lines EXCEPT ![r] = @ \cup {p}]
    /\ UNCHANGED <<table, pc, final, spooled, sending, attempt, verdict, backend, pruned, lost>>

\* The process is gone, with everything it remembered.
Leave(r) ==
    /\ GoTo(r, "idle")
    /\ lines' = [lines EXCEPT ![r] = {}]
    /\ final' = [final EXCEPT ![r] = FALSE]
    /\ spooled' = [spooled EXCEPT ![r] = TRUE]
    /\ sending' = [sending EXCEPT ![r] = {}]
    /\ attempt' = [attempt EXCEPT ![r] = 0]
    /\ verdict' = [verdict EXCEPT ![r] = "none"]

\* The run ends before its first alert: the fetch failed, or nothing is left
\* after filtering.  There is no flush at the end then.
ReturnEarly(r) ==
    /\ pc[r] = "work" /\ lines[r] = {}
    /\ Leave(r)
    /\ UNCHANGED <<table, backend, history>>

\* flush_points(metric_lines), also after an interrupt.
EndFlush(r) ==
    /\ pc[r] = "work"
    /\ final' = [final EXCEPT ![r] = TRUE]
    /\ GoTo(r, "spool")
    /\ UNCHANGED <<table, lines, spooled, sending, attempt, verdict, backend, history>>

\* spool_metric_points commits.
Spool(r) ==
    /\ pc[r] = "spool"
    /\ outbox' = outbox \cup lines[r]
    /\ \E n \in 1..(Cardinality(Points) + 1) :
        /\ \A p \in outbox : born[p] < n
        /\ n = 1 \/ \E p \in outbox : born[p] = n - 1
        /\ born' = [p \in Points |-> IF p \in lines[r] THEN n ELSE born[p]]
    /\ age' = [p \in Points |-> IF p \in lines[r] THEN 0 ELSE age[p]]
    /\ GoTo(r, "prune")
    /\ UNCHANGED <<lines, final, spooled, sending, attempt, verdict, backend, history>>

\* spool_metric_points fails; with no lines it has nothing to fail at.
SpoolFails(r) ==
    /\ pc[r] = "spool" /\ lines[r] # {}
    /\ spooled' = [spooled EXCEPT ![r] = FALSE]
    /\ GoTo(r, "prune")
    /\ UNCHANGED <<table, lines, final, sending, attempt, verdict, backend, history>>

\* What flush_points does after the prune: load the batch, or the bare write
\* of the lines it could not spool.
AfterPrune(r) ==
    \/ /\ spooled[r]
       /\ GoTo(r, "load")
       /\ UNCHANGED sending
    \/ /\ ~spooled[r]
       /\ sending' = [sending EXCEPT ![r] = lines[r]]
       /\ GoTo(r, "post")

\* prune_metric_outbox commits.
Prune(r) ==
    /\ pc[r] = "prune"
    /\ \E gone \in Prunings :
        /\ outbox' = outbox \ gone
        /\ born' = [p \in Points |-> IF p \in gone THEN 0 ELSE born[p]]
        /\ age' = [p \in Points |-> IF p \in gone THEN 0 ELSE age[p]]
        /\ pruned' = pruned \cup gone
    /\ AfterPrune(r)
    /\ UNCHANGED <<lines, final, spooled, attempt, verdict, backend, finalized, lost>>

\* prune_metric_outbox fails: logged and swallowed.
PruneFails(r) ==
    /\ pc[r] = "prune"
    /\ AfterPrune(r)
    /\ UNCHANGED <<table, lines, final, spooled, attempt, verdict, backend, history>>

\* flush_points returns; the result of the flush at the start is ignored.
Return(r, result) ==
    /\ sending' = [sending EXCEPT ![r] = {}]
    /\ attempt' = [attempt EXCEPT ![r] = 0]
    /\ \/ /\ final[r]
          /\ verdict' = [verdict EXCEPT ![r] = result]
          /\ GoTo(r, "returned")
       \/ /\ ~final[r]
          /\ GoTo(r, "work")
          /\ UNCHANGED verdict

\* load_metric_points finds rows.
Load(r) ==
    /\ pc[r] = "load"
    /\ outbox # {}
    /\ \E batch \in Oldest(outbox, BatchLimit) :
        sending' = [sending EXCEPT ![r] = batch]
    /\ GoTo(r, "post")
    /\ UNCHANGED <<table, lines, final, spooled, attempt, verdict, backend, history>>

\* load_metric_points finds nothing or fails; either way flush_points is done.
LoadNothing(r) ==
    /\ pc[r] = "load"
    /\ Return(r, "clear")
    /\ UNCHANGED <<table, lines, final, spooled, backend, history>>

Stored(p) == copies[p] > 0

\* A write of the points in S reaches the backend.
Write(S) == copies' = [p \in Points |->
    IF p \notin S THEN copies[p]
    ELSE IF dedup /\ Stored(p) THEN copies[p]
    ELSE IF copies[p] < MaxCopies THEN copies[p] + 1 ELSE MaxCopies]

\* The rows and the lines a failed flush gives up on: none that are spooled.
Abandoned(r) == IF spooled[r] THEN {} ELSE lines[r]

\* One POST that is acknowledged.
PostAccepted(r) ==
    /\ pc[r] = "post"
    /\ sending[r] \cap Poison = {}
    /\ Write(sending[r])
    /\ GoTo(r, "declare")
    /\ UNCHANGED <<table, lines, final, spooled, sending, attempt, verdict, dedup, history>>

\* Mutant: a refused batch goes on like an accepted one.
RefusedGoesOn(r) == GoTo(r, "declare") /\ UNCHANGED <<sending, attempt, verdict>>

\* flush_points after write_points said no.
Refused(r) == Return(r, "deferred")

\* One POST that is not: an HTTP status, or a transport error after the last
\* attempt.  The backend may have kept any part of the batch.
PostFails(r) ==
    /\ pc[r] = "post"
    /\ \E kept \in SUBSET (sending[r] \ Poison) : Write(kept)
    /\ lost' = lost \cup Abandoned(r)
    /\ Refused(r)
    /\ UNCHANGED <<table, lines, final, spooled, dedup, finalized, pruned>>

\* Mutant: one attempt too many.
RetriesOnceMore(r) == attempt[r] <= WriteRetries

\* This was not the last attempt.
MayRetry(r) == attempt[r] < WriteRetries

\* A transport error before the last attempt: _post tries again.
PostRetries(r) ==
    /\ pc[r] = "post"
    /\ MayRetry(r)
    /\ \E kept \in SUBSET (sending[r] \ Poison) : Write(kept)
    /\ attempt' = [attempt EXCEPT ![r] = @ + 1]
    /\ UNCHANGED <<table, pc, lines, final, spooled, sending, verdict, dedup, history>>

\* ensure_questdb_ttl and ensure_questdb_dedup, which only warn on failure.
\* A bare write has no rows to delete.
Declare(r) ==
    /\ pc[r] = "declare"
    /\ \/ dedup' = TRUE
       \/ Backend = "questdb" /\ dedup' = dedup
    /\ \/ /\ spooled[r]
          /\ GoTo(r, "delete")
          /\ UNCHANGED <<sending, attempt, verdict>>
       \/ /\ ~spooled[r]
          /\ Return(r, "clear")
    /\ UNCHANGED <<table, lines, final, spooled, copies, history>>

\* delete_metric_points commits: the rows this run loaded.
Delete(r) ==
    /\ pc[r] = "delete"
    /\ outbox' = outbox \ sending[r]
    /\ born' = [p \in Points |-> IF p \in sending[r] THEN 0 ELSE born[p]]
    /\ age' = [p \in Points |-> IF p \in sending[r] THEN 0 ELSE age[p]]
    /\ Return(r, "clear")
    /\ UNCHANGED <<lines, final, spooled, backend, history>>

\* delete_metric_points fails: the rows are sent again by a later flush.
DeleteFails(r) ==
    /\ pc[r] = "delete"
    /\ Return(r, "clear")
    /\ UNCHANGED <<table, lines, final, spooled, backend, history>>

\* The run ends with the exit code main.py derives from its counters.
Exit(r) ==
    /\ pc[r] = "returned"
    /\ Leave(r)
    /\ UNCHANGED <<table, backend, history>>

\* Points that only the memory of r holds.
Unsaved(r) ==
    IF pc[r] \in {"work", "spool"} \/ (~spooled[r] /\ pc[r] \in {"prune", "post", "declare"})
      THEN lines[r] ELSE {}

\* SIGKILL, OOM, host restart.
Crash(r) ==
    /\ pc[r] # "idle"
    /\ lost' = lost \cup Unsaved(r)
    /\ Leave(r)
    /\ UNCHANGED <<table, backend, finalized, pruned>>

\* The clock behind created_at and datetime('now').
Tick ==
    /\ age' = [p \in Points |->
                IF p \in outbox /\ age[p] <= MaxAge THEN age[p] + 1 ELSE age[p]]
    /\ UNCHANGED <<outbox, born, memory, backend, history>>

RunStep(r) ==
    \/ Begin(r)
    \/ StartFlush(r)
    \/ SkipStartFlush(r)
    \/ \E p \in Points : Report(r, p)
    \/ ReturnEarly(r)
    \/ EndFlush(r)
    \/ Spool(r)
    \/ SpoolFails(r)
    \/ Prune(r)
    \/ PruneFails(r)
    \/ Load(r)
    \/ LoadNothing(r)
    \/ PostAccepted(r)
    \/ PostFails(r)
    \/ PostRetries(r)
    \/ Declare(r)
    \/ Delete(r)
    \/ DeleteFails(r)
    \/ Exit(r)

Next ==
    \/ \E r \in Runs : RunStep(r) \/ Crash(r)
    \/ Tick

Spec == Init /\ [][Next]_vars

(***************************************************************************)
(* Safety                                                                  *)
(***************************************************************************)
\* No point of a finalized report vanishes: it is in the memory of a running
\* process, in the outbox or in the backend, unless the documented bounds
\* discarded it or its process died, or failed to spool it, before the outbox
\* had it.  In particular rows leave the outbox only behind an acknowledged
\* write, whatever overlapping flushes do (flush_points: "rows are deleted
\* only after the backend acknowledged the batch").
Accounted == \A p \in finalized :
    \/ \E r \in Runs : p \in Unsaved(r)
    \/ p \in outbox
    \/ Stored(p)
    \/ p \in pruned \cup lost

(***************************************************************************)
(* The outbox implements PointLedger                                       *)
(***************************************************************************)
Held == UNION {Unsaved(r) : r \in Runs}
InBackend == {p \in Points : Stored(p)}

Ledger == INSTANCE PointLedger WITH
    known <- finalized, held <- Held, durable <- outbox, stored <- InBackend,
    discarded <- pruned

\* Custody of points is what PointLedger promises: a run lets go of a point
\* only when the outbox or the backend has it or as a loss on record, a row is
\* deleted only behind its write or past a bound, and no flush writes a point
\* that was given up (spool_metric_points, flush_points, prune_metric_outbox,
\* delete_metric_points).
ImplementsLedger == Ledger!Spec

\* Statements of the repository that the code does not keep.
\* metrics.py:319-321: "A False return means the points are still spooled,
\* not that they are lost".
DeferredMeansSpooled == \A r \in Runs :
    pc[r] = "returned" /\ verdict[r] = "deferred" => lines[r] \subseteq outbox

\* docs/reference/metrics-backends.md:134-138 and metrics.py:314-316: a
\* re-sent point collapses onto the same row.
NoDuplicateRows == \A p \in Points : copies[p] <= 1

(***************************************************************************)
(* Liveness.  The entrypoint starts runs again and again, a run that is    *)
(* not killed goes on, and crashes or SQLite errors do not hit every       *)
(* single start flush and prune for ever.                                  *)
(***************************************************************************)
Fairness ==
    /\ WF_vars(Tick)
    /\ \A r \in Runs :
        /\ WF_vars(RunStep(r))
        /\ SF_vars(StartFlush(r))
        /\ SF_vars(Prune(r))

FairSpec == Spec /\ Fairness

\* With an age bound no row stays in the outbox for ever, although a point
\* the backend refuses blocks every batch that holds it.
RowsLeave == \A p \in Points : p \in outbox ~> p \notin outbox
=============================================================================
