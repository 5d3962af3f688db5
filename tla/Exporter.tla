------------------------------ MODULE Exporter ------------------------------
(***************************************************************************)
(* The metrics exporter's container: the loop of docker/entrypoint.sh, the *)
(* export run of main.py it starts as a child, the backend both passes     *)
(* write to, and the stop signal that may arrive at any moment.            *)
(*                                                                         *)
(* The run keeps no state of its own: it reads the alerts with an active   *)
(* decision, and the alerts of the EVENTS_SINCE window, and sends all of   *)
(* them each time.  An alert stands for its point in table "alerts" and    *)
(* for its events in table "events"; both carry the times CrowdSec gave    *)
(* them, so that sending one again repeats the same row.                   *)
(***************************************************************************)
EXTENDS Naturals, FiniteSets

CONSTANTS
    Alerts,         \* ids of the alerts CrowdSec ever raises
    Poison,         \* those whose line the backend refuses
    Limits,         \* what CROWDSEC_ALERT_LIMIT may be set to
    EventsEnabled,  \* EVENTS_ENABLED
    MaxCopies       \* bound: rows of one alert saturate here

ASSUME ExporterAssumption ==
    /\ Alerts \subseteq Nat
    /\ Poison \subseteq Alerts
    /\ Limits \subseteq Nat
    /\ EventsEnabled \in BOOLEAN
    /\ MaxCopies \in Nat \ {0}

Tables == {"alerts", "events"}

VARIABLES
    limit,          \* CROWDSEC_ALERT_LIMIT, which stays as it is set
    banned,         \* alerts with an active decision
    raised,         \* alerts CrowdSec has raised so far
    \* the backend
    rows,           \* rows per table and alert
    dedup,          \* tables whose repeated rows collapse: all of InfluxDB's,
                    \* on QuestDB those with DEDUP UPSERT KEYS declared
    \* the entrypoint shell
    shell,
    known,          \* _MAIN_PID holds the child's pid
    stop,           \* stop signal: "no", "pending", "taken"
    heartbeat,      \* the file is there
    \* the run
    run,
    pass,           \* the table it is at
    signalled,      \* SIGTERM or SIGINT is on its way to it
    batch,          \* alerts fetched per table; after the run, if it ended with 0
    status,         \* exit status
    \* history
    faulty          \* tables a run left without a confirmed declaration

backend == <<rows, dedup, faulty>>
loop    == <<shell, known, stop, heartbeat>>
child   == <<run, pass, signalled, batch, status>>
lapi    == <<limit, banned, raised>>
vars    == <<lapi, backend, loop, child>>

Nothing == [t \in Tables |-> {}]

Alive == run \notin {"none", "exited"}

Has(t) == {a \in Alerts : rows[t][a] > 0}

TypeOK ==
    /\ limit \in Limits
    /\ banned \subseteq Alerts
    /\ raised \subseteq Alerts
    /\ rows \in [Tables -> [Alerts -> 0..MaxCopies]]
    /\ dedup \subseteq Tables
    /\ shell \in {"spawn", "fork", "wait", "reaped", "sleep", "shutdown", "gone"}
    /\ known \in BOOLEAN
    /\ stop \in {"no", "pending", "taken"}
    /\ heartbeat \in BOOLEAN
    /\ run \in {"none", "boot", "fetch", "post", "declare", "exited"}
    /\ pass \in Tables
    /\ signalled \in BOOLEAN
    /\ batch \in [Tables -> SUBSET Alerts]
    /\ status \in {0, 1}
    /\ faulty \subseteq Tables
    /\ shell \in {"spawn", "reaped", "sleep"} => run = "none" /\ ~signalled /\ ~known

Init ==
    /\ limit \in Limits
    /\ banned = {}
    /\ raised = {}
    /\ rows = [t \in Tables |-> [a \in Alerts |-> 0]]
    /\ dedup \in {{}, Tables}
    /\ shell = "spawn"
    /\ known = FALSE
    /\ stop = "no"
    /\ heartbeat = FALSE
    /\ run = "none"
    /\ pass = "alerts"
    /\ signalled = FALSE
    /\ batch = Nothing
    /\ status = 0
    /\ faulty = {}

(***************************************************************************)
(* The shell.  A trap runs between two commands, or at once in "wait".     *)
(***************************************************************************)
\* Mutant: the trap is not installed while run_once works.
TrapDeferred == FALSE

Trapped == stop = "pending"

\* "python main.py &"
Spawn ==
    /\ shell = "spawn" /\ ~Trapped
    /\ shell' = "fork"
    /\ run' = "boot"
    /\ UNCHANGED <<lapi, backend, known, stop, heartbeat, pass, signalled, batch, status>>

\* "_MAIN_PID=$!"
RecordPid ==
    /\ shell = "fork" /\ ~Trapped
    /\ known' = TRUE
    /\ shell' = "wait"
    /\ UNCHANGED <<lapi, backend, stop, heartbeat, child>>

\* Mutant: _MAIN_PID is not reset.
KeepsPid == known

PidAfterRun == FALSE

\* "wait" returns, "_MAIN_PID=''"
Reap ==
    /\ shell = "wait" /\ run = "exited" /\ ~Trapped
    /\ shell' = "reaped"
    /\ known' = PidAfterRun
    /\ run' = "none"
    /\ pass' = "alerts"
    /\ UNCHANGED <<lapi, backend, stop, heartbeat, signalled, batch, status>>

\* Nothing of a run outlives it.
Forget == pass' = "alerts" /\ batch' = Nothing /\ status' = 0

\* The heartbeat file is touched after status 0 only.
Touch ==
    /\ shell = "reaped" /\ status = 0 /\ ~Trapped
    /\ heartbeat' = TRUE
    /\ shell' = "sleep"
    /\ Forget
    /\ UNCHANGED <<lapi, backend, known, stop, run, signalled>>

NoTouch ==
    /\ shell = "reaped" /\ status # 0 /\ ~Trapped
    /\ shell' = "sleep"
    /\ Forget
    /\ UNCHANGED <<lapi, backend, known, stop, heartbeat, run, signalled>>

\* RUN_INTERVAL and the jitter are over.
Wake ==
    /\ shell = "sleep" /\ ~Trapped
    /\ shell' = "spawn"
    /\ UNCHANGED <<lapi, backend, known, stop, heartbeat, child>>

\* _shutdown forwards the signal to the child whose pid it has.
Shutdown ==
    /\ stop = "pending" /\ shell \notin {"shutdown", "gone"}
    /\ stop' = "taken"
    /\ shell' = "shutdown"
    /\ signalled' = (signalled \/ (known /\ Alive))
    /\ UNCHANGED <<lapi, backend, known, heartbeat, run, pass, batch, status>>

\* The children are reaped, the container ends.
Gone ==
    /\ shell = "shutdown" /\ ~Alive
    /\ shell' = "gone"
    /\ run' = "none"
    /\ signalled' = FALSE
    /\ Forget
    /\ UNCHANGED <<lapi, backend, known, stop, heartbeat>>

(***************************************************************************)
(* The run                                                                 *)
(***************************************************************************)
\* What a run that ends now has left without a confirmed declaration.
Undeclared == IF run \in {"post", "declare"} THEN {pass} \ dedup ELSE {}

Exit(code) ==
    /\ run' = "exited"
    /\ status' = code
    /\ signalled' = FALSE

\* What a failed run fetched is of no account.
Drop(code) == batch' = IF code = 0 THEN batch ELSE Nothing

\* Handlers are registered; the TLS check and the hostname are fine.
Boot ==
    /\ run = "boot"
    /\ run' = "fetch"
    /\ UNCHANGED <<lapi, backend, loop, pass, signalled, batch, status>>

\* The TLS check, the hostname or the Local API fails, or a line cannot be
\* built.
RunFails ==
    /\ run \in {"boot", "fetch"}
    /\ Exit(1)
    /\ Drop(1)
    /\ UNCHANGED <<lapi, backend, loop, pass>>

\* On to the events, or done.
NextPass ==
    \/ /\ pass = "alerts" /\ EventsEnabled
       /\ run' = "fetch"
       /\ pass' = "events"
       /\ UNCHANGED <<signalled, status>>
    \/ /\ pass = "events" \/ ~EventsEnabled
       /\ Exit(0)
       /\ UNCHANGED pass

\* What "limit" leaves of the alerts in S: the newest.
Newest(S) == {a \in S : Cardinality({x \in S : x > a}) < limit}

\* Any alerts CrowdSec has ever raised that one answer has room for.
AnyRaised == {S \in SUBSET raised : Cardinality(S) <= limit}

\* Mutant: the alerts are sent whether or not a decision is active.
Unfiltered == IF pass = "alerts" THEN {Newest(raised)} ELSE AnyRaised

\* What the Local API has for a pass.  An alert comes without its events once it
\* is older than EVENTS_SINCE, or when its detail cannot be fetched.
Fetchable == IF pass = "alerts" THEN {Newest(banned)} ELSE AnyRaised

Fetch ==
    /\ run = "fetch"
    /\ \E found \in Fetchable :
        /\ batch' = [batch EXCEPT ![pass] = found]
        /\ \/ found # {} /\ run' = "post" /\ UNCHANGED <<pass, signalled, status>>
           \/ found = {} /\ NextPass
    /\ UNCHANGED <<lapi, backend, loop>>

\* The rows of an alert after one more line for it.
Stored(a) ==
    IF rows[pass][a] > 0 /\ pass \in dedup
    THEN rows[pass][a]
    ELSE IF rows[pass][a] = MaxCopies THEN MaxCopies ELSE rows[pass][a] + 1

\* The backend stores the whole batch or, for one bad line, none of it.
Accepted == batch[pass] \cap Poison = {}

Write ==
    rows' = [rows EXCEPT ![pass] =
        [a \in Alerts |-> IF a \in batch[pass] THEN Stored(a) ELSE @[a]]]

PostOk ==
    /\ run = "post"
    /\ Accepted
    /\ Write
    /\ run' = "declare"
    /\ UNCHANGED <<lapi, dedup, faulty, loop, pass, signalled, batch, status>>

\* Mutant: a failed event export is only logged.
EventsOptional == IF pass = "events" THEN 0 ELSE 1

\* Exit status after a failed write.
WriteFailed == 1

\* The write fails; the backend may have stored it and lost the answer.
PostFails ==
    /\ run = "post"
    /\ \/ UNCHANGED <<rows, faulty>>
       \/ Accepted /\ Write /\ faulty' = faulty \cup Undeclared
    /\ Exit(WriteFailed)
    /\ Drop(WriteFailed)
    /\ UNCHANGED <<lapi, dedup, loop, pass>>

\* Mutant: the events table has no keys.
AlertsOnly == {"alerts"} \cap {pass}

Declared == {pass}

\* TTL and deduplication are declared on QuestDB; a failure is a warning.
Declare ==
    /\ run = "declare"
    /\ \/ dedup' = dedup \cup Declared /\ UNCHANGED faulty
       \/ faulty' = faulty \cup Undeclared /\ UNCHANGED dedup
    /\ NextPass
    /\ UNCHANGED <<lapi, rows, loop, batch>>

\* What a request cut short may have done already.
Cut ==
    \/ UNCHANGED <<rows, dedup>>
    \/ run = "post" /\ Accepted /\ Write /\ UNCHANGED dedup
    \/ run = "declare" /\ dedup' = dedup \cup Declared /\ UNCHANGED rows

\* The signal arrives.  Before register_handlers it kills the run; after, the
\* handler exits with status 0, wherever the run is.
Interrupted ==
    /\ signalled /\ Alive
    /\ \/ run = "boot" /\ Exit(1)
       \/ run # "boot" /\ Exit(0)
    /\ Cut
    /\ faulty' = faulty \cup Undeclared
    /\ UNCHANGED <<lapi, loop, pass, batch>>

(***************************************************************************)
(* The surroundings                                                        *)
(***************************************************************************)
\* docker stop signals the shell; a terminal's interrupt the run as well, which
\* as a background job ignores it until its handlers are registered.
Stop ==
    /\ stop = "no" /\ shell # "gone"
    /\ stop' = "pending"
    /\ signalled' \in {signalled, Alive /\ run # "boot"}
    /\ UNCHANGED <<lapi, backend, shell, known, heartbeat, run, pass, batch, status>>

\* The grace period ends, or the host dies.
Kill ==
    /\ shell # "gone"
    /\ shell' = "gone"
    /\ run' = "none"
    /\ signalled' = FALSE
    /\ Cut
    /\ faulty' = faulty \cup Undeclared
    /\ Forget
    /\ UNCHANGED <<lapi, known, stop, heartbeat>>

\* A new container: the heartbeat was on tmpfs.
Restart ==
    /\ shell = "gone"
    /\ shell' = "spawn"
    /\ known' = FALSE
    /\ stop' = "no"
    /\ heartbeat' = FALSE
    /\ UNCHANGED <<lapi, backend, child>>

\* CrowdSec raises an alert with a decision, under the next id; its decision
\* expires.
Ban(a) ==
    /\ \A x \in raised : x < a
    /\ banned' = banned \cup {a}
    /\ raised' = raised \cup {a}
    /\ UNCHANGED <<limit, backend, loop, child>>

Expire(a) ==
    /\ a \in banned
    /\ banned' = banned \ {a}
    /\ UNCHANGED <<limit, raised, backend, loop, child>>

ShellStep == Spawn \/ RecordPid \/ Reap \/ Touch \/ NoTouch \/ Wake \/ Shutdown \/ Gone

RunStep ==
    \/ Boot
    \/ RunFails
    \/ Fetch
    \/ PostOk
    \/ PostFails
    \/ Declare
    \/ Interrupted

Next ==
    \/ ShellStep
    \/ RunStep
    \/ Stop
    \/ Kill
    \/ Restart
    \/ \E a \in Alerts : Ban(a) \/ Expire(a)

Spec == Init /\ [][Next]_vars

(***************************************************************************)
(* Safety                                                                  *)
(***************************************************************************)
\* A touch of the heartbeat vouches for a complete export: all its run fetched
\* is in the backend, although an interrupted run exits 0 as well ("the
\* heartbeat is written only after a successful run").
HeartbeatVouches == [][Touch => \A t \in Tables : batch[t] \subseteq Has(t)]_vars

\* More than one row for an alert takes a run that wrote and could not confirm
\* the declaration; otherwise "re-sending data that is already stored is a
\* no-op".
DuplicatesNeedFault == \A t \in Tables, a \in Alerts :
    rows[t][a] > 1 => t \in faulty

(***************************************************************************)
(* Liveness.  The scheduler runs shell and child; the container comes back *)
(* after a stop; boot, Local API and backend do not fail every time.       *)
(***************************************************************************)
Fairness ==
    /\ WF_vars(ShellStep)
    /\ WF_vars(RunStep)
    /\ WF_vars(Restart)
    /\ SF_vars(Spawn)
    /\ SF_vars(Boot)
    /\ SF_vars(Fetch /\ pass = "alerts")
    /\ SF_vars(PostOk /\ pass = "alerts")

FairSpec == Spec /\ Fairness

\* Among as many of the newest alerts with a decision in force as one answer of
\* the Local API holds.
Listed(a) == a \in banned /\ Cardinality({x \in banned : x > a}) < limit

\* A ban gets its row, unless it expires, or newer bans fill the list, or one
\* the backend refuses is on the list with it ("the next run re-sends the same
\* data").  A refused one that has expired or is crowded out does no harm.
Exported == \A a \in Alerts \ Poison :
    Listed(a) ~> a \in Has("alerts") \/ ~Listed(a) \/ \E p \in Poison : Listed(p)

\* A stop signal ends the container by itself, also when it comes before the
\* shell knows its child.
StopEnds == stop = "pending" ~> shell = "gone"
=============================================================================
