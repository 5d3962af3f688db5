----------------------------- MODULE Container -------------------------------
(***************************************************************************)
(* The reporter's container: the entrypoint's shell, the heartbeat and     *)
(* metrics loops it puts in the background, the main run it waits for, and *)
(* what Docker's HEALTHCHECK concludes from the two files they leave       *)
(* (docker/entrypoint.sh, app/heartbeat.py, the frame of app/main.py).     *)
(*                                                                         *)
(* Time passes in ticks, and only where a process waits.  Docker, the      *)
(* kernel and the Local API are external: a stop sends TERM to the shell   *)
(* and kills what is left after the grace time, and nothing survives the   *)
(* shell but the files.                                                    *)
(***************************************************************************)
EXTENDS Naturals

CONSTANTS
    Configs,        \* settings to consider
    ApiInterval,    \* API_HEARTBEAT_INTERVAL
    ApiMaxAge,      \* API_HEARTBEAT_MAX_AGE_SECONDS
    CheckMax,       \* a login with its retries takes no longer
    RunInterval,    \* RUN_INTERVAL
    Jitter,         \* RUN_JITTER
    MaxAge,         \* HEALTHCHECK_MAX_AGE_SECONDS
    RunMax,         \* a run takes no longer
    MaxReports,     \* reports of a run
    Grace,          \* Docker's stop timeout
    Horizon         \* ages and counts beyond it are the same

Settings == {"heartbeat", "jitter", "metrics", "run"}

ASSUME ContainerAssumption ==
    /\ Configs \subseteq [bad : SUBSET Settings, once : BOOLEAN, metrics : BOOLEAN]
    /\ {ApiInterval, ApiMaxAge, CheckMax, RunInterval, Jitter, MaxAge, RunMax} \subseteq Nat
    /\ {MaxReports, Grace, Horizon} \subseteq Nat
    /\ Horizon > ApiMaxAge
    /\ Horizon > MaxAge + RunMax

VARIABLES
    config,         \* its invalid intervals, RUN_ONCE, a metrics backend
    lapi,           \* the Local API answers
    \* the shell
    pc,
    known,          \* children whose pid it has stored
    timer,          \* time of the sleep or of the stop
    \* the background loops
    beat, beatFor,  \* heartbeat loop, time of its check or sleep
    metrics,        \* metrics loop
    \* the main run
    run, runFor,    \* phase, time since its start
    told,           \* interrupted
    reports,        \* reports begun
    rc,             \* exit code
    \* ages of the files in /data
    heartbeat, apiHeartbeat,
    \* history
    down,           \* time the Local API has been down
    beaten, misses, \* checks: one succeeded in this container, failed since
    served, fails,  \* runs: the same
    late,           \* reports handled after the stop
    missed          \* the stop came before the pid of the run was stored

shell  == <<pc, known, timer>>
loops  == <<beat, beatFor, metrics>>
main   == <<run, runFor, told, reports, rc>>
files  == <<heartbeat, apiHeartbeat>>
past   == <<down, beaten, misses, served, fails, late, missed>>
vars   == <<config, lapi, shell, loops, main, files, past>>

Children == {"heartbeat", "metrics", "run"}

Counts == 0..Horizon

\* Mutant: ages run on.
Unbounded(n) == n + 1

\* What a tick makes of an age.
Older(n) == IF n < Horizon THEN n + 1 ELSE n

TypeOK ==
    /\ config \in Configs
    /\ lapi \in BOOLEAN
    /\ pc \in {"boot", "beat", "metrics", "interval", "spawn", "run", "wait",
               "nap", "sleep", "stopping", "gone"}
    /\ known \subseteq Children
    /\ timer \in Nat
    /\ beat \in {"none", "start", "check", "pause", "orphan"}
    /\ beatFor \in Nat
    /\ metrics \in {"none", "start", "loop"}
    /\ run \in {"none", "boot", "fetch", "list", "report", "over"}
    /\ runFor \in 0..RunMax
    /\ told \in BOOLEAN
    /\ reports \in 0..MaxReports
    /\ rc \in {0, 1, 130, 137, 143}
    /\ heartbeat \in Counts /\ apiHeartbeat \in Counts
    /\ down \in Counts
    /\ beaten \in BOOLEAN /\ misses \in Counts
    /\ served \in BOOLEAN /\ fails \in Counts
    /\ late \in Nat
    /\ missed \in BOOLEAN

Init ==
    /\ config \in Configs
    /\ lapi = TRUE
    /\ pc = "gone" /\ known = {} /\ timer = 0
    /\ beat = "none" /\ beatFor = 0 /\ metrics = "none"
    /\ run = "none" /\ runFor = 0 /\ told = FALSE
    /\ reports = 0 /\ rc = 0
    /\ heartbeat \in {0, Horizon} /\ apiHeartbeat \in {0, Horizon}
    /\ down = 0
    /\ beaten = FALSE /\ misses = 0 /\ served = FALSE /\ fails = 0
    /\ late = 0 /\ missed = FALSE

(***************************************************************************)
(* The shell                                                               *)
(***************************************************************************)
\* The container is started; /data is what it was.
Start ==
    /\ pc = "gone"
    /\ pc' = "boot"
    /\ UNCHANGED <<config, lapi, known, timer, loops, main, files, past>>

\* What has succeeded or failed so far counts no longer.
NoPast ==
    /\ beaten' = FALSE /\ misses' = 0
    /\ served' = FALSE /\ fails' = 0

\* The shell ends and takes every process with it.
Gone ==
    /\ pc' = "gone" /\ known' = {} /\ timer' = 0
    /\ beat' = "none" /\ beatFor' = 0 /\ metrics' = "none"
    /\ run' = "none" /\ runFor' = 0 /\ told' = FALSE
    /\ reports' = 0 /\ rc' = 0
    /\ NoPast
    /\ late' = 0 /\ missed' = FALSE
    /\ UNCHANGED <<config, lapi, files, down>>

\* The heartbeat loop is put in the background.
ForkBeat ==
    /\ pc = "boot" /\ ~config.once
    /\ pc' = "beat"
    /\ beat' = "start"
    /\ UNCHANGED <<config, lapi, known, timer, beatFor, metrics, main, files, past>>

\* RUN_ONCE
Once ==
    /\ pc = "boot" /\ config.once
    /\ pc' = "spawn"
    /\ UNCHANGED <<config, lapi, known, timer, loops, main, files, past>>

\* Its pid is stored, RUN_JITTER is valid, and the metrics loop follows.
ForkMetrics ==
    /\ pc = "beat" /\ "jitter" \notin config.bad
    /\ known' = known \cup {"heartbeat"}
    /\ IF config.metrics
       THEN pc' = "metrics" /\ metrics' = "start"
       ELSE pc' = "interval" /\ UNCHANGED metrics
    /\ UNCHANGED <<config, lapi, timer, beat, beatFor, main, files, past>>

KnowMetrics ==
    /\ pc = "metrics"
    /\ pc' = "interval"
    /\ known' = known \cup {"metrics"}
    /\ UNCHANGED <<config, lapi, timer, loops, main, files, past>>

IntervalOk ==
    /\ pc = "interval" /\ "run" \notin config.bad
    /\ pc' = "spawn"
    /\ UNCHANGED <<config, lapi, known, timer, loops, main, files, past>>

\* An invalid RUN_JITTER, RUN_INTERVAL or RUN_EVERY_HOUR ends the container.
ExitInvalid ==
    /\ \/ pc = "beat" /\ "jitter" \in config.bad
       \/ pc = "interval" /\ "run" \in config.bad
    /\ Gone

Spawn ==
    /\ pc = "spawn"
    /\ pc' = "run"
    /\ run' = "boot" /\ runFor' = 0
    /\ reports' = 0
    /\ UNCHANGED <<config, lapi, known, timer, loops, told, rc, files, past>>

KnowRun ==
    /\ pc = "run"
    /\ pc' = "wait"
    /\ known' = known \cup {"run"}
    /\ UNCHANGED <<config, lapi, timer, loops, main, files, past>>

\* Mutant: the heartbeat is refreshed after every run.
AnyRun == TRUE

Refreshes == rc = 0

\* wait returns: touch the heartbeat after exit 0.
Reaped ==
    /\ pc = "wait" /\ run = "over"
    /\ known' = known \ {"run"}
    /\ run' = "none" /\ runFor' = 0 /\ rc' = 0
    /\ heartbeat' = IF Refreshes THEN 0 ELSE heartbeat
    /\ IF rc = 0 THEN served' = TRUE /\ fails' = 0
                 ELSE UNCHANGED served /\ fails' = Older(fails)
    /\ pc' = "nap"
    /\ UNCHANGED <<config, lapi, timer, loops, told, reports, apiHeartbeat,
                   down, beaten, misses, late, missed>>

ExitOnce ==
    /\ pc = "nap" /\ config.once
    /\ Gone

\* interruptible_sleep; a sleep that is not told of a stop ends by itself.
Sleep ==
    /\ pc = "nap" /\ ~config.once
    /\ pc' = "sleep"
    /\ timer' = 0
    /\ UNCHANGED <<config, lapi, known, loops, main, files, past>>

\* Mutant: wait without a pid.
AllChildren == timer >= RunInterval /\ beat = "none" /\ metrics = "none"

\* The sleeps of the jitter and the interval, taken as one, are over.
SleepOver == timer >= RunInterval

Wake ==
    /\ pc = "sleep" /\ SleepOver
    /\ pc' = "spawn"
    /\ timer' = 0
    /\ UNCHANGED <<config, lapi, known, loops, main, files, past>>

\* Mutant: the stop is not passed on to the run.
OnlyLoops == known \ {"run"}

\* Whom the trap sends TERM.
Addressed == known

\* TERM: the trap passes it on, the loops die of it (a check in progress is
\* left alone), a run without its handler too, and the shell waits for all of
\* its children.
Stop ==
    /\ pc \notin {"boot", "stopping", "gone"}
    /\ pc' = "stopping" /\ timer' = 0
    /\ IF "heartbeat" \in Addressed
       THEN IF beat = "check" THEN beat' = "orphan" /\ UNCHANGED beatFor
                              ELSE beat' = "none" /\ beatFor' = 0
       ELSE UNCHANGED <<beat, beatFor>>
    /\ metrics' = IF "metrics" \in Addressed THEN "none" ELSE metrics
    /\ IF "run" \in Addressed /\ run # "over"
       THEN /\ told' = TRUE
            /\ run' = IF run = "boot" THEN "over" ELSE run
            /\ rc' = IF run = "boot" THEN 143 ELSE rc
       ELSE UNCHANGED <<told, run, rc>>
    /\ missed' = (pc = "run")
    /\ NoPast
    /\ UNCHANGED <<config, lapi, known, runFor, reports, files, down, late>>

\* Every child is gone, or the grace time is over.
Stopped ==
    /\ pc = "stopping"
    /\ \/ run \in {"none", "over"} /\ beat \in {"none", "orphan"} /\ metrics = "none"
       \/ timer = Grace
    /\ Gone

\* TERM before the trap is set, SIGKILL, or a crash of the host.
Crash == pc # "gone" /\ Gone

(***************************************************************************)
(* The loops in the background                                             *)
(***************************************************************************)
\* Mutant: an invalid interval becomes the default.
Lenient == TRUE

BeatValid == "heartbeat" \notin config.bad

\* require_positive_integer exits the subshell and nothing else.
StartBeat ==
    /\ beat = "start"
    /\ beat' = IF BeatValid THEN "check" ELSE "none"
    /\ UNCHANGED <<config, lapi, shell, beatFor, metrics, main, files, past>>

\* The snapshots of this loop touch neither file.
StartMetrics ==
    /\ metrics = "start"
    /\ metrics' = IF "metrics" \in config.bad THEN "none" ELSE "loop"
    /\ UNCHANGED <<config, lapi, shell, beat, beatFor, main, files, past>>

Checking == beat \in {"check", "orphan"}

AfterCheck == IF beat = "check" THEN "pause" ELSE "none"

\* The login succeeds and api_heartbeat is touched.
CheckOk ==
    /\ Checking /\ lapi
    /\ beat' = AfterCheck /\ beatFor' = 0
    /\ apiHeartbeat' = 0
    /\ beaten' = TRUE /\ misses' = 0
    /\ UNCHANGED <<config, lapi, shell, metrics, main, heartbeat,
                   down, served, fails, late, missed>>

\* Mutant: the file is touched whatever the login gave.
TouchedAnyway == 0

\* What a failed check leaves of the file's age.
AfterMiss == apiHeartbeat

\* The login fails, or the file cannot be touched.
CheckFails ==
    /\ Checking
    /\ beat' = AfterCheck /\ beatFor' = 0
    /\ apiHeartbeat' = AfterMiss
    /\ misses' = Older(misses)
    /\ UNCHANGED <<config, lapi, shell, metrics, main, heartbeat,
                   down, beaten, served, fails, late, missed>>

\* Mutant: the loop ends with a failed check.
UnlessMissed == beatFor >= ApiInterval /\ misses = 0

BeatDue == beatFor >= ApiInterval

NextBeat ==
    /\ beat = "pause" /\ BeatDue
    /\ beat' = "check" /\ beatFor' = 0
    /\ UNCHANGED <<config, lapi, shell, metrics, main, files, past>>

(***************************************************************************)
(* The main run                                                            *)
(***************************************************************************)
Running == run \notin {"none", "over"}

RunGoes(from, to) ==
    /\ run = from
    /\ run' = to
    /\ UNCHANGED <<config, lapi, shell, loops, runFor, told, files, past>>

\* GracefulInterruptHandler is installed.
Handle == RunGoes("boot", "fetch") /\ UNCHANGED <<reports, rc>>

\* The configuration, GeoIP, init_db or the fetch fails: exit 1.
RunFails ==
    /\ \E phase \in {"boot", "fetch"} : RunGoes(phase, "over")
    /\ rc' = 1
    /\ UNCHANGED reports

\* GeoIP, SQLite and the decisions are there; exit 0 when none of them needs a report.
Fetch ==
    /\ lapi
    /\ \E phase \in {"list", "over"} : RunGoes("fetch", phase)
    /\ rc' = 0
    /\ UNCHANGED reports

\* Mutant: the flag is looked at only once the list is done.
NoBreak == TRUE

GoesOn == ~told

\* The head of the loop: no report begins after the interrupt.
Report ==
    /\ GoesOn
    /\ reports < MaxReports
    /\ RunGoes("list", "report")
    /\ reports' = reports + 1
    /\ UNCHANGED rc

Reported ==
    /\ run = "report"
    /\ run' = "list"
    /\ late' = IF pc = "stopping" THEN late + 1 ELSE late
    /\ UNCHANGED <<config, lapi, shell, loops, runFor, told, reports, rc, files,
                   down, beaten, misses, served, fails, missed>>

\* The list is done or cut short: exit 130 after an interrupt, 1 if SQLite
\* failed or the outbox is saturated.
Finish ==
    /\ told \/ reports > 0
    /\ RunGoes("list", "over")
    /\ rc' \in IF told THEN {130} ELSE {0, 1}
    /\ UNCHANGED reports

\* An OOM kill of the run alone.
RunKilled ==
    /\ Running
    /\ run' = "over"
    /\ rc' = 137
    /\ UNCHANGED <<config, lapi, shell, loops, runFor, told, reports, files, past>>

(***************************************************************************)
(* The Local API and the clock                                             *)
(***************************************************************************)
LapiFails ==
    /\ lapi
    /\ lapi' = FALSE
    /\ UNCHANGED <<config, shell, loops, main, files, past>>

LapiReturns ==
    /\ ~lapi
    /\ lapi' = TRUE
    /\ down' = 0
    /\ UNCHANGED <<config, shell, loops, main, files,
                   beaten, misses, served, fails, late, missed>>

\* Every process is waiting for time to pass, and none is at its limit.
MayTick ==
    /\ pc \in {"wait", "sleep", "stopping", "gone"}
    /\ beat # "start" /\ metrics # "start"
    /\ Checking => beatFor < CheckMax
    /\ beat = "pause" => ~BeatDue
    /\ Running => runFor < RunMax
    /\ ~(pc = "wait" /\ run = "over")
    /\ pc = "sleep" => timer < RunInterval + Jitter
    /\ pc = "stopping" => timer < Grace

Tick ==
    /\ MayTick
    /\ timer' = IF pc \in {"sleep", "stopping"} THEN timer + 1 ELSE timer
    /\ beatFor' = IF beat = "none" THEN beatFor ELSE beatFor + 1
    /\ runFor' = IF Running THEN runFor + 1 ELSE runFor
    /\ heartbeat' = Older(heartbeat)
    /\ apiHeartbeat' = Older(apiHeartbeat)
    /\ down' = IF lapi THEN 0 ELSE Older(down)
    /\ UNCHANGED <<config, lapi, pc, known, beat, metrics, run, told, reports, rc,
                   beaten, misses, served, fails, late, missed>>

ShellStep ==
    \/ ForkBeat \/ Once \/ ForkMetrics \/ KnowMetrics \/ IntervalOk \/ ExitInvalid
    \/ Spawn \/ KnowRun \/ Reaped \/ ExitOnce \/ Sleep \/ Wake
    \/ Stopped

BeatStep == StartBeat \/ CheckOk \/ CheckFails \/ NextBeat

RunStep == Handle \/ RunFails \/ Fetch \/ Report \/ Reported \/ Finish

Next ==
    \/ ShellStep
    \/ BeatStep
    \/ StartMetrics
    \/ RunStep
    \/ Tick
    \/ Start \/ Stop \/ Crash
    \/ RunKilled
    \/ LapiFails \/ LapiReturns

Spec == Init /\ [][Next]_vars

(***************************************************************************)
(* Safety                                                                  *)
(***************************************************************************)
\* HEALTHCHECK, once the start period is over.
RunFresh == heartbeat < MaxAge
ApiFresh == apiHeartbeat < ApiMaxAge
Healthy  == RunFresh /\ ApiFresh

\* A Local API that has been down for the limit of a file shows in that file,
\* whichever container wrote it and however runs and checks raced the outage;
\* the main heartbeat may lag by one run ("so a stale file signals an outage").
OutageShows ==
    /\ down >= ApiMaxAge => ~ApiFresh
    /\ down >= MaxAge + RunMax => ~RunFresh

\* And only failures make the files stale: a container that has been healthy
\* once stays so but for the checks and runs that failed since.
StaleByFailure ==
    /\ beaten /\ beat \in {"check", "pause"} =>
           apiHeartbeat <= (misses + 1) * (ApiInterval + CheckMax)
    /\ served /\ pc \in {"spawn", "run", "wait", "nap", "sleep"} =>
           heartbeat <= (fails + 1) * (RunInterval + Jitter + RunMax)

\* Once the container was told to stop, a run handles the report it is at and
\* no other ("finishing current operation"), but for the run that was started
\* and whose pid was not stored yet: it goes on as if nothing had happened.
StopHeeded == late > 1 => missed

(***************************************************************************)
(* Liveness: processes are scheduled and time passes.                      *)
(***************************************************************************)
FairSpec ==
    /\ Spec
    /\ WF_vars(ShellStep) /\ WF_vars(BeatStep) /\ WF_vars(StartMetrics)
    /\ WF_vars(RunStep) /\ SF_vars(Tick)

\* The shell never hangs: another run is due or the container is gone, though
\* runs fail and a stop may wait for a child it did not tell.
LoopGoesOn == []<>(pc \in {"spawn", "gone"})

\* An invalid API_HEARTBEAT_INTERVAL ends the heartbeat loop alone; the
\* container shows it, however often it restarts on the old files.
SilentLoopShows == "heartbeat" \in config.bad => <>[]~Healthy
=============================================================================
