-------------------------- MODULE ContainerProofs ----------------------------
(***************************************************************************)
(* What the health check may conclude and what a stop does, for any        *)
(* settings, intervals and limits.                                         *)
(***************************************************************************)
EXTENDS Container, TLAPS

USE DEF shell, loops, main, files, past

\* The actions, with every way to end the container as one.
LEMMA Steps ==
    ASSUME [Next]_vars
    PROVE  \/ Start \/ ForkBeat \/ Once \/ ForkMetrics \/ KnowMetrics \/ IntervalOk
           \/ Spawn \/ KnowRun \/ Reaped \/ Sleep \/ Wake \/ Stop
           \/ StartBeat \/ StartMetrics \/ CheckOk \/ CheckFails \/ NextBeat
           \/ Handle \/ RunFails \/ Fetch \/ Report \/ Reported \/ Finish \/ RunKilled
           \/ LapiFails \/ LapiReturns \/ Tick
           \/ Gone
           \/ UNCHANGED vars
BY DEF Next, ShellStep, BeatStep, RunStep, ExitInvalid, ExitOnce, Stopped, Crash

LEMMA OlderCounts == \A n \in Counts : Older(n) \in Counts /\ n <= Older(n)
BY ContainerAssumption DEF ContainerAssumption, Counts, Older

(***************************************************************************)
(* Types                                                                   *)
(***************************************************************************)
Flags ==
    /\ lapi \in BOOLEAN /\ told \in BOOLEAN
    /\ beaten \in BOOLEAN /\ served \in BOOLEAN /\ missed \in BOOLEAN

\* Every variable of the container keeps its type.
THEOREM TypeCorrect == Spec => []TypeOK
<1> USE ContainerAssumption DEF ContainerAssumption
<1>1. Init => TypeOK
    <2>1. Init => Flags
        BY DEF Init, Flags
    <2> QED
        BY <2>1 DEF Init, TypeOK, Counts, Flags
<1>2. TypeOK /\ [Next]_vars => TypeOK'
    <2> SUFFICES ASSUME TypeOK, [Next]_vars PROVE TypeOK'
        OBVIOUS
    <2> USE OlderCounts DEF TypeOK
    <2>0. 0 \in Counts
        BY DEF Counts
    <2>1. CASE Start
        BY <2>1 DEF Start
    <2>2. CASE ForkBeat
        BY <2>2 DEF ForkBeat
    <2>3. CASE Once
        BY <2>3 DEF Once
    <2>4. CASE ForkMetrics
        <3>1. Flags'
            BY <2>4 DEF ForkMetrics, Flags
        <3> QED
            BY <2>4, <2>0, <3>1 DEF ForkMetrics, Children, Flags
    <2>5. CASE KnowMetrics
        <3>1. Flags'
            BY <2>5 DEF KnowMetrics, Flags
        <3> QED
            BY <2>5, <2>0, <3>1 DEF KnowMetrics, Children, Flags
    <2>6. CASE IntervalOk
        BY <2>6 DEF IntervalOk
    <2>7. CASE Spawn
        BY <2>7 DEF Spawn
    <2>8. CASE KnowRun
        <3>1. Flags'
            BY <2>8 DEF KnowRun, Flags
        <3> QED
            BY <2>8, <2>0, <3>1 DEF KnowRun, Children, Flags
    <2>9. CASE Reaped
        <3>1. Flags'
            BY <2>9 DEF Reaped, Refreshes, Flags
        <3> QED
            BY <2>9, <2>0, <3>1 DEF Reaped, Refreshes, Children, Flags
    <2>10. CASE Sleep
        BY <2>10 DEF Sleep
    <2>11. CASE Wake
        BY <2>11 DEF Wake, SleepOver
    <2>12. CASE Stop
        <3>1. Flags'
            BY <2>12 DEF Stop, Addressed, NoPast, Flags
        <3> QED
            BY <2>12, <2>0, <3>1 DEF Stop, Addressed, NoPast, Children, Flags
    <2>13. CASE StartBeat
        BY <2>13 DEF StartBeat, BeatValid
    <2>14. CASE StartMetrics
        BY <2>14 DEF StartMetrics
    <2>15. CASE CheckOk
        BY <2>15, <2>0 DEF CheckOk, Checking, AfterCheck
    <2>16. CASE CheckFails
        BY <2>16 DEF CheckFails, Checking, AfterCheck, AfterMiss
    <2>17. CASE NextBeat
        BY <2>17 DEF NextBeat, BeatDue
    <2>18. CASE Handle
        BY <2>18 DEF Handle, RunGoes
    <2>19. CASE RunFails
        BY <2>19 DEF RunFails, RunGoes
    <2>20. CASE Fetch
        BY <2>20 DEF Fetch, RunGoes
    <2>21. CASE Report
        BY <2>21 DEF Report, GoesOn, RunGoes
    <2>22. CASE Reported
        BY <2>22 DEF Reported
    <2>23. CASE Finish
        BY <2>23 DEF Finish, RunGoes
    <2>24. CASE RunKilled
        BY <2>24 DEF RunKilled, Running
    <2>25. CASE LapiFails
        <3>1. Flags'
            BY <2>25 DEF LapiFails, Flags
        <3> QED
            BY <2>25, <2>0, <3>1 DEF LapiFails, Children, Flags
    <2>26. CASE LapiReturns
        BY <2>26, <2>0 DEF LapiReturns
    <2>27. CASE Tick
        BY <2>27, <2>0 DEF Tick, MayTick, Running, Checking, BeatDue
    <2>28. CASE Gone
        <3>1. Flags'
            BY <2>28 DEF Gone, NoPast, Flags
        <3> QED
            BY <2>28, <2>0, <3>1 DEF Gone, NoPast, Children, Flags
    <2>29. CASE UNCHANGED vars
        BY <2>29 DEF vars
    <2> QED
        BY <2>1, <2>2, <2>3, <2>4, <2>5, <2>6, <2>7, <2>8, <2>9, <2>10, 
           <2>11, <2>12, <2>13, <2>14, <2>15, <2>16, <2>17, <2>18, <2>19, 
           <2>20, <2>21, <2>22, <2>23, <2>24, <2>25, <2>26, <2>27, <2>28, 
           <2>29, Steps
<1> QED
    BY <1>1, <1>2, PTL DEF Spec

(***************************************************************************)
(* An outage                                                               *)
(***************************************************************************)
\* The run has its decisions.
Fetched == run \in {"list", "report"} \/ (run = "over" /\ rc = 0)

\* A file is no younger than the outage, but for a run that was under way.
InvOutage ==
    /\ lapi => down = 0
    /\ down <= apiHeartbeat
    /\ down <= heartbeat + RunMax
    /\ pc \in {"run", "wait"} /\ Fetched => down <= runFor

LEMMA OutageStep ==
    ASSUME TypeOK, InvOutage, [Next]_vars
    PROVE  InvOutage'
<1> USE ContainerAssumption DEF ContainerAssumption, TypeOK, InvOutage, Fetched, Counts, Older
<1>1. CASE Start
    BY <1>1 DEF Start
<1>2. CASE ForkBeat
    BY <1>2 DEF ForkBeat
<1>3. CASE Once
    BY <1>3 DEF Once
<1>4. CASE ForkMetrics
    BY <1>4 DEF ForkMetrics
<1>5. CASE KnowMetrics
    BY <1>5 DEF KnowMetrics
<1>6. CASE IntervalOk
    BY <1>6 DEF IntervalOk
<1>7. CASE Spawn
    BY <1>7 DEF Spawn
<1>8. CASE KnowRun
    BY <1>8 DEF KnowRun
<1>9. CASE Reaped
    BY <1>9 DEF Reaped, Refreshes
<1>10. CASE Sleep
    BY <1>10 DEF Sleep
<1>11. CASE Wake
    BY <1>11 DEF Wake, SleepOver
<1>12. CASE Stop
    BY <1>12 DEF Stop, Addressed, NoPast
<1>13. CASE StartBeat
    BY <1>13 DEF StartBeat, BeatValid
<1>14. CASE StartMetrics
    BY <1>14 DEF StartMetrics
<1>15. CASE CheckOk
    BY <1>15 DEF CheckOk, Checking, AfterCheck
<1>16. CASE CheckFails
    BY <1>16 DEF CheckFails, Checking, AfterCheck, AfterMiss
<1>17. CASE NextBeat
    BY <1>17 DEF NextBeat, BeatDue
<1>18. CASE Handle
    BY <1>18 DEF Handle, RunGoes
<1>19. CASE RunFails
    BY <1>19 DEF RunFails, RunGoes
<1>20. CASE Fetch
    BY <1>20 DEF Fetch, RunGoes
<1>21. CASE Report
    BY <1>21 DEF Report, GoesOn, RunGoes
<1>22. CASE Reported
    BY <1>22 DEF Reported
<1>23. CASE Finish
    BY <1>23 DEF Finish, RunGoes
<1>24. CASE RunKilled
    BY <1>24 DEF RunKilled, Running
<1>25. CASE LapiFails
    BY <1>25 DEF LapiFails
<1>26. CASE LapiReturns
    BY <1>26 DEF LapiReturns
<1>27. CASE Tick
    BY <1>27 DEF Tick, MayTick, Running, Checking, BeatDue
<1>28. CASE Gone
    BY <1>28 DEF Gone, NoPast
<1>29. CASE UNCHANGED vars
    BY <1>29 DEF vars
<1> QED
    BY <1>1, <1>2, <1>3, <1>4, <1>5, <1>6, <1>7, <1>8, <1>9, <1>10, 
       <1>11, <1>12, <1>13, <1>14, <1>15, <1>16, <1>17, <1>18, <1>19, 
       <1>20, <1>21, <1>22, <1>23, <1>24, <1>25, <1>26, <1>27, <1>28, 
       <1>29, Steps

\* An outage of the limit shows in the files, whichever container wrote them.
THEOREM OutagesShow == Spec => []OutageShows
<1>1. Init => InvOutage
    BY ContainerAssumption DEF ContainerAssumption, Init, InvOutage, Fetched
<1>2. TypeOK /\ InvOutage => OutageShows
    BY ContainerAssumption DEF ContainerAssumption, TypeOK, Counts, InvOutage,
       OutageShows, ApiFresh, RunFresh
<1> QED
    BY <1>1, <1>2, TypeCorrect, OutageStep, PTL DEF Spec

(***************************************************************************)
(* The stop                                                                *)
(***************************************************************************)
\* Where a run can be, and who has told it.
InvStop ==
    /\ pc \notin {"run", "wait", "stopping"} => run = "none"
    /\ pc = "wait" => "run" \in known
    /\ told => pc = "stopping"
    /\ pc # "stopping" => late = 0 /\ ~missed
    /\ pc = "stopping" /\ ~missed =>
           /\ told \/ run \in {"none", "over"}
           /\ late <= 1
           /\ run = "report" => late = 0

LEMMA StopStep ==
    ASSUME TypeOK, InvStop, [Next]_vars
    PROVE  InvStop'
<1> USE DEF TypeOK, InvStop
<1>1. CASE Start
    BY <1>1 DEF Start
<1>2. CASE ForkBeat
    BY <1>2 DEF ForkBeat
<1>3. CASE Once
    BY <1>3 DEF Once
<1>4. CASE ForkMetrics
    BY <1>4 DEF ForkMetrics
<1>5. CASE KnowMetrics
    BY <1>5 DEF KnowMetrics
<1>6. CASE IntervalOk
    BY <1>6 DEF IntervalOk
<1>7. CASE Spawn
    BY <1>7 DEF Spawn
<1>8. CASE KnowRun
    BY <1>8 DEF KnowRun
<1>9. CASE Reaped
    BY <1>9 DEF Reaped, Refreshes
<1>10. CASE Sleep
    BY <1>10 DEF Sleep
<1>11. CASE Wake
    BY <1>11 DEF Wake, SleepOver
<1>12. CASE Stop
    <2>1. pc' = "stopping" /\ late' = 0
        BY <1>12 DEF Stop
    <2>2. CASE pc = "run"
        <3>1. missed'
            BY <1>12, <2>2 DEF Stop
        <3> QED
            BY <2>1, <3>1
    <2>3. CASE pc = "wait"
        BY <1>12, <2>1, <2>3 DEF Stop, Addressed
    <2>4. CASE pc \notin {"run", "wait"}
        BY <1>12, <2>1, <2>4 DEF Stop, Addressed
    <2> QED
        BY <2>2, <2>3, <2>4
<1>13. CASE StartBeat
    BY <1>13 DEF StartBeat, BeatValid
<1>14. CASE StartMetrics
    BY <1>14 DEF StartMetrics
<1>15. CASE CheckOk
    BY <1>15 DEF CheckOk, Checking, AfterCheck
<1>16. CASE CheckFails
    BY <1>16 DEF CheckFails, Checking, AfterCheck, AfterMiss
<1>17. CASE NextBeat
    BY <1>17 DEF NextBeat, BeatDue
<1>18. CASE Handle
    BY <1>18 DEF Handle, RunGoes
<1>19. CASE RunFails
    BY <1>19 DEF RunFails, RunGoes
<1>20. CASE Fetch
    BY <1>20 DEF Fetch, RunGoes
<1>21. CASE Report
    BY <1>21 DEF Report, GoesOn, RunGoes
<1>22. CASE Reported
    BY <1>22 DEF Reported
<1>23. CASE Finish
    BY <1>23 DEF Finish, RunGoes
<1>24. CASE RunKilled
    BY <1>24 DEF RunKilled, Running
<1>25. CASE LapiFails
    BY <1>25 DEF LapiFails
<1>26. CASE LapiReturns
    BY <1>26 DEF LapiReturns
<1>27. CASE Tick
    BY <1>27 DEF Tick, MayTick, Running, Checking, BeatDue
<1>28. CASE Gone
    BY <1>28 DEF Gone, NoPast
<1>29. CASE UNCHANGED vars
    BY <1>29 DEF vars
<1> QED
    BY <1>1, <1>2, <1>3, <1>4, <1>5, <1>6, <1>7, <1>8, <1>9, <1>10, 
       <1>11, <1>12, <1>13, <1>14, <1>15, <1>16, <1>17, <1>18, <1>19, 
       <1>20, <1>21, <1>22, <1>23, <1>24, <1>25, <1>26, <1>27, <1>28, 
       <1>29, Steps

\* After a stop a run handles the report it is at and no other, unless its pid
\* was not stored yet.
THEOREM StopsAreHeeded == Spec => []StopHeeded
<1>1. Init => InvStop
    BY DEF Init, InvStop
<1>2. TypeOK /\ InvStop => StopHeeded
    BY DEF TypeOK, InvStop, StopHeeded
<1> QED
    BY <1>1, <1>2, TypeCorrect, StopStep, PTL DEF Spec

(***************************************************************************)
(* Staleness                                                               *)
(***************************************************************************)
\* From one check to the next, and from the end of a run to that of the next.
BeatCycle == ApiInterval + CheckMax
RunCycle  == RunInterval + Jitter + RunMax

\* One failure more makes room for one cycle more, at the horizon too.
LEMMA OneMore ==
    ASSUME NEW n \in Counts, NEW c \in Nat, NEW age \in Counts, age <= n * c + c
    PROVE  age <= Older(n) * c
<1> USE ContainerAssumption DEF ContainerAssumption, Counts, Older
<1>1. CASE n < Horizon
    BY <1>1
<1>2. CASE n = Horizon /\ c = 0
    BY <1>2
<1>3. CASE n = Horizon /\ c > 0
    <2>1. Horizon * c >= Horizon
        BY <1>3
    <2> QED
        BY <1>3, <2>1
<1> QED
    BY <1>1, <1>2, <1>3

\* The age of a file: the failures since it was touched, each a cycle, and how
\* far the present cycle has come.
InvBeat ==
    /\ pc \in {"gone", "boot"} => beat = "none" /\ ~beaten
    /\ beat = "start" => ~beaten
    /\ beat \in {"none", "start"} => beatFor = 0
    /\ beat = "pause" => beatFor <= ApiInterval
    /\ beat = "check" => beatFor <= CheckMax
    /\ beaten /\ beat = "pause" => apiHeartbeat <= misses * BeatCycle + beatFor
    /\ beaten /\ beat = "check" => apiHeartbeat <= misses * BeatCycle + ApiInterval + beatFor

InvServe ==
    /\ pc \in {"gone", "boot", "beat", "metrics", "interval"} => ~served
    /\ pc \in {"run", "wait"} => run # "none"
    /\ pc = "sleep" => timer <= RunInterval + Jitter
    /\ served /\ pc = "nap" => heartbeat <= fails * RunCycle
    /\ served /\ pc = "sleep" => heartbeat <= fails * RunCycle + timer
    /\ served /\ pc = "spawn" => heartbeat <= fails * RunCycle + RunInterval + Jitter
    /\ served /\ pc \in {"run", "wait"} =>
           heartbeat <= fails * RunCycle + RunInterval + Jitter + runFor

LEMMA Products ==
    ASSUME TypeOK
    PROVE  /\ BeatCycle \in Nat /\ RunCycle \in Nat
           /\ misses * BeatCycle \in Nat /\ fails * RunCycle \in Nat
           /\ 0 * BeatCycle = 0 /\ 0 * RunCycle = 0
BY ContainerAssumption DEF ContainerAssumption, TypeOK, Counts, BeatCycle, RunCycle

LEMMA BeatHolds ==
    ASSUME TypeOK, InvBeat, [Next]_vars
    PROVE  InvBeat'
<1> USE ContainerAssumption, Products DEF ContainerAssumption, TypeOK, InvBeat, Counts
<1>1. CASE Start
    BY <1>1 DEF Start
<1>2. CASE ForkBeat
    BY <1>2 DEF ForkBeat
<1>3. CASE Once
    BY <1>3 DEF Once
<1>4. CASE ForkMetrics
    BY <1>4 DEF ForkMetrics
<1>5. CASE KnowMetrics
    BY <1>5 DEF KnowMetrics
<1>6. CASE IntervalOk
    BY <1>6 DEF IntervalOk
<1>7. CASE Spawn
    BY <1>7 DEF Spawn
<1>8. CASE KnowRun
    BY <1>8 DEF KnowRun
<1>9. CASE Reaped
    BY <1>9 DEF Reaped, Refreshes
<1>10. CASE Sleep
    BY <1>10 DEF Sleep
<1>11. CASE Wake
    BY <1>11 DEF Wake, SleepOver
<1>12. CASE Stop
    BY <1>12 DEF Stop, Addressed, NoPast
<1>13. CASE StartBeat
    BY <1>13 DEF StartBeat, BeatValid
<1>14. CASE StartMetrics
    BY <1>14 DEF StartMetrics
<1>15. CASE CheckOk
    BY <1>15 DEF CheckOk, Checking, AfterCheck
<1>16. CASE CheckFails
    <2>1. CASE beaten /\ beat = "check"
        <3>1. apiHeartbeat <= misses * BeatCycle + BeatCycle
            BY <2>1 DEF BeatCycle
        <3>2. apiHeartbeat <= Older(misses) * BeatCycle
            BY <3>1, OneMore
        <3>3. Older(misses) * BeatCycle \in Nat
            BY OlderCounts
        <3> QED
            BY <1>16, <2>1, <3>2, <3>3 DEF CheckFails, Checking, AfterCheck, AfterMiss
    <2>2. CASE ~(beaten /\ beat = "check")
        BY <1>16, <2>2 DEF CheckFails, Checking, AfterCheck, AfterMiss
    <2> QED
        BY <2>1, <2>2
<1>17. CASE NextBeat
    BY <1>17 DEF NextBeat, BeatDue
<1>18. CASE Handle
    BY <1>18 DEF Handle, RunGoes
<1>19. CASE RunFails
    BY <1>19 DEF RunFails, RunGoes
<1>20. CASE Fetch
    BY <1>20 DEF Fetch, RunGoes
<1>21. CASE Report
    BY <1>21 DEF Report, GoesOn, RunGoes
<1>22. CASE Reported
    BY <1>22 DEF Reported
<1>23. CASE Finish
    BY <1>23 DEF Finish, RunGoes
<1>24. CASE RunKilled
    BY <1>24 DEF RunKilled, Running
<1>25. CASE LapiFails
    BY <1>25 DEF LapiFails
<1>26. CASE LapiReturns
    BY <1>26 DEF LapiReturns
<1>27. CASE Tick
    BY <1>27 DEF Tick, MayTick, Running, Checking, BeatDue, Older
<1>28. CASE Gone
    BY <1>28 DEF Gone, NoPast
<1>29. CASE UNCHANGED vars
    BY <1>29 DEF vars
<1> QED
    BY <1>1, <1>2, <1>3, <1>4, <1>5, <1>6, <1>7, <1>8, <1>9, <1>10,
       <1>11, <1>12, <1>13, <1>14, <1>15, <1>16, <1>17, <1>18, <1>19,
       <1>20, <1>21, <1>22, <1>23, <1>24, <1>25, <1>26, <1>27, <1>28,
       <1>29, Steps

LEMMA ServeHolds ==
    ASSUME TypeOK, InvServe, [Next]_vars
    PROVE  InvServe'
<1> USE ContainerAssumption, Products DEF ContainerAssumption, TypeOK, InvServe, Counts
<1>1. CASE Start
    BY <1>1 DEF Start
<1>2. CASE ForkBeat
    BY <1>2 DEF ForkBeat
<1>3. CASE Once
    BY <1>3 DEF Once
<1>4. CASE ForkMetrics
    BY <1>4 DEF ForkMetrics
<1>5. CASE KnowMetrics
    BY <1>5 DEF KnowMetrics
<1>6. CASE IntervalOk
    BY <1>6 DEF IntervalOk
<1>7. CASE Spawn
    BY <1>7 DEF Spawn
<1>8. CASE KnowRun
    BY <1>8 DEF KnowRun
<1>9. CASE Reaped
    <2>1. CASE served /\ rc # 0
        <3>1. heartbeat <= fails * RunCycle + RunCycle
            BY <1>9, <2>1 DEF Reaped, RunCycle
        <3>2. heartbeat <= Older(fails) * RunCycle
            BY <3>1, OneMore
        <3> QED
            BY <1>9, <2>1, <3>2 DEF Reaped, Refreshes
    <2>2. CASE ~served \/ rc = 0
        BY <1>9, <2>2 DEF Reaped, Refreshes
    <2> QED
        BY <2>1, <2>2
<1>10. CASE Sleep
    BY <1>10 DEF Sleep
<1>11. CASE Wake
    BY <1>11 DEF Wake, SleepOver
<1>12. CASE Stop
    BY <1>12 DEF Stop, Addressed, NoPast
<1>13. CASE StartBeat
    BY <1>13 DEF StartBeat, BeatValid
<1>14. CASE StartMetrics
    BY <1>14 DEF StartMetrics
<1>15. CASE CheckOk
    BY <1>15 DEF CheckOk, Checking, AfterCheck
<1>16. CASE CheckFails
    BY <1>16 DEF CheckFails, Checking, AfterCheck, AfterMiss
<1>17. CASE NextBeat
    BY <1>17 DEF NextBeat, BeatDue
<1>18. CASE Handle
    BY <1>18 DEF Handle, RunGoes
<1>19. CASE RunFails
    BY <1>19 DEF RunFails, RunGoes
<1>20. CASE Fetch
    BY <1>20 DEF Fetch, RunGoes
<1>21. CASE Report
    BY <1>21 DEF Report, GoesOn, RunGoes
<1>22. CASE Reported
    BY <1>22 DEF Reported
<1>23. CASE Finish
    BY <1>23 DEF Finish, RunGoes
<1>24. CASE RunKilled
    BY <1>24 DEF RunKilled, Running
<1>25. CASE LapiFails
    BY <1>25 DEF LapiFails
<1>26. CASE LapiReturns
    BY <1>26 DEF LapiReturns
<1>27. CASE Tick
    BY <1>27 DEF Tick, MayTick, Running, Checking, BeatDue, Older
<1>28. CASE Gone
    BY <1>28 DEF Gone, NoPast
<1>29. CASE UNCHANGED vars
    BY <1>29 DEF vars
<1> QED
    BY <1>1, <1>2, <1>3, <1>4, <1>5, <1>6, <1>7, <1>8, <1>9, <1>10,
       <1>11, <1>12, <1>13, <1>14, <1>15, <1>16, <1>17, <1>18, <1>19,
       <1>20, <1>21, <1>22, <1>23, <1>24, <1>25, <1>26, <1>27, <1>28,
       <1>29, Steps

\* A container that was healthy once grows stale by failures alone, a cycle
\* for each.
THEOREM FailuresExplain == Spec => []StaleByFailure
<1>1. Init => InvBeat /\ InvServe
    BY DEF Init, InvBeat, InvServe
<1>2. TypeOK /\ InvBeat /\ InvServe => StaleByFailure
    <2> SUFFICES ASSUME TypeOK, InvBeat, InvServe PROVE StaleByFailure
        OBVIOUS
    <2> USE ContainerAssumption, Products
        DEF ContainerAssumption, TypeOK, Counts, BeatCycle, RunCycle
    <2>1. (misses + 1) * BeatCycle = misses * BeatCycle + BeatCycle
        OBVIOUS
    <2>2. (fails + 1) * RunCycle = fails * RunCycle + RunCycle
        OBVIOUS
    <2> QED
        BY <2>1, <2>2 DEF InvBeat, InvServe, StaleByFailure
<1> QED
    BY <1>1, <1>2, TypeCorrect, BeatHolds, ServeHolds, PTL DEF Spec
=============================================================================
