--------------------------- MODULE ExporterProofs ----------------------------
(***************************************************************************)
(* What a fresh heartbeat and a second row mean, for any alerts and any    *)
(* backend that refuses any of them.                                       *)
(***************************************************************************)
EXTENDS Exporter, TLAPS

USE DEF lapi, backend, loop, child

(***************************************************************************)
(* Rows                                                                    *)
(***************************************************************************)
\* One more line for an alert makes one row, unless it repeats one.
LEMMA OneMoreRow ==
    ASSUME TypeOK, NEW a \in Alerts
    PROVE  /\ Stored(a) \in 1..MaxCopies
           /\ pass \in dedup /\ rows[pass][a] > 0 => Stored(a) = rows[pass][a]
           /\ Stored(a) > 1 => rows[pass][a] > 0
BY ExporterAssumption DEF ExporterAssumption, TypeOK, Tables, Stored

\* A write gives every alert of the batch a row and takes none away.
LEMMA WriteRows ==
    ASSUME TypeOK, Write
    PROVE  /\ rows' \in [Tables -> [Alerts -> 0..MaxCopies]]
           /\ \A t \in Tables, a \in Alerts :
                  rows'[t][a] = IF t = pass /\ a \in batch[t] THEN Stored(a) ELSE rows[t][a]
<1>1. rows' = [rows EXCEPT ![pass] =
                [a \in Alerts |-> IF a \in batch[pass] THEN Stored(a) ELSE rows[pass][a]]]
    BY DEF Write
<1>2. pass \in Tables /\ rows \in [Tables -> [Alerts -> 0..MaxCopies]]
    BY DEF TypeOK
<1>3. \A a \in Alerts : Stored(a) \in 0..MaxCopies
    BY OneMoreRow, ExporterAssumption DEF ExporterAssumption
<1>4. [a \in Alerts |-> IF a \in batch[pass] THEN Stored(a) ELSE rows[pass][a]]
            \in [Alerts -> 0..MaxCopies]
    BY <1>2, <1>3
<1> QED
    BY <1>1, <1>2, <1>4

\* What it adds: rows for the batch, second ones only where repeated rows do
\* not collapse.
LEMMA WriteAdds ==
    ASSUME TypeOK, Write
    PROVE  /\ \A t \in Tables, a \in Alerts : rows[t][a] > 0 => rows'[t][a] > 0
           /\ \A a \in batch[pass] : rows'[pass][a] > 0
           /\ \A t \in Tables, a \in Alerts : rows'[t][a] > 0 => rows[t][a] > 0 \/ t = pass
           /\ \A t \in Tables, a \in Alerts : rows'[t][a] > 1 =>
                  rows[t][a] > 1 \/ (t = pass /\ rows[t][a] > 0 /\ t \notin dedup)
<1>1. \A t \in Tables, a \in Alerts : rows[t][a] \in Nat
    BY ExporterAssumption DEF ExporterAssumption, TypeOK
<1>2. \A a \in Alerts : Stored(a) \in Nat /\ Stored(a) > 0
    BY OneMoreRow, ExporterAssumption DEF ExporterAssumption
<1>3. pass \in Tables /\ batch[pass] \subseteq Alerts
    BY DEF TypeOK
<1> QED
    BY <1>1, <1>2, <1>3, WriteRows, OneMoreRow

(***************************************************************************)
(* Types                                                                   *)
(***************************************************************************)
\* Only a living run is signalled, and none outlives its container.
Settled ==
    /\ signalled => Alive
    /\ shell = "gone" => run = "none"

Flags == known \in BOOLEAN /\ signalled \in BOOLEAN /\ heartbeat \in BOOLEAN

LEMMA TypeInvariant == Spec => [](TypeOK /\ Settled)
<1>1. Init => TypeOK /\ Settled
    <2> SUFFICES ASSUME Init PROVE TypeOK /\ Settled
        OBVIOUS
    <2>1. Flags
        BY DEF Init, Flags
    <2>2. Nothing \in [Tables -> SUBSET Alerts]
        BY DEF Nothing
    <2>3. rows \in [Tables -> [Alerts -> 0..MaxCopies]]
        BY ExporterAssumption DEF Init, ExporterAssumption
    <2>4. "alerts" \in Tables /\ dedup \subseteq Tables
        BY DEF Init, Tables
    <2> QED
        BY <2>1, <2>2, <2>3, <2>4 DEF Init, TypeOK, Flags, Settled
<1>2. TypeOK /\ Settled /\ [Next]_vars => (TypeOK /\ Settled)'
    <2> SUFFICES ASSUME TypeOK, Settled, [Next]_vars PROVE (TypeOK /\ Settled)'
        OBVIOUS
    <2> USE WriteRows DEF TypeOK, Settled, Alive, Tables, Nothing
    <2>1. CASE Spawn
        BY <2>1 DEF Spawn, Trapped
    <2>2. CASE RecordPid
        BY <2>2 DEF RecordPid, Trapped
    <2>3. CASE Reap
        <3>1. ~known' /\ ~signalled' /\ run' = "none" /\ shell' = "reaped"
            BY <2>3 DEF Reap, PidAfterRun
        <3>2. Flags'
            BY <3>1, <2>3 DEF Reap, PidAfterRun, Flags
        <3>3. pass' \in Tables
            BY <2>3 DEF Reap
        <3> QED
            BY <2>3, <3>1, <3>2, <3>3 DEF Reap, Flags
    <2>4. CASE Touch
        BY <2>4 DEF Touch, Forget, Trapped
    <2>5. CASE NoTouch
        BY <2>5 DEF NoTouch, Forget, Trapped
    <2>6. CASE Wake
        BY <2>6 DEF Wake, Trapped
    <2>7. CASE Shutdown
        BY <2>7 DEF Shutdown, Alive, Trapped
    <2>8. CASE Gone
        BY <2>8 DEF Gone, Forget, Alive
    <2>9. CASE Boot
        BY <2>9 DEF Boot
    <2>10. CASE RunFails
        BY <2>10 DEF RunFails, Exit, Drop
    <2>11. CASE Fetch
        <3>1. PICK found \in Fetchable :
                  /\ batch' = [batch EXCEPT ![pass] = found]
                  /\ \/ found # {} /\ run' = "post" /\ UNCHANGED <<pass, signalled, status>>
                     \/ found = {} /\ NextPass
            BY <2>11 DEF Fetch
        <3>2. found \subseteq Alerts
            BY DEF Fetchable, Newest, AnyRaised
        <3>3. batch' \in [Tables -> SUBSET Alerts]
            BY <3>1, <3>2
        <3> QED
            BY <2>11, <3>1, <3>3 DEF Fetch, NextPass, Exit
    <2>12. CASE PostOk
        BY <2>12 DEF PostOk, Write
    <2>13. CASE PostFails
        BY <2>13 DEF PostFails, Write, Exit, Drop, WriteFailed, Undeclared
    <2>14. CASE Declare
        BY <2>14 DEF Declare, NextPass, Exit, Declared, Undeclared
    <2>15. CASE Interrupted
        BY <2>15 DEF Interrupted, Exit, Cut, Write, Declared, Undeclared, Alive
    <2>16. CASE Stop
        BY <2>16 DEF Stop, Alive
    <2>17. CASE Kill
        BY <2>17 DEF Kill, Cut, Write, Forget, Declared, Undeclared
    <2>18. CASE Restart
        <3>1. Flags'
            BY <2>18 DEF Restart, Flags
        <3> QED
            BY <2>18, <3>1 DEF Restart, Flags
    <2>19. ASSUME NEW a \in Alerts, Ban(a) PROVE (TypeOK /\ Settled)'
        BY <2>19 DEF Ban
    <2>20. ASSUME NEW a \in Alerts, Expire(a) PROVE (TypeOK /\ Settled)'
        BY <2>20 DEF Expire
    <2>21. CASE UNCHANGED vars
        BY <2>21 DEF vars
    <2> QED
        BY <2>1, <2>2, <2>3, <2>4, <2>5, <2>6, <2>7, <2>8, <2>9, <2>10,
           <2>11, <2>12, <2>13, <2>14, <2>15, <2>16, <2>17, <2>18, <2>19,
           <2>20, <2>21 DEF Next, ShellStep, RunStep
<1> QED
    BY <1>1, <1>2, PTL DEF Spec

\* Every variable of the exporter keeps its type, and between two runs nothing
\* is left of the last one.
THEOREM TypeCorrect == Spec => []TypeOK
BY TypeInvariant, PTL

(***************************************************************************)
(* The heartbeat                                                           *)
(***************************************************************************)
\* All that was fetched for a table is in the backend.
In(t) == \A a \in batch[t] : rows[t][a] > 0

Complete == \A t \in Tables : In(t)

\* How much of its batches a run has in the backend, and when the shell may
\* believe its status: not once a signal can have made it 0.
InvComplete ==
    /\ signalled => stop # "no"
    /\ stop = "taken" => shell \in {"shutdown", "gone"}
    /\ shell \in {"spawn", "sleep", "gone"} => batch = Nothing
    /\ run \in {"boot", "fetch", "declare"} => Complete
    /\ run = "post" => \A t \in Tables \ {pass} : In(t)
    /\ run = "exited" /\ status = 0 /\ stop = "no" => Complete
    /\ shell = "reaped" /\ status = 0 => Complete

LEMMA CompleteStep ==
    ASSUME TypeOK, Settled, InvComplete, [Next]_vars
    PROVE  InvComplete'
<1> USE DEF TypeOK, Settled, InvComplete, Complete, In, Nothing, Alive
<1>1. CASE Spawn
    BY <1>1 DEF Spawn, Trapped
<1>2. CASE RecordPid
    BY <1>2 DEF RecordPid, Trapped
<1>3. CASE Reap
    BY <1>3 DEF Reap, PidAfterRun, Trapped
<1>4. CASE Touch
    BY <1>4 DEF Touch, Forget, Trapped
<1>5. CASE NoTouch
    BY <1>5 DEF NoTouch, Forget, Trapped
<1>6. CASE Wake
    BY <1>6 DEF Wake, Trapped
<1>7. CASE Shutdown
    BY <1>7 DEF Shutdown, Alive, Trapped
<1>8. CASE Gone
    BY <1>8 DEF Gone, Forget, Alive
<1>9. CASE Boot
    BY <1>9 DEF Boot
<1>10. CASE RunFails
    BY <1>10 DEF RunFails, Exit, Drop
<1>11. CASE Fetch
    BY <1>11 DEF Fetch, NextPass, Exit, Fetchable, Newest, AnyRaised
<1>12. CASE PostOk
    BY <1>12, WriteAdds DEF PostOk
<1>13. CASE PostFails
    <2>1. CASE UNCHANGED <<rows, faulty>>
        BY <1>13, <2>1 DEF PostFails, Exit, Drop, WriteFailed
    <2>2. CASE Write /\ faulty' = faulty \cup Undeclared
        BY <1>13, <2>2, WriteAdds DEF PostFails, Exit, Drop, WriteFailed, Undeclared
    <2> QED
        BY <1>13, <2>1, <2>2 DEF PostFails
<1>14. CASE Declare
    BY <1>14 DEF Declare, NextPass, Exit, Declared, Undeclared
<1>15. CASE Interrupted
    <2>1. CASE UNCHANGED rows
        BY <1>15, <2>1 DEF Interrupted, Exit, Undeclared, Cut, Declared
    <2>2. CASE run = "post" /\ Write /\ UNCHANGED dedup
        BY <1>15, <2>2, WriteAdds DEF Interrupted, Exit, Undeclared
    <2> QED
        BY <1>15, <2>1, <2>2 DEF Interrupted, Cut
<1>16. CASE Stop
    BY <1>16 DEF Stop, Alive
<1>17. CASE Kill
    <2>1. CASE UNCHANGED rows
        BY <1>17, <2>1 DEF Kill, Forget, Undeclared, Cut, Declared
    <2>2. CASE run = "post" /\ Write /\ UNCHANGED dedup
        BY <1>17, <2>2, WriteAdds DEF Kill, Forget, Undeclared
    <2> QED
        BY <1>17, <2>1, <2>2 DEF Kill, Cut
<1>18. CASE Restart
    BY <1>18 DEF Restart
<1>19. ASSUME NEW a \in Alerts, Ban(a) PROVE InvComplete'
    BY <1>19 DEF Ban
<1>20. ASSUME NEW a \in Alerts, Expire(a) PROVE InvComplete'
    BY <1>20 DEF Expire
<1>21. CASE UNCHANGED vars
    BY <1>21 DEF vars
<1> QED
    BY <1>1, <1>2, <1>3, <1>4, <1>5, <1>6, <1>7, <1>8, <1>9, <1>10,
       <1>11, <1>12, <1>13, <1>14, <1>15, <1>16, <1>17, <1>18, <1>19,
       <1>20, <1>21 DEF Next, ShellStep, RunStep

\* A touched heartbeat means that all its run fetched is in the backend,
\* interrupted runs with status 0 notwithstanding.
THEOREM HeartbeatsVouch == Spec => HeartbeatVouches
<1>1. Init => InvComplete
    BY DEF Init, InvComplete, Complete, In, Nothing, Tables
<1>2. TypeOK /\ InvComplete /\ [Next]_vars =>
        [Touch => \A t \in Tables : batch[t] \subseteq Has(t)]_vars
    BY DEF TypeOK, InvComplete, Complete, In, Touch, Has
<1> QED
    BY <1>1, <1>2, TypeInvariant, CompleteStep, PTL DEF Spec, HeartbeatVouches

(***************************************************************************)
(* Duplicates                                                              *)
(***************************************************************************)
\* A table with rows has its keys declared, or a run could not confirm that,
\* or one is at it.
InvDeclared == \A t \in Tables, a \in Alerts : rows[t][a] > 0 =>
    t \in dedup \/ t \in faulty \/ (run = "declare" /\ pass = t)

LEMMA DeclaredStep ==
    ASSUME TypeOK, Settled, InvDeclared, DuplicatesNeedFault, [Next]_vars
    PROVE  InvDeclared' /\ DuplicatesNeedFault'
<1> USE DEF TypeOK, Settled, InvDeclared, DuplicatesNeedFault, Alive
<1>1. CASE Spawn
    BY <1>1 DEF Spawn, Trapped
<1>2. CASE RecordPid
    BY <1>2 DEF RecordPid, Trapped
<1>3. CASE Reap
    BY <1>3 DEF Reap, PidAfterRun, Trapped
<1>4. CASE Touch
    BY <1>4 DEF Touch, Forget, Trapped
<1>5. CASE NoTouch
    BY <1>5 DEF NoTouch, Forget, Trapped
<1>6. CASE Wake
    BY <1>6 DEF Wake, Trapped
<1>7. CASE Shutdown
    BY <1>7 DEF Shutdown, Alive, Trapped
<1>8. CASE Gone
    BY <1>8 DEF Gone, Forget, Alive
<1>9. CASE Boot
    BY <1>9 DEF Boot
<1>10. CASE RunFails
    BY <1>10 DEF RunFails, Exit, Drop
<1>11. CASE Fetch
    BY <1>11 DEF Fetch, NextPass, Exit, Fetchable, Newest, AnyRaised
<1>12. CASE PostOk
    BY <1>12, WriteAdds DEF PostOk
<1>13. CASE PostFails
    <2>1. CASE UNCHANGED <<rows, faulty>>
        BY <1>13, <2>1 DEF PostFails, Exit, Drop, WriteFailed
    <2>2. CASE Write /\ faulty' = faulty \cup Undeclared
        BY <1>13, <2>2, WriteAdds DEF PostFails, Exit, Drop, WriteFailed, Undeclared
    <2> QED
        BY <1>13, <2>1, <2>2 DEF PostFails
<1>14. CASE Declare
    BY <1>14 DEF Declare, NextPass, Exit, Declared, Undeclared
<1>15. CASE Interrupted
    <2>1. CASE UNCHANGED rows
        BY <1>15, <2>1 DEF Interrupted, Exit, Undeclared, Cut, Declared
    <2>2. CASE run = "post" /\ Write /\ UNCHANGED dedup
        BY <1>15, <2>2, WriteAdds DEF Interrupted, Exit, Undeclared
    <2> QED
        BY <1>15, <2>1, <2>2 DEF Interrupted, Cut
<1>16. CASE Stop
    BY <1>16 DEF Stop, Alive
<1>17. CASE Kill
    <2>1. CASE UNCHANGED rows
        BY <1>17, <2>1 DEF Kill, Forget, Undeclared, Cut, Declared
    <2>2. CASE run = "post" /\ Write /\ UNCHANGED dedup
        BY <1>17, <2>2, WriteAdds DEF Kill, Forget, Undeclared
    <2> QED
        BY <1>17, <2>1, <2>2 DEF Kill, Cut
<1>18. CASE Restart
    BY <1>18 DEF Restart
<1>19. ASSUME NEW a \in Alerts, Ban(a) PROVE InvDeclared' /\ DuplicatesNeedFault'
    BY <1>19 DEF Ban
<1>20. ASSUME NEW a \in Alerts, Expire(a) PROVE InvDeclared' /\ DuplicatesNeedFault'
    BY <1>20 DEF Expire
<1>21. CASE UNCHANGED vars
    BY <1>21 DEF vars
<1> QED
    BY <1>1, <1>2, <1>3, <1>4, <1>5, <1>6, <1>7, <1>8, <1>9, <1>10,
       <1>11, <1>12, <1>13, <1>14, <1>15, <1>16, <1>17, <1>18, <1>19,
       <1>20, <1>21 DEF Next, ShellStep, RunStep

\* Without a run that wrote and could not confirm the declaration, an alert
\* has one row however often it is sent.
THEOREM DuplicatesExplained == Spec => []DuplicatesNeedFault
<1>1. Init => InvDeclared /\ DuplicatesNeedFault
    BY DEF Init, InvDeclared, DuplicatesNeedFault
<1> QED
    BY <1>1, TypeInvariant, DeclaredStep, PTL DEF Spec

(***************************************************************************)
(* How long a stop can take.  The bound is on the steps of shell and run;  *)
(* that they are taken is the fairness of StopEnds.                        *)
(***************************************************************************)
\* Steps the run has left: boot, and fetch, post and declare of each table.
RunLeft ==
    CASE run \in {"none", "exited"} -> 0
      [] run = "declare" -> IF pass = "alerts" THEN 4 ELSE 1
      [] run = "post"    -> IF pass = "alerts" THEN 5 ELSE 2
      [] run = "fetch"   -> IF pass = "alerts" THEN 6 ELSE 3
      [] run = "boot"    -> 7

\* Steps the shell has left once it was told to stop.
ShellLeft ==
    CASE shell = "gone"     -> 0
      [] shell = "shutdown" -> 1
      [] OTHER              -> 2

StopLeft == ShellLeft + RunLeft

\* From the stop on, whatever shell or run does brings the container nearer its
\* end, and nothing starts a run.
StopAdvances ==
    [][stop # "no" /\ shell # "gone" =>
        \/ UNCHANGED <<shell, run, pass, stop>>
        \/ StopLeft' < StopLeft]_vars

\* A shell that has taken the stop does nothing else any more.
Committed == stop = "taken" => shell \in {"shutdown", "gone"}

LEMMA CommittedStep == Committed /\ [Next]_vars => Committed'
BY DEF Committed, Next, ShellStep, RunStep, Spawn, RecordPid, Reap, Touch, NoTouch, Wake,
   Shutdown, Gone, Boot, RunFails, Fetch, PostOk, PostFails, Declare, Interrupted, Stop, Kill,
   Restart, Ban, Expire, Trapped, vars

LEMMA RunAdvances ==
    ASSUME TypeOK, RunStep
    PROVE  RunLeft' < RunLeft /\ RunLeft' \in 0..7 /\ RunLeft \in 0..7 /\ UNCHANGED shell
<1> USE DEF TypeOK, Tables, RunLeft
<1>0. RunLeft \in 0..7
    OBVIOUS
<1>1. CASE Boot
    BY <1>1 DEF Boot
<1>2. CASE RunFails
    BY <1>2 DEF RunFails, Exit, Drop
<1>3. CASE Fetch
    BY <1>3 DEF Fetch, NextPass, Exit
<1>4. CASE PostOk \/ PostFails
    BY <1>4 DEF PostOk, PostFails, Exit
<1>5. CASE Declare
    BY <1>5 DEF Declare, NextPass, Exit
<1>6. CASE Interrupted
    BY <1>6 DEF Interrupted, Alive, Exit
<1> QED
    BY <1>0, <1>1, <1>2, <1>3, <1>4, <1>5, <1>6 DEF RunStep

\* A stop ends the container in at most nine steps of shell and run, also when
\* it comes before the shell knows its child and the signal never reaches it.
THEOREM StopsAreBounded == Spec => [](StopLeft \in 0..9) /\ StopAdvances
<1>1. TypeOK => StopLeft \in 0..9
    BY DEF TypeOK, Tables, StopLeft, ShellLeft, RunLeft
<1>2. TypeOK /\ Committed /\ [Next]_vars =>
        [stop # "no" /\ shell # "gone" =>
            \/ UNCHANGED <<shell, run, pass, stop>>
            \/ StopLeft' < StopLeft]_vars
    <2> SUFFICES ASSUME TypeOK, Committed, Next, stop # "no", shell # "gone",
                        ~UNCHANGED <<shell, run, pass, stop>>
                 PROVE  StopLeft' < StopLeft
        OBVIOUS
    <2>1. stop = "pending" \/ shell = "shutdown"
        BY DEF TypeOK, Committed
    <2>2. CASE RunStep
        <3>1. ShellLeft' = ShellLeft /\ ShellLeft \in 0..2
            BY <2>2, RunAdvances DEF ShellLeft
        <3> QED
            BY <2>2, <3>1, RunAdvances DEF StopLeft
    <2>3. CASE Shutdown
        <3>1. ShellLeft = 2 /\ ShellLeft' = 1 /\ RunLeft' = RunLeft /\ RunLeft \in 0..7
            BY <2>3 DEF Shutdown, ShellLeft, RunLeft, TypeOK, Tables
        <3> QED
            BY <3>1 DEF StopLeft
    <2>4. CASE Gone \/ Kill
        <3>1. ShellLeft >= 1 /\ ShellLeft' = 0 /\ RunLeft' = 0 /\ RunLeft \in 0..7
            BY <2>4 DEF Gone, Kill, ShellLeft, RunLeft, TypeOK, Tables
        <3>2. ShellLeft \in 0..2
            BY DEF ShellLeft
        <3> QED
            BY <3>1, <3>2 DEF StopLeft
    <2> QED
        BY <2>1, <2>2, <2>3, <2>4 DEF Next, ShellStep, Spawn, RecordPid, Reap, Touch, NoTouch,
           Wake, Stop, Restart, Ban, Expire, Trapped
<1>3. Init => Committed
    BY DEF Init, Committed
<1> QED
    BY <1>1, <1>2, <1>3, TypeCorrect, CommittedStep, PTL DEF Spec, StopAdvances
=============================================================================
