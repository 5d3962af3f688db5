---------------------------- MODULE OutboxProofs ----------------------------
(***************************************************************************)
(* Proofs about Outbox, for every set of runs and points, every set of     *)
(* points the backend refuses and every bound OutboxAssumption admits.     *)
(***************************************************************************)
EXTENDS Outbox, FiniteSetTheorems, TLAPS

(***************************************************************************)
(* Type correctness                                                        *)
(***************************************************************************)
LEMMA InitTypeOK == Init => TypeOK
BY OutboxAssumption DEF Init, TypeOK, Labels

LEMMA WriteType ==
  ASSUME TypeOK, NEW S, Write(S)
  PROVE  copies' \in [Points -> 0..MaxCopies]
BY OutboxAssumption DEF TypeOK, Write

LEMMA LeaveType ==
  ASSUME TypeOK, NEW r \in Runs, Leave(r)
  PROVE  /\ pc' \in [Runs -> Labels]
         /\ lines' \in [Runs -> SUBSET Points]
         /\ final' \in [Runs -> BOOLEAN]
         /\ spooled' \in [Runs -> BOOLEAN]
         /\ sending' \in [Runs -> SUBSET Points]
         /\ attempt' \in [Runs -> 0..WriteRetries]
         /\ verdict' \in [Runs -> {"none", "clear", "deferred"}]
<1> USE OutboxAssumption DEF TypeOK, Leave
<1>1. pc' \in [Runs -> Labels]
  BY DEF GoTo, Labels
<1>2. lines' \in [Runs -> SUBSET Points] /\ sending' \in [Runs -> SUBSET Points]
  OBVIOUS
<1>3. final' \in [Runs -> BOOLEAN] /\ spooled' \in [Runs -> BOOLEAN]
  OBVIOUS
<1>4. attempt' \in [Runs -> 0..WriteRetries]
  OBVIOUS
<1>5. verdict' \in [Runs -> {"none", "clear", "deferred"}]
  OBVIOUS
<1> QED BY <1>1, <1>2, <1>3, <1>4, <1>5

LEMMA StepTypeOK == TypeOK /\ [Next]_vars => TypeOK'
<1> SUFFICES ASSUME TypeOK, [Next]_vars PROVE TypeOK'
  OBVIOUS
<1> USE OutboxAssumption DEF TypeOK, Labels
<1>1. ASSUME NEW r \in Runs, Begin(r) \/ StartFlush(r) \/ SkipStartFlush(r) \/ EndFlush(r)
      PROVE  TypeOK'
  BY <1>1 DEF Begin, StartFlush, SkipStartFlush, EndFlush, GoTo, table, backend, history
<1>2. ASSUME NEW r \in Runs, NEW p \in Points, Report(r, p)
      PROVE  TypeOK'
  BY <1>2 DEF Report, table, backend
<1>3. ASSUME NEW r \in Runs, ReturnEarly(r) \/ Exit(r)
      PROVE  TypeOK'
  BY <1>3, LeaveType DEF ReturnEarly, Exit, table, backend, history
<1>4. ASSUME NEW r \in Runs, Crash(r)
      PROVE  TypeOK'
  BY <1>4, LeaveType DEF Crash, Unsaved, table, backend
<1>5. ASSUME NEW r \in Runs, Spool(r)
      PROVE  TypeOK'
  <2>1. born' \in [Points -> Nat]
    BY <1>5 DEF Spool
  <2>2. age' \in [Points -> 0..(MaxAge + 1)]
    BY <1>5 DEF Spool
  <2> QED BY <1>5, <2>1, <2>2 DEF Spool, GoTo, backend, history
<1>6. ASSUME NEW r \in Runs, SpoolFails(r)
      PROVE  TypeOK'
  BY <1>6 DEF SpoolFails, GoTo, table, backend, history
<1>7. ASSUME NEW r \in Runs, Prune(r)
      PROVE  TypeOK'
  <2>1. PICK gone \in Prunings :
          /\ outbox' = outbox \ gone
          /\ born' = [p \in Points |-> IF p \in gone THEN 0 ELSE born[p]]
          /\ age' = [p \in Points |-> IF p \in gone THEN 0 ELSE age[p]]
          /\ pruned' = pruned \cup gone
    BY <1>7 DEF Prune
  <2>2. gone \subseteq Points
    BY DEF Prunings, TooOld, Oldest
  <2>3. outbox' \subseteq Points /\ pruned' \subseteq Points
    BY <2>1, <2>2
  <2>4. born' \in [Points -> Nat]
    BY <2>1
  <2>5. age' \in [Points -> 0..(MaxAge + 1)]
    BY <2>1
  <2>6. pc' \in [Runs -> Labels] /\ sending' \in [Runs -> SUBSET Points]
    BY <1>7 DEF Prune, AfterPrune, GoTo
  <2> QED BY <1>7, <2>3, <2>4, <2>5, <2>6 DEF Prune, backend
<1>8. ASSUME NEW r \in Runs, PruneFails(r)
      PROVE  TypeOK'
  BY <1>8 DEF PruneFails, AfterPrune, GoTo, table, backend, history
<1>9. ASSUME NEW r \in Runs, Load(r)
      PROVE  TypeOK'
  BY <1>9 DEF Load, Oldest, GoTo, table, backend, history
<1>10. ASSUME NEW r \in Runs, LoadNothing(r) \/ DeleteFails(r)
       PROVE  TypeOK'
  BY <1>10 DEF LoadNothing, DeleteFails, Return, GoTo, table, backend, history
<1>11. ASSUME NEW r \in Runs, PostAccepted(r)
       PROVE  TypeOK'
  BY <1>11, WriteType DEF PostAccepted, GoTo, table, history
<1>12. ASSUME NEW r \in Runs, PostFails(r)
       PROVE  TypeOK'
  BY <1>12, WriteType DEF PostFails, Refused, Return, Abandoned, GoTo, table
<1>13. ASSUME NEW r \in Runs, PostRetries(r)
       PROVE  TypeOK'
  BY <1>13, WriteType DEF PostRetries, MayRetry, table, history
<1>14. ASSUME NEW r \in Runs, Declare(r)
       PROVE  TypeOK'
  <2>1. dedup' \in BOOLEAN
    BY <1>14 DEF Declare
  <2>2. UNCHANGED <<table, lines, final, spooled, copies, history>>
    BY <1>14 DEF Declare
  <2>3. CASE GoTo(r, "delete") /\ UNCHANGED <<sending, attempt, verdict>>
    BY <2>1, <2>2, <2>3 DEF GoTo, table, history
  <2>4. CASE Return(r, "clear")
    BY <2>1, <2>2, <2>4 DEF Return, GoTo, table, history
  <2> QED BY <1>14, <2>3, <2>4 DEF Declare
<1>15. ASSUME NEW r \in Runs, Delete(r)
       PROVE  TypeOK'
  BY <1>15 DEF Delete, Return, GoTo, backend, history
<1>16. CASE Tick
  BY <1>16 DEF Tick, memory, backend, history
<1>17. CASE UNCHANGED vars
  BY <1>17 DEF vars, table, memory, backend, history
<1> QED
  BY <1>1, <1>2, <1>3, <1>4, <1>5, <1>6, <1>7, <1>8, <1>9, <1>10, <1>11, <1>12,
     <1>13, <1>14, <1>15, <1>16, <1>17 DEF Next, RunStep

\* Rows, run memory, backend and history keep their types.
THEOREM TypeCorrect == Spec => []TypeOK
BY InitTypeOK, StepTypeOK, PTL DEF Spec

(***************************************************************************)
(* No point vanishes.  Rows are deleted two steps after the backend took   *)
(* them, so the invariant remembers what a run knows in between.           *)
(***************************************************************************)
Acknowledged == \A r \in Runs :
    /\ pc[r] \in {"declare", "delete"} => \A p \in sending[r] : Stored(p)
    /\ ~spooled[r] => final[r] /\ pc[r] \in {"prune", "post", "declare", "returned"}
    /\ pc[r] = "spool" => final[r]
    /\ ~spooled[r] /\ pc[r] \in {"post", "declare"} => sending[r] = lines[r]

LEMMA WriteStores ==
  ASSUME TypeOK, NEW S, Write(S)
  PROVE  /\ \A p \in Points : Stored(p) => Stored(p)'
         /\ \A p \in S \cap Points : Stored(p)'
<1>1. \A p \in Points : copies[p] \in Nat /\ copies[p] <= MaxCopies
  BY OutboxAssumption DEF TypeOK
<1>2. ASSUME NEW p \in Points, Stored(p) PROVE Stored(p)'
  BY <1>1, <1>2, OutboxAssumption DEF Write, Stored
<1>3. ASSUME NEW p \in S \cap Points PROVE Stored(p)'
  BY <1>1, <1>3, OutboxAssumption DEF Write, Stored
<1> QED BY <1>2, <1>3

LEMMA InitAccounted == Init => Acknowledged /\ Accounted
<1> SUFFICES ASSUME Init PROVE Acknowledged /\ Accounted
  OBVIOUS
<1>1. /\ \A r \in Runs : pc[r] = "idle" /\ spooled[r] = TRUE
      /\ finalized = {}
  BY DEF Init
<1> QED BY <1>1 DEF Acknowledged, Accounted

LEMMA StepAcknowledged == TypeOK /\ Acknowledged /\ [Next]_vars => Acknowledged'
<1> SUFFICES ASSUME TypeOK, Acknowledged, [Next]_vars PROVE Acknowledged'
  OBVIOUS
<1> USE DEF TypeOK, Acknowledged
<1>1. ASSUME NEW r \in Runs,
             Begin(r) \/ StartFlush(r) \/ SkipStartFlush(r) \/ EndFlush(r)
               \/ ReturnEarly(r) \/ Exit(r)
      PROVE  Acknowledged'
  BY <1>1 DEF Begin, StartFlush, SkipStartFlush, EndFlush, ReturnEarly, Exit, Leave,
     GoTo, backend, Stored
<1>2. ASSUME NEW r \in Runs, Crash(r) PROVE Acknowledged'
  BY <1>2 DEF Crash, Leave, GoTo, backend, Stored
<1>3. ASSUME NEW r \in Runs, NEW p \in Points, Report(r, p)
      PROVE  Acknowledged'
  BY <1>3 DEF Report, backend, Stored
<1>4. ASSUME NEW r \in Runs, Spool(r) \/ SpoolFails(r)
      PROVE  Acknowledged'
  BY <1>4 DEF Spool, SpoolFails, GoTo, backend, Stored
<1>5. ASSUME NEW r \in Runs, Prune(r) \/ PruneFails(r)
      PROVE  Acknowledged'
  BY <1>5 DEF Prune, PruneFails, AfterPrune, GoTo, backend, Stored
<1>6. ASSUME NEW r \in Runs, Load(r) \/ LoadNothing(r)
      PROVE  Acknowledged'
  BY <1>6 DEF Load, LoadNothing, Return, GoTo, backend, Stored
<1>7. ASSUME NEW r \in Runs, PostAccepted(r)
      PROVE  Acknowledged'
  <2>1. /\ \A p \in Points : Stored(p) => Stored(p)'
        /\ \A p \in sending[r] : Stored(p)'
    BY <1>7, WriteStores DEF PostAccepted
  <2> QED BY <1>7, <2>1 DEF PostAccepted, GoTo
<1>8. ASSUME NEW r \in Runs, PostFails(r) \/ PostRetries(r)
      PROVE  Acknowledged'
  <2>1. \E kept \in SUBSET (sending[r] \ Poison) : Write(kept)
    BY <1>8 DEF PostFails, PostRetries
  <2>2. \A p \in Points : Stored(p) => Stored(p)'
    BY <2>1, WriteStores
  <2>3. CASE PostFails(r)
    BY <2>2, <2>3 DEF PostFails, Refused, Return, GoTo
  <2>4. CASE PostRetries(r)
    BY <2>2, <2>4 DEF PostRetries
  <2> QED BY <1>8, <2>3, <2>4
<1>9. ASSUME NEW r \in Runs, Declare(r)
      PROVE  Acknowledged'
  BY <1>9 DEF Declare, Return, GoTo, Stored
<1>10. ASSUME NEW r \in Runs, Delete(r) \/ DeleteFails(r)
       PROVE  Acknowledged'
  BY <1>10 DEF Delete, DeleteFails, Return, GoTo, backend, Stored
<1>11. CASE Tick \/ UNCHANGED vars
  BY <1>11 DEF Tick, vars, memory, backend, Stored
<1> QED
  BY <1>1, <1>2, <1>3, <1>4, <1>5, <1>6, <1>7, <1>8, <1>9, <1>10, <1>11 DEF Next, RunStep

LEMMA StepAccounted ==
  TypeOK /\ Acknowledged /\ Accounted /\ [Next]_vars => Accounted'
<1> SUFFICES ASSUME TypeOK, Acknowledged, Accounted, [Next]_vars,
                    NEW p \in finalized'
             PROVE  \/ \E r \in Runs : p \in Unsaved(r)'
                    \/ p \in outbox'
                    \/ Stored(p)'
                    \/ p \in (pruned \cup lost)'
  BY DEF Accounted
<1> DEFINE safe == p \in outbox \/ Stored(p) \/ p \in pruned \cup lost
           kept == \/ \E r \in Runs : p \in Unsaved(r)'
                   \/ p \in outbox' \/ Stored(p)' \/ p \in (pruned \cup lost)'
<1>0. p \in finalized => safe \/ \E r \in Runs : p \in Unsaved(r)
  BY DEF Accounted
<1> USE DEF TypeOK, Acknowledged
<1>1. ASSUME NEW r \in Runs,
             Begin(r) \/ StartFlush(r) \/ SkipStartFlush(r) \/ EndFlush(r)
               \/ ReturnEarly(r) \/ Exit(r)
      PROVE  kept
  <2>1. UNCHANGED <<outbox, copies, pruned, lost, finalized>>
    BY <1>1 DEF Begin, StartFlush, SkipStartFlush, EndFlush, ReturnEarly, Exit,
       table, backend, history
  <2>2. \A q \in Runs : Unsaved(q) \subseteq Unsaved(q)'
    BY <1>1 DEF Begin, StartFlush, SkipStartFlush, EndFlush, ReturnEarly, Exit,
       Leave, GoTo, Unsaved
  <2> QED BY <1>0, <2>1, <2>2 DEF Stored
<1>2. ASSUME NEW r \in Runs, Crash(r)
      PROVE  kept
  <2>1. UNCHANGED <<outbox, copies, pruned, finalized>> /\ lost' = lost \cup Unsaved(r)
    BY <1>2 DEF Crash, table, backend
  <2>2. \A q \in Runs \ {r} : Unsaved(q)' = Unsaved(q)
    BY <1>2 DEF Crash, Leave, GoTo, Unsaved
  <2> QED BY <1>0, <2>1, <2>2 DEF Stored
<1>3. ASSUME NEW r \in Runs, NEW n \in Points, Report(r, n)
      PROVE  kept
  <2>1. UNCHANGED <<outbox, copies, pruned, lost>> /\ finalized' = finalized \cup {n}
    BY <1>3 DEF Report, table, backend
  <2>2. \A q \in Runs : Unsaved(q) \subseteq Unsaved(q)'
    BY <1>3 DEF Report, Unsaved
  <2>3. n \in Unsaved(r)'
    BY <1>3 DEF Report, Unsaved
  <2> QED BY <1>0, <2>1, <2>2, <2>3 DEF Stored
<1>4. ASSUME NEW r \in Runs, Spool(r)
      PROVE  kept
  <2>1. UNCHANGED <<copies, pruned, lost, finalized>> /\ outbox' = outbox \cup lines[r]
    BY <1>4 DEF Spool, backend, history
  <2>2. \A q \in Runs \ {r} : Unsaved(q)' = Unsaved(q)
    BY <1>4 DEF Spool, GoTo, Unsaved
  <2>3. Unsaved(r) \subseteq lines[r]
    BY DEF Unsaved
  <2> QED BY <1>0, <2>1, <2>2, <2>3 DEF Stored
<1>5. ASSUME NEW r \in Runs, SpoolFails(r)
      PROVE  kept
  <2>1. UNCHANGED <<outbox, copies, pruned, lost, finalized>>
    BY <1>5 DEF SpoolFails, table, backend, history
  <2>2. \A q \in Runs : Unsaved(q)' = Unsaved(q)
    BY <1>5 DEF SpoolFails, GoTo, Unsaved
  <2> QED BY <1>0, <2>1, <2>2 DEF Stored
<1>6. ASSUME NEW r \in Runs, Prune(r) \/ PruneFails(r)
      PROVE  kept
  <2>1. UNCHANGED <<copies, lost, finalized>>
    BY <1>6 DEF Prune, PruneFails, backend, history
  <2>2. p \in outbox \/ p \in pruned => p \in outbox' \/ p \in pruned'
    BY <1>6 DEF Prune, PruneFails, table, history
  <2>3. \A q \in Runs : Unsaved(q)' = Unsaved(q)
    BY <1>6 DEF Prune, PruneFails, AfterPrune, GoTo, Unsaved
  <2> QED BY <1>0, <2>1, <2>2, <2>3 DEF Stored
<1>7. ASSUME NEW r \in Runs, Load(r) \/ LoadNothing(r) \/ DeleteFails(r)
      PROVE  kept
  <2>1. UNCHANGED <<outbox, copies, pruned, lost, finalized>>
    BY <1>7 DEF Load, LoadNothing, DeleteFails, table, backend, history
  <2>2. \A q \in Runs : Unsaved(q) \subseteq Unsaved(q)'
    BY <1>7 DEF Load, LoadNothing, DeleteFails, Return, GoTo, Unsaved
  <2> QED BY <1>0, <2>1, <2>2 DEF Stored
<1>8. ASSUME NEW r \in Runs, PostAccepted(r) \/ PostRetries(r)
      PROVE  kept
  <2>1. UNCHANGED <<outbox, pruned, lost, finalized>>
    BY <1>8 DEF PostAccepted, PostRetries, table, history
  <2>2. \E S : Write(S)
    BY <1>8 DEF PostAccepted, PostRetries
  <2>3. \A q \in Points : Stored(q) => Stored(q)'
    BY <2>2, WriteStores
  <2>4. \A q \in Runs : Unsaved(q)' = Unsaved(q)
    BY <1>8 DEF PostAccepted, PostRetries, GoTo, Unsaved
  <2> QED BY <1>0, <2>1, <2>3, <2>4
<1>9. ASSUME NEW r \in Runs, PostFails(r)
      PROVE  kept
  <2>1. UNCHANGED <<outbox, pruned, finalized>> /\ lost' = lost \cup Abandoned(r)
    BY <1>9 DEF PostFails, table
  <2>2. \A q \in Points : Stored(q) => Stored(q)'
    BY <1>9, WriteStores DEF PostFails
  <2>3. \A q \in Runs \ {r} : Unsaved(q)' = Unsaved(q)
    BY <1>9 DEF PostFails, Refused, Return, GoTo, Unsaved
  <2>4. Unsaved(r) \subseteq Abandoned(r)
    BY <1>9 DEF PostFails, Abandoned, Unsaved
  <2> QED BY <1>0, <2>1, <2>2, <2>3, <2>4
<1>10. ASSUME NEW r \in Runs, Declare(r)
       PROVE  kept
  <2>1. UNCHANGED <<outbox, copies, pruned, lost, finalized>>
    BY <1>10 DEF Declare, table, history
  <2>2. \A q \in Runs \ {r} : Unsaved(q)' = Unsaved(q)
    BY <1>10 DEF Declare, Return, GoTo, Unsaved
  <2>3. \A q \in Unsaved(r) : Stored(q)
    BY <1>10 DEF Declare, Unsaved
  <2> QED BY <1>0, <2>1, <2>2, <2>3 DEF Stored
<1>11. ASSUME NEW r \in Runs, Delete(r)
       PROVE  kept
  <2>1. UNCHANGED <<copies, pruned, lost, finalized>> /\ outbox' = outbox \ sending[r]
    BY <1>11 DEF Delete, backend, history
  <2>2. \A q \in Runs : Unsaved(q) \subseteq Unsaved(q)'
    BY <1>11 DEF Delete, Return, GoTo, Unsaved
  <2>3. \A q \in sending[r] : Stored(q)
    BY <1>11 DEF Delete
  <2> QED BY <1>0, <2>1, <2>2, <2>3 DEF Stored
<1>12. CASE Tick \/ UNCHANGED vars
  <2>1. UNCHANGED <<outbox, copies, pruned, lost, finalized>>
    BY <1>12 DEF Tick, vars, table, backend, history
  <2>2. \A q \in Runs : Unsaved(q)' = Unsaved(q)
    BY <1>12 DEF Tick, vars, memory, Unsaved
  <2> QED BY <1>0, <2>1, <2>2 DEF Stored
<1> QED
  BY <1>1, <1>2, <1>3, <1>4, <1>5, <1>6, <1>7, <1>8, <1>9, <1>10, <1>11, <1>12
  DEF Next, RunStep

\* However many runs flush at once, and wherever they die, a point that
\* reached the outbox leaves it only into the backend or past a bound.
THEOREM AccountedAlways == Spec => []Accounted
<1>1. Init => TypeOK /\ Acknowledged /\ Accounted
  BY InitTypeOK, InitAccounted
<1>2. TypeOK /\ Acknowledged /\ Accounted /\ [Next]_vars
        => (TypeOK /\ Acknowledged /\ Accounted)'
  BY StepTypeOK, StepAcknowledged, StepAccounted
<1> QED
  BY <1>1, <1>2, PTL DEF Spec

(***************************************************************************)
(* What the verdict of a flush is worth to the run that gets it.           *)
(***************************************************************************)
\* In the outbox, in the backend, or past a bound of the outbox.
Settled(p) == p \in outbox \/ Stored(p) \/ p \in pruned

\* What flush_points leaves of the lines it was given, once it returned: the
\* spooled ones are settled whatever the verdict; the others are in the backend
\* if the verdict is good, and given up on if it is not.
VerdictWorth == \A r \in Runs : pc[r] = "returned" => \A p \in lines[r] :
    \/ spooled[r] /\ Settled(p)
    \/ ~spooled[r] /\ verdict[r] = "clear" /\ Stored(p)
    \/ ~spooled[r] /\ verdict[r] = "deferred" /\ p \in lost

\* Only the flush at the end of a run has a verdict.
Returns == \A r \in Runs : pc[r] = "returned" => final[r]

\* The same on the way there.
LinesSettled == \A r \in Runs : final[r] =>
    /\ spooled[r] /\ pc[r] # "spool" => \A p \in lines[r] : Settled(p)
    /\ ~spooled[r] /\ pc[r] = "returned" => \A p \in lines[r] :
        \/ verdict[r] = "clear" /\ Stored(p)
        \/ verdict[r] = "deferred" /\ p \in lost
    /\ pc[r] \in {"spool", "prune", "load", "post", "declare", "delete", "returned"}

\* Nothing makes a settled or lost point any worse off.
LEMMA StaysSettled ==
  ASSUME TypeOK, Acknowledged, [Next]_vars, NEW p \in Points
  PROVE  /\ Settled(p) => Settled(p)'
         /\ Stored(p) => Stored(p)'
         /\ p \in lost => p \in lost'
<1> USE DEF Settled
<1>1. ASSUME NEW r \in Runs, RunStep(r) \/ Crash(r)
      PROVE  p \in lost => p \in lost'
  BY <1>1 DEF RunStep, Crash, Begin, StartFlush, SkipStartFlush, Report, ReturnEarly, EndFlush,
     Spool, SpoolFails, Prune, PruneFails, Load, LoadNothing, PostAccepted, PostFails,
     PostRetries, Declare, Delete, DeleteFails, Exit, history
<1>2. ASSUME NEW r \in Runs, PostAccepted(r) \/ PostFails(r) \/ PostRetries(r)
      PROVE  (Stored(p) => Stored(p)') /\ UNCHANGED <<outbox, pruned>>
  <2>1. \E S : Write(S)
    BY <1>2 DEF PostAccepted, PostFails, PostRetries
  <2> QED
    BY <1>2, <2>1, WriteStores DEF PostAccepted, PostFails, PostRetries, table, history
<1>3. ASSUME NEW r \in Runs, Prune(r) \/ Spool(r)
      PROVE  (Settled(p) => Settled(p)') /\ UNCHANGED copies
  BY <1>3 DEF Prune, Spool, backend, history, Stored
<1>4. ASSUME NEW r \in Runs, Delete(r)
      PROVE  (Settled(p) => Settled(p)') /\ UNCHANGED copies
  BY <1>4 DEF Delete, Acknowledged, backend, history, Stored
<1>5. ASSUME NEW r \in Runs,
             \/ Begin(r) \/ StartFlush(r) \/ SkipStartFlush(r) \/ ReturnEarly(r) \/ EndFlush(r)
             \/ SpoolFails(r) \/ PruneFails(r) \/ Load(r) \/ LoadNothing(r) \/ Declare(r)
             \/ DeleteFails(r) \/ Exit(r) \/ Crash(r) \/ \E n \in Points : Report(r, n)
      PROVE  UNCHANGED <<outbox, copies, pruned>>
  BY <1>5 DEF Begin, StartFlush, SkipStartFlush, ReturnEarly, EndFlush, SpoolFails,
     PruneFails, Load, LoadNothing, Declare, DeleteFails, Exit, Crash, Report,
     table, backend, history
<1>6. CASE Tick \/ UNCHANGED vars
  BY <1>6 DEF Tick, vars, table, backend, history, Stored
<1> QED
  BY <1>1, <1>2, <1>3, <1>4, <1>5, <1>6 DEF Next, RunStep, Stored

\* Run r has no part in the step.
Rests(r) ==
    UNCHANGED <<pc[r], lines[r], final[r], spooled[r], sending[r], attempt[r], verdict[r]>>

LEMMA OtherLines ==
  ASSUME TypeOK, NEW q \in Runs, RunStep(q) \/ Crash(q), NEW r \in Runs, r # q
  PROVE  Rests(r)
<1> USE DEF TypeOK, GoTo, Rests
<1>1. CASE \/ Begin(q) \/ StartFlush(q) \/ SkipStartFlush(q) \/ EndFlush(q) \/ Spool(q)
           \/ SpoolFails(q) \/ Load(q) \/ PostAccepted(q) \/ PostRetries(q)
           \/ \E p \in Points : Report(q, p)
  BY <1>1 DEF Begin, StartFlush, SkipStartFlush, EndFlush, Spool, SpoolFails, Load,
     PostAccepted, PostRetries, Report
<1>2. CASE ReturnEarly(q) \/ Exit(q) \/ Crash(q)
  BY <1>2 DEF ReturnEarly, Exit, Crash, Leave
<1>3. CASE Prune(q) \/ PruneFails(q)
  BY <1>3 DEF Prune, PruneFails, AfterPrune
<1>4. CASE LoadNothing(q) \/ PostFails(q) \/ Declare(q) \/ Delete(q) \/ DeleteFails(q)
  BY <1>4 DEF LoadNothing, PostFails, Refused, Declare, Delete, DeleteFails, Return
<1> QED
  BY <1>1, <1>2, <1>3, <1>4 DEF RunStep

\* A step is one of r, or leaves r alone.
LEMMA StepOrRest ==
  ASSUME TypeOK, [Next]_vars, NEW r \in Runs
  PROVE  Rests(r) \/ RunStep(r) \/ Crash(r)
<1>1. CASE \E q \in Runs : q # r /\ (RunStep(q) \/ Crash(q))
  BY <1>1, OtherLines
<1>2. CASE Tick \/ UNCHANGED vars
  BY <1>2 DEF Tick, memory, vars, Rests
<1> QED
  BY <1>1, <1>2 DEF Next

LEMMA StepLinesSettled ==
  TypeOK /\ Acknowledged /\ LinesSettled /\ [Next]_vars => LinesSettled'
<1> SUFFICES ASSUME TypeOK, Acknowledged, LinesSettled, [Next]_vars, NEW r \in Runs, final'[r]
             PROVE
    /\ spooled'[r] /\ pc'[r] # "spool" => \A p \in lines'[r] : Settled(p)'
    /\ ~spooled'[r] /\ pc'[r] = "returned" => \A p \in lines'[r] :
        \/ verdict'[r] = "clear" /\ Stored(p)'
        \/ verdict'[r] = "deferred" /\ p \in lost'
    /\ pc'[r] \in {"spool", "prune", "load", "post", "declare", "delete", "returned"}
  BY DEF LinesSettled
<1>0. lines[r] \subseteq Points
  BY DEF TypeOK
<1>a. \A p \in Points : /\ Settled(p) => Settled(p)'
                        /\ Stored(p) => Stored(p)'
                        /\ p \in lost => p \in lost'
  BY StaysSettled
<1> USE DEF TypeOK, GoTo, Rests
<1>1. CASE Rests(r)
  BY <1>0, <1>a, <1>1 DEF LinesSettled
<1>2. CASE Begin(r) \/ StartFlush(r) \/ SkipStartFlush(r)
  BY <1>2 DEF Begin, StartFlush, SkipStartFlush, LinesSettled
<1>3. CASE EndFlush(r)
  BY <1>3 DEF EndFlush, Acknowledged
<1>4. CASE ReturnEarly(r) \/ Exit(r) \/ Crash(r)
  BY <1>4 DEF ReturnEarly, Exit, Crash, Leave
<1>5. ASSUME NEW n \in Points, Report(r, n)
      PROVE  FALSE
  BY <1>5 DEF Report, LinesSettled
<1>6. CASE Spool(r)
  BY <1>6 DEF Spool, Settled, Acknowledged
<1>7. CASE SpoolFails(r)
  BY <1>7 DEF SpoolFails
<1>8. CASE Prune(r) \/ PruneFails(r) \/ Load(r) \/ PostAccepted(r) \/ PostRetries(r)
  <2>1. /\ UNCHANGED <<lines, final, spooled>>
        /\ pc[r] # "spool" /\ pc'[r] \in {"load", "post", "declare"}
    BY <1>8 DEF Prune, PruneFails, AfterPrune, Load, PostAccepted, PostRetries
  <2> QED
    BY <1>0, <1>a, <2>1 DEF LinesSettled
<1>9. CASE LoadNothing(r) \/ Delete(r) \/ DeleteFails(r)
  <2>1. UNCHANGED <<lines, final, spooled>> /\ pc'[r] = "returned" /\ pc[r] \in {"load", "delete"}
    BY <1>9 DEF LoadNothing, Delete, DeleteFails, Return
  <2>2. spooled[r]
    BY <2>1 DEF Acknowledged
  <2> QED
    BY <1>0, <1>a, <2>1, <2>2 DEF LinesSettled
<1>10. CASE PostFails(r)
  <2>1. /\ UNCHANGED <<lines, final, spooled>> /\ pc[r] = "post" /\ pc'[r] = "returned"
        /\ verdict'[r] = "deferred" /\ lost' = lost \cup Abandoned(r)
    BY <1>10 DEF PostFails, Refused, Return
  <2> QED
    BY <1>0, <1>a, <2>1 DEF LinesSettled, Abandoned
<1>11. CASE Declare(r)
  <2>1. UNCHANGED <<lines, final, spooled>> /\ pc[r] = "declare"
    BY <1>11 DEF Declare
  <2>2. CASE spooled[r]
    BY <1>0, <1>a, <1>11, <2>1, <2>2 DEF Declare, LinesSettled
  <2>3. CASE ~spooled[r]
    <3>1. pc'[r] = "returned" /\ verdict'[r] = "clear"
      BY <1>11, <2>1, <2>3 DEF Declare, Return
    <3>2. \A p \in lines[r] : Stored(p)
      BY <2>1, <2>3 DEF Acknowledged
    <3> QED
      BY <1>0, <1>a, <2>1, <2>3, <3>1, <3>2
  <2> QED
    BY <2>2, <2>3
<1> HIDE DEF TypeOK, GoTo, Rests
<1> QED
  BY <1>1, <1>2, <1>3, <1>4, <1>5, <1>6, <1>7, <1>8, <1>9, <1>10, <1>11, StepOrRest
  DEF RunStep

LEMMA StepReturns == TypeOK /\ Returns /\ [Next]_vars => Returns'
<1> SUFFICES ASSUME TypeOK, Returns, [Next]_vars, NEW r \in Runs, pc'[r] = "returned"
             PROVE  final'[r]
  BY DEF Returns
<1> USE DEF TypeOK, GoTo, Returns, Rests
<1>1. CASE Rests(r)
  BY <1>1
<1>2. CASE \/ Begin(r) \/ StartFlush(r) \/ SkipStartFlush(r) \/ EndFlush(r) \/ Spool(r)
           \/ SpoolFails(r) \/ Load(r) \/ PostAccepted(r) \/ PostRetries(r)
           \/ \E p \in Points : Report(r, p)
  BY <1>2 DEF Begin, StartFlush, SkipStartFlush, EndFlush, Spool, SpoolFails, Load,
     PostAccepted, PostRetries, Report
<1>3. CASE ReturnEarly(r) \/ Exit(r) \/ Crash(r)
  BY <1>3 DEF ReturnEarly, Exit, Crash, Leave
<1>4. CASE Prune(r) \/ PruneFails(r)
  BY <1>4 DEF Prune, PruneFails, AfterPrune
<1>5. CASE LoadNothing(r) \/ PostFails(r) \/ Declare(r) \/ Delete(r) \/ DeleteFails(r)
  BY <1>5 DEF LoadNothing, PostFails, Refused, Declare, Delete, DeleteFails, Return
<1> HIDE DEF TypeOK, GoTo, Rests
<1> QED
  BY <1>1, <1>2, <1>3, <1>4, <1>5, StepOrRest DEF RunStep

\* The verdict of flush_points is no promise that the points are spooled, but
\* this much it is: none of them is gone unless the spool and the write failed.
THEOREM VerdictWorthAlways == Spec => []VerdictWorth
<1>1. Init => LinesSettled /\ Returns
  BY DEF Init, LinesSettled, Returns
<1>2. Returns /\ LinesSettled => VerdictWorth
  BY DEF Returns, LinesSettled, VerdictWorth
<1> QED
  BY <1>1, <1>2, InitTypeOK, InitAccounted, StepTypeOK, StepAcknowledged, StepLinesSettled,
     StepReturns, PTL DEF Spec

(***************************************************************************)
(* The outbox implements PointLedger.  A point has one holder at most, and *)
(* what a run is about to post is its own or has left every memory.        *)
(***************************************************************************)
Custody ==
    /\ \A r \in Runs : lines[r] \subseteq finalized
    /\ \A r, q \in Runs : r # q => lines[r] \cap lines[q] = {}
    /\ \A r \in Runs : lines[r] # {} => pc[r] = "work" \/ final[r]
    /\ \A r \in Runs : pc[r] = "post" /\ spooled[r] => \A p \in sending[r] : Settled(p)

LEMMA StepCustody ==
  TypeOK /\ Acknowledged /\ LinesSettled /\ Custody /\ [Next]_vars => Custody'
<1> SUFFICES ASSUME TypeOK, Acknowledged, LinesSettled, Custody, [Next]_vars
             PROVE  Custody'
  OBVIOUS
<1>1. ASSUME NEW r \in Runs
      PROVE  /\ lines'[r] \subseteq finalized'
             /\ lines'[r] # {} => pc'[r] = "work" \/ final'[r]
             /\ \A p \in lines'[r] : p \in lines[r] \/ p \notin finalized
             /\ pc'[r] = "post" /\ spooled'[r] => \A p \in sending'[r] : Settled(p)'
  <2> DEFINE good ==
             /\ lines'[r] \subseteq finalized'
             /\ lines'[r] # {} => pc'[r] = "work" \/ final'[r]
             /\ \A p \in lines'[r] : p \in lines[r] \/ p \notin finalized
             /\ pc'[r] = "post" /\ spooled'[r] => \A p \in sending'[r] : Settled(p)'
  <2>0. /\ lines[r] \subseteq finalized
        /\ lines[r] # {} => pc[r] = "work" \/ final[r]
        /\ pc[r] = "post" /\ spooled[r] => \A p \in sending[r] : Settled(p)
        /\ lines[r] \subseteq Points /\ sending[r] \subseteq Points
    BY DEF Custody, TypeOK
  <2>a. \A p \in Points : Settled(p) => Settled(p)'
    BY StaysSettled
  <2>b. finalized \subseteq finalized'
    BY DEF Next, RunStep, Begin, StartFlush, SkipStartFlush, Report, ReturnEarly, EndFlush,
       Spool, SpoolFails, Prune, PruneFails, Load, LoadNothing, PostAccepted, PostFails,
       PostRetries, Declare, Delete, DeleteFails, Exit, Crash, Tick, history, vars
  <2> USE DEF TypeOK, GoTo
  <2>1. CASE Rests(r)
    BY <2>0, <2>a, <2>b, <2>1 DEF Rests
  <2>2. CASE Begin(r) \/ StartFlush(r) \/ SkipStartFlush(r) \/ EndFlush(r)
    BY <2>0, <2>b, <2>2 DEF Begin, StartFlush, SkipStartFlush, EndFlush
  <2>3. ASSUME NEW n \in Points, Report(r, n)
        PROVE  good
    BY <2>0, <2>3 DEF Report
  <2>4. CASE ReturnEarly(r) \/ Exit(r) \/ Crash(r)
    BY <2>4 DEF ReturnEarly, Exit, Crash, Leave
  <2>5. CASE Spool(r) \/ SpoolFails(r) \/ PostAccepted(r)
    BY <2>0, <2>b, <2>5 DEF Spool, SpoolFails, PostAccepted
  <2>6. CASE Prune(r) \/ PruneFails(r)
    BY <2>0, <2>b, <2>6 DEF Prune, PruneFails, AfterPrune
  <2>7. CASE Load(r)
    BY <2>0, <2>b, <2>7 DEF Load, Oldest, Settled, table
  <2>8. CASE PostRetries(r)
    BY <2>0, <2>a, <2>b, <2>8 DEF PostRetries
  <2>9. CASE LoadNothing(r) \/ PostFails(r) \/ Declare(r) \/ Delete(r) \/ DeleteFails(r)
    <3>1. UNCHANGED lines /\ UNCHANGED final
      BY <2>9 DEF LoadNothing, PostFails, Declare, Delete, DeleteFails
    <3>2. pc[r] # "work" /\ pc'[r] # "post"
      BY <2>9 DEF LoadNothing, PostFails, Refused, Declare, Delete, DeleteFails, Return
    <3> QED
      BY <2>0, <2>b, <3>1, <3>2
  <2> HIDE DEF TypeOK, GoTo
  <2> QED
    BY <2>1, <2>2, <2>3, <2>4, <2>5, <2>6, <2>7, <2>8, <2>9, StepOrRest DEF RunStep
<1>2. ASSUME NEW r \in Runs, NEW q \in Runs, r # q
      PROVE  lines'[r] \cap lines'[q] = {}
  <2>1. lines[r] \subseteq finalized /\ lines[q] \subseteq finalized
        /\ lines[r] \cap lines[q] = {}
    BY <1>2 DEF Custody
  <2>2. lines'[r] = lines[r] \/ lines'[q] = lines[q]
    BY <1>2, StepOrRest, OtherLines DEF Rests
  <2> QED
    BY <1>1, <2>1, <2>2
<1> QED
  BY <1>1, <1>2 DEF Custody

\* What a step of r does to the points in memory is what it does to those of r.
LEMMA HeldAfter ==
  ASSUME TypeOK, Custody, NEW r \in Runs, RunStep(r) \/ Crash(r)
  PROVE  Held' = (Held \ Unsaved(r)) \cup Unsaved(r)'
<1>1. ASSUME NEW q \in Runs, q # r PROVE Unsaved(q)' = Unsaved(q)
  BY <1>1, OtherLines DEF Rests, Unsaved
<1>2. ASSUME NEW q \in Runs, q # r PROVE Unsaved(q) \cap Unsaved(r) = {}
  BY <1>2 DEF Custody, Unsaved
<1> QED
  BY <1>1, <1>2 DEF Held

LEMMA WriteAdds ==
  ASSUME TypeOK, NEW S \in SUBSET Points, Write(S)
  PROVE  InBackend' = InBackend \cup S
<1>1. ASSUME NEW p \in Points PROVE Stored(p)' <=> Stored(p) \/ p \in S
  BY OutboxAssumption DEF TypeOK, Write, Stored
<1> QED
  BY <1>1 DEF InBackend

LEMMA InitLedger == Init => Ledger!Init
<1> SUFFICES ASSUME Init PROVE Ledger!Init
  OBVIOUS
<1>1. Held = {}
  BY DEF Init, Held, Unsaved
<1>2. InBackend = {}
  BY DEF Init, InBackend, Stored
<1> QED
  BY <1>1, <1>2 DEF Init, Ledger!Init

LEMMA StepLedger ==
  TypeOK /\ TypeOK' /\ Acknowledged /\ LinesSettled /\ Custody /\ [Next]_vars
    => [Ledger!Next]_(Ledger!vars)
<1> SUFFICES ASSUME TypeOK, TypeOK', Acknowledged, LinesSettled, Custody, [Next]_vars
             PROVE  [Ledger!Next]_(Ledger!vars)
  OBVIOUS
<1> DEFINE quiet == UNCHANGED <<finalized, Held, outbox, InBackend, pruned, lost>>
<1>0. /\ \A r \in Runs : Unsaved(r) \subseteq lines[r] /\ Unsaved(r) \subseteq Held
      /\ \A r \in Runs : lines[r] \subseteq Points /\ sending[r] \subseteq Points
      /\ outbox \subseteq Points
  BY DEF Unsaved, Held, TypeOK
<1>q. quiet => UNCHANGED Ledger!vars
  BY DEF Ledger!vars
<1> USE DEF GoTo
<1>1. ASSUME NEW r \in Runs,
             \/ Begin(r) \/ StartFlush(r) \/ SkipStartFlush(r) \/ EndFlush(r) \/ ReturnEarly(r)
             \/ Exit(r) \/ SpoolFails(r) \/ PruneFails(r) \/ Load(r)
      PROVE  quiet
  <2>1. UNCHANGED <<finalized, outbox, copies, pruned, lost>>
    BY <1>1 DEF Begin, StartFlush, SkipStartFlush, EndFlush, ReturnEarly, Exit, SpoolFails,
       PruneFails, Load, table, backend, history
  <2>2. Unsaved(r)' = Unsaved(r)
    <3> USE DEF Unsaved, TypeOK, Acknowledged
    <3>1. CASE Begin(r) \/ StartFlush(r) \/ EndFlush(r)
      BY <3>1 DEF Begin, StartFlush, EndFlush
    <3>2. CASE SkipStartFlush(r)
      BY <3>2 DEF SkipStartFlush, Custody, LinesSettled
    <3>3. CASE ReturnEarly(r) \/ Exit(r)
      BY <3>3 DEF ReturnEarly, Exit, Leave
    <3>4. CASE SpoolFails(r) \/ PruneFails(r)
      BY <3>4 DEF SpoolFails, PruneFails, AfterPrune
    <3>5. CASE Load(r)
      BY <3>5 DEF Load
    <3> QED
      BY <1>1, <3>1, <3>2, <3>3, <3>4, <3>5
  <2>3. Held' = Held
    BY <1>0, <1>1, <2>2, HeldAfter DEF RunStep
  <2> QED
    BY <2>1, <2>3 DEF InBackend, Stored
<1>2. ASSUME NEW r \in Runs, LoadNothing(r) \/ Delete(r) \/ DeleteFails(r)
      PROVE  UNCHANGED <<finalized, Held, InBackend, pruned, lost>>
  <2>1. UNCHANGED <<finalized, copies, pruned, lost, lines, final, spooled>>
        /\ pc[r] \in {"load", "delete"}
    BY <1>2 DEF LoadNothing, Delete, DeleteFails, backend, history
  <2>2. Unsaved(r) = {} /\ Unsaved(r)' = {}
    BY <1>2, <2>1 DEF LoadNothing, Delete, DeleteFails, Return, Unsaved, TypeOK, Acknowledged,
       Custody
  <2>3. Held' = Held
    BY <1>2, <2>2, HeldAfter DEF RunStep
  <2> QED
    BY <2>1, <2>3 DEF InBackend, Stored
<1>3. ASSUME NEW r \in Runs, LoadNothing(r) \/ DeleteFails(r)
      PROVE  quiet
  BY <1>2, <1>3 DEF LoadNothing, DeleteFails, table
<1>4. ASSUME NEW r \in Runs, Delete(r)
      PROVE  Ledger!Remove(sending[r] \cap outbox)
  <2>1. outbox' = outbox \ sending[r] /\ \A p \in sending[r] : Stored(p)
    BY <1>4 DEF Delete, Acknowledged
  <2> QED
    BY <1>0, <1>2, <1>4, <2>1 DEF Ledger!Remove, InBackend
<1>5. ASSUME NEW r \in Runs, NEW p \in Points, Report(r, p)
      PROVE  Ledger!HandIn(p)
  <2>1. /\ p \notin finalized /\ finalized' = finalized \cup {p}
        /\ UNCHANGED <<outbox, copies, pruned, lost>>
    BY <1>5 DEF Report, table, backend
  <2>2. Unsaved(r)' = Unsaved(r) \cup {p}
    BY <1>5 DEF Report, Unsaved, TypeOK
  <2>3. Held' = Held \cup {p}
    BY <1>0, <1>5, <2>2, HeldAfter DEF RunStep
  <2> QED
    BY <2>1, <2>3 DEF Ledger!HandIn, InBackend, Stored
<1>6. ASSUME NEW r \in Runs, Spool(r)
      PROVE  Ledger!Save(lines[r])
  <2>1. UNCHANGED <<finalized, copies, pruned, lost>> /\ outbox' = outbox \cup lines[r]
    BY <1>6 DEF Spool, backend, history
  <2>2. Unsaved(r) = lines[r] /\ Unsaved(r)' = {}
    BY <1>6 DEF Spool, Unsaved, TypeOK, Acknowledged
  <2>3. lines[r] \subseteq Held /\ Held' = Held \ lines[r]
    BY <1>0, <1>6, <2>2, HeldAfter DEF RunStep
  <2> QED
    BY <2>1, <2>3 DEF Ledger!Save, InBackend, Stored
<1>7. ASSUME NEW r \in Runs, Prune(r)
      PROVE  \E gone \in SUBSET Points : Ledger!Discard(gone)
  <2>1. PICK gone \in Prunings : outbox' = outbox \ gone /\ pruned' = pruned \cup gone
    BY <1>7 DEF Prune
  <2>2. gone \subseteq outbox
    BY DEF Prunings, TooOld, Oldest
  <2>3. UNCHANGED <<finalized, copies, lost>>
    BY <1>7 DEF Prune, backend
  <2>4. Unsaved(r)' = Unsaved(r)
    BY <1>7 DEF Prune, AfterPrune, Unsaved, TypeOK, Acknowledged
  <2>5. Held' = Held
    BY <1>0, <1>7, <2>4, HeldAfter DEF RunStep
  <2> QED
    BY <1>0, <2>1, <2>2, <2>3, <2>5 DEF Ledger!Discard, InBackend, Stored
\* What r posts is still answered for: the lines of r, or rows it loaded.
<1>8. ASSUME NEW r \in Runs, pc[r] = "post"
      PROVE  sending[r] \subseteq Held \cup outbox \cup InBackend \cup pruned
  <2>1. CASE spooled[r]
    BY <1>0, <1>8, <2>1 DEF Custody, Settled, InBackend
  <2>2. CASE ~spooled[r]
    BY <1>0, <1>8, <2>2 DEF Acknowledged, Unsaved
  <2> QED
    BY <2>1, <2>2
<1>9. ASSUME NEW r \in Runs, PostAccepted(r) \/ PostRetries(r)
      PROVE  \E S \in SUBSET Points : Ledger!Store(S)
  <2>1. pc[r] = "post" /\ UNCHANGED <<finalized, outbox, pruned, lost>>
    BY <1>9 DEF PostAccepted, PostRetries, table, history
  <2>2. PICK S : S \subseteq sending[r] /\ Write(S)
    BY <1>9 DEF PostAccepted, PostRetries
  <2>3. InBackend' = InBackend \cup S
    BY <1>0, <2>2, WriteAdds
  <2>4. Unsaved(r)' = Unsaved(r)
    BY <1>9 DEF PostAccepted, PostRetries, Unsaved, TypeOK
  <2>5. Held' = Held
    BY <1>0, <1>9, <2>4, HeldAfter DEF RunStep
  <2>6. Ledger!Store(S)
    BY <1>8, <2>1, <2>2, <2>3, <2>5 DEF Ledger!Store
  <2> QED
    BY <1>0, <2>2, <2>6
<1>10. ASSUME NEW r \in Runs, PostFails(r)
       PROVE  \E S \in SUBSET Points : Ledger!Store(S) \/ Ledger!GiveUp(S)
  <2>1. /\ pc[r] = "post" /\ UNCHANGED <<finalized, outbox, pruned, lines, final, spooled>>
        /\ lost' = lost \cup Abandoned(r)
    BY <1>10 DEF PostFails, table
  <2>2. PICK S : S \subseteq sending[r] /\ Write(S)
    BY <1>10 DEF PostFails
  <2>3. InBackend' = InBackend \cup S
    BY <1>0, <2>2, WriteAdds
  <2>4. Unsaved(r)' = {}
    BY <1>10, <2>1 DEF PostFails, Refused, Return, Unsaved, TypeOK, Custody
  <2>5. Held' = Held \ Unsaved(r)
    BY <1>10, <2>4, HeldAfter DEF RunStep
  <2>6. CASE spooled[r]
    <3>1. Held' = Held /\ lost' = lost
      BY <2>1, <2>5, <2>6 DEF Unsaved, Abandoned
    <3>2. Ledger!Store(S)
      BY <1>8, <2>1, <2>2, <2>3, <3>1 DEF Ledger!Store
    <3> QED
      BY <1>0, <2>2, <3>2
  <2>7. CASE ~spooled[r]
    <3>1. Unsaved(r) = lines[r] /\ sending[r] = lines[r] /\ Abandoned(r) = lines[r]
      BY <2>1, <2>7 DEF Unsaved, Acknowledged, Abandoned
    <3>2. Ledger!GiveUp(lines[r])
      BY <1>0, <2>1, <2>2, <2>3, <2>5, <3>1 DEF Ledger!GiveUp
    <3> QED
      BY <1>0, <3>2
  <2> QED
    BY <2>6, <2>7
<1>11. ASSUME NEW r \in Runs, Declare(r)
       PROVE  \E S \in SUBSET Points : Ledger!Release(S)
  <2>1. pc[r] = "declare"
        /\ UNCHANGED <<finalized, outbox, copies, pruned, lost, lines, final, spooled>>
    BY <1>11 DEF Declare, table, history
  <2>2. Unsaved(r)' = {}
    BY <1>11, <2>1 DEF Declare, Return, Unsaved, TypeOK, Acknowledged, Custody
  <2>3. Held' = Held \ Unsaved(r)
    BY <1>11, <2>2, HeldAfter DEF RunStep
  <2>4. Unsaved(r) \subseteq InBackend
    BY <1>0, <2>1 DEF Unsaved, Acknowledged, InBackend
  <2>5. Ledger!Release(Unsaved(r))
    BY <1>0, <2>1, <2>3, <2>4 DEF Ledger!Release, InBackend, Stored
  <2>6. Unsaved(r) \in SUBSET Points
    BY <1>0
  <2> QED
    BY <2>5, <2>6
<1>12. ASSUME NEW r \in Runs, Crash(r)
       PROVE  Ledger!GiveUp(Unsaved(r))
  <2>1. UNCHANGED <<finalized, outbox, copies, pruned>> /\ lost' = lost \cup Unsaved(r)
    BY <1>12 DEF Crash, table, backend
  <2>2. Unsaved(r)' = {}
    BY <1>12 DEF Crash, Leave, Unsaved, TypeOK
  <2>3. Held' = Held \ Unsaved(r)
    BY <1>12, <2>2, HeldAfter
  <2>4. InBackend' = InBackend \cup {}
    BY <2>1 DEF InBackend, Stored
  <2> QED
    BY <1>0, <2>1, <2>3, <2>4 DEF Ledger!GiveUp
<1>13. CASE Tick \/ UNCHANGED vars
  <2>1. UNCHANGED <<finalized, outbox, copies, pruned, lost, pc, lines, spooled>>
    BY <1>13 DEF Tick, vars, table, memory, backend, history
  <2> QED
    BY <1>q, <2>1 DEF Held, Unsaved, InBackend, Stored
<1>14. ASSUME NEW r \in Runs, RunStep(r) \/ Crash(r)
       PROVE  Ledger!Next \/ quiet
  <2>1. Unsaved(r) \in SUBSET Points /\ lines[r] \in SUBSET Points
        /\ sending[r] \cap outbox \in SUBSET Points
    BY <1>0
  <2>2. ASSUME NEW S \in SUBSET Points,
               \/ Ledger!Save(S) \/ Ledger!Store(S) \/ Ledger!Release(S)
               \/ Ledger!GiveUp(S) \/ Ledger!Remove(S) \/ Ledger!Discard(S)
        PROVE  Ledger!Next
    BY <2>2 DEF Ledger!Next, Ledger!Save, Ledger!Release, Ledger!GiveUp, Ledger!Remove,
       Ledger!Discard
  <2>3. \A p \in Points : Ledger!HandIn(p) => Ledger!Next
    BY DEF Ledger!Next
  <2> HIDE DEF quiet
  <2> QED
    BY <1>1, <1>3, <1>4, <1>5, <1>6, <1>7, <1>9, <1>10, <1>11, <1>12, <1>14, <2>1, <2>2, <2>3
    DEF RunStep
<1> QED
  BY <1>q, <1>13, <1>14 DEF Next

\* Every behaviour of the outbox is one of PointLedger, whatever runs overlap,
\* die or fail to write: custody of a point passes from memory to the table to
\* the backend, and every loss on the way is a loss on record.
THEOREM OutboxImplementsLedger == Spec => ImplementsLedger
<1>1. Init => LinesSettled /\ Custody
  BY DEF Init, LinesSettled, Custody
<1>2. TypeOK /\ TypeOK' /\ Acknowledged /\ LinesSettled /\ Custody /\ [Next]_vars
        => [Ledger!Next]_(Ledger!vars)
  BY StepLedger
<1> QED
  BY <1>1, <1>2, InitTypeOK, InitAccounted, InitLedger, StepTypeOK, StepAcknowledged,
     StepLinesSettled, StepCustody, PTL DEF Spec, ImplementsLedger, Ledger!Spec

(***************************************************************************)
(* Copies.  What keeps a repeated write from adding a row is that the      *)
(* backend collapses equal points; InfluxDB always does, QuestDB once it   *)
(* was told to.                                                            *)
(***************************************************************************)
\* Once points collapse they always do, and a write adds no second row.
CollapsesForGood ==
    [][dedup => dedup' /\ \A p \in Points : copies'[p] = copies[p] \/ ~Stored(p)]_vars

LEMMA WriteCollapses ==
  ASSUME TypeOK, NEW S, Write(S), dedup, NEW p \in Points
  PROVE  copies'[p] = copies[p] \/ ~Stored(p)
BY DEF Write

LEMMA StepCollapses ==
  ASSUME TypeOK, Next, dedup
  PROVE  dedup' /\ \A p \in Points : copies'[p] = copies[p] \/ ~Stored(p)
<1>1. ASSUME NEW r \in Runs, PostAccepted(r) \/ PostFails(r) \/ PostRetries(r)
      PROVE  dedup' /\ \A p \in Points : copies'[p] = copies[p] \/ ~Stored(p)
  <2>1. dedup' /\ \E S : Write(S)
    BY <1>1 DEF PostAccepted, PostFails, PostRetries
  <2> QED
    BY <2>1, WriteCollapses
<1>2. ASSUME NEW r \in Runs, Declare(r)
      PROVE  dedup' /\ copies' = copies
  BY <1>2 DEF Declare
<1> QED
  BY <1>1, <1>2 DEF Next, RunStep, Begin, StartFlush, SkipStartFlush, Report, ReturnEarly,
     EndFlush, Spool, SpoolFails, Prune, PruneFails, Load, LoadNothing, Delete, DeleteFails,
     Exit, Crash, Tick, backend

THEOREM CollapsesForGoodAlways == Spec => CollapsesForGood
<1>1. TypeOK /\ [Next]_vars =>
        [dedup => dedup' /\ \A p \in Points : copies'[p] = copies[p] \/ ~Stored(p)]_vars
  BY StepCollapses
<1> QED
  BY <1>1, TypeCorrect, PTL DEF Spec, CollapsesForGood

\* With InfluxDB no re-send, retry, crash or overlapping flush stores a point
\* twice: the duplicates of QuestDB are those of its undeclared table.
THEOREM InfluxCollapses ==
  ASSUME Backend = "influxdb2"
  PROVE  Spec => []NoDuplicateRows
<1>1. Init => dedup /\ NoDuplicateRows
  <2>1. Init => NoDuplicateRows
    BY DEF Init, NoDuplicateRows
  <2>2. Init => dedup = (Backend = "influxdb2")
    BY DEF Init
  <2>3. Init => dedup
    BY <2>2, Zenon
  <2> QED
    BY <2>1, <2>3
<1>2. TypeOK /\ dedup /\ NoDuplicateRows /\ [Next]_vars => (dedup /\ NoDuplicateRows)'
  <2> SUFFICES ASSUME TypeOK, dedup, NoDuplicateRows, [Next]_vars
               PROVE  dedup' /\ NoDuplicateRows'
    OBVIOUS
  <2>1. CASE UNCHANGED vars
    BY <2>1 DEF vars, backend, NoDuplicateRows
  <2>2. ASSUME Next PROVE dedup' /\ NoDuplicateRows'
    <3>1. \A p \in Points : copies'[p] \in {copies[p], 1}
      <4> SUFFICES ASSUME NEW p \in Points, copies'[p] # copies[p] PROVE copies'[p] = 1
        OBVIOUS
      <4>1. copies[p] = 0
        BY <2>2, StepCollapses DEF TypeOK, Stored
      <4>2. \E S : Write(S)
        BY <2>2 DEF Next, RunStep, Begin, StartFlush, SkipStartFlush, Report, ReturnEarly,
           EndFlush, Spool, SpoolFails, Prune, PruneFails, Load, LoadNothing, PostAccepted,
           PostFails, PostRetries, Declare, Delete, DeleteFails, Exit, Crash, Tick, backend
      <4> QED
        BY <4>1, <4>2, OutboxAssumption DEF Write
    <3> QED
      BY <2>2, <3>1, StepCollapses DEF NoDuplicateRows
  <2> QED
    BY <2>1, <2>2
<1> QED
  BY <1>1, <1>2, TypeCorrect, PTL DEF Spec

(***************************************************************************)
(* How long a run can flush.  The bound is on the run's own steps: the     *)
(* attempts of two flushes and the reports between them, whatever the      *)
(* backend answers and the other runs spool, send and delete.              *)
(***************************************************************************)
\* Reports there still may be.
ToCome == Cardinality(Points \ finalized)

\* Steps of flush_points from a label to its return.
FlushLeft(r) ==
    CASE pc[r] = "delete"  -> 1
      [] pc[r] = "declare" -> 2
      [] pc[r] = "post"    -> 3 + (WriteRetries - attempt[r])
      [] pc[r] = "load"    -> 4 + WriteRetries
      [] pc[r] = "prune"   -> 5 + WriteRetries
      [] pc[r] = "spool"   -> 6 + WriteRetries
      [] OTHER             -> 0

\* Steps from the first report to the end: the flush, the exit and EndFlush.
EndLeft == 8 + WriteRetries

\* Steps run r has left.
StepsLeft(r) ==
    CASE pc[r] = "idle"     -> 0
      [] pc[r] = "returned" -> 1
      [] pc[r] = "work"     -> ToCome + EndLeft
      [] pc[r] = "start"    -> ToCome + EndLeft + 6 + WriteRetries
      [] OTHER -> IF final[r] THEN 1 + FlushLeft(r) ELSE ToCome + EndLeft + FlushLeft(r)

\* Every step leaves a run alone and no further from its end, starts it, or
\* brings it nearer.
RunsAdvance == [][\A r \in Runs :
    \/ Rests(r) /\ StepsLeft(r)' <= StepsLeft(r)
    \/ pc[r] = "idle"
    \/ StepsLeft(r)' < StepsLeft(r)]_vars

LEMMA ToComeTyped ==
  ASSUME NEW S \in SUBSET Points
  PROVE  IsFiniteSet(Points \ S) /\ Cardinality(Points \ S) \in Nat
BY OutboxAssumption, FS_Subset, FS_CardinalityType DEF OutboxAssumption

LEMMA FewerToCome ==
  ASSUME NEW p \in Points \ finalized, finalized \subseteq Points,
         finalized' = finalized \cup {p}
  PROVE  ToCome' = ToCome - 1
<1>1. Points \ finalized' = (Points \ finalized) \ {p}
  OBVIOUS
<1> QED
  BY <1>1, ToComeTyped, FS_RemoveElement DEF ToCome

\* Reports only ever become fewer.
LEMMA NoMoreToCome ==
  ASSUME TypeOK, TypeOK', [Next]_vars
  PROVE  ToCome \in Nat /\ ToCome' \in Nat /\ ToCome' <= ToCome
<1>1. ToCome \in Nat /\ ToCome' \in Nat
  BY ToComeTyped DEF TypeOK, ToCome
<1>2. CASE \E r \in Runs, p \in Points : Report(r, p)
  <2>1. PICK p \in Points : p \notin finalized /\ finalized' = finalized \cup {p}
    BY <1>2 DEF Report
  <2>2. ToCome' = ToCome - 1
    BY <2>1, FewerToCome DEF TypeOK
  <2> QED
    BY <1>1, <2>2
<1>3. CASE UNCHANGED finalized
  BY <1>1, <1>3 DEF ToCome
<1> QED
  BY <1>2, <1>3 DEF Next, RunStep, Begin, StartFlush, SkipStartFlush, ReturnEarly, EndFlush,
     Spool, SpoolFails, Prune, PruneFails, Load, LoadNothing, PostAccepted, PostFails,
     PostRetries, Declare, Delete, DeleteFails, Exit, Crash, Tick, history, vars

LEMMA ReturnAdvances ==
  ASSUME TypeOK, ToCome \in Nat, ToCome' \in Nat, ToCome' <= ToCome,
         NEW r \in Runs, NEW result, Return(r, result), UNCHANGED final,
         pc[r] \in {"load", "post", "declare", "delete"}
  PROVE  StepsLeft(r)' < StepsLeft(r)
<1>0. WriteRetries \in Nat /\ attempt[r] \in 0..WriteRetries
  BY OutboxAssumption DEF OutboxAssumption, TypeOK
<1>1. \/ final[r] /\ pc'[r] = "returned"
      \/ ~final[r] /\ pc'[r] = "work"
  BY DEF Return, GoTo, TypeOK
<1>2. FlushLeft(r) >= 1
  BY <1>0 DEF FlushLeft
<1> QED
  BY <1>0, <1>1, <1>2 DEF StepsLeft, EndLeft, FlushLeft

LEMMA StepAdvances ==
  ASSUME TypeOK, TypeOK', Acknowledged, ToCome \in Nat, ToCome' \in Nat, ToCome' <= ToCome,
         NEW r \in Runs, pc[r] # "idle", RunStep(r) \/ Crash(r)
  PROVE  StepsLeft(r)' < StepsLeft(r)
<1>0. WriteRetries \in Nat /\ attempt[r] \in 0..WriteRetries /\ attempt'[r] \in 0..WriteRetries
  BY OutboxAssumption DEF OutboxAssumption, TypeOK
<1> USE DEF StepsLeft, FlushLeft, EndLeft
<1>1. CASE StartFlush(r) \/ SkipStartFlush(r)
  <2>1. pc[r] = "start" /\ pc'[r] \in {"prune", "work"}
    BY <1>1 DEF StartFlush, SkipStartFlush, GoTo, TypeOK
  <2> QED
    BY <1>0, <2>1
<1>2. ASSUME NEW p \in Points, Report(r, p)
      PROVE  StepsLeft(r)' < StepsLeft(r)
  <2>1. pc[r] = "work" /\ pc'[r] = "work" /\ ToCome' = ToCome - 1
    BY <1>2, FewerToCome DEF Report, TypeOK
  <2> QED
    BY <1>0, <2>1
<1>3. CASE ReturnEarly(r) \/ Exit(r) \/ Crash(r)
  <2>1. pc'[r] = "idle"
    BY <1>3 DEF ReturnEarly, Exit, Crash, Leave, GoTo, TypeOK
  <2> QED
    BY <1>0, <2>1 DEF TypeOK, Labels
<1>4. CASE EndFlush(r)
  <2>1. pc[r] = "work" /\ pc'[r] = "spool" /\ final'[r]
    BY <1>4 DEF EndFlush, GoTo, TypeOK
  <2> QED
    BY <1>0, <2>1
<1>5. CASE Spool(r) \/ SpoolFails(r) \/ Load(r) \/ PostAccepted(r)
  <2>1. \/ pc[r] = "spool" /\ pc'[r] = "prune"
        \/ pc[r] = "load" /\ pc'[r] = "post"
        \/ pc[r] = "post" /\ pc'[r] = "declare"
    BY <1>5 DEF Spool, SpoolFails, Load, PostAccepted, GoTo, TypeOK
  <2>2. UNCHANGED final
    BY <1>5 DEF Spool, SpoolFails, Load, PostAccepted
  <2> QED
    BY <1>0, <2>1, <2>2
<1>6. CASE Prune(r) \/ PruneFails(r)
  <2>1. pc[r] = "prune" /\ pc'[r] \in {"load", "post"} /\ UNCHANGED final
    BY <1>6 DEF Prune, PruneFails, AfterPrune, GoTo, TypeOK
  <2> QED
    BY <1>0, <2>1
<1>7. CASE LoadNothing(r) \/ PostFails(r) \/ Delete(r) \/ DeleteFails(r)
  BY <1>7, ReturnAdvances DEF LoadNothing, PostFails, Refused, Delete, DeleteFails
<1>8. CASE PostRetries(r)
  <2>1. pc[r] = "post" /\ UNCHANGED <<pc, final>> /\ attempt'[r] = attempt[r] + 1
    BY <1>8 DEF PostRetries, TypeOK
  <2> QED
    BY <1>0, <2>1
<1>9. CASE Declare(r)
  <2>1. pc[r] = "declare" /\ UNCHANGED final
    BY <1>9 DEF Declare
  <2>2. CASE pc'[r] = "delete"
    BY <1>0, <2>1, <2>2
  <2>3. CASE Return(r, "clear")
    BY <2>1, <2>3, ReturnAdvances
  <2> QED
    BY <1>9, <2>2, <2>3 DEF Declare, GoTo, TypeOK
<1> QED
  BY <1>1, <1>2, <1>3, <1>4, <1>5, <1>6, <1>7, <1>8, <1>9 DEF RunStep, Begin

\* A run with its two flushes ends after a bounded number of its own steps: no
\* backend that fails and no run beside it keeps it flushing.
THEOREM FlushesAreBounded == Spec => RunsAdvance
<1>1. TypeOK /\ TypeOK' /\ Acknowledged /\ [Next]_vars => [\A r \in Runs :
        \/ Rests(r) /\ StepsLeft(r)' <= StepsLeft(r)
        \/ pc[r] = "idle"
        \/ StepsLeft(r)' < StepsLeft(r)]_vars
  <2> SUFFICES ASSUME TypeOK, TypeOK', Acknowledged, Next, NEW r \in Runs, pc[r] # "idle"
               PROVE  \/ Rests(r) /\ StepsLeft(r)' <= StepsLeft(r)
                      \/ StepsLeft(r)' < StepsLeft(r)
    OBVIOUS
  <2>1. ToCome \in Nat /\ ToCome' \in Nat /\ ToCome' <= ToCome
    BY NoMoreToCome
  <2>2. Rests(r) => StepsLeft(r)' <= StepsLeft(r)
    <3>1. WriteRetries \in Nat /\ attempt[r] \in 0..WriteRetries
      BY OutboxAssumption DEF OutboxAssumption, TypeOK
    <3>2. Rests(r) => FlushLeft(r)' = FlushLeft(r)
      BY DEF Rests, FlushLeft
    <3>3. FlushLeft(r) \in Nat
      BY <3>1 DEF FlushLeft
    <3> HIDE DEF FlushLeft
    <3> QED
      BY <2>1, <3>1, <3>2, <3>3 DEF Rests, StepsLeft, EndLeft
  <2>3. CASE Tick
    BY <2>2, <2>3 DEF Tick, memory, Rests
  <2>4. ASSUME NEW q \in Runs, RunStep(q) \/ Crash(q), q # r
        PROVE  Rests(r)
    BY <2>4, OtherLines DEF Rests
  <2>5. CASE RunStep(r) \/ Crash(r)
    BY <2>1, <2>5, StepAdvances
  <2> QED
    BY <2>2, <2>3, <2>4, <2>5 DEF Next
<1> QED
  BY <1>1, InitTypeOK, InitAccounted, StepTypeOK, StepAcknowledged, PTL DEF Spec, RunsAdvance
=============================================================================
