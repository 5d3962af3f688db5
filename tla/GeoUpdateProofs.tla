-------------------------- MODULE GeoUpdateProofs ---------------------------
(***************************************************************************)
(* Proofs about GeoUpdate, for every set of processes and every bound      *)
(* GeoAssumption admits.                                                   *)
(***************************************************************************)
EXTENDS GeoUpdate, TLAPS

(***************************************************************************)
(* Type correctness                                                        *)
(***************************************************************************)
LEMMA InitTypeOK == Init => TypeOK
BY GeoAssumption DEF Init, TypeOK, Labels, Dbs, NoStamp

LEMMA StepTypeOK == TypeOK /\ [Next]_vars => TypeOK'
<1> SUFFICES ASSUME TypeOK, [Next]_vars PROVE TypeOK'
  OBVIOUS
<1> USE GeoAssumption DEF TypeOK, Labels
<1>1. ASSUME NEW p \in Procs, Enter(p) \/ Skip(p) \/ End(p)
      PROVE  TypeOK'
  BY <1>1 DEF Enter, Skip, End, GoTo
<1>2. ASSUME NEW p \in Procs, Due(p)
      PROVE  TypeOK'
  BY <1>2 DEF Due, GoTo, Dbs
<1>3. ASSUME NEW p \in Procs, NextDb(p)
      PROVE  /\ pc' \in [Procs -> Labels]
             /\ db' \in [Procs -> Dbs]
             /\ tries' \in [Procs -> 1..MaxAttempts]
  BY <1>3 DEF NextDb, GoTo, Dbs
<1>4. ASSUME NEW p \in Procs, NotModified(p) \/ FetchFails(p)
      PROVE  TypeOK'
  BY <1>3, <1>4 DEF NotModified, FetchFails
<1>5. ASSUME NEW p \in Procs, Fetched(p)
      PROVE  TypeOK'
  BY <1>5 DEF Fetched, Verified, GoTo
<1>6. ASSUME NEW p \in Procs, FetchRetries(p)
      PROVE  TypeOK'
  BY <1>6 DEF FetchRetries, MayRetry
<1>7. ASSUME NEW p \in Procs, Replace(p)
      PROVE  TypeOK'
  BY <1>3, <1>7 DEF Replace
<1>8. ASSUME NEW p \in Procs, Settle(p)
      PROVE  TypeOK'
  <2>1. stamp' \in (-MaxSkew)..NoStamp
    BY <1>8 DEF Settle, NewStamp, NoStamp
  <2> QED BY <1>8, <2>1 DEF Settle, GoTo
<1>9. ASSUME NEW p \in Procs, Breaks(p)
      PROVE  TypeOK'
  BY <1>9 DEF Breaks, GoTo
<1>10. ASSUME NEW p \in Procs, Crash(p)
       PROVE  TypeOK'
  <2>1. stamp' \in (-MaxSkew)..NoStamp
    BY <1>10 DEF Crash, TornStamp, NoStamp
  <2> QED BY <1>10, <2>1 DEF Crash, GoTo
<1>11. ASSUME NEW d \in Dbs, Publish(d)
       PROVE  TypeOK'
  BY <1>11 DEF Publish, memory
<1>12. CASE Tick
  BY <1>12 DEF Tick, memory, NoStamp
<1>13. CASE SetBack
  BY <1>13 DEF SetBack, memory, NoStamp
<1>14. CASE UNCHANGED vars
  BY <1>14 DEF vars, memory
<1> QED BY <1>1, <1>2, <1>4, <1>5, <1>6, <1>7, <1>8, <1>9, <1>10, <1>11, <1>12, <1>13, <1>14
        DEF Next, ProcStep

\* The state of ensure_geoip_databases keeps its types.
THEOREM TypeCorrect == Spec => []TypeOK
<1> QED BY InitTypeOK, StepTypeOK, PTL DEF Spec

(***************************************************************************)
(* The inductive invariant.  Whoever is between flock and unlock holds the *)
(* lock; what it remembers of the disk is still true because only it       *)
(* writes there.                                                           *)
(***************************************************************************)
Busy == {"check", "fetch", "replace", "settle"}

Locked == \A p \in Procs : pc[p] \in Busy => lock = p

\* had_before is still usable.
HadHolds == \A p \in Procs : \A d \in had[p] : Valid(d)

\* What is about to be moved into place is usable and no older.
PendingNewer == \A p \in Procs :
    pc[p] = "replace" => tmp[p] > 0 /\ tmp[p] >= disk[db[p]]

Inv ==
    /\ TypeOK
    /\ Locked
    /\ HadHolds
    /\ PendingNewer
    /\ RunsEnriched
    /\ StampHonest

LEMMA InitInv == Init => Inv
BY InitTypeOK DEF Init, Inv, Locked, Busy, HadHolds, PendingNewer, RunsEnriched, StampHonest

LEMMA OnlyOneBusy ==
  ASSUME Inv, NEW p \in Procs, NEW q \in Procs, pc[p] \in Busy, pc[q] \in Busy
  PROVE  p = q
BY DEF Inv, Locked

\* No step makes a file older or unusable.
LEMMA StepForward ==
  ASSUME Inv, [Next]_vars
  PROVE  \A d \in Dbs : disk'[d] >= disk[d]
<1> USE DEF Inv, TypeOK
<1>1. ASSUME NEW p \in Procs, Replace(p)
      PROVE  \A d \in Dbs : disk'[d] >= disk[d]
  BY <1>1 DEF Replace, PendingNewer
<1>2. CASE disk' = disk
  BY <1>2
<1> QED BY <1>1, <1>2 DEF Next, ProcStep, Enter, Skip, Due, NotModified, Fetched, FetchFails,
        FetchRetries, Breaks, Settle, End, Crash, Publish, Tick, SetBack, vars

LEMMA StepInv == Inv /\ [Next]_vars => Inv'
<1> SUFFICES ASSUME Inv, [Next]_vars PROVE Inv'
  OBVIOUS
<1>1. TypeOK /\ TypeOK'
  BY StepTypeOK DEF Inv
<1>2. \A d \in Dbs : Valid(d) => Valid(d)'
  BY <1>1, StepForward DEF TypeOK, Valid
<1>3. Usable => Usable'
  BY <1>2 DEF Usable
<1>4. ASSUME NEW p \in Procs, Enter(p)
      PROVE  Inv'
  BY <1>1, <1>4, GeoAssumption DEF Inv, TypeOK, Enter, LockFree, GoTo, Locked, Busy, HadHolds,
     PendingNewer, RunsEnriched, StampHonest, Usable, Valid
<1>5. ASSUME NEW p \in Procs, Skip(p)
      PROVE  Inv'
  BY <1>1, <1>5, OnlyOneBusy DEF Inv, TypeOK, Skip, Fresh, GoTo, Locked, Busy, HadHolds,
     PendingNewer, RunsEnriched, StampHonest, Usable, Valid
<1>6. ASSUME NEW p \in Procs, Due(p)
      PROVE  Inv'
  BY <1>1, <1>6 DEF Inv, TypeOK, Due, GoTo, Locked, Busy, HadHolds,
     PendingNewer, RunsEnriched, StampHonest, Usable, Valid
<1>7. ASSUME NEW p \in Procs, NotModified(p) \/ FetchFails(p)
      PROVE  Inv'
  <2>1. pc[p] = "fetch" /\ pc' \in {[pc EXCEPT ![p] = "fetch"], [pc EXCEPT ![p] = "settle"]}
    BY <1>7 DEF NotModified, FetchFails, NextDb, GoTo
  <2>2. UNCHANGED <<disk, stamp, lock, published, skew, had, tmp>>
    BY <1>7 DEF NotModified, FetchFails
  <2>3. \A q \in Procs \ {p} : db'[q] = db[q]
    BY <1>1, <1>7 DEF TypeOK, NotModified, FetchFails, NextDb
  <2> QED BY <1>1, <2>1, <2>2, <2>3 DEF Inv, TypeOK, Locked, Busy, HadHolds,
          PendingNewer, RunsEnriched, StampHonest, Usable, Valid
<1>8. ASSUME NEW p \in Procs, Fetched(p)
      PROVE  Inv'
  <2>1. PendingNewer'
    BY <1>1, <1>8 DEF Inv, TypeOK, Fetched, Verified, GoTo, PendingNewer, Valid
  <2>2. Locked'
    BY <1>1, <1>8 DEF Inv, TypeOK, Fetched, GoTo, Locked, Busy
  <2>3. HadHolds' /\ StampHonest'
    BY <1>8 DEF Inv, Fetched, HadHolds, StampHonest, Usable, Valid
  <2>4. RunsEnriched'
    BY <1>1, <1>8 DEF Inv, TypeOK, Fetched, GoTo, RunsEnriched, Usable, Valid
  <2> QED BY <1>1, <2>1, <2>2, <2>3, <2>4 DEF Inv
<1>9. ASSUME NEW p \in Procs, FetchRetries(p)
      PROVE  Inv'
  BY <1>1, <1>9 DEF Inv, FetchRetries, Locked, HadHolds, PendingNewer, RunsEnriched,
     StampHonest, Usable, Valid
<1>10. ASSUME NEW p \in Procs, Breaks(p)
       PROVE  Inv'
  BY <1>1, <1>10, OnlyOneBusy DEF Inv, TypeOK, Breaks, GoTo, Locked, Busy, HadHolds,
     PendingNewer, RunsEnriched, StampHonest, Usable, Valid
<1>11. ASSUME NEW p \in Procs, Replace(p)
       PROVE  Inv'
  <2>1. pc[p] = "replace" /\ pc' \in {[pc EXCEPT ![p] = "fetch"], [pc EXCEPT ![p] = "settle"]}
    BY <1>11 DEF Replace, NextDb, GoTo
  <2>2. UNCHANGED <<stamp, lock, had>>
    BY <1>11 DEF Replace
  <2>3. Locked'
    BY <1>1, <2>1, <2>2 DEF Inv, TypeOK, Locked, Busy
  <2>4. \A q \in Procs : pc'[q] # "replace"
    BY <1>1, <2>1, OnlyOneBusy DEF TypeOK, Busy
  <2>5. RunsEnriched'
    BY <1>1, <1>3, <2>1 DEF Inv, TypeOK, RunsEnriched
  <2>6. HadHolds' /\ StampHonest'
    <3>1. \A q \in Procs : had[q] \subseteq Dbs
      BY <1>1 DEF TypeOK
    <3> QED BY <1>2, <1>3, <2>2, <3>1 DEF Inv, HadHolds, StampHonest
  <2> QED BY <1>1, <2>3, <2>4, <2>5, <2>6 DEF Inv, PendingNewer
<1>12. ASSUME NEW p \in Procs, Settle(p)
       PROVE  Inv'
  <2>1. pc[p] = "settle" /\ UNCHANGED <<disk, db, tmp>>
    BY <1>12 DEF Settle
  <2>2. pc' \in {[pc EXCEPT ![p] = "idle"], [pc EXCEPT ![p] = "run"]}
    BY <1>12 DEF Settle, GoTo
  <2>3. Locked'
    BY <1>1, <2>1, <2>2, OnlyOneBusy DEF Inv, TypeOK, Locked, Busy
  <2>4. HadHolds'
    BY <1>1, <1>12 DEF Inv, TypeOK, Settle, HadHolds, Valid
  <2>5. PendingNewer'
    BY <1>1, <2>1, <2>2 DEF Inv, TypeOK, PendingNewer
  <2>6. StampHonest'
    BY <1>12, <1>3 DEF Inv, Settle, NewStamp, StampHonest
  <2>7. ~NeverAvailable(p) => Usable
    BY DEF Inv, HadHolds, NeverAvailable, Usable
  <2>8. RunsEnriched'
    BY <1>1, <1>3, <1>12, <2>7 DEF Inv, TypeOK, Settle, GoTo, RunsEnriched
  <2> QED BY <1>1, <2>3, <2>4, <2>5, <2>6, <2>8 DEF Inv
<1>13. ASSUME NEW p \in Procs, End(p)
       PROVE  Inv'
  BY <1>1, <1>13 DEF Inv, TypeOK, End, GoTo, Locked, Busy, HadHolds,
     PendingNewer, RunsEnriched, StampHonest, Usable, Valid
<1>14. ASSUME NEW p \in Procs, Crash(p)
       PROVE  Inv'
  <2>1. Locked'
    BY <1>1, <1>14 DEF Inv, TypeOK, Crash, GoTo, Locked, Busy
  <2>2. HadHolds'
    BY <1>1, <1>14 DEF Inv, TypeOK, Crash, HadHolds, Valid
  <2>3. PendingNewer'
    BY <1>1, <1>14 DEF Inv, TypeOK, Crash, GoTo, PendingNewer
  <2>4. RunsEnriched'
    BY <1>1, <1>3, <1>14 DEF Inv, TypeOK, Crash, GoTo, RunsEnriched
  <2>5. StampHonest'
    BY <1>3, <1>14 DEF Inv, Crash, TornStamp, StampHonest
  <2> QED BY <1>1, <2>1, <2>2, <2>3, <2>4, <2>5 DEF Inv
<1>15. ASSUME NEW d \in Dbs, Publish(d)
       PROVE  Inv'
  BY <1>1, <1>15 DEF Inv, Publish, memory, Locked, HadHolds, PendingNewer, RunsEnriched,
     StampHonest, Usable, Valid
<1>16. CASE Tick \/ SetBack
  <2>1. stamp # NoStamp
    BY <1>1, <1>16, GeoAssumption DEF TypeOK, Tick, SetBack, NoStamp
  <2> QED BY <1>1, <1>16, <2>1 DEF Inv, Tick, SetBack, memory, Locked, HadHolds, PendingNewer,
          RunsEnriched, StampHonest, Usable, Valid
<1>17. CASE UNCHANGED vars
  BY <1>1, <1>17 DEF Inv, vars, memory, Locked, HadHolds, PendingNewer, RunsEnriched,
     StampHonest, Usable, Valid
<1> QED BY <1>4, <1>5, <1>6, <1>7, <1>8, <1>9, <1>10, <1>11, <1>12, <1>13, <1>14, <1>15,
        <1>16, <1>17 DEF Next, ProcStep

LEMMA InvAlways == Spec => []Inv
<1> QED BY InitInv, StepInv, PTL DEF Spec

(***************************************************************************)
(* The results                                                             *)
(***************************************************************************)
\* Whoever is between flock and unlock holds the lock alone: at most one
\* process works on the files.
MutualExclusion == \A p, q \in Procs : pc[p] \in Busy /\ pc[q] \in Busy => p = q

THEOREM LockExcludes == Spec => []MutualExclusion
<1>1. Inv => MutualExclusion
  BY OnlyOneBusy DEF MutualExclusion
<1> QED BY <1>1, InvAlways, PTL

\* A run that got past the GeoIP step has both databases on disk.
THEOREM RunsEnrichedAlways == Spec => []RunsEnriched
<1>1. Inv => RunsEnriched
  BY DEF Inv
<1> QED BY <1>1, InvAlways, PTL

\* The stamp never suppresses the check of a missing database.
THEOREM StampHonestAlways == Spec => []StampHonest
<1>1. Inv => StampHonest
  BY DEF Inv
<1> QED BY <1>1, InvAlways, PTL

\* No process ever replaces a database by an older or unusable file.
THEOREM NeverBackwardsAlways == Spec => NeverBackwards
<1>1. Inv /\ [Next]_vars => [\A d \in Dbs : disk'[d] >= disk[d]]_vars
  BY StepForward
<1> QED BY <1>1, InvAlways, PTL DEF Spec, NeverBackwards

\* Nobody leaves the lock behind: who holds it is at work on the files.
LockNotLeaked == \A p \in Procs : lock = p => pc[p] \in Busy

\* Wherever an update fails, gives up or dies, its lock is free again.
THEOREM LockNotLeakedAlways == Spec => []LockNotLeaked
<1>1. Init => LockNotLeaked
  BY GeoAssumption DEF GeoAssumption, Init, LockNotLeaked
<1>2. Inv /\ LockNotLeaked /\ [Next]_vars => LockNotLeaked'
  <2> SUFFICES ASSUME Inv, LockNotLeaked, [Next]_vars, NEW p \in Procs, lock' = p
               PROVE  pc'[p] \in Busy
    BY DEF LockNotLeaked
  <2>0. pc \in [Procs -> Labels] /\ NoProc \notin Procs /\ (lock = p => pc[p] \in Busy)
    BY GeoAssumption DEF GeoAssumption, Inv, TypeOK, LockNotLeaked
  <2>1. ASSUME NEW q \in Procs, Enter(q) PROVE pc'[p] \in Busy
    BY <2>0, <2>1 DEF Enter, GoTo, Busy
  <2>2. ASSUME NEW q \in Procs, Due(q) \/ Fetched(q) \/ FetchRetries(q) PROVE pc'[p] \in Busy
    BY <2>0, <2>2 DEF Due, Fetched, FetchRetries, GoTo, Busy
  <2>3. ASSUME NEW q \in Procs, NotModified(q) \/ FetchFails(q) \/ Replace(q)
        PROVE  pc'[p] \in Busy
    BY <2>0, <2>3 DEF NotModified, FetchFails, Replace, NextDb, GoTo, Busy
  <2>4. ASSUME NEW q \in Procs, Skip(q) \/ Breaks(q) \/ Settle(q) PROVE pc'[p] \in Busy
    BY <2>0, <2>4 DEF Skip, Breaks, Settle
  <2>5. ASSUME NEW q \in Procs, End(q) \/ Crash(q) PROVE pc'[p] \in Busy
    BY <2>0, <2>5 DEF End, Crash, GoTo, Busy
  <2>6. CASE (\E d \in Dbs : Publish(d)) \/ Tick \/ SetBack \/ UNCHANGED vars
    BY <2>0, <2>6 DEF Publish, Tick, SetBack, memory, vars
  <2> QED
    BY <2>1, <2>2, <2>3, <2>4, <2>5, <2>6 DEF Next, ProcStep
<1> QED
  BY <1>1, <1>2, InvAlways, PTL DEF Spec

(***************************************************************************)
(* How long a process can hold the lock, and with it every other run.      *)
(***************************************************************************)
\* Steps one database costs at most: every attempt and the replacement.
PerDb == MaxAttempts + 1

\* Steps p has left once it is done with the database at hand.
Afterwards(p) == IF db[p] = "city" THEN 2 + PerDb ELSE 2

\* Steps p has left, up to the end of its run.
StepsLeft(p) ==
    CASE pc[p] = "idle"    -> 0
      [] pc[p] = "run"     -> 1
      [] pc[p] = "settle"  -> 2
      [] pc[p] = "replace" -> Afterwards(p) + 1
      [] pc[p] = "fetch"   -> Afterwards(p) + 2 + (MaxAttempts - tries[p])
      [] pc[p] = "check"   -> 3 + 2 * PerDb

Longest == 3 + 2 * PerDb

Rests(p) == UNCHANGED <<pc[p], had[p], db[p], tries[p], tmp[p]>>

\* Every step leaves a process alone, starts it, or brings it nearer its end.
UpdatesAdvance ==
    [][\A p \in Procs : Rests(p) \/ pc[p] = "idle" \/ StepsLeft(p)' < StepsLeft(p)]_vars

LEMMA NextDbAdvances ==
  ASSUME TypeOK, NEW p \in Procs, NextDb(p),
         pc[p] \in {"fetch", "replace"}
  PROVE  StepsLeft(p)' < StepsLeft(p)
<1> USE GeoAssumption DEF GeoAssumption, TypeOK, PerDb, Afterwards, StepsLeft
<1>1. CASE db[p] = "city"
  <2>1. db'[p] = "asn" /\ tries'[p] = 1 /\ pc'[p] = "fetch"
    BY <1>1 DEF NextDb, GoTo
  <2> QED
    BY <1>1, <2>1
<1>2. CASE db[p] = "asn"
  <2>1. pc'[p] = "settle"
    BY <1>2 DEF NextDb, GoTo
  <2> QED
    BY <1>2, <2>1
<1> QED
  BY <1>1, <1>2 DEF Dbs

LEMMA ProcAdvances ==
  ASSUME TypeOK, NEW p \in Procs, pc[p] # "idle", ProcStep(p) \/ Crash(p)
  PROVE  StepsLeft(p)' < StepsLeft(p)
<1>0. /\ MaxAttempts \in Nat \ {0} /\ tries[p] \in 1..MaxAttempts
      /\ db[p] \in Dbs /\ pc[p] \in Labels
  BY GeoAssumption DEF GeoAssumption, TypeOK
<1>1. CASE Skip(p) \/ Settle(p) \/ End(p)
  BY <1>0, <1>1 DEF Skip, Settle, End, GoTo, TypeOK, StepsLeft, PerDb
<1>2. CASE Due(p)
  <2>1. pc[p] = "check" /\ pc'[p] = "fetch" /\ db'[p] = "city" /\ tries'[p] = 1
    BY <1>2 DEF Due, GoTo, TypeOK
  <2> QED
    BY <1>0, <2>1 DEF StepsLeft, Afterwards, PerDb
<1>3. CASE NotModified(p) \/ FetchFails(p) \/ Replace(p)
  BY <1>3, NextDbAdvances DEF NotModified, FetchFails, Replace
<1>4. CASE Fetched(p)
  <2>1. pc[p] = "fetch" /\ pc'[p] = "replace" /\ UNCHANGED db
    BY <1>4 DEF Fetched, GoTo, TypeOK
  <2> QED
    BY <1>0, <2>1 DEF StepsLeft, Afterwards, PerDb
<1>5. CASE FetchRetries(p)
  <2>1. pc[p] = "fetch" /\ UNCHANGED <<pc, db>> /\ tries'[p] = tries[p] + 1
    BY <1>5 DEF FetchRetries, TypeOK
  <2> QED
    BY <1>0, <2>1 DEF StepsLeft, Afterwards, PerDb
<1>6. CASE Breaks(p) \/ Crash(p)
  <2>1. StepsLeft(p)' = 0
    BY <1>6 DEF Breaks, Crash, GoTo, TypeOK, StepsLeft
  <2>2. StepsLeft(p) > 0
    BY <1>0 DEF StepsLeft, Afterwards, PerDb, Labels
  <2> QED
    BY <2>1, <2>2
<1> QED
  BY <1>1, <1>2, <1>3, <1>4, <1>5, <1>6 DEF ProcStep, Enter

LEMMA OthersRest ==
  ASSUME TypeOK, NEW p \in Procs, ProcStep(p) \/ Crash(p), NEW q \in Procs, q # p
  PROVE  Rests(q)
<1> USE DEF TypeOK, Rests, GoTo
<1>1. CASE Enter(p) \/ Skip(p) \/ Due(p) \/ Fetched(p) \/ FetchRetries(p)
  BY <1>1 DEF Enter, Skip, Due, Fetched, FetchRetries
<1>2. CASE NotModified(p) \/ FetchFails(p) \/ Replace(p)
  BY <1>2 DEF NotModified, FetchFails, Replace, NextDb
<1>3. CASE Breaks(p) \/ Settle(p) \/ End(p) \/ Crash(p)
  BY <1>3 DEF Breaks, Settle, End, Crash
<1> QED
  BY <1>1, <1>2, <1>3 DEF ProcStep

\* A process that has the lock gives it back after a bounded number of its own
\* steps, whatever the mirror answers and publishes meanwhile: no update, and
\* so no waiting run, is held up by retries for ever.
THEOREM UpdatesAreBounded ==
  Spec => UpdatesAdvance /\ [](\A p \in Procs : StepsLeft(p) \in 0..Longest)
<1>1. TypeOK => \A p \in Procs : StepsLeft(p) \in 0..Longest
  BY GeoAssumption DEF GeoAssumption, TypeOK, StepsLeft, Longest, Afterwards, PerDb, Dbs, Labels
<1>2. TypeOK /\ [Next]_vars
        => [\A p \in Procs : Rests(p) \/ pc[p] = "idle" \/ StepsLeft(p)' < StepsLeft(p)]_vars
  <2> SUFFICES ASSUME TypeOK, Next, NEW p \in Procs, pc[p] # "idle"
               PROVE  Rests(p) \/ StepsLeft(p)' < StepsLeft(p)
    OBVIOUS
  <2>1. ASSUME NEW q \in Procs, ProcStep(q) \/ Crash(q)
        PROVE  Rests(p) \/ StepsLeft(p)' < StepsLeft(p)
    BY <2>1, ProcAdvances, OthersRest
  <2>2. CASE (\E d \in Dbs : Publish(d)) \/ Tick \/ SetBack
    BY <2>2 DEF Publish, Tick, SetBack, memory, Rests
  <2> QED
    BY <2>1, <2>2 DEF Next
<1> QED
  BY <1>1, <1>2, TypeCorrect, PTL DEF Spec, UpdatesAdvance
=============================================================================
