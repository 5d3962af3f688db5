----------------------------- MODULE GeoUpdate ------------------------------
(***************************************************************************)
(* The GeoLite2 databases of the abuse reporter: ensure_geoip_databases,   *)
(* which every run calls before it does anything else (app/geoip.py), with *)
(* its lock file, its freshness stamp and its atomic file replacement.     *)
(*                                                                         *)
(* A database file is the release it holds, 0 when there is none that      *)
(* passes _verify.  The container seeds release 1 from its image; a seed   *)
(* may be missing or cut short.  force is never set by the callers.        *)
(***************************************************************************)
EXTENDS Integers

CONSTANTS
    Procs,          \* processes that call ensure_geoip_databases
    NoProc,         \* value of lock while nobody holds it
    MaxRelease,     \* bound: releases the mirror publishes
    MaxAttempts,    \* _DOWNLOAD_MAX_ATTEMPTS
    CheckInterval,  \* _CHECK_INTERVAL_H in ticks
    MaxSkew         \* bound: how far, and how often, the clock is set back

ASSUME GeoAssumption ==
    /\ NoProc \notin Procs
    /\ MaxRelease \in Nat \ {0}
    /\ MaxAttempts \in Nat \ {0}
    /\ CheckInterval \in Nat \ {0}
    /\ MaxSkew \in Nat

Dbs == {"city", "asn"}

\* No stamp file, or one that holds no number.
NoStamp == CheckInterval + 1

VARIABLES
    disk,           \* release in each database file
    stamp,          \* age of .geoip_last_check, negative after a clock step
    lock,           \* holder of .geoip-update.lock
    published,      \* newest release the mirror offers
    skew,           \* ticks the clock was set back so far
    \* memory of each process
    pc, had, db, tries, tmp

memory == <<pc, had, db, tries, tmp>>
vars   == <<disk, stamp, lock, published, skew, memory>>

Labels == {"idle", "check", "fetch", "replace", "settle", "run"}

TypeOK ==
    /\ disk \in [Dbs -> 0..MaxRelease]
    /\ stamp \in (-MaxSkew)..NoStamp
    /\ lock \in Procs \cup {NoProc}
    /\ published \in [Dbs -> 1..MaxRelease]
    /\ skew \in 0..MaxSkew
    /\ pc \in [Procs -> Labels]
    /\ had \in [Procs -> SUBSET Dbs]
    /\ db \in [Procs -> Dbs]
    /\ tries \in [Procs -> 1..MaxAttempts]
    /\ tmp \in [Procs -> 0..MaxRelease]

Init ==
    /\ disk \in [Dbs -> {0, 1}]
    /\ stamp = NoStamp
    /\ lock = NoProc
    /\ published = [d \in Dbs |-> 1]
    /\ skew = 0
    /\ pc = [p \in Procs |-> "idle"]
    /\ had = [p \in Procs |-> {}]
    /\ db = [p \in Procs |-> "city"]
    /\ tries = [p \in Procs |-> 1]
    /\ tmp = [p \in Procs |-> 0]

GoTo(p, label) == pc' = [pc EXCEPT ![p] = label]

Valid(d) == disk[d] > 0

Usable == \A d \in Dbs : Valid(d)

\* Mutant: the lock file is opened but not locked.
LockIgnored == TRUE

LockFree == lock = NoProc

\* fcntl.flock(LOCK_EX) returns.
Enter(p) ==
    /\ pc[p] = "idle"
    /\ LockFree
    /\ lock' = p
    /\ GoTo(p, "check")
    /\ UNCHANGED <<disk, stamp, published, skew, had, db, tries, tmp>>

\* Mutant: valid databases need no check.
FreshOnceValid == Usable

\* The stamp is young and both files pass _verify.
Fresh == stamp < CheckInterval /\ Usable

\* "skipping remote check".
Skip(p) ==
    /\ pc[p] = "check"
    /\ Fresh
    /\ lock' = NoProc
    /\ GoTo(p, "run")
    /\ UNCHANGED <<disk, stamp, published, skew, had, db, tries, tmp>>

\* A remote check is due: remember what was usable before it.
Due(p) ==
    /\ pc[p] = "check"
    /\ ~Fresh
    /\ had' = [had EXCEPT ![p] = {d \in Dbs : Valid(d)}]
    /\ db' = [db EXCEPT ![p] = "city"]
    /\ tries' = [tries EXCEPT ![p] = 1]
    /\ GoTo(p, "fetch")
    /\ UNCHANGED <<disk, stamp, lock, published, skew, tmp>>

\* On to the second database, or done with both.
NextDb(p) ==
    \/ /\ db[p] = "city"
       /\ db' = [db EXCEPT ![p] = "asn"]
       /\ tries' = [tries EXCEPT ![p] = 1]
       /\ GoTo(p, "fetch")
    \/ /\ db[p] = "asn"
       /\ GoTo(p, "settle")
       /\ UNCHANGED <<db, tries>>

\* The mirror answers 304: the build date sent as If-Modified-Since is that
\* of the published release.
NotModified(p) ==
    /\ pc[p] = "fetch"
    /\ Valid(db[p]) /\ disk[db[p]] >= published[db[p]]
    /\ NextDb(p)
    /\ UNCHANGED <<disk, stamp, lock, published, skew, had, tmp>>

\* Mutant: a truncated or wrong file gets through _verify.
VerifiedAnything(n) == 0..n

\* What _verify lets through of a download of release n: 0 is a file that is
\* too small, of the wrong type or unreadable.
Verified(n) == {n}

\* A body arrived and passed _verify; it sits in a temporary file.
Fetched(p) ==
    /\ pc[p] = "fetch"
    /\ ~Valid(db[p]) \/ disk[db[p]] < published[db[p]]
    /\ \E n \in Verified(published[db[p]]) : tmp' = [tmp EXCEPT ![p] = n]
    /\ GoTo(p, "replace")
    /\ UNCHANGED <<disk, stamp, lock, published, skew, had, db, tries>>

\* Rejected content, a 4xx, or the last transient failure: the download of
\* this database is given up.
FetchFails(p) ==
    /\ pc[p] = "fetch"
    /\ NextDb(p)
    /\ UNCHANGED <<disk, stamp, lock, published, skew, had, tmp>>

\* The temporary file or the stamp cannot be written (OSError): the run exits
\* 1, whatever was there before stays.
Breaks(p) ==
    /\ pc[p] \in {"fetch", "settle"}
    /\ lock' = NoProc
    /\ had' = [had EXCEPT ![p] = {}]
    /\ GoTo(p, "idle")
    /\ UNCHANGED <<disk, stamp, published, skew, db, tries, tmp>>

\* Mutant: one attempt too many.
RetriesOnceMore(p) == tries[p] <= MaxAttempts

MayRetry(p) == tries[p] < MaxAttempts

\* DNS, connect, TLS, read failure or a retryable status.
FetchRetries(p) ==
    /\ pc[p] = "fetch"
    /\ MayRetry(p)
    /\ tries' = [tries EXCEPT ![p] = @ + 1]
    /\ UNCHANGED <<disk, stamp, lock, published, skew, pc, had, db, tmp>>

\* tmp.replace(target).
Replace(p) ==
    /\ pc[p] = "replace"
    /\ disk' = [disk EXCEPT ![db[p]] = tmp[p]]
    /\ tmp' = [tmp EXCEPT ![p] = 0]
    /\ NextDb(p)
    /\ UNCHANGED <<stamp, lock, published, skew, had>>

\* Mutant: one usable database is enough for the stamp.
StampIfAny == IF \E d \in Dbs : Valid(d) THEN 0 ELSE stamp

\* The stamp after a check: renewed when both files are valid, also when
\* every download failed.
NewStamp == IF Usable THEN 0 ELSE stamp

\* Mutant: a database that was never there is tolerated.
NobodyMissing(p) == FALSE

\* Databases that are not usable and were not before the check either.
NeverAvailable(p) == \E d \in Dbs \ had[p] : ~Valid(d)

\* The verdict of ensure_geoip_databases: the run goes on, or exits 1 with
\* GeoIPUnavailableError.
Settle(p) ==
    /\ pc[p] = "settle"
    /\ stamp' = NewStamp
    /\ lock' = NoProc
    /\ had' = [had EXCEPT ![p] = {}]
    /\ \/ NeverAvailable(p) /\ GoTo(p, "idle")
       \/ ~NeverAvailable(p) /\ GoTo(p, "run")
    /\ UNCHANGED <<disk, published, skew, db, tries, tmp>>

\* The run is over.
End(p) ==
    /\ pc[p] = "run"
    /\ GoTo(p, "idle")
    /\ UNCHANGED <<disk, stamp, lock, published, skew, had, db, tries, tmp>>

\* What a dying process leaves of the stamp: write_text truncates before it
\* writes.
TornStamp(p) ==
    {stamp} \cup (IF pc[p] = "settle" /\ Usable THEN {NoStamp} ELSE {})

\* The process dies; the kernel drops its lock, the files stay.
Crash(p) ==
    /\ pc[p] # "idle"
    /\ stamp' \in TornStamp(p)
    /\ GoTo(p, "idle")
    /\ lock' = IF lock = p THEN NoProc ELSE lock
    /\ had' = [had EXCEPT ![p] = {}]
    /\ tmp' = [tmp EXCEPT ![p] = 0]
    /\ UNCHANGED <<disk, published, skew, db, tries>>

\* The mirror publishes a release.
Publish(d) ==
    /\ published[d] < MaxRelease
    /\ published' = [published EXCEPT ![d] = @ + 1]
    /\ UNCHANGED <<disk, stamp, lock, skew, memory>>

\* Time passes.
Tick ==
    /\ stamp < CheckInterval
    /\ stamp' = stamp + 1
    /\ UNCHANGED <<disk, lock, published, skew, memory>>

\* The clock is set back: the stamp of a check lies in the future.
SetBack ==
    /\ skew < MaxSkew /\ stamp # NoStamp /\ stamp > -MaxSkew
    /\ skew' = skew + 1
    /\ stamp' = stamp - 1
    /\ UNCHANGED <<disk, lock, published, memory>>

ProcStep(p) ==
    \/ Enter(p)
    \/ Skip(p)
    \/ Due(p)
    \/ NotModified(p)
    \/ Fetched(p)
    \/ FetchFails(p)
    \/ FetchRetries(p)
    \/ Breaks(p)
    \/ Replace(p)
    \/ Settle(p)
    \/ End(p)

Next ==
    \/ \E p \in Procs : ProcStep(p) \/ Crash(p)
    \/ \E d \in Dbs : Publish(d)
    \/ Tick
    \/ SetBack

Spec == Init /\ [][Next]_vars

(***************************************************************************)
(* Safety                                                                  *)
(***************************************************************************)
\* A run that got past the GeoIP step has both databases on disk, whoever
\* updates them meanwhile ("the container must not silently run forever
\* without GeoIP enrichment").
RunsEnriched == \A p \in Procs : pc[p] = "run" => Usable

\* A stamp suppresses remote checks only while there is something to use.
StampHonest == stamp # NoStamp => Usable

\* A file is never replaced by an older or unusable one, wherever updaters
\* die and however many start at once ("cross-process file lock so parallel
\* container restarts don't race").
NeverBackwards == [][\A d \in Dbs : disk'[d] >= disk[d]]_vars

(***************************************************************************)
(* Liveness.  Runs come again and again, and neither crashes nor the       *)
(* network hit every single attempt for ever.                              *)
(***************************************************************************)
Fairness ==
    /\ WF_vars(Tick)
    /\ \A p \in Procs : WF_vars(ProcStep(p))
    /\ SF_vars(\E p \in Procs : Enter(p))
    /\ SF_vars(\E p \in Procs : Due(p))
    /\ SF_vars(\E p \in Procs : Replace(p))
    /\ \A d \in Dbs :
        SF_vars(\E p \in Procs : db[p] = d /\ (Fetched(p) \/ NotModified(p)))

FairSpec == Spec /\ Fairness

\* The last release reaches the disk: neither the stamp nor a valid file
\* freezes a database (_download_once: "would ... freeze the database at its
\* first downloaded version forever").
CatchesUp == \A d \in Dbs :
    published[d] = MaxRelease ~> disk[d] = MaxRelease
=============================================================================
