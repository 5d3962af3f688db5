------------------------------ MODULE Delivery ------------------------------
(***************************************************************************)
(* The abuse reporter's delivery path: main.py takes the active bans,      *)
(* drops the ones the SQLite table abuse_alerts already handles, and for   *)
(* each remaining one claims a row, sends the mail over SMTP and records   *)
(* the outcome (app/main.py, app/database.py, app/abuse.py).               *)
(*                                                                         *)
(* A run is one execution of main.py.  The shipped entrypoint starts them  *)
(* one after another; main.py:748-750 also speaks for overlapping runs     *)
(* (docker exec, two containers on one data directory), so Runs is a set   *)
(* of process slots that may be active at once.  Every SQLite statement    *)
(* group between BEGIN and COMMIT is one step; everything between two such *)
(* groups can interleave with the other runs, and a run can die anywhere.  *)
(*                                                                         *)
(* Time is kept as the age of a row's CreatedAt and UpdatedAt, saturating  *)
(* at MaxAge: the code compares timestamps with two thresholds only.       *)
(***************************************************************************)
EXTENDS Naturals, FiniteSets

CONSTANTS
    Runs,           \* process slots that execute main.py
    Keys,           \* the (AlertId, IPAddress) pairs CrowdSec reports
    MaxRetries,     \* app/abuse.py MAX_RETRIES
    ReapAge,        \* PENDING_REAP_MINUTES in ticks, 0 disables the reaper
    RetentionAge,   \* DB_RETENTION_DAYS in ticks, 0 disables the cleanup
    MaxAge,         \* ages saturate here
    MaxUnproven,    \* bound: accepted-but-not-acknowledged mails per key
    MaxPurged,      \* bound: handled rows of a key the cleanup removes
    NoKey           \* value of cur while a run works on no key

ASSUME DeliveryAssumption ==
    /\ IsFiniteSet(Runs)            (* processes that ever touch the database *)
    /\ MaxRetries \in Nat \ {0}     (* the send loop runs at least once       *)
    /\ ReapAge \in Nat
    /\ RetentionAge \in Nat
    /\ MaxAge \in Nat
    /\ MaxAge > ReapAge /\ MaxAge > RetentionAge
    /\ MaxUnproven \in Nat
    /\ MaxPurged \in Nat
    /\ NoKey \notin Keys

VARIABLES
    \* table abuse_alerts, one row at most per key
    status, created, updated,
    \* memory of each run
    pc, todo, cur, attempt, delivered,
    \* history: what happened outside the database, per key
    mails,          \* mails an SMTP server accepted for the abuse contact
    unproven,       \* of those, the ones the sender was told had failed
    purged          \* handled rows removed by the retention cleanup

table   == <<status, created, updated>>
memory  == <<pc, todo, cur, attempt, delivered>>
history == <<mails, unproven, purged>>
vars    == <<table, memory, history>>

(***************************************************************************)
(* Rows                                                                    *)
(***************************************************************************)
Stored   == {"pending", "sent", "failed", "unknown_send_state"}
Statuses == Stored \cup {"absent"}
Ages     == 0..MaxAge

\* Statuses that keep a report out of a run.
Handled == {"sent", "pending", "unknown_send_state"}

\* What batch_check_processed_alerts leaves for a run to process.
Unhandled == {k \in Keys : status[k] \notin Handled}

\* Mutant: only a delivered report blocks another claim.
ClaimableUnlessSent(k) == status[k] # "sent"

\* The upsert of claim_alert_for_send takes effect: no row, or one that failed.
Claimable(k) == status[k] \in {"absent", "failed"}

\* Mutant: the reaper looks at the wrong rows and never finds a lost claim.
StaleFailed(k) == status[k] = "failed" /\ updated[k] > ReapAge

\* A claim nobody finalized for longer than PENDING_REAP_MINUTES.
Stale(k) == status[k] = "pending" /\ updated[k] > ReapAge

\* Rows the cleanup removes, whatever their status: it looks at CreatedAt only.
Expired == {k \in Keys : status[k] # "absent" /\ created[k] > RetentionAge}

\* Mutant: an interrupted send is queued again.
ReapToFailed == "failed"

\* Where the reaper moves a stale claim.
ReapedStatus == "unknown_send_state"

(***************************************************************************)
(* SMTP, as send_abuse_mail sees it.  "accepted" says whether a server     *)
(* took the mail for an abuse-contact address; "reply" is what the client  *)
(* learns.  A connection that breaks after the end of DATA is accepted and *)
(* transient; one of two contact addresses refused, or an error class the  *)
(* retry clauses do not list, is accepted and permanent.                   *)
(***************************************************************************)
Replies  == {"ok", "permanent", "transient"}
Outcomes == {o \in [accepted : BOOLEAN, reply : Replies] :
                o.reply = "ok" => o.accepted}

Unproven(o) == o.accepted /\ o.reply # "ok"

(***************************************************************************)
(* A run                                                                   *)
(***************************************************************************)
Labels == {"idle", "cleanup", "reap", "fetch", "report", "send", "finalize"}

Holders(k)   == {r \in Runs : pc[r] \in {"send", "finalize"} /\ cur[r] = k}

TypeOK ==
    /\ status \in [Keys -> Statuses]
    /\ created \in [Keys -> Ages]
    /\ updated \in [Keys -> Ages]
    /\ pc \in [Runs -> Labels]
    /\ todo \in [Runs -> SUBSET Keys]
    /\ cur \in [Runs -> Keys \cup {NoKey}]
    /\ attempt \in [Runs -> 0..MaxRetries]
    /\ delivered \in [Runs -> BOOLEAN]
    /\ mails \in [Keys -> Nat]
    /\ unproven \in [Keys -> 0..MaxUnproven]
    /\ purged \in [Keys -> 0..MaxPurged]
    /\ \A r \in Runs : pc[r] \in {"send", "finalize"} => cur[r] \in Keys

Init ==
    /\ status = [k \in Keys |-> "absent"]
    /\ created = [k \in Keys |-> 0]
    /\ updated = [k \in Keys |-> 0]
    /\ pc = [r \in Runs |-> "idle"]
    /\ todo = [r \in Runs |-> {}]
    /\ cur = [r \in Runs |-> NoKey]
    /\ attempt = [r \in Runs |-> 0]
    /\ delivered = [r \in Runs |-> FALSE]
    /\ mails = [k \in Keys |-> 0]
    /\ unproven = [k \in Keys |-> 0]
    /\ purged = [k \in Keys |-> 0]

GoTo(r, label) == pc' = [pc EXCEPT ![r] = label]

\* The process is gone, with everything it remembered.
Exit(r) ==
    /\ GoTo(r, "idle")
    /\ todo' = [todo EXCEPT ![r] = {}]
    /\ cur' = [cur EXCEPT ![r] = NoKey]
    /\ attempt' = [attempt EXCEPT ![r] = 0]
    /\ delivered' = [delivered EXCEPT ![r] = FALSE]

\* Mutant: the loop does not advance past the alert it just processed.
StuckOnAlert(r, k) == todo[r]

\* The alerts a run still has to process after k.
Remaining(r, k) == todo[r] \ {k}

\* main.py starts and gets past GeoIP and init_db.
Start(r) ==
    /\ pc[r] = "idle"
    /\ GoTo(r, "cleanup")
    /\ UNCHANGED <<table, history, todo, cur, attempt, delivered>>

\* cleanup_old_records commits: every row older than the retention goes.
Cleanup(r) ==
    /\ pc[r] = "cleanup"
    /\ RetentionAge > 0
    /\ LET lost == {k \in Expired : status[k] \in Handled} IN
        /\ \A k \in lost : purged[k] < MaxPurged
        /\ purged' = [k \in Keys |-> purged[k] + (IF k \in lost THEN 1 ELSE 0)]
    /\ status' = [k \in Keys |-> IF k \in Expired THEN "absent" ELSE status[k]]
    /\ created' = [k \in Keys |-> IF k \in Expired THEN 0 ELSE created[k]]
    /\ updated' = [k \in Keys |-> IF k \in Expired THEN 0 ELSE updated[k]]
    /\ GoTo(r, "reap")
    /\ UNCHANGED <<mails, unproven, todo, cur, attempt, delivered>>

\* RetentionAge is 0, or SQLite failed: the error is logged and swallowed.
SkipCleanup(r) ==
    /\ pc[r] = "cleanup"
    /\ GoTo(r, "reap")
    /\ UNCHANGED <<table, history, todo, cur, attempt, delivered>>

\* reap_stale_pending commits.
Reap(r) ==
    /\ pc[r] = "reap"
    /\ ReapAge > 0
    /\ status' = [k \in Keys |-> IF Stale(k) THEN ReapedStatus ELSE status[k]]
    /\ updated' = [k \in Keys |-> IF Stale(k) THEN 0 ELSE updated[k]]
    /\ GoTo(r, "fetch")
    /\ UNCHANGED <<created, history, todo, cur, attempt, delivered>>

\* ReapAge is 0, or SQLite failed: the error is logged and swallowed.
SkipReap(r) ==
    /\ pc[r] = "reap"
    /\ GoTo(r, "fetch")
    /\ UNCHANGED <<table, history, todo, cur, attempt, delivered>>

\* get_crowdsec_decisions returned some bans, batch_check_processed_alerts
\* read the table once and the filter kept a part of the unhandled ones.
Select(r) ==
    /\ pc[r] = "fetch"
    /\ \E chosen \in SUBSET Unhandled :
        /\ chosen # {}
        /\ todo' = [todo EXCEPT ![r] = chosen]
    /\ GoTo(r, "report")
    /\ UNCHANGED <<table, history, cur, attempt, delivered>>

\* The fetch or the batch check failed, or there is nothing to report.
NothingToReport(r) ==
    /\ pc[r] = "fetch"
    /\ Exit(r)
    /\ UNCHANGED <<table, history>>

\* process_single_alert returns before or without a claim: whitelisted ASN,
\* DNS error, no valid contact, or claim_alert_for_send raised.
GiveUp(r, k) ==
    /\ pc[r] = "report"
    /\ k \in todo[r]
    /\ todo' = [todo EXCEPT ![r] = Remaining(r, k)]
    /\ UNCHANGED <<table, history, pc, cur, attempt, delivered>>

\* The upsert changed a row: this run may send.  CreatedAt survives when a
\* failed row is taken over.
Claim(r, k) ==
    /\ pc[r] = "report"
    /\ k \in todo[r]
    /\ Claimable(k)
    /\ status' = [status EXCEPT ![k] = "pending"]
    /\ updated' = [updated EXCEPT ![k] = 0]
    /\ todo' = [todo EXCEPT ![r] = Remaining(r, k)]
    /\ cur' = [cur EXCEPT ![r] = k]
    /\ attempt' = [attempt EXCEPT ![r] = 1]
    /\ GoTo(r, "send")
    /\ UNCHANGED <<created, history, delivered>>

\* The upsert changed nothing: another run got there since the batch check.
AlreadyHandled(r, k) ==
    /\ pc[r] = "report"
    /\ k \in todo[r]
    /\ ~Claimable(k)
    /\ todo' = [todo EXCEPT ![r] = Remaining(r, k)]
    /\ UNCHANGED <<table, history, pc, cur, attempt, delivered>>

\* Mutant: one attempt too many.
RetriesOnceMore(r, o) == o.reply = "transient" /\ attempt[r] <= MaxRetries

\* Another pass of the loop in send_abuse_mail.
Retries(r, o) == o.reply = "transient" /\ attempt[r] < MaxRetries

\* One SMTP attempt of send_abuse_mail, with the verdict once the loop ends.
Send(r) ==
    /\ pc[r] = "send"
    /\ \E o \in Outcomes :
        /\ Unproven(o) => unproven[cur[r]] < MaxUnproven
        /\ mails' = [mails EXCEPT ![cur[r]] = @ + (IF o.accepted THEN 1 ELSE 0)]
        /\ unproven' = [unproven EXCEPT ![cur[r]] = @ + (IF Unproven(o) THEN 1 ELSE 0)]
        /\ \/ /\ Retries(r, o)
              /\ attempt' = [attempt EXCEPT ![r] = @ + 1]
              /\ UNCHANGED <<pc, delivered>>
           \/ /\ ~Retries(r, o)
              /\ delivered' = [delivered EXCEPT ![r] = (o.reply = "ok")]
              /\ GoTo(r, "finalize")
              /\ UNCHANGED attempt
    /\ UNCHANGED <<table, purged, todo, cur>>

\* Mutant: the two outcomes are swapped.
SwappedStatus(r) == IF delivered[r] THEN "failed" ELSE "sent"

\* The status finalize_alert writes.
FinalStatus(r) == IF delivered[r] THEN "sent" ELSE "failed"

\* Mutant: the UPDATE has no "AND Status = 'pending'".
AnyStoredRow(k) == status[k] # "absent"

\* The row the UPDATE of finalize_alert matches.
Finalizable(k) == status[k] = "pending"

\* Back to the loop of main.py for the next alert.
NextAlert(r) ==
    /\ GoTo(r, "report")
    /\ cur' = [cur EXCEPT ![r] = NoKey]
    /\ attempt' = [attempt EXCEPT ![r] = 0]
    /\ delivered' = [delivered EXCEPT ![r] = FALSE]

\* finalize_alert commits.  The row need not be the one this run claimed: it
\* carries no owner, only a status.
Finalize(r) ==
    /\ pc[r] = "finalize"
    /\ Finalizable(cur[r])
    /\ status' = [status EXCEPT ![cur[r]] = FinalStatus(r)]
    /\ updated' = [updated EXCEPT ![cur[r]] = 0]
    /\ NextAlert(r)
    /\ UNCHANGED <<created, history, todo>>

\* finalize_alert raised: SQLite failed, or no row is pending any more.  The
\* run counts a database error and goes on; the table is as it was.
FinalizeFails(r) ==
    /\ pc[r] = "finalize"
    /\ NextAlert(r)
    /\ UNCHANGED <<table, history, todo>>

\* Every alert is processed, or a SIGTERM was noticed between two of them.
Finish(r) ==
    /\ pc[r] = "report"
    /\ Exit(r)
    /\ UNCHANGED <<table, history>>

\* SIGKILL, OOM, host restart: the memory goes, the committed rows stay.
Crash(r) ==
    /\ pc[r] # "idle"
    /\ Exit(r)
    /\ UNCHANGED <<table, history>>

Older(ages) == [k \in Keys |->
    IF status[k] # "absent" /\ ages[k] < MaxAge THEN ages[k] + 1 ELSE ages[k]]

\* The clock behind CURRENT_TIMESTAMP and datetime('now').
Tick ==
    /\ created' = Older(created)
    /\ updated' = Older(updated)
    /\ UNCHANGED <<status, memory, history>>

RunStep(r) ==
    \/ Start(r)
    \/ Cleanup(r)
    \/ SkipCleanup(r)
    \/ Reap(r)
    \/ SkipReap(r)
    \/ Select(r)
    \/ NothingToReport(r)
    \/ \E k \in Keys : GiveUp(r, k) \/ Claim(r, k) \/ AlreadyHandled(r, k)
    \/ Send(r)
    \/ Finalize(r)
    \/ FinalizeFails(r)
    \/ Finish(r)

Next ==
    \/ \E r \in Runs : RunStep(r) \/ Crash(r)
    \/ Tick

Spec == Init /\ [][Next]_vars

(***************************************************************************)
(* Safety                                                                  *)
(***************************************************************************)
\* Runs that may still put a mail for k on the wire, or already failed to and
\* have yet to say so.
Undecided(k) == {r \in Holders(k) : pc[r] = "finalize" => ~delivered[r]}

Open(k) == IF status[k] \in {"absent", "failed"} THEN 1 ELSE 0

\* Mails for k that may still go out one by one.
TicketsLeft(k) == Cardinality(Undecided(k)) + Open(k)

\* Every mail for a key beyond the first is explained by a mail whose
\* acceptance the sender never learned of, or by a handled row the retention
\* cleanup removed: crashes, reaping, overlapping runs, lost database writes
\* and retries never add one (the contract of docs/abuse-reporter/delivery.md
\* and of main.py:748-750, with its two real exceptions).
DuplicatesExplained == \A k \in Keys : mails[k] <= 1 + unproven[k] + purged[k]

\* The same, made inductive: a report is a ticket that is either still to be
\* claimed, in the hands of an undecided run, or spent on a mail.
TicketsBalance == \A k \in Keys :
    mails[k] + TicketsLeft(k) <= 1 + unproven[k] + purged[k]

\* Two runs hold a claim on one key only if the cleanup removed the row under
\* the first (claim_alert_for_send: "two concurrent runs can never both send
\* the same report").
OneHolder == \A k \in Keys : Cardinality(Holders(k)) + Open(k) <= 1 + purged[k]

\* While a run sends or is about to record the outcome, the table shows its
\* claim, unless the cleanup removed it: at worst the reaper has declared it
\* lost, and in both states no other run can claim the key.
ClaimOnRecord == \A k \in Keys :
    purged[k] = 0 /\ Holders(k) # {} => status[k] \in {"pending", "unknown_send_state"}

\* A row says 'sent' only for a report some SMTP server took, although the
\* UPDATE of finalize_alert may land on a row another run claimed.
SentWasMailed == \A k \in Keys : status[k] = "sent" => mails[k] > 0

\* No mail goes out for a report the table shows as sent, unless the cleanup
\* removed a row of it before ("mail delivered; never sent again").
NoMailAfterSent == [][\A k \in Keys :
    status[k] = "sent" /\ purged[k] = 0 => mails'[k] = mails[k]]_vars

\* 'sent' and 'unknown_send_state' are terminal: a run that finalizes late,
\* after the reaper gave its claim up, cannot reopen the row for a retry.
TerminalStays == [][\A k \in Keys :
    status[k] \in {"sent", "unknown_send_state"} =>
        status'[k] \in {status[k], "absent"}]_vars

\* The delivery path keeps the promise of ReportTickets, whose tickets are
\* the claims still to be made and the undecided runs.
Tickets == INSTANCE ReportTickets WITH
    tickets <- [k \in Keys |-> TicketsLeft(k)],
    reissued <- [k \in Keys |-> unproven[k] + purged[k]]

ImplementsTickets == Tickets!Spec

\* A statement of the repository that the code does not keep:
\* docs/abuse-reporter/delivery.md:9, "A ban is reported at most once per
\* (AlertId, IPAddress) pair".
AtMostOnce == \A k \in Keys : mails[k] <= 1

(***************************************************************************)
(* Liveness.  The entrypoint starts a run whenever the last one ended, and *)
(* a run that is not killed makes progress.  Crashes may recur for ever,   *)
(* but not so that no run ever gets through its first two database steps,  *)
(* and SQLite does not fail for ever on the reaper's statement.            *)
(***************************************************************************)
Fairness ==
    /\ WF_vars(Tick)
    /\ \A r \in Runs :
        /\ WF_vars(RunStep(r))
        /\ SF_vars(Cleanup(r) \/ SkipCleanup(r))
        /\ SF_vars(Reap(r))

FairSpec == Spec /\ Fairness

\* A claim does not stay pending for ever, however its run ended: it is
\* finalized or reaped, and with it the silence about the report ends.
ClaimsResolve == \A k \in Keys : status[k] = "pending" ~> status[k] # "pending"

\* A run that started ends, however SMTP and the other runs behave.
RunsEnd == \A r \in Runs : pc[r] # "idle" ~> pc[r] = "idle"
=============================================================================
