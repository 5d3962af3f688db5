# crowdsec-toolbox: a verification development

The repository holds two Python programs that run beside a CrowdSec Local API
(LAPI): the **abuse reporter**, which mails the abuse contact of every banned
address, and the **metrics exporter**, which writes CrowdSec's alerts to
InfluxDB 2 or QuestDB. This directory models the parts of them whose
correctness depends on order, failure and overlap, checks the models with TLC
and proves the most important results with TLAPS for all values of the
constants.

Contents: [inventory](#1-inventory), [modules and how they correspond to the
code](#2-modules), [runs and bounds](#3-runs-and-bounds),
[fairness](#4-fairness), [where code and documentation
disagree](#5-where-code-and-documentation-disagree), [proofs](#6-proofs),
[what is left out](#7-what-is-left-out), [plan](#8-plan).

`PROJECT.json` carries the same information for tools: components, runs, the
source lines of every definition (`map`), one mutant of the code model for each
checked property, the hazards and the theorems. Paths below are relative to
`src/`; `app/` means `src/crowdsec-abuse-reporter/app/` unless the exporter is
named.

To repeat a result: `tlc -workers 2 -config MCDelivery.cfg MCDelivery` for a
run, `tlapm DeliveryProofs.tla` for the proofs of a module.

## 1. Inventory

### Abuse reporter

| Part | State it keeps | Operations | What makes it hard | What makes it correct |
|---|---|---|---|---|
| Report delivery (`main.py`, `database.py`, `abuse.py`) | SQLite table `abuse_alerts`: status, CreatedAt, UpdatedAt per (AlertId, IPAddress) | batch check, claim, SMTP send with retries, finalize, reap, retention cleanup | overlapping runs, death between claim and finalize, lost SMTP acknowledgements, rows without an owner | no report goes out twice except for two known causes; claims never stay open for ever |
| Metrics outbox (`metrics.py`, `database.py`) | table `metrics_outbox`, `metric_lines` in memory, the backend's rows | spool, prune, load, post, declare, delete | partial failure in every step, lost answers, a refused line at the head of every batch, bounds | a point leaves the outbox only into the backend or past a documented bound |
| GeoIP databases (`geoip.py`) | two `.mmdb` files, stamp file, lock file | lock, freshness check, conditional download, verify, replace, stamp | processes racing, crashes between replacement and stamp, clock set back, a broken seed | no run without both databases; never an older file over a newer one; the newest release arrives |
| Decision selection (`crowdsec.py`, `main.py`) | none; reads LAPI and the table | collect bans, origin and whitelist filter, subnet deduplication, cap | order of the API's list, several bans in one alert, ranges | what is held back is held back for something better; no mail about an address nobody observed |
| Contact lookup and cache (`abusix.py`, `database.py`) | table `abuse_contacts_cache` keyed by prefix | lookup, positive and negative caching, expiry | a cached absence, failing DNS | a missing contact is asked for again |
| LAPI client (`crowdsec.py`) | none between fetches | login, list, details one by one, retries, decisions | answers minutes apart while bans come and go, transient and final failures, a limit on details | a fetch misses nothing that was in force all the while and invents nothing; a ban keeps its key |
| Container (`docker/entrypoint.sh`, `heartbeat.py`) | shell variables, the files `heartbeat` and `api_heartbeat` | run loop, heartbeat loop, metrics loop, trap, health check | signals between fork and `_MAIN_PID=$!`, subshells that end alone, checks and runs that race an outage | a stop reaches the run; the files tell an outage, and only failures age them |
| Run orchestration (`main.py`) | table `run_state`, counters | phases of a run, exit code, metrics-only snapshot | an interrupt between phases | exit code and run_state say what happened |
| Report contents (`reportbody.py`) | none | body, X-ARF, context extraction | formatting | - |
| SMTP transport (`abuse.py`) | a connection | connect, STARTTLS, login, send | failure classes | outcome only |
| Public address detection (`crowdsec.py`) | none | cascade of lookups | - | - |
| Configuration, logging, banner, DNS helpers | read at start | - | - | - |
| SQLite durability (`database.py`) | WAL, `synchronous=NORMAL` | commit | power loss undoes commits | a `sent` row survives |

### Metrics exporter

| Part | State it keeps | Operations | What makes it hard | What makes it correct |
|---|---|---|---|---|
| Run (`main.py`, `app/crowdsec.py`, `app/events.py`) | none between runs | fetch alerts, fetch events, write, declare | an interrupt exits 0, a bad line fails a batch, lost answers | repeated sends leave one row; the next run makes up for a failed one |
| Loop (`docker/entrypoint.sh`, `app/kbinterrupt.py`) | `_MAIN_PID`, heartbeat file | start the run as a child, wait, touch, sleep, trap | the signal arrives at any moment | the heartbeat vouches for a complete export; a stop ends the container |
| Backends (`app/influxdb.py`, `app/questdb.py`) | rows, deduplication keys | write, TTL and DEDUP declaration | the table exists before its keys do | - |

### How the parts interact

The reporter's entrypoint seeds the GeoIP directory and then starts `main.py`
again and again. A run updates the GeoIP databases under a file lock, opens the
SQLite file, cleans up and reaps, pushes what the outbox holds, reads the bans
from LAPI, drops the handled ones, deduplicates and caps the rest, and takes
each through contact lookup, claim, mail and finalize, collecting one metric
point per finalized report; at its end it flushes the points. All that runs
share is on disk: the SQLite file and the GeoIP directory. Runs overlap when an
operator starts one with `docker exec`, or two containers share a data
directory; `main.py:748-750` and `geoip.py:500-523` provide for it.

The exporter shares nothing with the reporter. Its shell and its run interact
through the exit status, the pid and signals, and its runs with each other
through the backend only.

## 2. Modules

```
ReportTickets                      abstract promise about one report
   ^ refined by
Delivery      <- DeliveryProofs,  MCDelivery
PointLedger                        abstract promise about the metric points
   ^ refined by
Outbox        <- OutboxProofs,    MCOutbox
GeoUpdate     <- GeoUpdateProofs, MCGeoUpdate
Selection     <- SelectionProofs, MCSelection
Lapi          <- LapiProofs,      MCLapi
Container     <- ContainerProofs, MCContainer
Exporter      <- ExporterProofs,  MCExporter
```

Each component module holds its constants with their assumption, its state,
one action per operation, its properties and its fairness. Definitions whose
comment begins with "Mutant:" are plausible bugs of the definition that
follows; no specification uses them.

The six reporter modules look at the same run from six sides. They are not
composed in this development: what one leaves out of the run appears in it as
nondeterminism (`GiveUp` of `Delivery` stands for everything `Selection` does
between the batch check and the claim; `Elsewhere` of `Selection` stands for
the other runs of `Delivery`; `Report` of `Outbox` stands for a finalized
report; `CheckOk` and `Fetch` of `Container` stand for a session of `Lapi` that
succeeds, `CheckFails` and `RunFails` for one that does not).

### Delivery

A run is one execution of `main.py`; `Runs` is a set of process slots that may
be active at once. The table is three functions on `Keys`: `status` (with
`absent` for no row), `created` and `updated`. The last two are *ages* and
saturate at `MaxAge`: the code compares timestamps with two thresholds only.

| Action | Code |
|---|---|
| `Start` | a run gets past GeoIP and `init_db` |
| `Cleanup`, `SkipCleanup` | `cleanup_old_records`: one transaction, failure logged |
| `Reap`, `SkipReap` | `reap_stale_pending` |
| `Select`, `NothingToReport` | LAPI fetch, `batch_check_processed_alerts`, filter |
| `GiveUp` | the early returns of `process_single_alert` before the claim |
| `Claim`, `AlreadyHandled` | the upsert of `claim_alert_for_send`, by its row count |
| `Send` | one attempt of the loop in `send_abuse_mail`, and its verdict |
| `Finalize`, `FinalizeFails` | `finalize_alert`, whose `UPDATE` matches any pending row |
| `Finish`, `Crash` | end of the loop, stop between two alerts, death anywhere |
| `Tick` | the clock behind `CURRENT_TIMESTAMP` |

Everything between two SQLite transactions interleaves with the other runs.
An SMTP attempt has two independent sides, what the server did (`accepted`) and
what the client learned (`reply`); a mail accepted without the client learning
it counts in `unproven`. `mails`, `unproven` and `purged` are history variables
outside the program.

Properties: `DuplicatesExplained` (a mail beyond the first needs an unproven
acceptance or a purged row), `OneHolder`, `ClaimOnRecord`, `SentWasMailed`,
`TerminalStays`, and the refinement `ImplementsTickets`; liveness
`ClaimsResolve` and `RunsEnd`. `TicketsBalance` (the first as a balance over
what may still go out) and `NoMailAfterSent` (which follows from
`ClaimOnRecord`) are proved only.

### ReportTickets

The abstract specification: every report starts with one ticket, a mail spends
one, a ticket may get lost, and a new one is issued for two reasons only. It
knows no process, row or clock. Under the refinement mapping a ticket is a
claim that is still to be made (`Open`) or an undecided run (`Undecided`), so
it is really the whole table and all runs that implement it: a late finalize
that frees a row while its owner still sends would show as a ticket from
nowhere.

### Outbox

State: the rows of `metrics_outbox` with a birth number (their id order) and an
age, each run's `metric_lines` and position in `flush_points`, and the
backend's rows per point with a flag for deduplication. InfluxDB has
deduplication from the start; QuestDB once `ensure_questdb_dedup` succeeded.

`StartFlush`/`EndFlush` are the two calls of `flush_points` in a run; `Spool`,
`Prune`, `Load`, `PostAccepted`/`PostFails`/`PostRetries`, `Declare` and
`Delete` are its steps, each of the SQLite ones with its failing twin. A failed
POST may have stored any part of the batch. `Poison` points get an HTTP error
status. `AfterPrune` and `Return` show the two ways through the function,
spooled and bare write. `ReturnEarly` is a run without alerts, which never
reaches its second flush.

Properties: `Accounted` (no point of a finalized report vanishes), the
refinement `ImplementsLedger`, `RowsLeave` (no row stays for ever); the two
violated statements of section 5. `VerdictWorth` and `CollapsesForGood`, which
say how far these two are from true, and `NoDuplicateRows` for InfluxDB are
proved only.

### PointLedger

The abstract specification: who has custody of a point. Memory (`held`) lets go
of it to the durable rows, to the backend, or as a loss on record; a durable
point leaves behind its write or to the bounds; and the backend is given only
points somebody still answers for or once answered for with success, never one
that was given up. It knows no run, batch, order or retry. Under the refinement
mapping `held` is the union of what the runs alone have (`Held`), so two runs
that took the same point for theirs, a delete that reaches beyond the batch
that was written, or a write of lines already given up would show as a step
the ledger does not have.

### GeoUpdate

A database file is the number of the release it holds, 0 for one that is
missing or fails `_verify`. `Enter` is the `flock`, held until `Skip`,
`Settle`, `Breaks` or the death of the process. `stamp` is the age of
`.geoip_last_check`, may be negative after the clock was set back, and
`TornStamp` is what a death inside `write_text` leaves. `Replace` is the atomic
rename. `Settle` renews the stamp also after failed downloads if the old files
are valid, and ends the run when a database that was never usable still is not.

Properties: `RunsEnriched`, `StampHonest`, `NeverBackwards`, `CatchesUp`.

### Selection

Which bans are reported, over one run after another. Constants describe what
LAPI holds (which alert carries which bans, the address or range of a ban, the
alert's own source); `Subject`, `Key`, `SeenAsn`, `Candidate` are the
conversion and the filter. `Fetch` takes the list into `todo`; the subnet
deduplication is the loop of the code, one decision per `Visit`, in *any*
order, with the dictionary of the best per subnet in `kept` (`Keep`); `Select`
sorts and cuts what it holds (`Capped`). The loop touches memory only, so no
step of another process or of CrowdSec falls into it (`Interruptible`): such a
step neither reads nor writes what the loop does, and comes to the same just
after it, as a death in the loop comes to one just before it. The contact cache
is keyed by the same prefix the deduplication uses: both take /24 and /48
(`main.py:94-95`, `abusix.py`), 6to4 and Teredo apart. Lookups and sends have
nondeterministic outcomes. `Deliver` marks the key handled and stands for
claim, mail and finalize, whose interleavings are `Delivery`'s subject;
`DeliverFails` leaves the key free for the next run. `Cleanup` is the transaction
of `cleanup_old_records`: cache entries past their lifetime, and any of the rows
(how old a row is, is `Delivery`'s subject too). The lifetimes of the two kinds
of entry, `NEGATIVE_CACHE_TTL_DAYS` and twice `DB_RETENTION_DAYS`, are set
independently, so either may be the longer one; `OldAge` is beyond both.

Properties: `OnePerSubnet`, `AccusesTheObserved`, `HeldBackForBetter`;
liveness `EveryBanReported`. The code does not promise that every ban is
reported: a ban whose subnet has no contact leaves no row (`main.py:742-746`),
one whose mail is refused becomes `failed`, and both come back in the next run
and take their place under `MAX_ALERTS_PER_RUN` (`main.py:585-591`) and in their
subnet again. `EveryBanReported` says that there is no other cause: if runs clean
up and complete their lists again and again, a ban that stays in force is
reported, unless one that ranks no lower (`~Better(b, c)`), itself perhaps, is
`Frustrated` or `Forgotten` again and again. What it rules out: reported bans
that go on holding a place, lower ones that stand in the way, a negative cache
entry that never goes.

### Lapi

One session with CrowdSec after another: `Begin`, the login, for a run also the
list and the details, `Derive`, `Return`. The health check ends after the
login. `LoginOk`, `ListOk`, `Retry`, `Exhausted` and `Refused` are the outcomes
of `_request_with_retry`; `Detail`, `DetailFails` and `KeepSummary` those of the
loop over the alerts, whose requests are not retried and count against
`CROWDSEC_DETAIL_LIMIT` either way. `content` is what an alert was last shown
with: the list's decisions until its detail arrives, the detail's afterwards.
`Subject` is the address the report will be about, the ban's own, the alert's
source or the one in its events, the last only if the answer had events. `Ban`
and `Expire` may happen between any two requests.

The answers are external, and the module takes them for what the code takes
them for: all decisions of an alert are in force when the answer is given
(`app/crowdsec.py:800` keeps every one and calls them active), and nothing of
an alert changes but its decisions. A full list holds the newest alerts.

`steady` and `seen` are history: the bans in force at every and at some moment
of the session. Properties: `NothingMissed`, `NoGhost`, `HiccupsForgiven`,
`KeyStable`; liveness `SessionEnds`. `KeyStable` compares all sessions of a
behaviour, not one.

### Container

The reporter's entrypoint. The shell's `pc` follows the script: `ForkBeat` to
`IntervalOk` is its start with every validation that may end it
(`ExitInvalid`), `Spawn`, `KnowRun`, `Reaped` is `run_once`, `Sleep` and `Wake`
the time to the next run. `known` holds the children whose pid is stored; only
they are told of a stop (`Addressed`), and the shell then waits for all of them
(`Stopped`). `beat` and `metrics` are the background subshells, which an invalid
interval ends (`StartBeat`, `StartMetrics`) without the shell noticing. A check
in progress when the loop is killed is left alone and may still touch its file
(`orphan`). The main run is a frame: `boot` before its signal handler is
installed, `fetch`, the list, one `report` at a time, and the exit code.

Time is a tick, taken only when every process waits (`MayTick`): `CheckMax` and
`RunMax` bound what a check and a run may take, `Older` ages the two files of
`/data`, which survive the container. `Healthy` is Docker's HEALTHCHECK without
its start period and retries.

Properties: `OutageShows` (an outage beyond a file's limit shows in the file),
`StaleByFailure` (the age is bounded by what failed since the last success),
`StopHeeded`; liveness `LoopGoesOn`, `SilentLoopShows`. With the defaults, one
check that succeeds may be 300 + 93 s after the last (three attempts of 30 s
and 3 s of delays), below the limit of 700 s; a check that fails after all its
attempts in between makes it 786 s, and then only the three retries of
HEALTHCHECK keep the container healthy. `StopHeeded` has one exception, the run
forked but not stored (`entrypoint.sh:114-115`): it is the only window, and in
it the container ends by SIGKILL. The grace time itself is Docker's; neither a
report in progress nor a fetch is cut short by a stop.

### Exporter

The entrypoint shell (`Spawn`, `RecordPid`, `Reap`, `Touch`, `NoTouch`, `Wake`,
`Shutdown`, `Gone`), its child (`Boot`, `Fetch`, `PostOk`, `PostFails`,
`Declare`, `RunFails`, `Interrupted`) and the surroundings (`Stop`, `Kill`,
`Restart`, `Ban`, `Expire`). A trap runs between two shell commands or at once
in `wait`, hence the `~Trapped` guards; `known` is FALSE between the fork and
`_MAIN_PID=$!`, and a signal taken then reaches nobody. An interrupted run
exits 0, so the exit status alone would not keep the heartbeat honest. The two
passes fetch different things: the alerts that have an active decision, and the
events of whatever alerts the window still shows. Either answer holds at most
`CROWDSEC_ALERT_LIMIT` alerts (`app/crowdsec.py:287`, `340`), of the active ones
the newest (`Newest`), as the Local API lists them; `limit` is the setting, any
of `Limits`, and alert ids grow (`Ban`).

`HeartbeatVouches` is about the step that touches the file: what the run behind
it fetched, still in `batch`, is in the backend. A run that fails drops it
(`Drop`), since nothing reads it any more. `Exported` speaks of the alerts a
full list has room for (`Listed`): one beyond it is not asked for, and gets no
row for as long as newer ones fill the list.

Properties: `HeartbeatVouches`, `DuplicatesNeedFault`; liveness `Exported`,
`StopEnds`.

## 3. Runs and bounds

| Run | Instance | What it asks |
|---|---|---|
| `delivery` | 2 runs, 1 report, 2 SMTP attempts, reaper and cleanup on, at most 2 unproven mails and 2 purged rows, crashes for ever | can overlap, crashes, reaping, cleanup or failing writes cause a mail nobody can explain? Does the path implement `ReportTickets`? Do claims and runs come to an end? |
| `delivery_contract` | 1 serial run, 1 report, `MAX_RETRIES` = 3, one lost acknowledgement, no cleanup | is a report mailed at most once, as documented? (violated) |
| `outbox` | 2 runs, 2 points, one of them refused, outbox of 1 row, age bound 1, batches of 1, 1 retry, QuestDB | does a point vanish? Does the outbox implement `PointLedger`? Does a refused point block the others for ever? |
| `outbox_dedup` | 1 serial run, 1 point, QuestDB | is a replay idempotent, as documented? (violated) |
| `outbox_verdict` | 1 serial run, 1 point, InfluxDB | does False mean spooled, as documented? (violated) |
| `geo_update` | 2 processes, 2 releases, 2 attempts, check interval 1, one clock step back | safety and liveness of the update |
| `selection` | 6 bans on 3 alerts: a range, two addresses of one subnet, a community ban, an internal address; no cap; cache times 0 and 1 | is the right ban reported, in every order of the list? |
| `selection_liveness` | 3 bans, two of one subnet, cap 1, cache times 1 (negative) and 0 (positive) | does a ban get its turn unless a better one fails for ever? Is one held back for a better one only? |
| `selection_whitelist` | 5 bans, one system whitelisted | does a whitelisted system ever get a mail? (violated) |
| `lapi` | 3 alerts with 4 bans, among them two ranges, one with its address in the events only, and a community ban; a list of 2, 1 detail, 2 attempts | does a fetch miss, invent or rename a ban? |
| `container` | 5 settings (valid, `RUN_ONCE`, an invalid interval of each kind), a run every 2 ticks, a check in every one, limits of 3 | do the heartbeat files tell an outage, and nothing else? Is a stop heeded? |
| `exporter` | 2 alerts, one of them refused by the backend, a limit of 1 or 2, events on, InfluxDB and QuestDB | safety and liveness of the exporter |

No configuration turns the deadlock check off: none of these programs may stop
for good, and the clock alone would hide it, which is why `RunsEnd`,
`RowsLeave`, `CatchesUp`, `SessionEnds`, `LoopGoesOn` and `StopEnds` ask for progress directly.

**Why the bounds are enough to be interesting.** `Delivery`: reports do not
interact except through the list of a run, so one key with two runs shows the
interleavings over a row: a holder whose row is purged, a second that claims it,
and, since slots are used again after a crash, a third that reaps. The two
history counters at 2 let each exceptional cause happen, alone, twice and
combined. The ages have one value below each threshold, one at it and one
beyond. More runs and reports are the matter of the theorems of section 6, which
hold for any number of them. `Outbox`: with one row and batches of one, a second point always exceeds the
bound, always waits behind the refused one, and overlapping flushes always load
the same row. `GeoUpdate`: two releases are what an older and a newer download
need, two processes what a race needs. `Selection`: each rule of the filter and
the ranking has a ban on either side of it, and the loop takes the list in
every order; the negative lifetime is the shorter one in `selection`, the longer
one in `selection_liveness`. The set of bans is finite, so no ban waits behind
better ones that never stop coming, as it would in the code. `Exporter`: runs
are never concurrent there; two alerts are one the backend takes and one it
refuses, alone on the list or together, the refused one the older, so that with
a limit of 1 it is crowded out, and `MaxCopies = 2` is the first duplicate. With
`Alerts = {1, 2, 3}`, `Poison = {2}` and `EventsEnabled = FALSE` a good alert is
cut off too; that instance passes as well, and refutes `Exported` with
`a \in banned` for `Listed(a)`. `Lapi`: three alerts overfill a list of
two and two listed alerts overfill one detail, so every alert is seen cut off,
detailed, failed and summarized; with two attempts a request fails once and
recovers, or fails for good. `Container`: a check and a run each take up to one
tick, sleep one and have a limit of three, so one failure in a row is within
each limit and a second is not; the sum of the ticks an outage must last is
reached before `Horizon`.

Bounds that are not constants of the code: `MaxAge` (saturation of ages),
`MaxUnproven`, `MaxPurged` (exceptional events per report: a step beyond the
bound is not taken), `MaxCopies`, `Horizon` (saturation), `MaxRelease`,
`MaxSkew`, `MaxReports`, and `CheckMax`, `RunMax`, `Grace`, the times a check, a
run and a stop may take.

## 4. Fairness

Safety runs assume none. The liveness runs assume:

* **A process that is not killed goes on** (`WF` on the steps of each run, shell
  or child): ordinary scheduling; SMTP, HTTP, DNS, child commands and
  SQLite all have a timeout in the code. `SessionEnds` of `Lapi` needs nothing
  else (`WF` on its steps): requests may fail at every turn. The one wait without, the `flock` of the
  GeoIP update, ends with the holder's step or death.
* **The clock runs** (`WF` on `Tick`; `SF` in `Container`, where a tick is
  possible only in between the steps of the processes, and crashes, stops and
  restarts could keep it from ever being possible long enough).
* **Runs come again and again**: the entrypoints loop for ever
  (`docker/entrypoint.sh` of both tools), and the container is restarted
  (`restart: always` in both compose files).
* **A fault may recur for ever, but not every single time** (`SF`): on the two
  database steps at the start of a run in `Delivery`; on the start flush and the
  prune in `Outbox`; on lock, download and replacement in `GeoUpdate`; on a start
  of a run whose cleanup succeeds in `Selection`; on fork, boot, fetch and a
  write of the alerts in `Exporter`. Without it an installation
  whose disk or network never works would refute every liveness property, and
  nothing in the code could help.

`Crash`, `Kill`, `Stop` and every failing twin have no fairness: they may happen
or not. Nothing in `Selection` assumes that a lookup or a delivery succeeds: that
runs complete their lists is a premise of `EveryBanReported` (`CleansUp` and
`[]<><<Completed>>_vars`), and failures that recur are one of its cases.

## 5. Where code and documentation disagree

Each of these is a run whose single property states what the repository says and
which TLC refutes.

1. **A report can be mailed more than once** (`delivery_contract`, `AtMostOnce`).
   `docs/abuse-reporter/delivery.md:9` says "A ban is reported at most once per
   `(AlertId, IPAddress)` pair". `send_abuse_mail` (`app/abuse.py:245`) repeats
   an attempt after any connection error, also when the server had accepted the
   message before the connection broke, and the last such failure becomes
   `failed`, which the next run claims again. `DuplicatesExplained` says what
   does hold: that, and a purged row, are the only causes.
2. **A replay to a fresh QuestDB table appends** (`outbox_dedup`,
   `NoDuplicateRows`). `docs/reference/metrics-backends.md:134` says "Replay is
   safe because it is exactly idempotent"; the deduplication keys are declared
   only after an acknowledged write (`app/metrics.py:294`). The exporter has the
   same order; `DuplicatesNeedFault` states for it that nothing else causes a
   second row.
3. **A False of `flush_points` may mean lost** (`outbox_verdict`,
   `DeferredMeansSpooled`). `app/metrics.py:319-321` says "A False return means
   the points are still spooled, not that they are lost"; when spooling and then
   the bare write fail, they are in no table.
4. **A whitelisted system may get a mail** (`selection_whitelist`,
   `WhitelistHolds`). `main.py:710` says "a whitelisted ASN must NEVER trigger a
   mail"; every ban of an alert carries the AS number of the alert's own source
   (`app/crowdsec.py:832`), so the whitelist looks at the wrong system when one
   alert bans addresses of several.

One more disagreement has no run of its own. `docs/troubleshooting.md:20-23`
says the entrypoint exits non-zero on a bad interval; for
`API_HEARTBEAT_INTERVAL` and `METRICS_INTERVAL` only the subshell exits.
`SilentLoopShows` states what does hold for the first: the container becomes
unhealthy and stays so. Nothing shows the second.

## 6. Proofs

`tlapm` proves the following for every value of the constants, from the named
assumption of each module and nothing else.

| Theorem | Statement |
|---|---|
| `DeliveryProofs!TypeCorrect` | `Spec => []TypeOK` |
| `OneHolderAlways` | two claims on a key need a purged row |
| `DeliveryImplementsTickets` | `Delivery` implements `ReportTickets` |
| `TicketsBalanceAlways`, `DuplicatesExplainedAlways` | no unexplained second mail |
| `ClaimOnRecordAlways` | while a run works on a key nobody else can claim it |
| `SentWasMailedAlways` | `sent` means mailed |
| `NoMailAfterSentAlways`, `TerminalStaysAlways` | the two action properties |
| `RunsAreBounded` | a run with finitely many reports takes boundedly many steps |
| `OutboxProofs!TypeCorrect`, `AccountedAlways` | no point vanishes |
| `OutboxImplementsLedger` | `Outbox` implements `PointLedger` |
| `VerdictWorthAlways` | what the verdict of `flush_points` is worth |
| `CollapsesForGoodAlways`, `InfluxCollapses` | when a point can be stored twice, and that InfluxDB never does |
| `FlushesAreBounded` | a run and its two flushes take boundedly many steps |
| `GeoUpdateProofs!TypeCorrect`, `LockExcludes`, `RunsEnrichedAlways`, `StampHonestAlways`, `NeverBackwardsAlways` | the update's safety, for any number of processes |
| `LockNotLeakedAlways`, `UpdatesAreBounded` | who has the lock is at work, and for boundedly many steps |
| `SelectionProofs!TypeCorrect`, `OnePerSubnetHolds`, `AccusesTheObservedHolds`, `HeldBackForBetterHolds` | what a run reports, for any list in any order |
| `WhitelistHoldsWithinSystem` | the whitelist holds where alert and address are of one system |
| `LapiProofs!TypeCorrect`, `Complete`, `Sound`, `Forgiving`, `OneSubject` | a fetch misses and invents nothing, forgives hiccups, and keeps keys |
| `SessionsAreBounded` | a session takes boundedly many steps |
| `ContainerProofs!TypeCorrect`, `OutagesShow`, `FailuresExplain`, `StopsAreHeeded` | what the heartbeat files tell, and what a stop does |
| `ExporterProofs!TypeCorrect`, `HeartbeatsVouch`, `DuplicatesExplained` | the heartbeat vouches for an export; what a second row needs |
| `StopsAreBounded` | a stop takes at most nine steps |

**Assumptions.** `DeliveryAssumption`: finitely many process slots, at least one
SMTP attempt, thresholds and bounds are natural numbers below `MaxAge`, `NoKey`
is no key. `OutboxAssumption`: finitely many points, a batch holds at least one,
a backend of the two. `GeoAssumption`: at least one attempt and one tick between
checks. `LapiAssumption`: finitely many alerts, each ban on one of them, at
least one attempt; nothing about the limits. `ContainerAssumption`: times are
natural numbers and `Horizon` is beyond the limits they are compared with.
`ExporterAssumption`: alerts and limits are natural numbers, otherwise types.
`SelectionAssumption`: finitely many bans and the types of the tables; nothing
about the cap or the lifetimes. TLC evaluates each of them in the runs of the
module. Three theorems have a hypothesis of their own: `RunsAreBounded` that there are finitely many
reports, `InfluxCollapses` that the backend is InfluxDB, which overwrites a
point of the same series and time (behaviour of InfluxDB, not of this code),
and `WhitelistHoldsWithinSystem` that a ban's address belongs to the system its
alert shows; the run `selection_whitelist` has the state in which it does not.

**Delivery.** `DuplicatesExplained` is not inductive: it does not know how many
mails may still go out. `TicketsBalance` adds them, as undecided runs plus the
open row, and is inductive together with `TypeOK`. Its steps are about the
cardinality of a set of runs of which one changes, so the proof first shows that
a step of run `r` leaves every other run where it was (`StepOthersKeep`), that
membership of one run changes a count by at most one (`CountWithout`,
`CountAfter`), and collects what each action does to one key in one lemma
(`RunEffect`, `EffectOnTotals`). The invariants and the refinement
(`StepRefines`) then are arithmetic over that lemma. `Cleanup` is the step worth
reading: it may free a row under a run that still works on it, which is where
`purged` enters. `ClaimOnRecord` follows from `OneHolder`: without a purged row a
second holder cannot exist, so a finalize can only move the row of its own run
(`SingleHolder`). `SentWasMailed` needs `DeliveredWasMailed`, because
`finalize_alert` may write `sent` onto another run's row on the word of a run
whose own row is gone.

**Outbox.** Rows are deleted two steps after the backend took them, and other
flushes run in between. `Acknowledged` says what a run knows then: all it is
about to delete is stored, and what it could not spool it still has in
`lines`. `Accounted` is inductive with it. The refinement adds `Custody`: no
two runs have a line in common, a run has lines only from its first report on,
and what a spooled flush is about to post is in the outbox, in the backend or
pruned. A step of one run then changes `Held` by what it changes of that run's
own lines (`HeldAfter`), and each action is one action of the ledger or none
(`StepLedger`). `VerdictWorth` needs the same about the lines of a run on their
way through `flush_points` (`LinesSettled`); it says that the points of a
deferred flush are lost only if they could not be spooled.

**GeoUpdate.** `Inv` adds to the properties that whoever is between lock and
unlock holds the lock (`Locked`), that databases remembered as usable still are
(`HadHolds`), and that what is about to be moved into place is no older than
what is there (`PendingNewer`). The last two are true of one process only
because no other can write meanwhile (`OnlyOneBusy`).

**Selection.** The loop invariant says that every decision already seen has one
of its subnet in `kept` which it does not beat (`Covered`), and that `kept` has
one per subnet (`Apart`). A decision that displaces another beats it, and "does
not beat" is transitive (`BetterNegativelyTransitive`), so nothing seen loses
its cover (`KeepCovers`); the order of the list never matters. At the cap,
whoever is cut off is ranked by those that are not. From there on `WorkInv`
carries what was chosen through queue, delivery and mail: still reportable,
still one per subnet.

**Ends.** That runs, flushes, updates, sessions and stops come to an end is
liveness, and needs the fairness of section 4. What the code contributes is
proved: a measure of the steps a run has left (`StepsLeft`, `StopLeft`) that
every step of its own lowers and no step of anybody else raises, with its bound
in terms of the retries and limits configured. With it, "a process that is not
killed goes on" is all that the ends rest on. The measures count retries,
reports still to come and phases; `Cardinality` of the list enters through
`FS_RemoveElement`.

**Lapi.** `NothingMissed` needs to know of every alert what it was last shown
with: a steady ban of a listed alert is in its `content`, from the list and
again from the detail (`InvContent`). That a full list cuts off the oldest
alerts comes from `Newest`. `HiccupsForgiven` counts: every
attempt but the first has a transient failure behind it, and the requests sent are those of the
phases behind plus one per detail (`InvRequests`). `KeyStable` says of every
session of a behaviour what `Subject` says of one, that the only address a
failed detail can change is into none (`InvSubjects`).

**Container.** `OutageShows` compares three clocks. Its strengthening says that
a file cannot be younger than the outage, except the main heartbeat by the run
that got its decisions before it (`InvOutage`). The bounds of
`StaleByFailure` are sums of how far the loop has got since the last success
(`InvBeat`, `InvServe`), the multiplication by the number of failures is one
lemma (`OneMore`). `StopHeeded` rests on `InvStop`: outside of the window, a run
that goes on in a stopping container is told.

**Exporter.** `HeartbeatVouches` needs that what a run has behind it is stored,
at every point between the write and the touch, also when a trap is pending
(`InvComplete`). `DuplicatesNeedFault` needs that a table without deduplication
is empty, faulty, or has the run that wrote it between write and declaration
(`InvDeclared`); what a batch adds to a table is two lemmas (`WriteRows`,
`WriteAdds`).

**Only model-checked:** the liveness properties themselves (`ClaimsResolve`,
`RunsEnd`, `RowsLeave`, `CatchesUp`, `EveryBanReported`, `SessionEnds`,
`LoopGoesOn`, `SilentLoopShows`, `Exported`, `StopEnds`): fairness and ENABLED
are out of the prover's reach. Every invariant, action property and refinement
that a passing run checks is also proved. The statements of section 5 are
refuted by TLC and have nothing to prove beyond what delimits them.

## 7. What is left out

* **The rest of the run orchestration**: `run_state`, the saturation of the
  outbox and its escalation (`app/metrics.py:355`), the snapshot a
  `METRICS_ONLY` run takes.
* **Durability**: `Delivery` takes a commit for durable. That is right when a
  process dies; with WAL and `synchronous=NORMAL` a power loss may undo it. The
  code has no step that reacts to it, so a model would show SQLite's promises.
* **SMTP transport, address detection**: request loops without state of their
  own; the outcomes are nondeterministic in the modules that use them.
* **The exporter's copy of the LAPI client**: its login, list and retries are
  line for line those of `Lapi`; its detail loop has no limit. `Exporter` takes
  its outcomes as choices.
* **Starvation**: bans that rank best and never get a contact
  (`main.py:742-746`), or whose mail is refused every time, hold the cap of
  `MAX_ALERTS_PER_RUN` in every run (`main.py:585-591`), or their subnet, and
  with `DB_RETENTION_DAYS=0` a cached absence of a contact never expires
  (`main.py:1151`). `EveryBanReported` names these as the only causes and does
  not say how long they last. In the same way a ban beyond a full list of
  `CROWDSEC_ALERT_LIMIT` has no row in the exporter's tables, and alerts listed
  with one the backend refuses have none while it is on the list
  (`Exported`).
* **A ban that expires between a failed exporter run and the next** leaves no
  row, and an alert whose time does not parse another one in every run
  (`app/influxdb.py:195`).
* **Report contents, configuration, logging, images, dashboards, docs**: text
  and constants.

Simplifications inside the modelled parts: alerts and addresses are atoms
(malformed ids and addresses are dropped by the code before the modelled
filter); 6to4 and Teredo cache keys are left out; the exporter takes CrowdSec's
times as well formed and runs in its loop mode (`RUN_ONCE` is a single turn of
it, its jitter is a `Wake`); GeoIP lookups and reader caches are left out, only
the files count; a kill in `GeoUpdate` leaves no temporary file, since none is
ever read again (they fill the tmpfs until the container ends). `Container`
takes the jitter and the interval of a sleep as one, and a check's login and
its touch of the file as one step, so of the late touches only the run's falls
into an outage.
`CROWDSEC_ALERT_LIMIT=0` and negative values mean what the Local API makes of
them and are not modelled as unlimited. The hazards these leave open are listed
in `PROJECT.json` with a note and no property.

## 8. Plan

Done: `Delivery` with `ReportTickets`, `Outbox` with `PointLedger`,
`GeoUpdate`, `Selection`, `Exporter`, `Lapi`, `Container`, and the proofs of
all of them.

Next, in this order:

1. Composition: `Delivery` with `Outbox` (a finalized report yields one point),
   and `Selection` as the abstract specification of one serial run of
   `Delivery`.
2. `RunOutcome`: `run_state`, saturation and its exit code, the snapshot loop as
   a second client of the backend; the exit code is what `Container` counts.
3. The exporter's `RUN_ONCE` and undated alerts.
4. An abstract specification of the exporter's tables, in the manner of
   `PointLedger`, and one of the update that both `GeoUpdate` processes
   implement.
