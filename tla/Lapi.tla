-------------------------------- MODULE Lapi ---------------------------------
(***************************************************************************)
(* How both tools read CrowdSec's Local API: log in, list the alerts with  *)
(* an active decision, fetch the detail of some of them one by one, and    *)
(* derive one decision per ban (app/crowdsec.py of the reporter; the       *)
(* health check stops after the login, the exporter has a copy of it all   *)
(* but for the limit on details and the decisions).                        *)
(*                                                                         *)
(* The answers of one fetch are minutes apart, and CrowdSec bans and       *)
(* unbans meanwhile: what comes out is no snapshot.  The module says what  *)
(* it still is.                                                            *)
(*                                                                         *)
(* The server is external: an answer shows the decisions in force when it  *)
(* is given, newest alerts first, and an alert never changes but for them. *)
(***************************************************************************)
EXTENDS Naturals, FiniteSets

CONSTANTS
    Alerts,         \* alert ids, a greater one is newer
    Bans,           \* the decisions of all alerts
    Ips,            \* addresses
    None,           \* no address
    AlertOf,        \* the alert that carries a ban
    Community,      \* bans of origin CAPI
    Value,          \* address of a ban, None for a range
    SourceIp,       \* source.ip of an alert, or None
    EventIp,        \* "source_ip" in the meta of an alert's events, or None
    Embedded,       \* alerts the list shows with their events
    Details,        \* CROWDSEC_FETCH_ALERT_DETAILS
    DetailLimit,    \* CROWDSEC_DETAIL_LIMIT
    ListLimit,      \* DEFAULT_ALERT_FETCH_LIMIT
    MaxAttempts     \* _LAPI_MAX_ATTEMPTS

ASSUME LapiAssumption ==
    /\ Alerts \subseteq Nat
    /\ IsFiniteSet(Alerts)
    /\ AlertOf \in [Bans -> Alerts]
    /\ Community \subseteq Bans
    /\ Value \in [Bans -> Ips \cup {None}]
    /\ SourceIp \in [Alerts -> Ips \cup {None}]
    /\ EventIp \in [Alerts -> Ips \cup {None}]
    /\ Embedded \subseteq Alerts
    /\ Details \in BOOLEAN
    /\ DetailLimit \in Nat
    /\ ListLimit \in Nat
    /\ MaxAttempts \in Nat \ {0}

VARIABLES
    active,         \* decisions in force
    \* the session
    pc,
    purpose,        \* what the session is for
    attempt,        \* attempts of the request at hand
    listed,         \* alerts of the list
    content,        \* decisions an alert was shown with
    detailed,       \* alerts whose detail arrived
    todo,           \* alerts the detail loop has not reached
    spent,          \* detail requests
    derived,        \* bans of the result
    \* history, of the session but for the last
    steady,         \* bans in force ever since it began
    seen,           \* bans in force at some moment of it
    requests,       \* requests sent
    faults,         \* transient failures of a login or a list
    refused,        \* an answer was final or made no sense
    subjects        \* addresses any session derived a ban with

session == <<pc, purpose, attempt, listed, content, detailed, todo, spent, derived>>
history == <<steady, seen, requests, faults, refused, subjects>>
vars    == <<active, session, history>>

NoContent == [a \in Alerts |-> {}]

BansOf(a) == {b \in active : AlertOf[b] = a}

TypeOK ==
    /\ active \subseteq Bans
    /\ pc \in {"idle", "login", "list", "detail", "done", "failed"}
    /\ purpose \in {"health", "decisions"}
    /\ attempt \in 0..MaxAttempts
    /\ listed \subseteq Alerts
    /\ content \in [Alerts -> SUBSET Bans]
    /\ detailed \subseteq Alerts
    /\ todo \subseteq Alerts
    /\ spent \in Nat
    /\ derived \subseteq Bans
    /\ steady \subseteq Bans
    /\ seen \subseteq Bans
    /\ requests \in Nat
    /\ faults \in Nat
    /\ refused \in BOOLEAN
    /\ subjects \in [Bans -> SUBSET (Ips \cup {None})]

Init ==
    /\ active \in SUBSET Bans
    /\ pc = "idle"
    /\ purpose = "health"
    /\ attempt = 0
    /\ listed = {} /\ content = NoContent /\ detailed = {} /\ todo = {}
    /\ spent = 0
    /\ derived = {}
    /\ steady = {} /\ seen = {}
    /\ requests = 0 /\ faults = 0
    /\ refused = FALSE
    /\ subjects = [b \in Bans |-> {}]

\* A session begins: the heartbeat's, or that of a run.
Begin ==
    /\ pc = "idle"
    /\ pc' = "login"
    /\ purpose' \in {"health", "decisions"}
    /\ attempt' = 1
    /\ steady' = active
    /\ seen' = active
    /\ UNCHANGED <<active, listed, content, detailed, todo, spent, derived,
                   requests, faults, refused, subjects>>

\* The result is used, or the process dies; the next session starts anew.
Close ==
    /\ pc' = "idle"
    /\ purpose' = "health"
    /\ attempt' = 0
    /\ listed' = {} /\ content' = NoContent /\ detailed' = {} /\ todo' = {}
    /\ spent' = 0
    /\ derived' = {}
    /\ steady' = {} /\ seen' = {}
    /\ requests' = 0 /\ faults' = 0
    /\ refused' = FALSE
    /\ UNCHANGED <<active, subjects>>

Return ==
    /\ pc \in {"done", "failed"}
    /\ Close

Crash ==
    /\ pc \in {"login", "list", "detail"}
    /\ Close

(***************************************************************************)
(* Login and list, both with _request_with_retry                           *)
(***************************************************************************)
Request == requests' = requests + 1

\* The token is there; the health check has what it wants.
LoginOk ==
    /\ pc = "login"
    /\ Request
    /\ \/ purpose = "health" /\ pc' = "done" /\ UNCHANGED attempt
       \/ purpose = "decisions" /\ pc' = "list" /\ attempt' = 1
    /\ UNCHANGED <<active, purpose, listed, content, detailed, todo, spent, derived,
                   steady, seen, faults, refused, subjects>>

\* What "limit" leaves of the alerts in S.
Newest(S) == {L \in SUBSET S :
    /\ Cardinality(L) = (IF Cardinality(S) < ListLimit THEN Cardinality(S) ELSE ListLimit)
    /\ \A a \in L, x \in S \ L : a > x}

ListOk ==
    /\ pc = "list"
    /\ Request
    /\ listed' \in Newest({AlertOf[b] : b \in active})
    /\ content' = [a \in Alerts |-> IF a \in listed' THEN BansOf(a) ELSE {}]
    /\ todo' = listed'
    /\ pc' = "detail"
    /\ UNCHANGED <<active, purpose, attempt, detailed, spent, derived,
                   steady, seen, faults, refused, subjects>>

\* Mutants: a transient failure is final; one attempt too many.
NeverRetry == FALSE
OneMore == attempt <= MaxAttempts

MayRetry == attempt < MaxAttempts

\* A transport error, 429 or a 5xx status before the last attempt.
Retry ==
    /\ pc \in {"login", "list"}
    /\ MayRetry
    /\ Request
    /\ attempt' = attempt + 1
    /\ faults' = faults + 1
    /\ UNCHANGED <<active, pc, purpose, listed, content, detailed, todo, spent, derived,
                   steady, seen, refused, subjects>>

\* The same at the last attempt: CrowdSecFetchError.
Exhausted ==
    /\ pc \in {"login", "list"}
    /\ ~MayRetry
    /\ Request
    /\ faults' = faults + 1
    /\ pc' = "failed"
    /\ UNCHANGED <<active, purpose, attempt, listed, content, detailed, todo, spent, derived,
                   steady, seen, refused, subjects>>

\* Another status, no token, no JSON or not the expected shape.
Refused ==
    /\ pc \in {"login", "list"}
    /\ Request
    /\ refused' = TRUE
    /\ pc' = "failed"
    /\ UNCHANGED <<active, purpose, attempt, listed, content, detailed, todo, spent, derived,
                   steady, seen, faults, subjects>>

(***************************************************************************)
(* The detail loop                                                         *)
(***************************************************************************)
\* Mutant: the loop does not move on.
SameAgain(a) == todo

\* What the loop has left after an alert.
Onwards(a) == todo \ {a}

\* The alert the loop is at.
AtHead(a) == a \in todo /\ \A x \in todo : x <= a

\* Mutant: only details that arrived count.
ArrivedOnly(a) ==
    Details /\ a \notin Embedded /\ Cardinality(detailed) < DetailLimit

NeedsDetail(a) == Details /\ a \notin Embedded /\ spent < DetailLimit

\* The detail replaces the list's entry, decisions included.
Detail(a) ==
    /\ pc = "detail" /\ AtHead(a)
    /\ NeedsDetail(a)
    /\ Request
    /\ spent' = spent + 1
    /\ content' = [content EXCEPT ![a] = BansOf(a)]
    /\ detailed' = detailed \cup {a}
    /\ todo' = Onwards(a)
    /\ UNCHANGED <<active, pc, purpose, attempt, listed, derived,
                   steady, seen, faults, refused, subjects>>

\* Mutant: an alert without its detail is dropped.
Dropped(a) == [content EXCEPT ![a] = {}]

\* What remains of such an alert.
Fallback(a) == content

\* Any failure, which is not retried.
DetailFails(a) ==
    /\ pc = "detail" /\ AtHead(a)
    /\ NeedsDetail(a)
    /\ Request
    /\ spent' = spent + 1
    /\ content' = Fallback(a)
    /\ todo' = Onwards(a)
    /\ UNCHANGED <<active, pc, purpose, attempt, listed, detailed, derived,
                   steady, seen, faults, refused, subjects>>

KeepSummary(a) ==
    /\ pc = "detail" /\ AtHead(a)
    /\ ~NeedsDetail(a)
    /\ todo' = Onwards(a)
    /\ UNCHANGED <<active, pc, purpose, attempt, listed, content, detailed, spent, derived,
                   history>>

(***************************************************************************)
(* Decisions                                                               *)
(***************************************************************************)
\* The events' address, for alerts that came with events.
InEvents(a) == IF a \in Embedded \cup detailed THEN EventIp[a] ELSE None

\* Mutant: the events are asked before the source.
EventsFirst(b) ==
    IF Value[b] # None THEN Value[b]
    ELSE IF InEvents(AlertOf[b]) # None THEN InEvents(AlertOf[b]) ELSE SourceIp[AlertOf[b]]

\* The address a decision is about.
Subject(b) ==
    IF Value[b] # None THEN Value[b]
    ELSE IF SourceIp[AlertOf[b]] # None THEN SourceIp[AlertOf[b]] ELSE InEvents(AlertOf[b])

\* Mutant: the community's bans pass.
Everything == UNION {content[a] : a \in listed}

OwnBans == (UNION {content[a] : a \in listed}) \ Community

Derive ==
    /\ pc = "detail" /\ todo = {}
    /\ derived' = OwnBans
    /\ subjects' = [b \in Bans |->
                        IF b \in OwnBans THEN subjects[b] \cup {Subject(b)} ELSE subjects[b]]
    /\ pc' = "done"
    /\ UNCHANGED <<active, purpose, attempt, listed, content, detailed, todo, spent,
                   steady, seen, requests, faults, refused>>

\* CrowdSec bans.
Ban(b) ==
    /\ b \notin active
    /\ active' = active \cup {b}
    /\ seen' = IF pc = "idle" THEN seen ELSE seen \cup {b}
    /\ UNCHANGED <<session, steady, requests, faults, refused, subjects>>

\* A decision expires or is deleted.
Expire(b) ==
    /\ b \in active
    /\ active' = active \ {b}
    /\ steady' = steady \ {b}
    /\ UNCHANGED <<session, seen, requests, faults, refused, subjects>>

Step ==
    \/ Begin
    \/ Return
    \/ LoginOk
    \/ ListOk
    \/ Retry
    \/ Exhausted
    \/ Refused
    \/ \E a \in Alerts : Detail(a) \/ DetailFails(a) \/ KeepSummary(a)
    \/ Derive

Next ==
    \/ Step
    \/ Crash
    \/ \E b \in Bans : Ban(b) \/ Expire(b)

Spec == Init /\ [][Next]_vars

(***************************************************************************)
(* Safety                                                                  *)
(***************************************************************************)
Succeeded == pc = "done" /\ purpose = "decisions"

\* A fetch that succeeds has every ban of our own that was in force all the
\* while, but for those of alerts older than a full list: neither a detail
\* that fails nor the limit on details costs a ban ("a broken LAPI call is
\* never silently treated as nothing to report").
NothingMissed == Succeeded => \A b \in steady \ Community :
    \/ b \in derived
    \/ Cardinality(listed) = ListLimit /\ \A a \in listed : a > AlertOf[b]

\* Every decision of the result was in force at some moment of the fetch, and
\* none is the community's, although list and details are of different times.
NoGhost == derived \subseteq seen \ Community

\* A fetch fails for an answer that is final or for as many transient
\* failures as a request has attempts ("a single short LAPI hiccup must not
\* discard the whole unattended run"), and what it asks of the Local API is
\* bounded whatever the details do.
HiccupsForgiven ==
    /\ pc = "failed" => refused \/ faults >= MaxAttempts
    /\ requests <= 2 * MaxAttempts + DetailLimit

\* Whether its detail came or not, in whichever run, a ban is reported under
\* one address or under none ("enrichment availability never changes the key
\* for the same ban between runs").
KeyStable == \A b \in Bans : \A i, j \in subjects[b] \ {None} : i = j

(***************************************************************************)
(* Liveness: the process runs on, and requests have a timeout.             *)
(***************************************************************************)
FairSpec == Spec /\ WF_vars(Step)

\* Every session ends, however CrowdSec changes under it.
SessionEnds == pc # "idle" ~> pc = "idle"
=============================================================================
