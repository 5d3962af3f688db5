----------------------------- MODULE Selection ------------------------------
(***************************************************************************)
(* Which bans the abuse reporter reports, over one run after another: from *)
(* the alerts of the Local API to decisions (app/crowdsec.py), through the *)
(* filter, the subnet deduplication and the cap of a run (app/main.py) and *)
(* the contact lookup with its cache (app/abusix.py, app/database.py) to   *)
(* the mail.  The claim and its interleavings are the subject of Delivery; *)
(* here one run works at a time and other runs show as Elsewhere.          *)
(*                                                                         *)
(* A decision is identified with its ban.  An address stands for itself,   *)
(* its /24 or /48 is its subnet, which is also the key of the contact      *)
(* cache (6to4 and Teredo, cached by /64, are left out).                   *)
(***************************************************************************)
EXTENDS Integers, FiniteSetsExt

CONSTANTS
    Bans,           \* every decision an alert may carry
    Alerts,         \* alert ids
    Ips,            \* single addresses
    Subnets,        \* subnets of the addresses
    Asns,           \* autonomous systems
    None,           \* absent value
    AlertOf,        \* alert that carries a ban
    Value,          \* value of a ban: an address, or None for a range
    Community,      \* bans of origin CAPI
    Confidence,     \* confidence of a ban
    SourceIp,       \* source.ip of an alert, None if absent
    SourceAsn,      \* source.as_number of an alert, None if absent
    SubnetOf,       \* subnet of an address
    AsnOf,          \* the system an address belongs to
    Internal,       \* addresses that are not public
    Whitelist,      \* WHITELISTED_ASN
    Cap,            \* MAX_ALERTS_PER_RUN, 0 for no cap
    CleansUp,       \* DB_RETENTION_DAYS > 0
    NegativeTtl,    \* NEGATIVE_CACHE_TTL_DAYS in ticks
    PositiveTtl     \* twice DB_RETENTION_DAYS in ticks

ASSUME SelectionAssumption ==
    /\ IsFiniteSet(Bans)
    /\ Alerts \subseteq Nat
    /\ AlertOf \in [Bans -> Alerts]
    /\ Value \in [Bans -> Ips \cup {None}]
    /\ Community \subseteq Bans
    /\ Confidence \in [Bans -> Nat]
    /\ SourceIp \in [Alerts -> Ips \cup {None}]
    /\ SourceAsn \in [Alerts -> Asns \cup {None}]
    /\ SubnetOf \in [Ips -> Subnets]
    /\ AsnOf \in [Ips -> Asns]
    /\ Internal \subseteq Ips
    /\ Whitelist \subseteq Asns
    /\ Cap \in Nat
    /\ CleansUp \in BOOLEAN
    /\ NegativeTtl \in Nat
    /\ PositiveTtl \in Nat
    /\ None \notin Bans \cup Ips \cup Asns

VARIABLES
    active,         \* bans CrowdSec holds
    \* the database
    handled,        \* keys with a row that blocks a claim
    cache,          \* contact cache per subnet: "miss", "none" or "contact"
    age,            \* ticks since updated_at
    \* memory of the run
    pc,
    todo,           \* decisions the deduplication has still to look at
    kept,           \* decisions its subnets hold
    queue,          \* decisions the run still has to process
    current,        \* the one it is about to claim and send
    \* history
    sentNow         \* bans this run sent a mail for

database == <<handled, cache, age>>
memory   == <<pc, todo, kept, queue, current>>
vars     == <<active, database, memory, sentNow>>

Entries == {"miss", "none", "contact"}

\* Ages saturate beyond both lifetimes, of which either may be the longer one.
OldAge == 1 + IF NegativeTtl > PositiveTtl THEN NegativeTtl ELSE PositiveTtl

(***************************************************************************)
(* From alerts to decisions                                                *)
(***************************************************************************)
\* Mutant: a range is reported under another of its addresses.
NetworkAddress(b) ==
    IF Value[b] # None
    THEN Value[b]
    ELSE CHOOSE i \in Ips : i # SourceIp[AlertOf[b]]

\* The address a decision is about: the ban's own, or for a range the one
\* its alert was raised for.
Subject(b) == IF Value[b] # None THEN Value[b] ELSE SourceIp[AlertOf[b]]

\* Mutant: one row per alert.
AlertOnly(b) == <<AlertOf[b], None>>

\* Idempotency key of a report.
Key(b) == <<AlertOf[b], Subject(b)>>

Keys == Alerts \X Ips

\* The system a decision shows: that of its alert's source, whatever address
\* it is about.
SeenAsn(b) == SourceAsn[AlertOf[b]]

Public(b) == Subject(b) \in Ips \ Internal

(***************************************************************************)
(* The filter of a run                                                     *)
(***************************************************************************)
\* Mutant: processed reports stay in the list.
ProcessedToo(b) == TRUE

Unprocessed(b) == Key(b) \notin handled

Reportable(b) == b \notin Community /\ SeenAsn(b) \notin Whitelist /\ Public(b)

Candidate(b) == b \in active /\ Unprocessed(b) /\ Reportable(b)

Candidates == {b \in Bans : Candidate(b)}

\* Higher confidence first, then the newer alert.
Better(b, c) ==
    \/ Confidence[b] > Confidence[c]
    \/ Confidence[b] = Confidence[c] /\ AlertOf[b] > AlertOf[c]

Prefix(b) == SubnetOf[Subject(b)]

\* Mutant: every address is a subnet of its own.
RivalsPerHost(b) == {c \in kept : Subject(c) = Subject(b)}

\* What the subnet of a decision holds so far.
Rivals(b) == {c \in kept : Prefix(c) = Prefix(b)}

\* Mutant: the first decision of a subnet stays.
KeepFirst(b) == IF Rivals(b) = {} THEN kept \cup {b} ELSE kept

\* A decision takes its subnet when it is better than the one there.
Keep(b) ==
    IF \A c \in Rivals(b) : Better(b, c) THEN (kept \ Rivals(b)) \cup {b} ELSE kept

\* Mutant: the cap cuts the list in the order it happens to have.
CappedAnyhow(S) == IF Cap = 0 \/ Cardinality(S) <= Cap THEN {S} ELSE kSubset(Cap, S)

\* The best Cap of S, if there are more.
Capped(S) ==
    IF Cap = 0 \/ Cardinality(S) <= Cap
    THEN {S}
    ELSE {T \in kSubset(Cap, S) : \A t \in T, s \in S \ T : ~Better(s, t)}

-----------------------------------------------------------------------------
TypeOK ==
    /\ active \subseteq Bans
    /\ handled \subseteq Keys
    /\ cache \in [Subnets -> Entries]
    /\ age \in [Subnets -> 0..OldAge]
    /\ pc \in {"idle", "select", "dedup", "process", "deliver"}
    /\ todo \subseteq Bans
    /\ kept \subseteq Bans
    /\ queue \subseteq Bans
    /\ current \in Bans \cup {None}
    /\ sentNow \subseteq Bans

Init ==
    /\ active \in SUBSET Bans
    /\ handled = {}
    /\ cache = [s \in Subnets |-> "miss"]
    /\ age = [s \in Subnets |-> 0]
    /\ pc = "idle"
    /\ todo = {}
    /\ kept = {}
    /\ queue = {}
    /\ current = None
    /\ sentNow = {}

\* Mutant: the cleanup forgets the negative entries.
PositiveExpired(s) == cache[s] = "contact" /\ age[s] > PositiveTtl

\* Entries the cleanup deletes.
Expired(s) ==
    \/ cache[s] = "none" /\ age[s] > NegativeTtl
    \/ cache[s] = "contact" /\ age[s] > PositiveTtl

\* Cache entries and rows past their lifetime go in one transaction, whose
\* failure is not fatal.  How old a row is, is left open.
Cleanup ==
    \/ UNCHANGED database
    \/ /\ CleansUp
       /\ handled' \in SUBSET handled
       /\ cache' = [s \in Subnets |-> IF Expired(s) THEN "miss" ELSE cache[s]]
       /\ age' = [s \in Subnets |-> IF Expired(s) THEN 0 ELSE age[s]]

\* The run starts and cleans up.
Start ==
    /\ pc = "idle"
    /\ pc' = "select"
    /\ Cleanup
    /\ UNCHANGED <<active, todo, kept, queue, current, sentNow>>

\* The run returns.
Leave ==
    /\ pc' = "idle"
    /\ todo' = {}
    /\ kept' = {}
    /\ queue' = {}
    /\ current' = None
    /\ sentNow' = {}

\* The Local API cannot be read, or nothing is left to report.
NothingToDo ==
    /\ pc = "select"
    /\ Leave
    /\ UNCHANGED <<active, database>>

\* The list is fetched and filtered.
Fetch ==
    /\ pc = "select"
    /\ Candidates # {}
    /\ todo' = Candidates
    /\ pc' = "dedup"
    /\ UNCHANGED <<active, database, kept, queue, current, sentNow>>

\* The deduplication looks at one more decision; the list may have any order.
Visit(b) ==
    /\ pc = "dedup" /\ b \in todo
    /\ todo' = todo \ {b}
    /\ kept' = Keep(b)
    /\ UNCHANGED <<active, database, pc, queue, current, sentNow>>

\* What the subnets hold is capped and becomes the work of the run.
Select ==
    /\ pc = "dedup" /\ todo = {}
    /\ queue' \in Capped(kept)
    /\ kept' = {}
    /\ pc' = "process"
    /\ UNCHANGED <<active, database, todo, current, sentNow>>

\* The next decision has no contact: a negative cache entry.
NoContactCached(b) ==
    /\ pc = "process" /\ b \in queue
    /\ cache[Prefix(b)] = "none"
    /\ queue' = queue \ {b}
    /\ UNCHANGED <<active, database, pc, todo, kept, current, sentNow>>

\* DNS fails; nothing is cached.
DnsFails(b) ==
    /\ pc = "process" /\ b \in queue
    /\ cache[Prefix(b)] = "miss"
    /\ queue' = queue \ {b}
    /\ UNCHANGED <<active, database, pc, todo, kept, current, sentNow>>

\* The answer is cached, unless the insert fails.
Remember(b, answer) ==
    \/ /\ cache' = [cache EXCEPT ![Prefix(b)] = answer]
       /\ age' = [age EXCEPT ![Prefix(b)] = 0]
    \/ UNCHANGED <<cache, age>>

\* DNS answers that there is no contact, or gives one no mail can go to.
NoContact(b) ==
    /\ pc = "process" /\ b \in queue
    /\ cache[Prefix(b)] = "miss"
    /\ Remember(b, "none")
    /\ queue' = queue \ {b}
    /\ UNCHANGED <<active, handled, pc, todo, kept, current, sentNow>>

ToDelivery(b) ==
    /\ queue' = queue \ {b}
    /\ current' = b
    /\ pc' = "deliver"
    /\ UNCHANGED <<todo, kept>>

ContactCached(b) ==
    /\ pc = "process" /\ b \in queue
    /\ cache[Prefix(b)] = "contact"
    /\ ToDelivery(b)
    /\ UNCHANGED <<active, database, sentNow>>

ContactFound(b) ==
    /\ pc = "process" /\ b \in queue
    /\ cache[Prefix(b)] = "miss"
    /\ Remember(b, "contact")
    /\ ToDelivery(b)
    /\ UNCHANGED <<active, handled, sentNow>>

\* The claim is refused: another run has the key.
AlreadyHandled ==
    /\ pc = "deliver"
    /\ Key(current) \in handled
    /\ current' = None
    /\ pc' = "process"
    /\ UNCHANGED <<active, database, todo, kept, queue, sentNow>>

\* Claimed, mailed and finalized; a finalize that fails leaves a pending row,
\* which blocks the key as well.
Deliver ==
    /\ pc = "deliver"
    /\ Key(current) \notin handled
    /\ handled' = handled \cup {Key(current)}
    /\ sentNow' = sentNow \cup {current}
    /\ current' = None
    /\ pc' = "process"
    /\ UNCHANGED <<active, cache, age, todo, kept, queue>>

\* The claim raises, or SMTP refuses the mail: the next run may try again.
DeliverFails ==
    /\ pc = "deliver"
    /\ current' = None
    /\ pc' = "process"
    /\ UNCHANGED <<active, database, todo, kept, queue, sentNow>>

\* The list is done, or a stop signal ends it early.
Finish ==
    /\ pc = "process"
    /\ Leave
    /\ UNCHANGED <<active, database>>

\* The deduplication works on the list in memory alone: what happens around it
\* comes just before or after, with the same effect.
Interruptible == pc # "dedup"

\* The process dies; a claim it holds stays in the database.
Crash ==
    /\ pc # "idle" /\ Interruptible
    /\ Leave
    /\ handled' \in {handled} \cup
        (IF pc = "deliver" THEN {handled \cup {Key(current)}} ELSE {})
    /\ UNCHANGED <<active, cache, age>>

\* Another run handles a decision.
Elsewhere(b) ==
    /\ Candidate(b) /\ Interruptible
    /\ handled' = handled \cup {Key(b)}
    /\ UNCHANGED <<active, cache, age, memory, sentNow>>

\* CrowdSec bans or unbans.
Appear(b) ==
    /\ b \notin active /\ Interruptible
    /\ active' = active \cup {b}
    /\ UNCHANGED <<database, memory, sentNow>>

Expire(b) ==
    /\ b \in active /\ Interruptible
    /\ active' = active \ {b}
    /\ UNCHANGED <<database, memory, sentNow>>

\* A day passes for the cache.
Tick ==
    /\ \E s \in Subnets : cache[s] # "miss" /\ age[s] < OldAge
    /\ age' = [s \in Subnets |->
                IF cache[s] # "miss" /\ age[s] < OldAge THEN age[s] + 1 ELSE age[s]]
    /\ UNCHANGED <<active, handled, cache, memory, sentNow>>

Process(b) ==
    \/ NoContactCached(b)
    \/ DnsFails(b)
    \/ NoContact(b)
    \/ ContactCached(b)
    \/ ContactFound(b)

RunStep ==
    \/ Start
    \/ NothingToDo
    \/ Fetch
    \/ \E b \in Bans : Visit(b) \/ Process(b)
    \/ Select
    \/ AlreadyHandled
    \/ Deliver
    \/ DeliverFails
    \/ Finish

Next ==
    \/ RunStep
    \/ Crash
    \/ \E b \in Bans : Elsewhere(b) \/ Appear(b) \/ Expire(b)
    \/ Tick

Spec == Init /\ [][Next]_vars

(***************************************************************************)
(* Safety                                                                  *)
(***************************************************************************)
\* One run sends at most one report per subnet, however its list is ordered
\* ("Smart subnet deduplication").
OnePerSubnet == \A b, c \in sentNow : Prefix(b) = Prefix(c) => b = c

\* Every mail is about an address CrowdSec saw for that very alert, banned
\* here and not by the community ("Never collapse a Range decision").
AccusesTheObserved == \A b \in sentNow :
    /\ b \notin Community
    /\ Subject(b) \notin Internal
    /\ Subject(b) \in {Value[b], SourceIp[AlertOf[b]]}
    /\ Value[b] # None => Subject(b) = Value[b]

\* A report is held back only for a better one: of its subnet, or under the
\* cap for Cap others none of which ranks lower ("the cap keeps the most
\* relevant alerts").
HeldBackForBetter ==
    [][Select => \A b \in Candidates \ queue' :
        \/ \E q \in queue' : Prefix(q) = Prefix(b) /\ ~Better(b, q)
        \/ Cardinality(queue') = Cap /\ \A q \in queue' : ~Better(b, q)]_vars

\* No report goes to a whitelisted system ("a whitelisted ASN must NEVER
\* trigger a mail").
WhitelistHolds == \A b \in sentNow : AsnOf[Subject(b)] \notin Whitelist

(***************************************************************************)
(* Liveness.  Time passes, and the cleanup does not fail every single time *)
(* it has something to delete.  Nothing else is promised: the Local API,   *)
(* DNS and SMTP may fail a decision for ever, and a subnet may never have  *)
(* a contact.                                                              *)
(***************************************************************************)
Fairness ==
    /\ WF_vars(Tick)
    /\ SF_vars(Start /\ \A s \in Subnets : Expired(s) => cache'[s] = "miss")

FairSpec == Spec /\ Fairness

\* A run that has been through its whole list.
Completed == Finish /\ queue = {}

\* An attempt to report a ban not reported yet that comes to nothing outside of
\* this program: no answer from DNS, no contact for its subnet, a claim that
\* raises or a mail refused.
Frustrated(b) ==
    /\ Key(b) \notin handled
    /\ \/ DnsFails(b)
       \/ \E d \in Bans : Prefix(d) = Prefix(b) /\ NoContact(d)
       \/ current = b /\ DeliverFails

\* A report of a ban is forgotten with its row.
Forgotten(b) == Key(b) \in handled /\ Key(b) \notin handled'

\* As long as runs clean up and complete their lists, a ban that stays in force
\* is reported in the end, unless one that ranks no lower (itself, perhaps) is
\* frustrated or forgotten again and again.  Bans already reported hold no place
\* under the cap or in their subnet, a lower one never stands in the way, and a
\* cached absence of a contact is asked about again.
EveryBanReported == CleansUp /\ []<><<Completed>>_vars => \A b \in Bans :
    \/ \E c \in Bans : ~Better(b, c) /\ []<><<Frustrated(c) \/ Forgotten(c)>>_vars
    \/ b \in active /\ Reportable(b) ~> Key(b) \in handled \/ b \notin active
=============================================================================
