-------------------------- MODULE SelectionProofs ---------------------------
(***************************************************************************)
(* What holds of every run, for any alerts, bans, addresses and subnets,   *)
(* any cap and whitelist, and any order in which the decisions come.       *)
(***************************************************************************)
EXTENDS Selection, TLAPS

(***************************************************************************)
(* The order of the decisions                                              *)
(***************************************************************************)
\* What decides between two decisions are numbers.
LEMMA Ranked == \A b \in Bans : Confidence[b] \in Nat /\ AlertOf[b] \in Nat
BY SelectionAssumption DEF SelectionAssumption

\* A better decision is not beaten by the one it beats.
LEMMA BetterAsymmetric ==
    ASSUME NEW b \in Bans, NEW c \in Bans, Better(b, c)
    PROVE  ~Better(c, b)
BY Ranked DEF Better

\* What does not beat k, and k does not beat q, does not beat q.
LEMMA BetterNegativelyTransitive ==
    ASSUME NEW b \in Bans, NEW k \in Bans, NEW q \in Bans,
           ~Better(b, k), ~Better(k, q)
    PROVE  ~Better(b, q)
BY Ranked DEF Better

(***************************************************************************)
(* The inductive invariant                                                 *)
(***************************************************************************)
\* The decisions this run has taken up and not let go.
Chosen == sentNow \cup queue \cup ({current} \ {None})

AllReportable(S) == \A b \in S : Reportable(b)

Apart(S) == \A b, c \in S : Prefix(b) = Prefix(c) => b = c

\* Every decision seen has one in its subnet that it does not beat.
Covered == \A b \in Candidates \ todo :
    \E k \in kept : Prefix(k) = Prefix(b) /\ ~Better(b, k)

\* The deduplication, between two decisions.
LoopInv ==
    /\ pc = "dedup" => todo \subseteq Candidates /\ kept \subseteq Candidates /\ Covered
    /\ pc # "dedup" => kept = {}
    /\ Apart(kept)

\* The work of the run, from the cap to the last mail.
WorkInv ==
    /\ pc \in {"idle", "select", "dedup"} => Chosen = {}
    /\ pc = "deliver" => current # None
    /\ AllReportable(Chosen)
    /\ Apart(Chosen)

Inv == TypeOK /\ LoopInv /\ WorkInv

(***************************************************************************)
(* Lemmas about the operators of the model                                 *)
(***************************************************************************)
\* A reportable decision has an address and a key.
LEMMA ReportableTyped ==
    ASSUME NEW b \in Bans, Reportable(b)
    PROVE  Subject(b) \in Ips /\ Key(b) \in Keys /\ Prefix(b) \in Subnets
BY SelectionAssumption DEF SelectionAssumption, Reportable, Public, Key, Keys, Prefix

LEMMA CandidatesReportable == Candidates \subseteq Bans /\ AllReportable(Candidates)
BY DEF Candidates, Candidate, AllReportable

\* The list the loop filters depends on the bans and the database only.
LEMMA CandidatesFrame ==
    ASSUME UNCHANGED <<active, handled>>
    PROVE  Candidates' = Candidates
BY DEF Candidates, Candidate, Unprocessed

\* The cap only leaves decisions out.
LEMMA CappedSubset ==
    ASSUME NEW S, NEW T \in Capped(S)
    PROVE  T \subseteq S
BY DEF Capped, kSubset

LEMMA WithinApart ==
    ASSUME NEW S, NEW T, T \subseteq S, Apart(S)
    PROVE  Apart(T)
BY DEF Apart

LEMMA WithinReportable ==
    ASSUME NEW S, NEW T, T \subseteq S, AllReportable(S)
    PROVE  AllReportable(T)
BY DEF AllReportable

(***************************************************************************)
(* The deduplication                                                       *)
(***************************************************************************)
\* One more decision leaves one per subnet.
LEMMA KeepApart ==
    ASSUME NEW b \in Bans, Apart(kept)
    PROVE  Apart(Keep(b))
<1>1. CASE \A c \in Rivals(b) : Better(b, c)
    <2>1. \A c \in kept \ Rivals(b) : Prefix(c) # Prefix(b)
        BY DEF Rivals
    <2> QED
        BY <1>1, <2>1 DEF Keep, Apart
<1>2. CASE ~(\A c \in Rivals(b) : Better(b, c))
    BY <1>2 DEF Keep
<1> QED
    BY <1>1, <1>2

\* Whatever a decision displaces, it beats: nothing seen loses its cover, and
\* the decision itself is covered.
LEMMA KeepCovers ==
    ASSUME NEW b \in Bans, kept \subseteq Bans, Apart(kept),
           NEW d \in Bans,
           d = b \/ \E k \in kept : Prefix(k) = Prefix(d) /\ ~Better(d, k)
    PROVE  \E k \in Keep(b) : Prefix(k) = Prefix(d) /\ ~Better(d, k)
<1>0. ~Better(b, b)
    BY BetterAsymmetric
<1>1. CASE \A c \in Rivals(b) : Better(b, c)
    <2>1. Keep(b) = (kept \ Rivals(b)) \cup {b}
        BY <1>1 DEF Keep
    <2>2. CASE d = b
        BY <2>1, <2>2, <1>0
    <2>3. CASE \E k \in kept : Prefix(k) = Prefix(d) /\ ~Better(d, k)
        <3>1. PICK k \in kept : Prefix(k) = Prefix(d) /\ ~Better(d, k)
            BY <2>3
        <3>2. CASE k \in Rivals(b)
            <4>1. Better(b, k) /\ Prefix(k) = Prefix(b)
                BY <3>2, <1>1 DEF Rivals
            <4>2. ~Better(k, b)
                BY <4>1, BetterAsymmetric
            <4>3. ~Better(d, b)
                BY <3>1, <4>2, BetterNegativelyTransitive
            <4> QED
                BY <2>1, <3>1, <4>1, <4>3
        <3>3. CASE k \notin Rivals(b)
            BY <2>1, <3>1, <3>3
        <3> QED
            BY <3>2, <3>3
    <2> QED
        BY <2>2, <2>3
<1>2. CASE ~(\A c \in Rivals(b) : Better(b, c))
    <2>1. Keep(b) = kept
        BY <1>2 DEF Keep
    <2>2. PICK c \in kept : Prefix(c) = Prefix(b) /\ ~Better(b, c)
        BY <1>2 DEF Rivals
    <2> QED
        BY <2>1, <2>2
<1> QED
    BY <1>1, <1>2

(***************************************************************************)
(* Steps of the run that take up no new decision                           *)
(***************************************************************************)
LEMMA WorkShrinks ==
    ASSUME WorkInv, Chosen' \subseteq Chosen,
           pc' = "deliver" => current' # None,
           pc' \in {"process", "deliver"} \/ Chosen' = {}
    PROVE  WorkInv'
<1>1. Apart(Chosen') /\ AllReportable(Chosen')
    BY WithinApart, WithinReportable DEF WorkInv
<1> QED
    BY <1>1 DEF WorkInv, Apart, AllReportable

\* The loop is over, and stays so.
LEMMA LoopIdle ==
    ASSUME LoopInv, pc # "dedup", pc' # "dedup", kept' \in {kept, {}}
    PROVE  LoopInv'
<1>1. kept' = {}
    BY DEF LoopInv
<1> QED
    BY <1>1 DEF LoopInv, Apart

(***************************************************************************)
(* Types                                                                   *)
(***************************************************************************)
\* Ages are natural numbers.
LEMMA OldAgeNat == OldAge \in Nat
BY SelectionAssumption DEF SelectionAssumption, OldAge

LEMMA TypedInit == Init => TypeOK
BY OldAgeNat DEF Init, TypeOK, Entries

\* Whatever answers, the cache stays one.
LEMMA RememberTyped ==
    ASSUME TypeOK, NEW b, NEW answer \in {"none", "contact"}, Remember(b, answer)
    PROVE  cache' \in [Subnets -> Entries] /\ age' \in [Subnets -> 0..OldAge]
BY OldAgeNat DEF TypeOK, Remember, Entries

LEMMA TypedNext == TypeOK /\ WorkInv /\ [Next]_vars => TypeOK'
<1> SUFFICES ASSUME TypeOK, WorkInv, [Next]_vars PROVE TypeOK'
    OBVIOUS
<1>0. pc = "deliver" => Key(current) \in Keys /\ current \in Bans
    <2> SUFFICES ASSUME pc = "deliver" PROVE Key(current) \in Keys /\ current \in Bans
        OBVIOUS
    <2>1. current \in Bans /\ current \in Chosen
        BY DEF TypeOK, WorkInv, Chosen
    <2> QED
        BY <2>1, ReportableTyped DEF WorkInv, AllReportable
<1>a. OldAge \in Nat
    BY OldAgeNat
<1>1. CASE Start
    <2>1. CASE UNCHANGED database
        BY <1>1, <2>1 DEF Start, TypeOK, database
    <2>2. CASE handled' \in SUBSET handled
               /\ cache' = [s \in Subnets |-> IF Expired(s) THEN "miss" ELSE cache[s]]
               /\ age' = [s \in Subnets |-> IF Expired(s) THEN 0 ELSE age[s]]
        <3>1. cache' \in [Subnets -> Entries] /\ age' \in [Subnets -> 0..OldAge]
            BY <2>2, <1>a DEF TypeOK, Entries
        <3> QED
            BY <1>1, <2>2, <3>1 DEF Start, TypeOK
    <2> QED
        BY <1>1, <2>1, <2>2 DEF Start, Cleanup
<1>2. CASE NothingToDo \/ Finish
    BY <1>2 DEF NothingToDo, Finish, Leave, TypeOK, database
<1>3. CASE Fetch
    BY <1>3, CandidatesReportable DEF Fetch, TypeOK, database
<1>4. ASSUME NEW b \in Bans, Visit(b) PROVE TypeOK'
    BY <1>4 DEF Visit, Keep, TypeOK, database
<1>5. CASE Select
    <2>1. queue' \subseteq kept
        BY <1>5, CappedSubset DEF Select
    <2> QED
        BY <1>5, <2>1 DEF Select, TypeOK, database
<1>6. ASSUME NEW b \in Bans, Process(b) PROVE TypeOK'
    <2>1. CASE NoContactCached(b) \/ DnsFails(b)
        BY <2>1 DEF NoContactCached, DnsFails, TypeOK, database
    <2>2. CASE NoContact(b)
        <3>1. cache' \in [Subnets -> Entries] /\ age' \in [Subnets -> 0..OldAge]
            BY <2>2, RememberTyped DEF NoContact
        <3> QED
            BY <2>2, <3>1 DEF NoContact, TypeOK
    <2>3. CASE ContactCached(b)
        BY <2>3 DEF ContactCached, ToDelivery, TypeOK, database
    <2>4. CASE ContactFound(b)
        <3>1. cache' \in [Subnets -> Entries] /\ age' \in [Subnets -> 0..OldAge]
            BY <2>4, RememberTyped DEF ContactFound
        <3> QED
            BY <2>4, <3>1 DEF ContactFound, ToDelivery, TypeOK
    <2> QED
        BY <1>6, <2>1, <2>2, <2>3, <2>4 DEF Process
<1>7. CASE AlreadyHandled \/ DeliverFails
    BY <1>7 DEF AlreadyHandled, DeliverFails, TypeOK, database
<1>8. CASE Deliver
    BY <1>8, <1>0 DEF Deliver, TypeOK
<1>9. CASE Crash
    BY <1>9, <1>0 DEF Crash, Leave, TypeOK
<1>10. ASSUME NEW b \in Bans, Elsewhere(b) PROVE TypeOK'
    BY <1>10, ReportableTyped DEF Elsewhere, Candidate, TypeOK, memory
<1>11. ASSUME NEW b \in Bans, Appear(b) \/ Expire(b) PROVE TypeOK'
    BY <1>11 DEF Appear, Expire, TypeOK, database, memory
<1>12. CASE Tick
    BY <1>12, <1>a DEF Tick, TypeOK, memory
<1>13. CASE UNCHANGED vars
    BY <1>13 DEF vars, database, memory, TypeOK
<1> QED
    BY <1>1, <1>2, <1>3, <1>4, <1>5, <1>6, <1>7, <1>8, <1>9, <1>10, <1>11, <1>12, <1>13
    DEF Next, RunStep

(***************************************************************************)
(* The deduplication and the work of a run                                 *)
(***************************************************************************)
LEMMA LoopInit == Init => LoopInv
BY DEF Init, LoopInv, Apart

LEMMA WorkInit == Init => WorkInv
BY DEF Init, WorkInv, Chosen, AllReportable, Apart

LEMMA LoopNext == TypeOK /\ LoopInv /\ [Next]_vars => LoopInv'
<1> SUFFICES ASSUME TypeOK, LoopInv, [Next]_vars PROVE LoopInv'
    OBVIOUS
<1>1. CASE Fetch
    <2>1. Candidates' = Candidates /\ kept = {} /\ kept' = {} /\ todo' = Candidates
        BY <1>1, CandidatesFrame DEF Fetch, LoopInv, database
    <2>2. Covered'
        BY <2>1 DEF Covered
    <2> QED
        BY <1>1, <2>1, <2>2 DEF Fetch, LoopInv, Apart
<1>2. ASSUME NEW b \in Bans, Visit(b) PROVE LoopInv'
    <2>1. /\ pc = "dedup" /\ pc' = "dedup" /\ b \in todo
          /\ todo' = todo \ {b} /\ kept' = Keep(b) /\ Candidates' = Candidates
        BY <1>2, CandidatesFrame DEF Visit, database
    <2>2. /\ todo \subseteq Candidates /\ kept \subseteq Candidates /\ Covered
          /\ Apart(kept) /\ kept \subseteq Bans
        BY <2>1, CandidatesReportable DEF LoopInv
    <2>3. kept' \subseteq Candidates /\ todo' \subseteq Candidates
        BY <2>1, <2>2 DEF Keep
    <2>4. Apart(kept')
        BY <2>1, <2>2, KeepApart
    <2>5. ASSUME NEW d \in Candidates \ todo'
          PROVE  \E k \in kept' : Prefix(k) = Prefix(d) /\ ~Better(d, k)
        <3>1. d \in Bans
            BY CandidatesReportable
        <3>2. d = b \/ \E k \in kept : Prefix(k) = Prefix(d) /\ ~Better(d, k)
            BY <2>1, <2>2, <2>5 DEF Covered
        <3> QED
            BY <2>1, <2>2, <3>1, <3>2, KeepCovers
    <2>6. Covered'
        BY <2>1, <2>5 DEF Covered
    <2> QED
        BY <2>1, <2>3, <2>4, <2>6 DEF LoopInv, Apart
<1>3. CASE Tick \/ UNCHANGED vars
    <2>1. Candidates' = Candidates /\ UNCHANGED <<pc, todo, kept>>
        BY <1>3, CandidatesFrame DEF Tick, vars, database, memory
    <2> QED
        BY <2>1 DEF LoopInv, Covered, Apart
<1>4. CASE Select
    BY <1>4 DEF Select, LoopInv, Apart
<1>5. CASE Start \/ NothingToDo \/ Finish \/ AlreadyHandled \/ Deliver \/ DeliverFails \/ Crash
    <2>1. pc # "dedup" /\ pc' # "dedup" /\ kept' \in {kept, {}}
        BY <1>5 DEF Start, NothingToDo, Finish, AlreadyHandled, Deliver, DeliverFails,
            Crash, Leave, Interruptible
    <2> QED
        BY <2>1, LoopIdle
<1>6. ASSUME NEW b \in Bans, Process(b) \/ Elsewhere(b) \/ Appear(b) \/ Expire(b)
      PROVE  LoopInv'
    <2>1. pc # "dedup" /\ pc' # "dedup" /\ kept' = kept
        BY <1>6 DEF Process, NoContactCached, DnsFails, NoContact, ContactCached, ContactFound,
            ToDelivery, Elsewhere, Appear, Expire, Interruptible, memory
    <2> QED
        BY <2>1, LoopIdle
<1> QED
    BY <1>1, <1>2, <1>3, <1>4, <1>5, <1>6 DEF Next, RunStep

LEMMA WorkNext == TypeOK /\ LoopInv /\ WorkInv /\ [Next]_vars => WorkInv'
<1> SUFFICES ASSUME TypeOK, LoopInv, WorkInv, [Next]_vars PROVE WorkInv'
    OBVIOUS
<1>0. None \notin Bans
    BY SelectionAssumption DEF SelectionAssumption
<1>1. CASE Select
    <2>1. queue' \subseteq kept /\ Chosen = {}
        BY <1>1, CappedSubset DEF Select, WorkInv
    <2>2. Chosen' \subseteq kept /\ pc' = "process"
        BY <1>1, <2>1 DEF Select, Chosen
    <2>3. Apart(kept) /\ AllReportable(kept)
        BY <1>1, CandidatesReportable, WithinReportable DEF Select, LoopInv
    <2>4. Apart(Chosen') /\ AllReportable(Chosen')
        BY <2>2, <2>3, WithinApart, WithinReportable
    <2> QED
        BY <2>2, <2>4 DEF WorkInv, Apart, AllReportable
<1>2. CASE NothingToDo \/ Finish \/ Crash
    <2>1. Chosen' = {} /\ pc' = "idle"
        BY <1>2 DEF NothingToDo, Finish, Crash, Leave, Chosen
    <2> QED
        BY <2>1, WorkShrinks
<1>3. CASE Start \/ Fetch
    <2>1. Chosen = {} /\ Chosen' = Chosen /\ pc' # "deliver"
        BY <1>3 DEF Start, Fetch, WorkInv, Chosen, database
    <2> QED
        BY <2>1, WorkShrinks
<1>4. ASSUME NEW b \in Bans, Visit(b) PROVE WorkInv'
    <2>1. Chosen = {} /\ Chosen' = Chosen /\ pc' # "deliver"
        BY <1>4 DEF Visit, WorkInv, Chosen, database
    <2> QED
        BY <2>1, WorkShrinks
<1>5. ASSUME NEW b \in Bans, Process(b) PROVE WorkInv'
    <2>1. CASE NoContactCached(b) \/ DnsFails(b) \/ NoContact(b)
        <3>1. Chosen' \subseteq Chosen /\ pc' = "process"
            BY <2>1 DEF NoContactCached, DnsFails, NoContact, Chosen
        <3> QED
            BY <3>1, WorkShrinks
    <2>2. CASE ContactCached(b) \/ ContactFound(b)
        <3>1. /\ b \in queue /\ queue' = queue \ {b} /\ current' = b
              /\ pc' = "deliver" /\ sentNow' = sentNow
            BY <2>2 DEF ContactCached, ContactFound, ToDelivery
        <3>2. Chosen' \subseteq Chosen
            BY <3>1 DEF Chosen
        <3>3. current' # None
            BY <3>1, <1>0
        <3> QED
            BY <3>1, <3>2, <3>3, WorkShrinks
    <2> QED
        BY <1>5, <2>1, <2>2 DEF Process
<1>6. CASE AlreadyHandled \/ Deliver \/ DeliverFails
    <2>1. Chosen' \subseteq Chosen /\ pc' = "process"
        BY <1>6 DEF AlreadyHandled, Deliver, DeliverFails, Chosen, WorkInv
    <2> QED
        BY <2>1, WorkShrinks
<1>7. CASE \/ \E b \in Bans : Elsewhere(b) \/ Appear(b) \/ Expire(b)
           \/ Tick
           \/ UNCHANGED vars
    <2>1. Chosen' = Chosen /\ UNCHANGED <<pc, current>>
        BY <1>7 DEF Elsewhere, Appear, Expire, Tick, Chosen, memory, vars
    <2> QED
        BY <2>1 DEF WorkInv, Apart, AllReportable
<1> QED
    BY <1>1, <1>2, <1>3, <1>4, <1>5, <1>6, <1>7 DEF Next, RunStep

LEMMA Invariant == Spec => []Inv
<1>1. Init => Inv
    BY TypedInit, LoopInit, WorkInit DEF Inv
<1>2. Inv /\ [Next]_vars => Inv'
    BY TypedNext, LoopNext, WorkNext DEF Inv
<1> QED
    BY <1>1, <1>2, PTL DEF Spec

(***************************************************************************)
(* The theorems                                                            *)
(***************************************************************************)
\* The bans, the database, the cache and the memory of the run keep their
\* types; above all, every key that blocks a claim names an address.
THEOREM TypeCorrect == Spec => []TypeOK
BY Invariant, PTL DEF Inv

\* One run sends at most one report per subnet.
THEOREM OnePerSubnetHolds == Spec => []OnePerSubnet
<1>1. Inv => OnePerSubnet
    BY DEF Inv, WorkInv, Apart, Chosen, OnePerSubnet
<1> QED
    BY <1>1, Invariant, PTL

\* Every mail is about an address CrowdSec saw for that very alert.
THEOREM AccusesTheObservedHolds == Spec => []AccusesTheObserved
<1>1. Inv => AccusesTheObserved
    <2> SUFFICES ASSUME Inv, NEW b \in sentNow
                 PROVE  /\ b \notin Community
                        /\ Subject(b) \notin Internal
                        /\ Subject(b) \in {Value[b], SourceIp[AlertOf[b]]}
                        /\ Value[b] # None => Subject(b) = Value[b]
        BY DEF AccusesTheObserved
    <2>1. Reportable(b)
        BY DEF Inv, WorkInv, AllReportable, Chosen
    <2> QED
        BY <2>1 DEF Reportable, Public, Subject
<1> QED
    BY <1>1, Invariant, PTL

\* The run holds a report back only for a better one of its subnet, or for as
\* many others as the cap allows, none of which ranks lower.
THEOREM HeldBackForBetterHolds == Spec => HeldBackForBetter
<1>1. Inv /\ [Next]_vars =>
        [Select => \A b \in Candidates \ queue' :
            \/ \E q \in queue' : Prefix(q) = Prefix(b) /\ ~Better(b, q)
            \/ Cardinality(queue') = Cap /\ \A q \in queue' : ~Better(b, q)]_vars
    <2> SUFFICES ASSUME Inv, Select, NEW b \in Candidates \ queue',
                        ~(\E q \in queue' : Prefix(q) = Prefix(b) /\ ~Better(b, q))
                 PROVE  Cardinality(queue') = Cap /\ \A q \in queue' : ~Better(b, q)
        OBVIOUS
    <2>1. /\ kept \subseteq Bans /\ b \in Bans
          /\ queue' \in Capped(kept) /\ queue' \subseteq kept
        BY CandidatesReportable, CappedSubset DEF Inv, TypeOK, Select
    <2>2. PICK k \in kept : Prefix(k) = Prefix(b) /\ ~Better(b, k)
        BY DEF Inv, LoopInv, Covered, Select
    <2>3. k \notin queue'
        BY <2>2
    <2>4. Cardinality(queue') = Cap /\ \A t \in queue', s \in kept \ queue' : ~Better(s, t)
        BY <2>1, <2>2, <2>3 DEF Capped, kSubset
    <2>5. ASSUME NEW q \in queue' PROVE ~Better(b, q)
        BY <2>1, <2>2, <2>3, <2>4, BetterNegativelyTransitive
    <2> QED
        BY <2>4, <2>5
<1> QED
    BY <1>1, Invariant, PTL DEF Spec, HeldBackForBetter

\* What delimits the whitelist: where every ban that is reported is one of an
\* address of the system its alert shows, no mail goes to a whitelisted one.
THEOREM WhitelistHoldsWithinSystem ==
    ASSUME \A b \in Bans : Public(b) => AsnOf[Subject(b)] = SeenAsn(b)
    PROVE  Spec => []WhitelistHolds
<1>1. Inv => WhitelistHolds
    BY DEF Inv, TypeOK, WorkInv, AllReportable, Reportable, Chosen, WhitelistHolds
<1> QED
    BY <1>1, Invariant, PTL
=============================================================================
