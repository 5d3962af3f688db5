----------------------------- MODULE LapiProofs ------------------------------
(***************************************************************************)
(* What holds of every fetch, for any alerts, bans, limits and number of   *)
(* attempts.                                                               *)
(***************************************************************************)
EXTENDS Lapi, FiniteSetTheorems, TLAPS

(***************************************************************************)
(* The list                                                                *)
(***************************************************************************)
\* A list that left an alert out is full, and all it has is newer.
LEMMA NewestFull ==
    ASSUME NEW S, IsFiniteSet(S), NEW L \in Newest(S), NEW x \in S \ L
    PROVE  Cardinality(L) = ListLimit /\ \A a \in L : a > x
<1>1. L \subseteq S /\ \A a \in L : a > x
    BY DEF Newest
<1>2. Cardinality(L) # Cardinality(S)
    BY <1>1, FS_Subset
<1> QED
    BY <1>1, <1>2 DEF Newest

(***************************************************************************)
(* Types                                                                   *)
(***************************************************************************)
LEMMA NothingShown == NoContent \in [Alerts -> SUBSET Bans] /\ \A a \in Alerts : NoContent[a] = {}
BY DEF NoContent

LEMMA CloseTyped == TypeOK /\ Close => TypeOK'
<1> SUFFICES ASSUME TypeOK, Close PROVE TypeOK'
    OBVIOUS
<1>1. content' \in [Alerts -> SUBSET Bans]
    BY NothingShown DEF Close
<1>2. attempt' \in 0..MaxAttempts
    BY LapiAssumption DEF Close, LapiAssumption
<1> QED
    BY <1>1, <1>2 DEF Close, TypeOK

\* Every variable of the client keeps its type.
THEOREM TypeCorrect == Spec => []TypeOK
<1>1. Init => TypeOK
    <2> SUFFICES ASSUME Init PROVE TypeOK
        OBVIOUS
    <2> USE LapiAssumption DEF Init, LapiAssumption
    <2>1. active \subseteq Bans /\ attempt \in 0..MaxAttempts
        OBVIOUS
    <2>2. content \in [Alerts -> SUBSET Bans]
        BY NothingShown
    <2>3. subjects \in [Bans -> SUBSET (Ips \cup {None})]
        OBVIOUS
    <2> QED
        BY <2>1, <2>2, <2>3 DEF TypeOK
<1>2. TypeOK /\ [Next]_vars => TypeOK'
    <2> SUFFICES ASSUME TypeOK, [Next]_vars PROVE TypeOK'
        OBVIOUS
    <2> USE LapiAssumption DEF TypeOK, LapiAssumption
    <2>1. CASE Begin
        BY <2>1 DEF Begin
    <2>2. CASE Return
        BY <2>2, CloseTyped DEF Return
    <2>3. CASE LoginOk
        BY <2>3 DEF LoginOk, Request
    <2>4. CASE ListOk
        <3>1. listed' \subseteq Alerts
            BY <2>4 DEF ListOk, Newest
        <3> QED
            BY <2>4, <3>1 DEF ListOk, Request, BansOf
    <2>5. CASE Retry
        BY <2>5 DEF Retry, Request, MayRetry
    <2>6. CASE Exhausted
        BY <2>6 DEF Exhausted, Request
    <2>7. CASE Refused
        BY <2>7 DEF Refused, Request
    <2>8. ASSUME NEW a \in Alerts, Detail(a) PROVE TypeOK'
        BY <2>8 DEF Detail, Request, BansOf, Onwards
    <2>9. ASSUME NEW a \in Alerts, DetailFails(a) PROVE TypeOK'
        BY <2>9 DEF DetailFails, Request, Fallback, Onwards
    <2>10. ASSUME NEW a \in Alerts, KeepSummary(a) PROVE TypeOK'
        BY <2>10 DEF KeepSummary, Onwards, history
    <2>11. CASE Derive
        <3>1. \A b \in Bans : Subject(b) \in Ips \cup {None}
            BY DEF Subject, InEvents
        <3>2. OwnBans \subseteq Bans
            BY DEF OwnBans
        <3> QED
            BY <2>11, <3>1, <3>2 DEF Derive
    <2>12. CASE Crash
        BY <2>12, CloseTyped DEF Crash
    <2>13. ASSUME NEW b \in Bans, Ban(b) PROVE TypeOK'
        BY <2>13 DEF Ban, session
    <2>14. ASSUME NEW b \in Bans, Expire(b) PROVE TypeOK'
        BY <2>14 DEF Expire, session
    <2>15. CASE UNCHANGED vars
        BY <2>15 DEF vars, session, history
    <2> QED
        BY <2>1, <2>2, <2>3, <2>4, <2>5, <2>6, <2>7, <2>8, <2>9, <2>10, <2>11,
           <2>12, <2>13, <2>14, <2>15 DEF Next, Step
<1> QED
    BY <1>1, <1>2, PTL DEF Spec

(***************************************************************************)
(* The result                                                              *)
(***************************************************************************)
\* What a list may leave out.
LeftOut(b) == Cardinality(listed) = ListLimit /\ \A a \in listed : a > AlertOf[b]

\* A ban that never went out of force is in what its alert was shown with,
\* and nothing is there that was never in force.
InvContent ==
    /\ steady \subseteq active
    /\ pc = "idle" => seen = {} /\ derived = {}
    /\ pc # "idle" => active \subseteq seen
    /\ \A a \in Alerts : content[a] \subseteq seen
    /\ pc = "detail" => \A b \in steady :
           (AlertOf[b] \in listed /\ b \in content[AlertOf[b]]) \/ LeftOut(b)

\* An address is that of the ban itself, or of its alert, as long as one of
\* them is known.
Fixed(b) ==
    IF Value[b] # None THEN Value[b]
    ELSE IF SourceIp[AlertOf[b]] # None THEN SourceIp[AlertOf[b]] ELSE EventIp[AlertOf[b]]

InvSubjects == \A b \in Bans : subjects[b] \subseteq {None, Fixed(b)}

\* What each request may have cost so far.
InvRequests ==
    /\ spent <= DetailLimit
    /\ pc = "idle" => requests = 0
    /\ pc = "login" => attempt >= 1 /\ requests < attempt /\ attempt <= faults + 1
    /\ pc = "list" => attempt >= 1 /\ requests < MaxAttempts + attempt /\ attempt <= faults + 1
    /\ pc \in {"detail", "done", "failed"} => requests <= 2 * MaxAttempts + spent
    /\ pc = "failed" => refused \/ faults >= MaxAttempts

LEMMA InOwnBans ==
    \A b : b \in OwnBans <=> b \notin Community /\ \E a \in listed : b \in content[a]
BY DEF OwnBans

LEMMA ContentStep ==
    ASSUME TypeOK, InvContent, NothingMissed, NoGhost, [Next]_vars
    PROVE  InvContent' /\ NothingMissed' /\ NoGhost'
<1> USE LapiAssumption DEF LapiAssumption, TypeOK, InvContent, NothingMissed, NoGhost, Succeeded, LeftOut
<1>1. CASE Begin
    BY <1>1 DEF Begin
<1>2. CASE Return
    BY <1>2, NothingShown DEF Return, Close
<1>3. CASE LoginOk
    BY <1>3 DEF LoginOk
<1>4. CASE ListOk
    <2> DEFINE S == {AlertOf[b] : b \in active}
    <2>1. IsFiniteSet(S)
        BY FS_Subset
    <2>2. ASSUME NEW b \in steady
          PROVE  (AlertOf[b] \in listed' /\ b \in content'[AlertOf[b]]) \/ LeftOut(b)'
        <3>1. AlertOf[b] \in S /\ b \in BansOf(AlertOf[b])
            BY DEF BansOf
        <3>2. CASE AlertOf[b] \in listed'
            BY <1>4, <3>1, <3>2 DEF ListOk
        <3>3. CASE AlertOf[b] \notin listed'
            BY <1>4, <2>1, <3>1, <3>3, NewestFull DEF ListOk
        <3> QED
            BY <3>2, <3>3
    <2>3. \A a \in Alerts : content'[a] \subseteq seen
        BY <1>4 DEF ListOk, BansOf
    <2> QED
        BY <1>4, <2>2, <2>3 DEF ListOk
<1>5. CASE Retry
    BY <1>5 DEF Retry
<1>6. CASE Exhausted
    BY <1>6 DEF Exhausted
<1>7. CASE Refused
    BY <1>7 DEF Refused
<1>8. ASSUME NEW a \in Alerts, Detail(a) PROVE InvContent' /\ NothingMissed' /\ NoGhost'
    <2>1. \A x \in Alerts : content'[x] = IF x = a THEN BansOf(a) ELSE content[x]
        BY <1>8 DEF Detail
    <2>2. \A b \in steady : b \in BansOf(AlertOf[b])
        BY DEF BansOf
    <2>3. \A x \in Alerts : content'[x] \subseteq seen
        BY <1>8, <2>1 DEF Detail, BansOf
    <2>4. \A b \in steady : AlertOf[b] \in Alerts
        OBVIOUS
    <2> QED
        BY <1>8, <2>1, <2>2, <2>3, <2>4 DEF Detail
<1>9. ASSUME NEW a \in Alerts, DetailFails(a) PROVE InvContent' /\ NothingMissed' /\ NoGhost'
    BY <1>9 DEF DetailFails, Fallback
<1>10. ASSUME NEW a \in Alerts, KeepSummary(a) PROVE InvContent' /\ NothingMissed' /\ NoGhost'
    BY <1>10 DEF KeepSummary, history
<1>11. CASE Derive
    <2>1. OwnBans \subseteq seen \ Community
        <3> SUFFICES ASSUME NEW b \in OwnBans PROVE b \in seen \ Community
            OBVIOUS
        <3>1. PICK a \in listed : b \in content[a]
            BY InOwnBans
        <3> QED
            BY <3>1, InOwnBans
    <2>2. ASSUME NEW b \in steady \ Community PROVE b \in OwnBans \/ LeftOut(b)
        <3>1. (AlertOf[b] \in listed /\ b \in content[AlertOf[b]]) \/ LeftOut(b)
            BY <1>11 DEF Derive
        <3> QED
            BY <3>1, InOwnBans
    <2> QED
        BY <1>11, <2>1, <2>2 DEF Derive
<1>12. CASE Crash
    BY <1>12, NothingShown DEF Crash, Close
<1>13. ASSUME NEW b \in Bans, Ban(b) PROVE InvContent' /\ NothingMissed' /\ NoGhost'
    BY <1>13 DEF Ban, session
<1>14. ASSUME NEW b \in Bans, Expire(b) PROVE InvContent' /\ NothingMissed' /\ NoGhost'
    BY <1>14 DEF Expire, session
<1>15. CASE UNCHANGED vars
    BY <1>15 DEF vars, session, history
<1> QED
    BY <1>1, <1>2, <1>3, <1>4, <1>5, <1>6, <1>7, <1>8, <1>9, <1>10, <1>11,
       <1>12, <1>13, <1>14, <1>15 DEF Next, Step

LEMMA RequestsStep ==
    ASSUME TypeOK, InvRequests, [Next]_vars
    PROVE  InvRequests'
<1> USE LapiAssumption DEF LapiAssumption, TypeOK, InvRequests
<1>1. CASE Begin
    BY <1>1 DEF Begin
<1>2. CASE Return
    BY <1>2 DEF Return, Close
<1>3. CASE LoginOk
    BY <1>3 DEF LoginOk, Request
<1>4. CASE ListOk
    BY <1>4 DEF ListOk, Request
<1>5. CASE Retry
    BY <1>5 DEF Retry, Request, MayRetry
<1>6. CASE Exhausted
    BY <1>6 DEF Exhausted, Request, MayRetry
<1>7. CASE Refused
    BY <1>7 DEF Refused, Request
<1>8. ASSUME NEW a \in Alerts, Detail(a) PROVE InvRequests'
    BY <1>8 DEF Detail, Request, NeedsDetail
<1>9. ASSUME NEW a \in Alerts, DetailFails(a) PROVE InvRequests'
    BY <1>9 DEF DetailFails, Request, NeedsDetail
<1>10. ASSUME NEW a \in Alerts, KeepSummary(a) PROVE InvRequests'
    BY <1>10 DEF KeepSummary, history
<1>11. CASE Derive
    BY <1>11 DEF Derive
<1>12. CASE Crash
    BY <1>12 DEF Crash, Close
<1>13. ASSUME NEW b \in Bans, Ban(b) PROVE InvRequests'
    BY <1>13 DEF Ban, session
<1>14. ASSUME NEW b \in Bans, Expire(b) PROVE InvRequests'
    BY <1>14 DEF Expire, session
<1>15. CASE UNCHANGED vars
    BY <1>15 DEF vars, session, history
<1> QED
    BY <1>1, <1>2, <1>3, <1>4, <1>5, <1>6, <1>7, <1>8, <1>9, <1>10, <1>11,
       <1>12, <1>13, <1>14, <1>15 DEF Next, Step

\* Only Derive adds an address, and it adds the fixed one or none.
LEMMA SubjectsStep ==
    ASSUME TypeOK, InvSubjects, [Next]_vars
    PROVE  InvSubjects'
<1>1. CASE Derive
    <2>1. \A b \in Bans : Subject(b) \in {None, Fixed(b)}
        BY DEF Subject, InEvents, Fixed
    <2>2. \A b \in Bans : subjects'[b] \subseteq subjects[b] \cup {Subject(b)}
        BY <1>1 DEF Derive, TypeOK
    <2> QED
        BY <2>1, <2>2 DEF InvSubjects, Fixed
<1>2. CASE UNCHANGED subjects
    BY <1>2 DEF InvSubjects, Fixed
<1> QED
    BY <1>1, <1>2 DEF Next, Step, Begin, Return, Crash, Close, LoginOk, ListOk, Retry,
       Exhausted, Refused, Detail, DetailFails, KeepSummary, Ban, Expire, vars, history

\* What no detail that fails and no limit on details can take away: a fetch
\* that succeeds has every ban of our own that stayed in force, unless a full
\* list of newer alerts kept it out.
THEOREM Complete == Spec => []NothingMissed
<1>1. Init => InvContent /\ NothingMissed /\ NoGhost
    BY NothingShown DEF Init, InvContent, NothingMissed, NoGhost, Succeeded
<1> QED
    BY <1>1, TypeCorrect, ContentStep, PTL DEF Spec

\* And it has nothing that was not in force at some moment of the fetch.
THEOREM Sound == Spec => []NoGhost
<1>1. Init => InvContent /\ NothingMissed /\ NoGhost
    BY NothingShown DEF Init, InvContent, NothingMissed, NoGhost, Succeeded
<1> QED
    BY <1>1, TypeCorrect, ContentStep, PTL DEF Spec

\* A fetch that fails had a final answer or as many failures as attempts,
\* and the requests of a session are bounded whatever the server answers.
THEOREM Forgiving == Spec => []HiccupsForgiven
<1>1. Init => InvRequests
    BY LapiAssumption DEF Init, InvRequests, LapiAssumption
<1>2. TypeOK /\ InvRequests => HiccupsForgiven
    BY LapiAssumption DEF TypeOK, InvRequests, HiccupsForgiven, LapiAssumption
<1> QED
    BY <1>1, <1>2, TypeCorrect, RequestsStep, PTL DEF Spec

\* A ban has one address in all runs, with its detail or without.
THEOREM OneSubject == Spec => []KeyStable
<1>1. Init => InvSubjects
    BY DEF Init, InvSubjects
<1>2. TypeOK /\ InvSubjects => KeyStable
    BY DEF TypeOK, InvSubjects, KeyStable
<1> QED
    BY <1>1, <1>2, TypeCorrect, SubjectsStep, PTL DEF Spec

(***************************************************************************)
(* How long a session can last.  The bound is on the session's own steps,  *)
(* however often CrowdSec bans and unbans between them; that they are      *)
(* taken is the fairness of SessionEnds.                                   *)
(***************************************************************************)
\* Steps a session has left, the one that uses its result included.
StepsLeft ==
    CASE pc = "idle"   -> 0
      [] pc \in {"done", "failed"} -> 1
      [] pc = "detail" -> 2 + Cardinality(todo)
      [] pc = "list"   -> 3 + ListLimit + (MaxAttempts - attempt)
      [] pc = "login"  -> 4 + ListLimit + MaxAttempts + (MaxAttempts - attempt)

Longest == 4 + ListLimit + 2 * MaxAttempts

\* Every step is CrowdSec's, begins a session, or brings one nearer its end.
SessionAdvances ==
    [][UNCHANGED session \/ pc = "idle" \/ StepsLeft' < StepsLeft]_vars

\* The detail loop has no more to do than the list had room for.
InvTodo == Cardinality(todo) \in 0..ListLimit

LEMMA TodoFinite == TypeOK => IsFiniteSet(todo)
BY FS_Subset, LapiAssumption DEF TypeOK, LapiAssumption

\* A list is never longer than its limit.
LEMMA NewestFits ==
    ASSUME NEW S \in SUBSET Alerts, NEW L \in Newest(S)
    PROVE  Cardinality(L) \in 0..ListLimit
<1>1. Cardinality(S) \in Nat
    BY LapiAssumption, FS_Subset, FS_CardinalityType DEF LapiAssumption
<1> QED
    BY <1>1, LapiAssumption DEF Newest, LapiAssumption

\* Whatever becomes of an alert, the loop has one less to look at.
LEMMA OnwardsShortens ==
    ASSUME TypeOK, NEW a \in todo, todo' = Onwards(a)
    PROVE  Cardinality(todo') = Cardinality(todo) - 1 /\ Cardinality(todo') \in Nat
<1>1. IsFiniteSet(todo) /\ IsFiniteSet(todo \ {a})
    BY TodoFinite, FS_RemoveElement
<1> QED
    BY <1>1, FS_RemoveElement, FS_CardinalityType DEF Onwards

LEMMA TodoStep ==
    ASSUME TypeOK, InvTodo, [Next]_vars
    PROVE  InvTodo'
<1>1. CASE Return \/ Crash
    BY <1>1, FS_EmptySet, LapiAssumption DEF Return, Crash, Close, InvTodo, LapiAssumption
<1>2. CASE ListOk
    <2>1. {AlertOf[b] : b \in active} \in SUBSET Alerts
        BY LapiAssumption DEF TypeOK, LapiAssumption
    <2>2. todo' \in Newest({AlertOf[b] : b \in active})
        BY <1>2 DEF ListOk
    <2> QED
        BY <2>1, <2>2, NewestFits DEF InvTodo
<1>3. ASSUME NEW a \in Alerts, Detail(a) \/ DetailFails(a) \/ KeepSummary(a)
      PROVE  InvTodo'
    BY <1>3, OnwardsShortens, LapiAssumption
    DEF Detail, DetailFails, KeepSummary, AtHead, InvTodo, LapiAssumption
<1>4. CASE UNCHANGED todo
    BY <1>4 DEF InvTodo
<1> QED
    BY <1>1, <1>2, <1>3, <1>4 DEF Next, Step, Begin, LoginOk, Retry, Exhausted, Refused,
       Derive, Ban, Expire, vars, session

LEMMA AdvanceStep ==
    ASSUME TypeOK, InvTodo, InvTodo', [Next]_vars, ~UNCHANGED session, pc # "idle"
    PROVE  StepsLeft' < StepsLeft
<1> USE LapiAssumption DEF LapiAssumption, TypeOK, InvTodo
<1>1. CASE Return \/ Crash
    BY <1>1 DEF Return, Crash, Close, StepsLeft
<1>2. CASE LoginOk
    BY <1>2 DEF LoginOk, StepsLeft
<1>3. CASE ListOk
    BY <1>3 DEF ListOk, StepsLeft
<1>4. CASE Retry
    BY <1>4 DEF Retry, MayRetry, StepsLeft
<1>5. CASE Exhausted \/ Refused
    BY <1>5 DEF Exhausted, Refused, StepsLeft
<1>6. ASSUME NEW a \in Alerts, Detail(a) \/ DetailFails(a) \/ KeepSummary(a)
      PROVE  StepsLeft' < StepsLeft
    <2>1. pc = "detail" /\ pc' = "detail" /\ Cardinality(todo') = Cardinality(todo) - 1
        BY <1>6, OnwardsShortens DEF Detail, DetailFails, KeepSummary, AtHead
    <2> QED
        BY <2>1 DEF StepsLeft
<1>7. CASE Derive
    BY <1>7 DEF Derive, StepsLeft
<1> QED
    BY <1>1, <1>2, <1>3, <1>4, <1>5, <1>6, <1>7 DEF Next, Step, Begin, Ban, Expire,
       vars, session

\* A session takes a bounded number of steps, whatever the server answers and
\* whatever is banned meanwhile: no retry, detail or list keeps it busy.
THEOREM SessionsAreBounded == Spec => [](StepsLeft \in 0..Longest) /\ SessionAdvances
<1>1. Init => InvTodo
    BY FS_EmptySet, LapiAssumption DEF Init, InvTodo, LapiAssumption
<1>2. TypeOK /\ InvTodo => StepsLeft \in 0..Longest
    BY LapiAssumption DEF TypeOK, InvTodo, StepsLeft, Longest, LapiAssumption
<1>3. TypeOK /\ InvTodo /\ InvTodo' /\ [Next]_vars
        => [UNCHANGED session \/ pc = "idle" \/ StepsLeft' < StepsLeft]_vars
    BY AdvanceStep
<1> QED
    BY <1>1, <1>2, <1>3, TypeCorrect, TodoStep, PTL DEF Spec, SessionAdvances
=============================================================================
