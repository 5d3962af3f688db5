--------------------------- MODULE DeliveryProofs ---------------------------
(***************************************************************************)
(* Proofs about Delivery, for every set of runs and keys and every value   *)
(* of the limits that DeliveryAssumption admits.                           *)
(***************************************************************************)
EXTENDS Delivery, FiniteSetTheorems, TLAPS

(***************************************************************************)
(* Type correctness                                                        *)
(***************************************************************************)
LEMMA InitTypeOK == Init => TypeOK
BY DeliveryAssumption DEF Init, TypeOK, Statuses, Ages, Labels

LEMMA StepTypeOK == TypeOK /\ [Next]_vars => TypeOK'
<1> SUFFICES ASSUME TypeOK, [Next]_vars PROVE TypeOK'
  OBVIOUS
<1> USE DeliveryAssumption DEF TypeOK, Statuses, Stored, Ages, Labels
<1>1. ASSUME NEW r \in Runs, Start(r) PROVE TypeOK'
  BY <1>1 DEF Start, GoTo, table, history
<1>2. ASSUME NEW r \in Runs, Cleanup(r) PROVE TypeOK'
  BY <1>2 DEF Cleanup, GoTo
<1>3. ASSUME NEW r \in Runs, SkipCleanup(r) PROVE TypeOK'
  BY <1>3 DEF SkipCleanup, GoTo, table, history
<1>4. ASSUME NEW r \in Runs, Reap(r) PROVE TypeOK'
  BY <1>4 DEF Reap, GoTo, history, ReapedStatus
<1>5. ASSUME NEW r \in Runs, SkipReap(r) PROVE TypeOK'
  BY <1>5 DEF SkipReap, GoTo, table, history
<1>6. ASSUME NEW r \in Runs, Select(r) PROVE TypeOK'
  BY <1>6 DEF Select, Unhandled, GoTo, table, history
<1>7. ASSUME NEW r \in Runs, NothingToReport(r) PROVE TypeOK'
  BY <1>7 DEF NothingToReport, Exit, GoTo, table, history
<1>8. ASSUME NEW r \in Runs, NEW k \in Keys, GiveUp(r, k) PROVE TypeOK'
  BY <1>8 DEF GiveUp, Remaining, table, history
<1>9. ASSUME NEW r \in Runs, NEW k \in Keys, Claim(r, k) PROVE TypeOK'
  BY <1>9 DEF Claim, Remaining, GoTo, history
<1>10. ASSUME NEW r \in Runs, NEW k \in Keys, AlreadyHandled(r, k) PROVE TypeOK'
  BY <1>10 DEF AlreadyHandled, Remaining, table, history
<1>11. ASSUME NEW r \in Runs, Send(r) PROVE TypeOK'
  <2> DEFINE k == cur[r]
  <2>1. k \in Keys
    BY <1>11 DEF Send
  <2>2. PICK o \in Outcomes :
          /\ Unproven(o) => unproven[k] < MaxUnproven
          /\ mails' = [mails EXCEPT ![k] = @ + (IF o.accepted THEN 1 ELSE 0)]
          /\ unproven' = [unproven EXCEPT ![k] = @ + (IF Unproven(o) THEN 1 ELSE 0)]
          /\ \/ /\ Retries(r, o)
                /\ attempt' = [attempt EXCEPT ![r] = @ + 1]
                /\ UNCHANGED <<pc, delivered>>
             \/ /\ delivered' = [delivered EXCEPT ![r] = (o.reply = "ok")]
                /\ GoTo(r, "finalize")
                /\ UNCHANGED attempt
    BY <1>11 DEF Send
  <2>3. UNCHANGED <<table, purged, todo, cur>>
    BY <1>11 DEF Send
  <2>4. mails' \in [Keys -> Nat]
    BY <2>1, <2>2
  <2>5. unproven' \in [Keys -> 0..MaxUnproven]
    <3>1. CASE Unproven(o)
      BY <2>1, <2>2, <3>1
    <3>2. CASE ~Unproven(o)
      BY <2>1, <2>2, <3>2
    <3> QED BY <3>1, <3>2
  <2>6. /\ attempt' \in [Runs -> 0..MaxRetries]
        /\ pc' \in [Runs -> Labels]
        /\ \A q \in Runs : pc'[q] \in {"send", "finalize"} => cur'[q] \in Keys
    BY <2>1, <2>2, <2>3 DEF Retries, GoTo
  <2>7. delivered' \in [Runs -> BOOLEAN]
    BY <2>2
  <2> QED
    BY <2>3, <2>4, <2>5, <2>6, <2>7 DEF table
<1>12. ASSUME NEW r \in Runs, Finalize(r) PROVE TypeOK'
  BY <1>12 DEF Finalize, FinalStatus, NextAlert, GoTo, history
<1>13. ASSUME NEW r \in Runs, FinalizeFails(r) PROVE TypeOK'
  BY <1>13 DEF FinalizeFails, NextAlert, GoTo, table, history
<1>14. ASSUME NEW r \in Runs, Finish(r) PROVE TypeOK'
  BY <1>14 DEF Finish, Exit, GoTo, table, history
<1>15. ASSUME NEW r \in Runs, Crash(r) PROVE TypeOK'
  BY <1>15 DEF Crash, Exit, GoTo, table, history
<1>16. CASE Tick
  BY <1>16 DEF Tick, Older, memory, history
<1>17. CASE UNCHANGED vars
  BY <1>17 DEF vars, table, memory, history
<1> QED
  BY <1>1, <1>2, <1>3, <1>4, <1>5, <1>6, <1>7, <1>8, <1>9, <1>10, <1>11,
     <1>12, <1>13, <1>14, <1>15, <1>16, <1>17 DEF Next, RunStep

\* Rows, ages, run memory and counters keep their types.
THEOREM TypeCorrect == Spec => []TypeOK
BY InitTypeOK, StepTypeOK, PTL DEF Spec

(***************************************************************************)
(* Counting the runs that hold a key: a step of run r changes r's own      *)
(* membership only.                                                        *)
(***************************************************************************)
OthersKeep(r) == \A q \in Runs \ {r} :
    pc'[q] = pc[q] /\ cur'[q] = cur[q] /\ delivered'[q] = delivered[q]

LEMMA StepOthersKeep ==
  ASSUME TypeOK, NEW r \in Runs, RunStep(r) \/ Crash(r)
  PROVE  OthersKeep(r)
<1> USE DEF TypeOK, OthersKeep
<1>1. CASE Start(r) \/ Cleanup(r) \/ SkipCleanup(r) \/ Reap(r) \/ SkipReap(r) \/ Select(r)
  BY <1>1 DEF Start, Cleanup, SkipCleanup, Reap, SkipReap, Select, GoTo
<1>2. CASE NothingToReport(r) \/ Finish(r) \/ Crash(r)
  BY <1>2 DEF NothingToReport, Finish, Crash, Exit, GoTo
<1>3. CASE \E k \in Keys : GiveUp(r, k) \/ Claim(r, k) \/ AlreadyHandled(r, k)
  BY <1>3 DEF GiveUp, Claim, AlreadyHandled, GoTo
<1>4. CASE Send(r)
  BY <1>4 DEF Send, GoTo
<1>5. CASE Finalize(r) \/ FinalizeFails(r)
  BY <1>5 DEF Finalize, FinalizeFails, NextAlert, GoTo
<1> QED
  BY <1>1, <1>2, <1>3, <1>4, <1>5 DEF RunStep

Bit(p) == IF p THEN 1 ELSE 0

LEMMA CountWithout ==
  ASSUME NEW S, IsFiniteSet(S), NEW x
  PROVE  /\ Cardinality(S \ {x}) \in Nat
         /\ Cardinality(S) = Cardinality(S \ {x}) + Bit(x \in S)
<1>1. IsFiniteSet(S \ {x}) /\ Cardinality(S) \in Nat
  BY FS_RemoveElement, FS_CardinalityType
<1>2. Cardinality(S \ {x}) \in Nat
  BY <1>1, FS_CardinalityType
<1>3. Cardinality(S \ {x}) = IF x \in S THEN Cardinality(S) - 1 ELSE Cardinality(S)
  BY FS_RemoveElement
<1> QED
  BY <1>1, <1>2, <1>3 DEF Bit

LEMMA FiniteHolders ==
  ASSUME NEW k
  PROVE  /\ IsFiniteSet(Holders(k)) /\ IsFiniteSet(Holders(k)')
         /\ IsFiniteSet(Undecided(k)) /\ IsFiniteSet(Undecided(k)')
         /\ Cardinality(Holders(k)) \in Nat /\ Cardinality(Holders(k)') \in Nat
         /\ Cardinality(Undecided(k)) \in Nat /\ Cardinality(Undecided(k)') \in Nat
<1>1. /\ Holders(k) \in SUBSET Runs /\ Holders(k)' \in SUBSET Runs
      /\ Undecided(k) \in SUBSET Runs /\ Undecided(k)' \in SUBSET Runs
  BY DEF Holders, Undecided
<1>2. IsFiniteSet(Runs)
  BY DeliveryAssumption
<1>3. /\ IsFiniteSet(Holders(k)) /\ IsFiniteSet(Holders(k)')
      /\ IsFiniteSet(Undecided(k)) /\ IsFiniteSet(Undecided(k)')
  BY <1>1, <1>2, FS_Subset
<1> QED
  BY <1>3, FS_CardinalityType

LEMMA CountAfter ==
  ASSUME NEW r \in Runs, NEW k, OthersKeep(r)
  PROVE  /\ Cardinality(Holders(k)') + Bit(r \in Holders(k))
               = Cardinality(Holders(k)) + Bit(r \in Holders(k)')
         /\ Cardinality(Undecided(k)') + Bit(r \in Undecided(k))
               = Cardinality(Undecided(k)) + Bit(r \in Undecided(k)')
         /\ Bit(r \in Undecided(k)) <= Cardinality(Undecided(k))
<1> DEFINE others(S) == Cardinality(S \ {r})
<1>1. /\ Holders(k)' \ {r} = Holders(k) \ {r}
      /\ Undecided(k)' \ {r} = Undecided(k) \ {r}
  BY DEF OthersKeep, Holders, Undecided
<1>2. /\ Cardinality(Holders(k)) = others(Holders(k)) + Bit(r \in Holders(k))
      /\ Cardinality(Holders(k)') = others(Holders(k)') + Bit(r \in Holders(k)')
      /\ others(Holders(k)) \in Nat
  BY FiniteHolders, CountWithout
<1>3. /\ Cardinality(Undecided(k)) = others(Undecided(k)) + Bit(r \in Undecided(k))
      /\ Cardinality(Undecided(k)') = others(Undecided(k)') + Bit(r \in Undecided(k)')
      /\ others(Undecided(k)) \in Nat
  BY FiniteHolders, CountWithout
<1>4. /\ others(Holders(k)') = others(Holders(k))
      /\ others(Undecided(k)') = others(Undecided(k))
  BY <1>1
<1>5. /\ Bit(r \in Holders(k)) \in Nat /\ Bit(r \in Holders(k)') \in Nat
      /\ Bit(r \in Undecided(k)) \in Nat /\ Bit(r \in Undecided(k)') \in Nat
  BY DEF Bit
<1> HIDE DEF others
<1> QED
  BY <1>2, <1>3, <1>4, <1>5

(***************************************************************************)
(* What a step of run r does to key k, in terms of r and the row alone.    *)
(* Share counts the tickets for k that r or the row holds; Grip counts the *)
(* claims for k that r or the row holds.                                   *)
(***************************************************************************)
Share(r, k) == Bit(r \in Undecided(k)) + Open(k)
Grip(r, k) == Bit(r \in Holders(k)) + Open(k)

Same(k) == mails'[k] = mails[k] /\ unproven'[k] = unproven[k]

Kept(r, k) ==
    /\ Same(k) /\ purged'[k] = purged[k]
    /\ Share(r, k)' <= Share(r, k) /\ Grip(r, k)' <= Grip(r, k)
Mailed(r, k) ==
    /\ mails'[k] = mails[k] + 1 /\ unproven'[k] = unproven[k] /\ purged'[k] = purged[k]
    /\ r \in Undecided(k) /\ Share(r, k)' = Share(r, k) - 1 /\ Grip(r, k)' = Grip(r, k)
MailedUnproven(r, k) ==
    /\ mails'[k] = mails[k] + 1 /\ unproven'[k] = unproven[k] + 1 /\ purged'[k] = purged[k]
    /\ r \in Undecided(k) /\ Share(r, k)' = Share(r, k) /\ Grip(r, k)' = Grip(r, k)
Forgotten(r, k) ==
    /\ Same(k) /\ purged'[k] = purged[k] + 1
    /\ Share(r, k)' = Share(r, k) + 1 /\ Grip(r, k)' = Grip(r, k) + 1

Effect(r, k) == Kept(r, k) \/ Mailed(r, k) \/ MailedUnproven(r, k) \/ Forgotten(r, k)

LEMMA RunEffect ==
  ASSUME TypeOK, NEW r \in Runs, NEW k \in Keys, RunStep(r) \/ Crash(r)
  PROVE  Effect(r, k)
<1> USE DEF TypeOK, Effect, Kept, Same, Share, Grip, Bit, Open, Undecided, Holders
<1>1. CASE Start(r) \/ SkipCleanup(r) \/ SkipReap(r)
  BY <1>1 DEF Start, SkipCleanup, SkipReap, GoTo, table, history
<1>2. CASE Select(r)
  BY <1>2 DEF Select, GoTo, table, history
<1>3. CASE Cleanup(r)
  <2>1. /\ pc' = [pc EXCEPT ![r] = "reap"] /\ pc[r] = "cleanup"
        /\ UNCHANGED <<mails, unproven, cur, delivered>>
        /\ status' = [q \in Keys |-> IF q \in Expired THEN "absent" ELSE status[q]]
    BY <1>3 DEF Cleanup, GoTo
  <2>2. purged'[k] = purged[k] + (IF k \in Expired /\ status[k] \in Handled THEN 1 ELSE 0)
    BY <1>3 DEF Cleanup
  <2>3. CASE k \in Expired /\ status[k] \in Handled
    BY <2>1, <2>2, <2>3 DEF Forgotten, Handled
  <2>4. CASE ~(k \in Expired /\ status[k] \in Handled)
    BY <2>1, <2>2, <2>4 DEF Handled, Statuses, Stored
  <2> QED BY <2>3, <2>4
<1>4. CASE Reap(r)
  BY <1>4 DEF Reap, GoTo, history, Stale, ReapedStatus
<1>5. CASE NothingToReport(r) \/ Finish(r) \/ Crash(r)
  BY <1>5 DEF NothingToReport, Finish, Crash, Exit, GoTo, table, history
<1>6. CASE \E q \in Keys : GiveUp(r, q) \/ AlreadyHandled(r, q)
  BY <1>6 DEF GiveUp, AlreadyHandled, table, history
<1>7. CASE \E q \in Keys : Claim(r, q)
  BY <1>7 DEF Claim, Claimable, GoTo, history
<1>8. CASE Send(r)
  <2>1. /\ pc[r] = "send" /\ cur[r] \in Keys
        /\ UNCHANGED <<status, purged, cur>>
    BY <1>8 DEF Send, table
  <2>2. PICK o \in Outcomes :
          /\ mails' = [mails EXCEPT ![cur[r]] = @ + (IF o.accepted THEN 1 ELSE 0)]
          /\ unproven' = [unproven EXCEPT ![cur[r]] = @ + (IF Unproven(o) THEN 1 ELSE 0)]
          /\ \/ /\ Retries(r, o)
                /\ UNCHANGED <<pc, delivered>>
             \/ /\ delivered' = [delivered EXCEPT ![r] = (o.reply = "ok")]
                /\ GoTo(r, "finalize")
    BY <1>8 DEF Send
  <2>3. CASE k # cur[r]
    <3>1. Same(k)
      BY <2>1, <2>2, <2>3
    <3> QED BY <2>1, <2>3, <3>1
  <2>4. CASE k = cur[r]
    <3>1. r \in Holders(k) /\ r \in Undecided(k) /\ r \in Holders(k)'
      BY <2>1, <2>2, <2>4 DEF GoTo
    <3>2. r \in Undecided(k)' <=> o.reply # "ok"
      BY <2>1, <2>2, <2>4, <3>1 DEF GoTo, Retries, Outcomes
    <3>3. /\ mails'[k] = mails[k] + (IF o.accepted THEN 1 ELSE 0)
          /\ unproven'[k] = unproven[k] + (IF Unproven(o) THEN 1 ELSE 0)
      BY <2>2, <2>4
    <3>4. Open(k)' = Open(k) /\ Open(k) \in Nat /\ purged'[k] = purged[k]
      BY <2>1
    <3>5. mails[k] \in Nat /\ unproven[k] \in Nat
      OBVIOUS
    <3> HIDE DEF Open, Holders, Undecided, TypeOK
    <3>6. CASE o.reply = "ok"
      <4>1. o.accepted /\ ~Unproven(o)
        BY <3>6 DEF Outcomes, Unproven
      <4> QED BY <3>1, <3>2, <3>3, <3>4, <3>5, <3>6, <4>1 DEF Mailed
    <3>7. CASE o.reply # "ok" /\ o.accepted
      BY <3>1, <3>2, <3>3, <3>4, <3>5, <3>7 DEF Unproven, MailedUnproven
    <3>8. CASE o.reply # "ok" /\ ~o.accepted
      BY <3>1, <3>2, <3>3, <3>4, <3>5, <3>8 DEF Unproven
    <3> QED BY <3>6, <3>7, <3>8
  <2> QED BY <2>3, <2>4
<1>9. CASE Finalize(r)
  BY <1>9 DEF Finalize, Finalizable, FinalStatus, NextAlert, GoTo, history
<1>10. CASE FinalizeFails(r)
  BY <1>10 DEF FinalizeFails, NextAlert, GoTo, table, history
<1> QED
  BY <1>1, <1>2, <1>3, <1>4, <1>5, <1>6, <1>7, <1>8, <1>9, <1>10 DEF RunStep

LEMMA EffectOnTotals ==
  ASSUME TypeOK, TypeOK', NEW r \in Runs, NEW k \in Keys, OthersKeep(r)
  PROVE  /\ TicketsLeft(k)' + Share(r, k) = TicketsLeft(k) + Share(r, k)'
         /\ (Cardinality(Holders(k)) + Open(k))' + Grip(r, k)
               = Cardinality(Holders(k)) + Open(k) + Grip(r, k)'
         /\ r \in Undecided(k) => TicketsLeft(k) > 0
         /\ TicketsLeft(k) \in Nat /\ TicketsLeft(k)' \in Nat
         /\ Cardinality(Holders(k)) + Open(k) \in Nat
         /\ (Cardinality(Holders(k)) + Open(k))' \in Nat
         /\ Share(r, k) \in Nat /\ Share(r, k)' \in Nat
         /\ Grip(r, k) \in Nat /\ Grip(r, k)' \in Nat
<1>1. Open(k) \in Nat /\ Open(k)' \in Nat
  BY DEF Open
<1>2. /\ Bit(r \in Holders(k)) \in Nat /\ Bit(r \in Holders(k)') \in Nat
      /\ Bit(r \in Undecided(k)) \in Nat /\ Bit(r \in Undecided(k)') \in Nat
      /\ r \in Undecided(k) => Bit(r \in Undecided(k)) = 1
  BY DEF Bit
<1>3. /\ Cardinality(Holders(k)) \in Nat /\ Cardinality(Holders(k)') \in Nat
      /\ Cardinality(Undecided(k)) \in Nat /\ Cardinality(Undecided(k)') \in Nat
  BY FiniteHolders
<1> QED
  BY <1>1, <1>2, <1>3, CountAfter DEF TicketsLeft, Share, Grip

LEMMA UntouchedTotals ==
  ASSUME NEW k, UNCHANGED <<status, pc, cur, delivered>>
  PROVE  /\ Holders(k)' = Holders(k) /\ TicketsLeft(k)' = TicketsLeft(k)
         /\ Open(k)' = Open(k)
BY DEF Holders, Undecided, TicketsLeft, Open

(***************************************************************************)
(* At most one run holds a key                                             *)
(***************************************************************************)
LEMMA InitOneHolder == Init => OneHolder
<1> SUFFICES ASSUME Init, NEW k \in Keys
             PROVE  Cardinality(Holders(k)) + Open(k) <= 1 + purged[k]
  BY DEF OneHolder
<1>1. Holders(k) = {} /\ Open(k) = 1 /\ purged[k] = 0
  BY DEF Init, Holders, Open
<1> QED
  BY <1>1, FS_EmptySet

LEMMA StepOneHolder ==
  TypeOK /\ TypeOK' /\ OneHolder /\ [Next]_vars => OneHolder'
<1> SUFFICES ASSUME TypeOK, TypeOK', OneHolder, [Next]_vars, NEW k \in Keys
             PROVE  (Cardinality(Holders(k)) + Open(k))' <= 1 + purged'[k]
  BY DEF OneHolder
<1>1. /\ Cardinality(Holders(k)) + Open(k) <= 1 + purged[k]
      /\ purged[k] \in Nat /\ purged'[k] \in Nat
  BY DeliveryAssumption DEF OneHolder, TypeOK
<1>2. ASSUME NEW r \in Runs, RunStep(r) \/ Crash(r)
      PROVE  (Cardinality(Holders(k)) + Open(k))' <= 1 + purged'[k]
  <2>1. Effect(r, k) /\ OthersKeep(r)
    BY <1>2, RunEffect, StepOthersKeep
  <2>2. \/ Grip(r, k)' <= Grip(r, k) /\ purged'[k] = purged[k]
        \/ Grip(r, k)' = Grip(r, k) + 1 /\ purged'[k] = purged[k] + 1
    <3>1. Grip(r, k) \in Nat /\ Grip(r, k)' \in Nat
      BY <2>1, EffectOnTotals
    <3> QED
      BY <2>1, <3>1 DEF Effect, Kept, Mailed, MailedUnproven, Forgotten
  <2>3. /\ (Cardinality(Holders(k)) + Open(k))' + Grip(r, k)
              = Cardinality(Holders(k)) + Open(k) + Grip(r, k)'
        /\ Cardinality(Holders(k)) + Open(k) \in Nat
        /\ (Cardinality(Holders(k)) + Open(k))' \in Nat
        /\ Grip(r, k) \in Nat /\ Grip(r, k)' \in Nat
    BY <2>1, EffectOnTotals
  <2> DEFINE claims == Cardinality(Holders(k)) + Open(k)
             claimsAfter == (Cardinality(Holders(k)) + Open(k))'
             grip == Grip(r, k)
             gripAfter == Grip(r, k)'
  <2>4. /\ \/ gripAfter <= grip /\ purged'[k] = purged[k]
           \/ gripAfter = grip + 1 /\ purged'[k] = purged[k] + 1
        /\ claimsAfter + grip = claims + gripAfter
        /\ claims \in Nat /\ claimsAfter \in Nat /\ grip \in Nat /\ gripAfter \in Nat
        /\ claims <= 1 + purged[k]
    BY <1>1, <2>2, <2>3
  <2>5. claimsAfter <= 1 + purged'[k]
    <3> HIDE DEF claims, claimsAfter, grip, gripAfter
    <3> QED BY <1>1, <2>4
  <2> QED BY <2>5
<1>3. CASE Tick \/ UNCHANGED vars
  <2>1. UNCHANGED <<status, pc, cur, delivered, purged>>
    BY <1>3 DEF Tick, vars, table, memory, history
  <2> QED BY <1>1, <2>1, UntouchedTotals
<1> QED BY <1>2, <1>3 DEF Next

\* Two runs hold claims on one key only if the cleanup removed a handled row
\* of it, whatever the number of overlapping runs, crashes and retries.
THEOREM OneHolderAlways == Spec => []OneHolder
BY InitTypeOK, StepTypeOK, InitOneHolder, StepOneHolder, PTL DEF Spec

(***************************************************************************)
(* The delivery path implements ReportTickets                              *)
(***************************************************************************)
LEMMA InitRefines == Init => Tickets!Init
<1> SUFFICES ASSUME Init PROVE Tickets!Init
  OBVIOUS
<1>1. \A k \in Keys : Undecided(k) = {} /\ Open(k) = 1
  BY DEF Init, Holders, Undecided, Open
<1>2. \A k \in Keys : TicketsLeft(k) = 1
  BY <1>1, FS_EmptySet DEF TicketsLeft
<1>3. \A k \in Keys : unproven[k] + purged[k] = 0
  BY DEF Init
<1> QED
  BY <1>2, <1>3 DEF Tickets!Init, Init

LEMMA StepRefines ==
  TypeOK /\ TypeOK' /\ [Next]_vars => [Tickets!Next]_(Tickets!vars)
<1> SUFFICES ASSUME TypeOK, TypeOK', [Next]_vars
             PROVE  [Tickets!Next]_(Tickets!vars)
  OBVIOUS
<1> DEFINE tickets == [k \in Keys |-> TicketsLeft(k)]
           reissued == [k \in Keys |-> unproven[k] + purged[k]]
<1>1. ASSUME NEW r \in Runs, RunStep(r) \/ Crash(r)
      PROVE  Tickets!Next
  <2>1. OthersKeep(r) /\ \A k \in Keys : Effect(r, k)
    BY <1>1, RunEffect, StepOthersKeep
  <2>2. /\ mails' \in [Keys -> Nat]
        /\ tickets' \in [Keys -> Nat]
        /\ reissued' \in [Keys -> Nat]
    <3>1. \A k \in Keys : TicketsLeft(k)' \in Nat
      BY <2>1, EffectOnTotals
    <3>2. /\ mails' \in [Keys -> Nat]
          /\ \A k \in Keys : unproven'[k] \in Nat /\ purged'[k] \in Nat
      BY DeliveryAssumption DEF TypeOK
    <3> QED BY <3>1, <3>2
  <2>3. ASSUME NEW k \in Keys
        PROVE  Tickets!Mail(k) \/ Tickets!MailUnproven(k) \/ Tickets!Forget(k)
                 \/ Tickets!LoseOrKeep(k)
    <3> DEFINE left == TicketsLeft(k)
               leftAfter == TicketsLeft(k)'
               share == Share(r, k)
               shareAfter == Share(r, k)'
               again == unproven[k] + purged[k]
               againAfter == unproven'[k] + purged'[k]
    <3>1. /\ leftAfter + share = left + shareAfter
          /\ r \in Undecided(k) => left > 0
          /\ left \in Nat /\ leftAfter \in Nat /\ share \in Nat /\ shareAfter \in Nat
      BY <2>1, EffectOnTotals
    <3>2. /\ unproven[k] \in Nat /\ purged[k] \in Nat
          /\ unproven'[k] \in Nat /\ purged'[k] \in Nat
      BY DeliveryAssumption DEF TypeOK
    <3>3. \/ mails'[k] = mails[k] /\ againAfter = again /\ shareAfter <= share
          \/ /\ mails'[k] = mails[k] + 1 /\ againAfter = again
             /\ shareAfter = share - 1 /\ left > 0
          \/ /\ mails'[k] = mails[k] + 1 /\ againAfter = again + 1
             /\ shareAfter = share /\ left > 0
          \/ mails'[k] = mails[k] /\ againAfter = again + 1 /\ shareAfter = share + 1
      BY <2>1, <3>1, <3>2 DEF Effect, Kept, Mailed, MailedUnproven, Forgotten, Same
    <3>4. again \in Nat /\ againAfter \in Nat
      BY <3>2
    <3>5. \/ mails'[k] = mails[k] /\ againAfter = again /\ leftAfter <= left
          \/ /\ mails'[k] = mails[k] + 1 /\ againAfter = again
             /\ leftAfter = left - 1 /\ left > 0
          \/ /\ mails'[k] = mails[k] + 1 /\ againAfter = again + 1
             /\ leftAfter = left /\ left > 0
          \/ mails'[k] = mails[k] /\ againAfter = again + 1 /\ leftAfter = left + 1
      <4> HIDE DEF left, leftAfter, share, shareAfter, again, againAfter
      <4> QED BY <3>1, <3>3, <3>4
    <3>6. /\ tickets[k] = left /\ tickets'[k] = leftAfter
          /\ reissued[k] = again /\ reissued'[k] = againAfter
      OBVIOUS
    <3> HIDE DEF left, leftAfter, share, shareAfter, again, againAfter
    <3> QED
      BY <3>5, <3>6
      DEF Tickets!Mail, Tickets!MailUnproven, Tickets!Forget, Tickets!LoseOrKeep
  <2> QED
    BY <2>2, <2>3 DEF Tickets!Next
<1>2. CASE Tick \/ UNCHANGED vars
  <2>1. UNCHANGED <<status, pc, cur, delivered, mails, unproven, purged>>
    BY <1>2 DEF Tick, vars, table, memory, history
  <2>2. \A k \in Keys : TicketsLeft(k)' = TicketsLeft(k)
    BY <2>1, UntouchedTotals
  <2>3. mails' = mails /\ tickets' = tickets /\ reissued' = reissued
    BY <2>1, <2>2
  <2> QED
    BY <2>3 DEF Tickets!vars
<1> QED
  BY <1>1, <1>2 DEF Next

\* Every behaviour of the delivery path is one of ReportTickets: its initial
\* state maps to the abstract one and each step to an abstract step or none.
THEOREM DeliveryImplementsTickets == Spec => ImplementsTickets
<1>1. TypeOK /\ TypeOK' /\ [Next]_vars => [Tickets!Next]_(Tickets!vars)
  BY StepRefines
<1> QED
  BY InitTypeOK, StepTypeOK, InitRefines, <1>1, PTL DEF Spec, ImplementsTickets, Tickets!Spec

(***************************************************************************)
(* Duplicates: the balance is an invariant of the abstract steps, so the   *)
(* refinement carries it over.                                             *)
(***************************************************************************)
LEMMA InitBalance == Init => TicketsBalance
<1> SUFFICES ASSUME Init, NEW k \in Keys
             PROVE  mails[k] + TicketsLeft(k) <= 1 + unproven[k] + purged[k]
  BY DEF TicketsBalance
<1>1. Undecided(k) = {} /\ Open(k) = 1
  BY DEF Init, Holders, Undecided, Open
<1>2. TicketsLeft(k) = 1
  BY <1>1, FS_EmptySet DEF TicketsLeft
<1> QED
  BY <1>2 DEF Init

LEMMA StepBalance ==
  TypeOK /\ TypeOK' /\ TicketsBalance /\ [Next]_vars => TicketsBalance'
<1> SUFFICES ASSUME TypeOK, TypeOK', TicketsBalance, [Next]_vars, NEW k \in Keys
             PROVE  mails'[k] + TicketsLeft(k)' <= 1 + unproven'[k] + purged'[k]
  BY DEF TicketsBalance
<1> DEFINE tickets == [q \in Keys |-> TicketsLeft(q)]
           reissued == [q \in Keys |-> unproven[q] + purged[q]]
<1>1. /\ mails[k] \in Nat /\ unproven[k] \in Nat /\ purged[k] \in Nat
      /\ mails'[k] \in Nat /\ unproven'[k] \in Nat /\ purged'[k] \in Nat
  BY DeliveryAssumption DEF TypeOK
<1>2. TicketsLeft(k) \in Nat /\ TicketsLeft(k)' \in Nat
  BY FiniteHolders DEF TicketsLeft, Open
<1>3. /\ tickets[k] = TicketsLeft(k) /\ tickets'[k] = TicketsLeft(k)'
      /\ reissued[k] = unproven[k] + purged[k]
      /\ reissued'[k] = unproven'[k] + purged'[k]
  OBVIOUS
<1>4. mails[k] + TicketsLeft(k) <= 1 + unproven[k] + purged[k]
  BY DEF TicketsBalance
<1>5. Tickets!Next \/ UNCHANGED <<mails, tickets, reissued>>
  BY StepRefines DEF Tickets!vars
<1> HIDE DEF tickets, reissued
<1>6. CASE Tickets!Next
  <2>1. Tickets!Mail(k) \/ Tickets!MailUnproven(k) \/ Tickets!Forget(k) \/ Tickets!LoseOrKeep(k)
    BY <1>6 DEF Tickets!Next
  <2>2. \/ mails'[k] = mails[k] + 1 /\ tickets'[k] = tickets[k] - 1 /\ reissued'[k] = reissued[k]
        \/ mails'[k] = mails[k] + 1 /\ tickets'[k] = tickets[k] /\ reissued'[k] = reissued[k] + 1
        \/ mails'[k] = mails[k] /\ tickets'[k] = tickets[k] + 1 /\ reissued'[k] = reissued[k] + 1
        \/ mails'[k] = mails[k] /\ tickets'[k] <= tickets[k] /\ reissued'[k] = reissued[k]
    BY <2>1
    DEF Tickets!Mail, Tickets!MailUnproven, Tickets!Forget, Tickets!LoseOrKeep, tickets, reissued
  <2> DEFINE left == TicketsLeft(k)
             leftAfter == TicketsLeft(k)'
  <2>3. /\ left \in Nat /\ leftAfter \in Nat
        /\ mails[k] + left <= 1 + unproven[k] + purged[k]
        /\ tickets[k] = left /\ tickets'[k] = leftAfter
    BY <1>2, <1>3, <1>4
  <2>4. mails'[k] + leftAfter <= 1 + unproven'[k] + purged'[k]
    <3> HIDE DEF left, leftAfter
    <3> QED BY <1>1, <1>3, <2>2, <2>3
  <2> QED BY <2>4
<1>7. CASE UNCHANGED <<mails, tickets, reissued>>
  BY <1>1, <1>2, <1>3, <1>4, <1>7
<1> QED BY <1>5, <1>6, <1>7

\* A mail, an undecided run and an open row each stand for one ticket, and
\* tickets come only from unacknowledged mails and purged rows.
THEOREM TicketsBalanceAlways == Spec => []TicketsBalance
BY InitTypeOK, StepTypeOK, InitBalance, StepBalance, PTL DEF Spec

\* Crashes, reaping, overlapping runs and lost database writes never cause a
\* second mail.
THEOREM DuplicatesExplainedAlways == Spec => []DuplicatesExplained
<1>1. TypeOK /\ TicketsBalance => DuplicatesExplained
  <2> SUFFICES ASSUME TypeOK, TicketsBalance, NEW k \in Keys
               PROVE  mails[k] <= 1 + unproven[k] + purged[k]
    BY DEF DuplicatesExplained
  <2>1. TicketsLeft(k) \in Nat
    BY FiniteHolders DEF TicketsLeft, Open
  <2>2. mails[k] \in Nat /\ unproven[k] \in Nat /\ purged[k] \in Nat
    BY DeliveryAssumption DEF TypeOK
  <2>3. mails[k] + TicketsLeft(k) <= 1 + unproven[k] + purged[k]
    BY DEF TicketsBalance
  <2> QED BY <2>1, <2>2, <2>3
<1> QED
  BY <1>1, TypeCorrect, TicketsBalanceAlways, PTL

(***************************************************************************)
(* The table keeps a claim on record while its run works                   *)
(***************************************************************************)
LEMMA SingleHolder ==
  ASSUME TypeOK, OneHolder, NEW r \in Runs, NEW k \in Keys, purged[k] = 0, r \in Holders(k)
  PROVE  Holders(k) = {r}
<1>1. Cardinality(Holders(k)) + Open(k) <= 1
  BY DEF OneHolder
<1>2. Cardinality(Holders(k)) \in Nat /\ Open(k) \in Nat
  BY FiniteHolders DEF Open
<1>3. /\ Cardinality(Holders(k) \ {r}) \in Nat
      /\ Cardinality(Holders(k)) = Cardinality(Holders(k) \ {r}) + 1
  BY FiniteHolders, CountWithout DEF Bit
<1>4. Cardinality(Holders(k) \ {r}) = 0
  BY <1>1, <1>2, <1>3
<1>5. IsFiniteSet(Holders(k) \ {r})
  BY FiniteHolders, FS_Subset
<1>6. Holders(k) \ {r} = {}
  BY <1>4, <1>5, FS_EmptySet
<1> QED BY <1>6

LEMMA StepClaimOnRecord ==
  TypeOK /\ OneHolder /\ ClaimOnRecord /\ [Next]_vars => ClaimOnRecord'
<1> SUFFICES ASSUME TypeOK, OneHolder, ClaimOnRecord, [Next]_vars,
                    NEW k \in Keys, purged'[k] = 0, Holders(k)' # {}
             PROVE  status'[k] \in {"pending", "unknown_send_state"}
  BY DEF ClaimOnRecord
<1> DEFINE good(s) == s \in {"pending", "unknown_send_state"}
<1>1. purged[k] = 0 /\ Holders(k) # {} => good(status[k])
  BY DEF ClaimOnRecord
<1>2. ASSUME NEW r \in Runs,
             Start(r) \/ SkipCleanup(r) \/ SkipReap(r) \/ Select(r)
      PROVE  good(status'[k])
  BY <1>1, <1>2 DEF TypeOK, Start, SkipCleanup, SkipReap, Select, GoTo, table, history, Holders
<1>3. ASSUME NEW r \in Runs, Cleanup(r)
      PROVE  good(status'[k])
  <2>1. Holders(k)' = Holders(k)
    BY <1>3 DEF Cleanup, GoTo, Holders, TypeOK
  <2>2. purged'[k] = purged[k] + (IF k \in Expired /\ status[k] \in Handled THEN 1 ELSE 0)
    BY <1>3 DEF Cleanup
  <2>3. purged[k] = 0 /\ ~(k \in Expired /\ status[k] \in Handled)
    BY <2>2, DeliveryAssumption DEF TypeOK
  <2>4. good(status[k]) /\ k \notin Expired
    BY <1>1, <2>1, <2>3 DEF Handled
  <2> QED BY <1>3, <2>4 DEF Cleanup
<1>4. ASSUME NEW r \in Runs, Reap(r)
      PROVE  good(status'[k])
  BY <1>1, <1>4 DEF TypeOK, Reap, Stale, ReapedStatus, GoTo, history, Holders
<1>5. ASSUME NEW r \in Runs, NothingToReport(r) \/ Finish(r) \/ Crash(r)
      PROVE  good(status'[k])
  BY <1>1, <1>5 DEF TypeOK, NothingToReport, Finish, Crash, Exit, GoTo, table, history, Holders
<1>6. ASSUME NEW r \in Runs, NEW q \in Keys, GiveUp(r, q) \/ AlreadyHandled(r, q)
      PROVE  good(status'[k])
  BY <1>1, <1>6 DEF GiveUp, AlreadyHandled, table, history, Holders
<1>7. ASSUME NEW r \in Runs, NEW q \in Keys, Claim(r, q)
      PROVE  good(status'[k])
  BY <1>1, <1>7 DEF TypeOK, Claim, GoTo, history, Holders
<1>8. ASSUME NEW r \in Runs, Send(r)
      PROVE  good(status'[k])
  <2>1. UNCHANGED <<status, purged, cur>>
    BY <1>8 DEF Send, table
  <2>2. Holders(k)' \subseteq Holders(k)
    BY <1>8, <2>1 DEF Send, GoTo, Holders, TypeOK
  <2> QED BY <1>1, <2>1, <2>2
<1>9. ASSUME NEW r \in Runs, Finalize(r)
      PROVE  good(status'[k])
  <2>1. r \in Holders(cur[r]) /\ cur[r] \in Keys /\ purged[k] = 0
    BY <1>9 DEF Finalize, Holders, TypeOK, history
  <2>2. Holders(k)' = Holders(k) \ {r}
    BY <1>9, StepOthersKeep DEF Finalize, NextAlert, GoTo, Holders, TypeOK
  <2>3. CASE k = cur[r]
    BY <2>1, <2>2, <2>3, SingleHolder
  <2>4. CASE k # cur[r]
    BY <1>1, <1>9, <2>1, <2>2, <2>4 DEF Finalize, TypeOK
  <2> QED BY <2>3, <2>4
<1>10. ASSUME NEW r \in Runs, FinalizeFails(r)
       PROVE  good(status'[k])
  BY <1>1, <1>10 DEF TypeOK, FinalizeFails, NextAlert, GoTo, table, history, Holders
<1>11. CASE Tick \/ UNCHANGED vars
  BY <1>1, <1>11 DEF Tick, vars, table, memory, history, Holders
<1> QED
  BY <1>2, <1>3, <1>4, <1>5, <1>6, <1>7, <1>8, <1>9, <1>10, <1>11 DEF Next, RunStep

LEMMA InitClaimOnRecord == Init => ClaimOnRecord
BY DEF Init, ClaimOnRecord, Holders

\* A run that sends or is about to record its outcome finds its claim in the
\* table, reaped at worst, so that nobody else can claim the key.
THEOREM ClaimOnRecordAlways == Spec => []ClaimOnRecord
BY InitTypeOK, StepTypeOK, InitOneHolder, StepOneHolder, InitClaimOnRecord,
   StepClaimOnRecord, PTL DEF Spec

(***************************************************************************)
(* 'sent' means mailed.  finalize_alert writes 'sent' on the word of a run *)
(* whose row may be another's by then, so the invariant also says what     *)
(* such a run knows.                                                       *)
(***************************************************************************)
DeliveredWasMailed == \A r \in Runs :
    pc[r] = "finalize" /\ delivered[r] => mails[cur[r]] > 0

MailedInv == SentWasMailed /\ DeliveredWasMailed

LEMMA StepMailedInv == TypeOK /\ MailedInv /\ [Next]_vars => MailedInv'
<1> SUFFICES ASSUME TypeOK, MailedInv, [Next]_vars PROVE MailedInv'
  OBVIOUS
<1> USE DEF TypeOK, MailedInv, SentWasMailed, DeliveredWasMailed
<1>1. ASSUME NEW r \in Runs,
             Start(r) \/ SkipCleanup(r) \/ SkipReap(r) \/ Select(r)
      PROVE  MailedInv'
  BY <1>1 DEF Start, SkipCleanup, SkipReap, Select, GoTo, table, history
<1>2. ASSUME NEW r \in Runs, Cleanup(r)
      PROVE  MailedInv'
  BY <1>2 DEF Cleanup, GoTo
<1>3. ASSUME NEW r \in Runs, Reap(r)
      PROVE  MailedInv'
  BY <1>3 DEF Reap, ReapedStatus, GoTo, history
<1>4. ASSUME NEW r \in Runs, NothingToReport(r) \/ Finish(r) \/ Crash(r)
      PROVE  MailedInv'
  BY <1>4 DEF NothingToReport, Finish, Crash, Exit, GoTo, table, history
<1>5. ASSUME NEW r \in Runs, NEW k \in Keys,
             GiveUp(r, k) \/ Claim(r, k) \/ AlreadyHandled(r, k)
      PROVE  MailedInv'
  BY <1>5 DEF GiveUp, Claim, AlreadyHandled, GoTo, table, history
<1>6. ASSUME NEW r \in Runs, Send(r)
      PROVE  MailedInv'
  <2>1. PICK o \in Outcomes :
          /\ mails' = [mails EXCEPT ![cur[r]] = @ + (IF o.accepted THEN 1 ELSE 0)]
          /\ \/ UNCHANGED <<pc, delivered>>
             \/ /\ delivered' = [delivered EXCEPT ![r] = (o.reply = "ok")]
                /\ GoTo(r, "finalize")
    BY <1>6 DEF Send
  <2>2. pc[r] = "send" /\ cur[r] \in Keys /\ UNCHANGED <<status, cur>>
    BY <1>6 DEF Send, table
  <2>3. \A k \in Keys : mails'[k] \in Nat /\ mails'[k] >= mails[k]
    BY <2>1, <2>2
  <2>4. SentWasMailed'
    BY <2>2, <2>3
  <2>5. ASSUME NEW q \in Runs, pc'[q] = "finalize", delivered'[q]
        PROVE  mails'[cur'[q]] > 0
    <3>1. CASE q # r
      <4>1. pc[q] = "finalize" /\ delivered[q]
        BY <2>1, <2>5, <3>1 DEF GoTo
      <4> QED BY <2>2, <2>3, <4>1
    <3>2. CASE q = r
      <4>1. o.reply = "ok"
        BY <2>1, <2>2, <2>5, <3>2 DEF GoTo
      <4>2. o.accepted
        BY <4>1 DEF Outcomes
      <4> QED BY <2>1, <2>2, <3>2, <4>2
    <3> QED BY <3>1, <3>2
  <2> QED BY <2>4, <2>5
<1>7. ASSUME NEW r \in Runs, Finalize(r)
      PROVE  MailedInv'
  BY <1>7 DEF Finalize, FinalStatus, NextAlert, GoTo, history
<1>8. ASSUME NEW r \in Runs, FinalizeFails(r)
      PROVE  MailedInv'
  BY <1>8 DEF FinalizeFails, NextAlert, GoTo, table, history
<1>9. CASE Tick \/ UNCHANGED vars
  BY <1>9 DEF Tick, vars, table, memory, history
<1> QED
  BY <1>1, <1>2, <1>3, <1>4, <1>5, <1>6, <1>7, <1>8, <1>9 DEF Next, RunStep

\* A report the table calls 'sent' was accepted by some SMTP server.
THEOREM SentWasMailedAlways == Spec => []SentWasMailed
<1>1. Init => MailedInv
  BY DEF Init, MailedInv, SentWasMailed, DeliveredWasMailed
<1>2. MailedInv => SentWasMailed
  BY DEF MailedInv
<1> QED
  BY InitTypeOK, StepTypeOK, <1>1, <1>2, StepMailedInv, PTL DEF Spec

(***************************************************************************)
(* What a step may not do                                                  *)
(***************************************************************************)
LEMMA OnlySendMails ==
  ASSUME TypeOK, NEW k \in Keys, [Next]_vars, mails'[k] # mails[k]
  PROVE  \E r \in Runs : r \in Holders(k)
<1>1. ASSUME NEW r \in Runs, Send(r)
      PROVE  r \in Holders(k)
  <2>1. pc[r] = "send" /\ cur[r] \in Keys
    BY <1>1 DEF Send, TypeOK
  <2>2. cur[r] = k
    BY <1>1, <2>1 DEF Send, TypeOK
  <2> QED BY <2>1, <2>2 DEF Holders
<1>2. ASSUME NEW r \in Runs, RunStep(r) \/ Crash(r), ~Send(r)
      PROVE  mails' = mails
  BY <1>2 DEF RunStep, Crash, Start, Cleanup, SkipCleanup, Reap, SkipReap, Select,
     NothingToReport, GiveUp, Claim, AlreadyHandled, Finalize, FinalizeFails, Finish, history
<1>3. Tick \/ UNCHANGED vars => mails' = mails
  BY DEF Tick, vars, history
<1> QED BY <1>1, <1>2, <1>3 DEF Next

LEMMA StepNoMailAfterSent ==
  TypeOK /\ ClaimOnRecord /\ [Next]_vars =>
    [\A k \in Keys : status[k] = "sent" /\ purged[k] = 0 => mails'[k] = mails[k]]_vars
<1> SUFFICES ASSUME TypeOK, ClaimOnRecord, [Next]_vars,
                    NEW k \in Keys, status[k] = "sent", purged[k] = 0
             PROVE  mails'[k] = mails[k]
  OBVIOUS
<1>1. Holders(k) = {}
  BY DEF ClaimOnRecord
<1> QED BY <1>1, OnlySendMails

\* A report recorded as sent is not mailed again while its row stands.
THEOREM NoMailAfterSentAlways == Spec => NoMailAfterSent
BY InitTypeOK, StepTypeOK, InitOneHolder, StepOneHolder, InitClaimOnRecord,
   StepClaimOnRecord, StepNoMailAfterSent, PTL DEF Spec, NoMailAfterSent

LEMMA StepTerminalStays ==
  TypeOK /\ [Next]_vars =>
    [\A k \in Keys : status[k] \in {"sent", "unknown_send_state"} =>
        status'[k] \in {status[k], "absent"}]_vars
<1> SUFFICES ASSUME TypeOK, [Next]_vars,
                    NEW k \in Keys, status[k] \in {"sent", "unknown_send_state"}
             PROVE  status'[k] \in {status[k], "absent"}
  OBVIOUS
<1> USE DEF TypeOK
<1>1. ASSUME NEW r \in Runs, Cleanup(r) \/ Reap(r)
      PROVE  status'[k] \in {status[k], "absent"}
  BY <1>1 DEF Cleanup, Reap, Stale
<1>2. ASSUME NEW r \in Runs, NEW q \in Keys, Claim(r, q)
      PROVE  status'[k] \in {status[k], "absent"}
  BY <1>2 DEF Claim, Claimable
<1>3. ASSUME NEW r \in Runs, Finalize(r)
      PROVE  status'[k] \in {status[k], "absent"}
  BY <1>3 DEF Finalize, Finalizable
<1>4. ASSUME NEW r \in Runs, RunStep(r) \/ Crash(r),
             ~Cleanup(r), ~Reap(r), ~Finalize(r), \A q \in Keys : ~Claim(r, q)
      PROVE  status' = status
  BY <1>4 DEF RunStep, Crash, Start, SkipCleanup, SkipReap, Select, NothingToReport,
     GiveUp, AlreadyHandled, Send, FinalizeFails, Finish, table
<1>5. Tick \/ UNCHANGED vars => status' = status
  BY DEF Tick, vars, table
<1> QED BY <1>1, <1>2, <1>3, <1>4, <1>5 DEF Next

\* A late finalize cannot reopen a row that is sent or was reaped.
THEOREM TerminalStaysAlways == Spec => TerminalStays
BY InitTypeOK, StepTypeOK, StepTerminalStays, PTL DEF Spec, TerminalStays

(***************************************************************************)
(* How long a run can last.  The bound is on the run's own steps, whatever *)
(* the other runs and the clock do between them; that they are taken is    *)
(* the fairness of RunsEnd.                                                *)
(***************************************************************************)
\* Steps one report costs at most: the claim, every attempt, the outcome.
PerReport == MaxRetries + 2

\* Steps a run has left once it is back at its list, with the reports in T on it.
ListLeft(T) == 1 + PerReport * Cardinality(T)

\* Steps run r has left.
StepsLeft(r) ==
    CASE pc[r] = "idle"     -> 0
      [] pc[r] = "report"   -> ListLeft(todo[r])
      [] pc[r] = "finalize" -> ListLeft(todo[r]) + 1
      [] pc[r] = "send"     -> ListLeft(todo[r]) + 2 + (MaxRetries - attempt[r])
      [] pc[r] = "fetch"    -> ListLeft(Keys) + 1
      [] pc[r] = "reap"     -> ListLeft(Keys) + 2
      [] pc[r] = "cleanup"  -> ListLeft(Keys) + 3

Rests(r) ==
    UNCHANGED <<pc[r], todo[r], cur[r], attempt[r], delivered[r]>>

\* Every step leaves a run alone, starts it, or brings it nearer its end.
RunsAdvance ==
    [][\A r \in Runs : Rests(r) \/ pc[r] = "idle" \/ StepsLeft(r)' < StepsLeft(r)]_vars

\* A list is at least as long as a part of it.
LEMMA ListMonotone ==
  ASSUME IsFiniteSet(Keys), NEW T \in SUBSET Keys
  PROVE  /\ ListLeft(T) \in Nat /\ ListLeft(T) >= 1
         /\ ListLeft(T) <= ListLeft(Keys) /\ ListLeft(Keys) \in Nat
<1>1. /\ Cardinality(T) \in Nat /\ Cardinality(Keys) \in Nat
      /\ Cardinality(T) <= Cardinality(Keys)
  BY FS_Subset, FS_CardinalityType
<1>2. PerReport \in Nat
  BY DeliveryAssumption DEF PerReport
<1>3. ASSUME NEW c \in Nat, NEW m \in Nat, NEW n \in Nat, m <= n
      PROVE  c * m \in Nat /\ c * n \in Nat /\ c * m <= c * n
  BY <1>3
<1>4. /\ PerReport * Cardinality(T) \in Nat /\ PerReport * Cardinality(Keys) \in Nat
      /\ PerReport * Cardinality(T) <= PerReport * Cardinality(Keys)
  BY <1>1, <1>2, <1>3
<1> QED
  BY <1>4 DEF ListLeft

\* A report taken off the list pays for all its steps.
LEMMA ListShortens ==
  ASSUME IsFiniteSet(Keys), NEW T \in SUBSET Keys, NEW k \in T
  PROVE  ListLeft(T) = ListLeft(T \ {k}) + PerReport
<1>1. IsFiniteSet(T) /\ IsFiniteSet(T \ {k})
  BY FS_Subset
<1>2. /\ Cardinality(T \ {k}) \in Nat
      /\ Cardinality(T) = Cardinality(T \ {k}) + 1
  BY <1>1, FS_RemoveElement, FS_CardinalityType
<1>3. PerReport \in Nat
  BY DeliveryAssumption DEF PerReport
<1>4. ASSUME NEW c \in Nat, NEW m \in Nat
      PROVE  c * (m + 1) = c * m + c /\ c * m \in Nat
  BY <1>4
<1>5. /\ PerReport * Cardinality(T) = PerReport * Cardinality(T \ {k}) + PerReport
      /\ PerReport * Cardinality(T \ {k}) \in Nat
  BY <1>2, <1>3, <1>4
<1> QED
  BY <1>3, <1>5 DEF ListLeft

LEMMA StepAdvances ==
  ASSUME TypeOK, TypeOK', IsFiniteSet(Keys),
         NEW r \in Runs, pc[r] # "idle", RunStep(r) \/ Crash(r)
  PROVE  StepsLeft(r)' < StepsLeft(r)
<1>1. /\ todo[r] \in SUBSET Keys /\ todo'[r] \in SUBSET Keys
      /\ attempt[r] \in 0..MaxRetries /\ MaxRetries \in Nat
      /\ pc[r] \in Labels
  BY DeliveryAssumption DEF TypeOK
<1>2. /\ ListLeft(todo[r]) \in Nat /\ ListLeft(todo[r]) >= 1
      /\ ListLeft(todo'[r]) \in Nat /\ ListLeft(todo'[r]) <= ListLeft(Keys)
      /\ ListLeft(Keys) \in Nat /\ ListLeft(Keys) >= 1
  BY <1>1, ListMonotone
<1>3. CASE Cleanup(r) \/ SkipCleanup(r) \/ Reap(r) \/ SkipReap(r) \/ Select(r)
  BY <1>2, <1>3 DEF Cleanup, SkipCleanup, Reap, SkipReap, Select, GoTo, StepsLeft, TypeOK
<1>4. CASE NothingToReport(r) \/ Finish(r) \/ Crash(r)
  <2>1. StepsLeft(r)' = 0
    BY <1>4 DEF NothingToReport, Finish, Crash, Exit, GoTo, StepsLeft, TypeOK
  <2>2. StepsLeft(r) > 0
    BY <1>1, <1>2, <1>4 DEF StepsLeft, Labels
  <2> QED
    BY <2>1, <2>2
<1>5. ASSUME NEW k \in Keys, GiveUp(r, k) \/ AlreadyHandled(r, k)
      PROVE  StepsLeft(r)' < StepsLeft(r)
  <2>1. k \in todo[r] /\ todo'[r] = todo[r] \ {k} /\ pc[r] = "report" /\ pc'[r] = "report"
    BY <1>5 DEF GiveUp, AlreadyHandled, Remaining, TypeOK
  <2>2. ListLeft(todo[r]) = ListLeft(todo'[r]) + PerReport /\ PerReport \in Nat \ {0}
    BY <1>1, <2>1, ListShortens, DeliveryAssumption DEF PerReport
  <2> QED
    BY <1>2, <2>1, <2>2 DEF StepsLeft
<1>6. ASSUME NEW k \in Keys, Claim(r, k)
      PROVE  StepsLeft(r)' < StepsLeft(r)
  <2>1. /\ k \in todo[r] /\ todo'[r] = todo[r] \ {k} /\ attempt'[r] = 1
        /\ pc[r] = "report" /\ pc'[r] = "send"
    BY <1>6 DEF Claim, GoTo, Remaining, TypeOK
  <2>2. ListLeft(todo[r]) = ListLeft(todo'[r]) + MaxRetries + 2
    BY <1>1, <1>2, <2>1, ListShortens DEF PerReport
  <2> QED
    BY <1>1, <1>2, <2>1, <2>2 DEF StepsLeft
<1>7. CASE Send(r)
  <2>1. pc[r] = "send" /\ todo' = todo
    BY <1>7 DEF Send
  <2>2. \/ pc'[r] = "send" /\ attempt'[r] = attempt[r] + 1
        \/ pc'[r] = "finalize"
    BY <1>7 DEF Send, Retries, GoTo, TypeOK
  <2>3. attempt'[r] \in 0..MaxRetries
    BY DEF TypeOK
  <2> QED
    BY <1>1, <1>2, <2>1, <2>2, <2>3 DEF StepsLeft
<1>8. CASE Finalize(r) \/ FinalizeFails(r)
  <2>1. pc[r] = "finalize" /\ pc'[r] = "report" /\ todo' = todo
    BY <1>8 DEF Finalize, FinalizeFails, NextAlert, GoTo, TypeOK
  <2> QED
    BY <1>2, <2>1 DEF StepsLeft
<1> QED
  BY <1>3, <1>4, <1>5, <1>6, <1>7, <1>8 DEF RunStep, Start

LEMMA OthersRest ==
  ASSUME TypeOK, NEW r \in Runs, RunStep(r) \/ Crash(r), NEW q \in Runs, q # r
  PROVE  Rests(q)
<1> USE DEF TypeOK, Rests
<1>1. CASE Start(r) \/ Cleanup(r) \/ SkipCleanup(r) \/ Reap(r) \/ SkipReap(r) \/ Select(r)
  BY <1>1 DEF Start, Cleanup, SkipCleanup, Reap, SkipReap, Select, GoTo
<1>2. CASE NothingToReport(r) \/ Finish(r) \/ Crash(r)
  BY <1>2 DEF NothingToReport, Finish, Crash, Exit, GoTo
<1>3. CASE \E k \in Keys : GiveUp(r, k) \/ Claim(r, k) \/ AlreadyHandled(r, k)
  BY <1>3 DEF GiveUp, Claim, AlreadyHandled, GoTo
<1>4. CASE Send(r)
  BY <1>4 DEF Send, GoTo
<1>5. CASE Finalize(r) \/ FinalizeFails(r)
  BY <1>5 DEF Finalize, FinalizeFails, NextAlert, GoTo
<1> QED
  BY <1>1, <1>2, <1>3, <1>4, <1>5 DEF RunStep

\* No run is further from its end than one that just started.
WithinBound == \A r \in Runs : StepsLeft(r) \in 0..ListLeft(Keys) + 3

\* With finitely many reports a run takes a bounded number of steps, whatever
\* SMTP answers and however the other runs take its claims: PerReport for each
\* report and four more.
THEOREM RunsAreBounded ==
  ASSUME IsFiniteSet(Keys)
  PROVE  Spec => RunsAdvance /\ []WithinBound
<1>1. ASSUME TypeOK, TypeOK', Next, NEW r \in Runs
      PROVE  \/ Rests(r)
             \/ pc[r] = "idle" /\ StepsLeft(r)' \in 0..ListLeft(Keys) + 3
             \/ pc[r] # "idle" /\ StepsLeft(r)' < StepsLeft(r)
  <2>1. CASE Tick
    BY <1>1, <2>1 DEF Tick, memory, Rests
  <2>2. ASSUME NEW q \in Runs, RunStep(q) \/ Crash(q), q # r
        PROVE  Rests(r)
    BY <1>1, <2>2, OthersRest
  <2>3. CASE (RunStep(r) \/ Crash(r)) /\ pc[r] = "idle"
    <3>1. Start(r)
      BY <2>3 DEF RunStep, Crash, Cleanup, SkipCleanup, Reap, SkipReap, Select,
         NothingToReport, GiveUp, Claim, AlreadyHandled, Send, Finalize, FinalizeFails, Finish
    <3>2. pc'[r] = "cleanup"
      BY <1>1, <3>1 DEF Start, GoTo, TypeOK
    <3>3. ListLeft(Keys) \in Nat
      BY ListMonotone
    <3> QED
      BY <2>3, <3>2, <3>3 DEF StepsLeft
  <2>4. CASE (RunStep(r) \/ Crash(r)) /\ pc[r] # "idle"
    BY <1>1, <2>4, StepAdvances
  <2> QED
    BY <1>1, <2>1, <2>2, <2>3, <2>4 DEF Next
<1>2. TypeOK /\ TypeOK' /\ [Next]_vars
        => [\A r \in Runs : Rests(r) \/ pc[r] = "idle" \/ StepsLeft(r)' < StepsLeft(r)]_vars
  BY <1>1
<1>3. TypeOK /\ TypeOK' /\ WithinBound /\ [Next]_vars => WithinBound'
  <2> SUFFICES ASSUME TypeOK, TypeOK', WithinBound, [Next]_vars, NEW r \in Runs
               PROVE  StepsLeft(r)' \in 0..ListLeft(Keys) + 3
    BY DEF WithinBound
  <2>1. CASE UNCHANGED vars \/ Rests(r)
    <3>1. StepsLeft(r)' = StepsLeft(r)
      BY <2>1 DEF vars, memory, Rests, StepsLeft
    <3> QED
      BY <3>1 DEF WithinBound
  <2>2. CASE pc[r] = "idle" /\ StepsLeft(r)' \in 0..ListLeft(Keys) + 3
    BY <2>2
  <2>3. CASE StepsLeft(r)' < StepsLeft(r)
    <3>1. StepsLeft(r)' \in Nat
      <4>1. /\ todo'[r] \in SUBSET Keys /\ attempt'[r] \in 0..MaxRetries /\ MaxRetries \in Nat
            /\ pc'[r] \in Labels
        BY DeliveryAssumption DEF TypeOK
      <4>2. ListLeft(todo'[r]) \in Nat /\ ListLeft(Keys) \in Nat
        BY <4>1, ListMonotone
      <4> QED
        BY <4>1, <4>2 DEF StepsLeft, Labels
    <3>2. StepsLeft(r) \in 0..ListLeft(Keys) + 3 /\ ListLeft(Keys) \in Nat
      BY ListMonotone DEF WithinBound
    <3> QED
      BY <2>3, <3>1, <3>2
  <2> QED
    BY <1>1, <2>1, <2>2, <2>3
<1>4. Init => WithinBound
  <2>1. ListLeft(Keys) \in Nat
    BY ListMonotone
  <2> QED
    BY <2>1 DEF Init, WithinBound, StepsLeft
<1> QED
  BY <1>2, <1>3, <1>4, InitTypeOK, StepTypeOK, PTL DEF Spec, RunsAdvance
=============================================================================
