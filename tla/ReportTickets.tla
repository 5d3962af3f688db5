--------------------------- MODULE ReportTickets ----------------------------
(***************************************************************************)
(* What the delivery path promises about one report, with no process, row  *)
(* or clock in sight.  A report starts with one ticket.  A mail needs a    *)
(* ticket and spends it.  Tickets get lost (then the report is never       *)
(* mailed).  A new one is issued for two reasons only: the mail just sent  *)
(* was not acknowledged, or the record that it is done was discarded.      *)
(***************************************************************************)
EXTENDS Naturals

CONSTANT Keys

VARIABLES mails, tickets, reissued

vars == <<mails, tickets, reissued>>

Init ==
    /\ mails = [k \in Keys |-> 0]
    /\ tickets = [k \in Keys |-> 1]
    /\ reissued = [k \in Keys |-> 0]

\* A mail goes out, and the sender knows.
Mail(k) ==
    /\ tickets[k] > 0
    /\ mails'[k] = mails[k] + 1
    /\ tickets'[k] = tickets[k] - 1
    /\ reissued'[k] = reissued[k]

\* A mail goes out, and the sender is told it did not.
MailUnproven(k) ==
    /\ tickets[k] > 0
    /\ mails'[k] = mails[k] + 1
    /\ tickets'[k] = tickets[k]
    /\ reissued'[k] = reissued[k] + 1

\* The record that the report is done is discarded.
Forget(k) ==
    /\ mails'[k] = mails[k]
    /\ tickets'[k] = tickets[k] + 1
    /\ reissued'[k] = reissued[k] + 1

\* Tickets are lost, or nothing happens to this report.
LoseOrKeep(k) ==
    /\ mails'[k] = mails[k]
    /\ tickets'[k] <= tickets[k]
    /\ reissued'[k] = reissued[k]

\* Reports are independent: a step may touch several of them at once.
Next ==
    /\ mails' \in [Keys -> Nat]
    /\ tickets' \in [Keys -> Nat]
    /\ reissued' \in [Keys -> Nat]
    /\ \A k \in Keys : Mail(k) \/ MailUnproven(k) \/ Forget(k) \/ LoseOrKeep(k)

Spec == Init /\ [][Next]_vars
=============================================================================
