------------------------ MODULE ReservationSettlement ------------------------
(***************************************************************************)
(* The money of one reservation: the member's free hours committed to it,  *)
(* the cash remainder, the Stripe payments made for it, and their return   *)
(* when it is cancelled or refunded. The member, staff and Stripe's        *)
(* webhook act on the row at once; each step is one statement of a handler *)
(* and the code up to its next await.                                      *)
(*                                                                         *)
(* Amounts are in credits of half an hour. The wallet's own statements are *)
(* atomic here (CreditLedger.tla shows that they may be taken so); the     *)
(* ledger entry that follows each of them is a step of its own. The time   *)
(* of day is not modelled: what needs a past or a future reservation may   *)
(* happen at any time.                                                     *)
(***************************************************************************)
EXTENDS Integers

CONSTANTS Clients,    \* Worker invocations
          Cost,       \* unitsNeeded: the reservation's half hours
          Allowance,  \* subscription.hoursPerReset, in credits
          MaxCalls,   \* bound: calls that members, staff and Stripe repeat
          MaxUpsets   \* bound: Worker invocations lost half way, and the
                      \* wallet's other changes, together

ASSUME SettlementAssumption ==
  /\ Cost \in Nat \ {0} /\ Allowance \in Nat
  /\ MaxCalls \in Nat /\ MaxUpsets \in Nat

Live == {"scheduled", "confirmed"}
Statuses == Live \cup {"cancelled", "completed", "no_show"}
NotCommitted == -1      \* cashDueCents is null
NoReceipt == 0          \* stripePaymentRecordId is null, or the empty string
Calls == 1..MaxCalls    \* a call makes at most one payment, named after it

VARIABLES row,        \* the reservation
          wallet,     \* the member's free_hours balance
          allowance,  \* what the member's subscription allots
          spent,      \* ledger: units deducted for the reservation
          returned,   \* ledger: there is a reversal of the reservation
          payments,   \* what Stripe holds
          req, calls, upsets,
          commits,    \* ghost: how often credits were taken for the row
          reversals,  \* ghost: how often credits were given back for it
          blemishes   \* ghost: what went on that excuses a property

accounts == <<wallet, allowance, spent, returned>>
bounds == <<calls, upsets>>
ghosts == <<commits, reversals, blemishes>>
vars == <<row, accounts, payments, req, bounds, ghosts>>

Row == [status : Statuses, due : {NotCommitted} \cup 0..Cost, receipt : {NoReceipt} \cup Calls,
        paid : BOOLEAN, refunded : BOOLEAN]
Payment == [kind : {"none", "session", "cash", "credits"},
            state : {"open", "paid", "refunded"}, told : BOOLEAN]

Committing == {"commit", "balance", "deduct", "entry", "mark"}
Reversing == {"reverse", "sum", "weigh", "add", "addEntry"}
Labels == Committing \cup Reversing \cup
          {"idle", "receipt", "settle", "finish", "reread", "complete",
           "compConfirm", "compMark", "cancel", "refund", "stamp", "hook"}
Reasons == {"none", "book", "confirm", "pay", "cash", "comp", "cancel", "refund", "hook"}
Request == [at : Labels, why : Reasons, call : {0} \cup Calls, seen : Row, units : Nat]

NewRow == [status |-> "scheduled", due |-> NotCommitted, receipt |-> NoReceipt,
           paid |-> FALSE, refunded |-> FALSE]
Idle == [at |-> "idle", why |-> "none", call |-> 0, seen |-> NewRow, units |-> 0]

At(p, label) == req[p].at = label
Become(p, r) == req' = [req EXCEPT ![p] = r]
Goto(p, label) == Become(p, [req[p] EXCEPT !.at = label])
End(p) == Become(p, Idle)
Lower(m, n) == IF m < n THEN m ELSE n
Others(p, labels) == \E q \in Clients \ {p} : req[q].at \in labels

-----------------------------------------------------------------------------
(* A call arrives. Every handler reads the row first; most refuse one that *)
(* is no longer live, and three use what they read again at a later step.  *)
Arrive(p, why, label) ==
  /\ req[p] = Idle /\ calls < MaxCalls
  /\ calls' = calls + 1
  /\ Become(p, [Idle EXCEPT !.at = label, !.why = why, !.call = calls + 1,
                            !.seen = IF why \in {"confirm", "cancel", "refund"} THEN row ELSE NewRow])
  /\ UNCHANGED <<row, accounts, payments, upsets, ghosts>>

Eligible == row.status \in Live

(* bookAndPayReservation() has just inserted the row.                      *)
Book(p) == calls = 0 /\ Arrive(p, "book", "commit")
Confirm(p) == Eligible /\ Arrive(p, "confirm", "commit")
Pay(p) == Eligible /\ Arrive(p, "pay", "commit")
(* cashReceivedReservation() does not look at the status.                  *)
CashReceived(p) == Arrive(p, "cash", "commit")
Comp(p) == \/ row.status = "confirmed" /\ Arrive(p, "comp", "compMark")
           \/ Arrive(p, "comp", "compConfirm")
Cancel(p) == Eligible /\ Arrive(p, "cancel", "cancel")
Refund(p) == row.receipt # NoReceipt /\ Arrive(p, "refund", "refund")

-----------------------------------------------------------------------------
(* commitReservationCredits(). *)
(* Mutant of Committed: nothing owed reads as nothing committed.           *)
CommittedMutant == row.due > 0
Committed == row.due # NotCommitted

AfterCommit(p, due) ==
  Become(p, [req[p] EXCEPT !.at = IF due > 0 THEN "finish" ELSE "receipt", !.units = 0])

CommitRead(p) ==
  /\ At(p, "commit")
  /\ IF Committed THEN AfterCommit(p, row.due) ELSE Goto(p, "balance")
  /\ blemishes' = blemishes \cup (IF Others(p, Committing) THEN {"overlap"} ELSE {})
  /\ UNCHANGED <<row, accounts, payments, bounds, commits, reversals>>

BalanceRead(p) ==
  LET n == Lower(wallet, Cost) IN
  /\ At(p, "balance")
  /\ Become(p, [req[p] EXCEPT !.units = n, !.at = IF n > 0 THEN "deduct" ELSE "mark"])
  /\ UNCHANGED <<row, accounts, payments, bounds, ghosts>>

(* The balance may have shrunk since it was read: then the handler fails.  *)
Affordable(n) == wallet >= n

Deduct(p) ==
  LET n == req[p].units IN
  /\ At(p, "deduct")
  /\ \/ /\ Affordable(n)
        /\ wallet' = wallet - n /\ commits' = commits + 1
        /\ Goto(p, "entry")
        /\ blemishes' = blemishes \cup (IF Eligible THEN {} ELSE {"dead"})
     \/ ~Affordable(n) /\ End(p) /\ UNCHANGED <<wallet, commits, blemishes>>
  /\ UNCHANGED <<row, allowance, spent, returned, payments, bounds, reversals>>

DeductEntry(p) ==
  /\ At(p, "entry")
  /\ spent' = spent + req[p].units
  /\ Goto(p, "mark")
  /\ UNCHANGED <<row, wallet, allowance, returned, payments, bounds, ghosts>>

(* Mutant of Remainder: the discount is forgotten.                         *)
RemainderMutant(n) == Cost
Remainder(n) == Cost - n

(* By id alone: a row cancelled meanwhile is marked too.                   *)
Mark(p) ==
  LET due == Remainder(req[p].units) IN
  /\ At(p, "mark")
  /\ row' = [row EXCEPT !.due = due]
  /\ AfterCommit(p, due)
  /\ UNCHANGED <<accounts, payments, bounds, ghosts>>

-----------------------------------------------------------------------------
(* The rest of commitCreditsAndSettleIfCovered() and of its callers. *)
Record(i, kind, state) == payments' = [payments EXCEPT ![i] = [kind |-> kind, state |-> state,
                                                              told |-> FALSE]]

(* The zero payment that documents the settlement is best effort.          *)
SettleReceipt(p) ==
  /\ At(p, "receipt")
  /\ Record(req[p].call, "credits", "paid") \/ UNCHANGED payments
  /\ Goto(p, "settle")
  /\ UNCHANGED <<row, accounts, bounds, ghosts>>

Settle(p) ==
  LET i == req[p].call IN
  /\ At(p, "settle")
  /\ row' = IF row.status \in Live
            THEN [row EXCEPT !.status = "confirmed", !.due = 0,
                             !.receipt = IF payments[i].kind = "credits" THEN i ELSE NoReceipt]
            ELSE row
  /\ IF req[p].why = "cash" THEN Goto(p, "reread") ELSE End(p)
  /\ UNCHANGED <<accounts, payments, bounds, ghosts>>

(* Something is left to pay: at the door, online, or in cash right now.    *)
(* bookAndPayReservation() confirms by id alone.                           *)
FinishBook(p) ==
  /\ At(p, "finish") /\ req[p].why = "book"
  /\ row' = [row EXCEPT !.status = "confirmed"]
  /\ blemishes' = blemishes \cup (IF Eligible THEN {} ELSE {"revived"})
  /\ End(p) /\ UNCHANGED <<accounts, payments, bounds, commits, reversals>>

FinishConfirm(p) ==
  /\ At(p, "finish") /\ req[p].why = "confirm"
  /\ row' = IF row.status = "scheduled" /\ req[p].seen.status = "scheduled"
            THEN [row EXCEPT !.status = "confirmed"] ELSE row
  /\ End(p) /\ UNCHANGED <<accounts, payments, bounds, ghosts>>

FinishPay(p) ==
  /\ At(p, "finish") /\ req[p].why \in {"book", "pay"}
  /\ Record(req[p].call, "session", "open")
  /\ End(p) /\ UNCHANGED <<row, accounts, bounds, ghosts>>

FinishCash(p) ==
  /\ At(p, "finish") /\ req[p].why = "cash"
  /\ Record(req[p].call, "cash", "paid")
  /\ Become(p, [req[p] EXCEPT !.at = "complete", !.seen.receipt = req[p].call])
  /\ UNCHANGED <<row, accounts, bounds, ghosts>>

Reread(p) ==
  /\ At(p, "reread")
  /\ Become(p, [req[p] EXCEPT !.at = "complete", !.seen.receipt = row.receipt])
  /\ UNCHANGED <<row, accounts, payments, bounds, ghosts>>

(* recordCashAndComplete(). *)
Complete(p) ==
  /\ At(p, "complete")
  /\ row' = IF row.status \in Live
            THEN [row EXCEPT !.status = "completed", !.receipt = req[p].seen.receipt,
                             !.paid = TRUE, !.due = 0]
            ELSE row
  /\ End(p) /\ UNCHANGED <<accounts, payments, bounds, ghosts>>

CompConfirm(p) ==
  /\ At(p, "compConfirm")
  /\ IF row.status = "scheduled" THEN row' = [row EXCEPT !.status = "confirmed"] /\ Goto(p, "compMark")
                                ELSE End(p) /\ UNCHANGED row
  /\ UNCHANGED <<accounts, payments, bounds, ghosts>>

CompMark(p) ==
  /\ At(p, "compMark")
  /\ row' = [row EXCEPT !.due = 0]
  /\ blemishes' = blemishes \cup {"comp"}
  /\ End(p) /\ UNCHANGED <<accounts, payments, bounds, commits, reversals>>

-----------------------------------------------------------------------------
(* cancel() and refundReservation(). *)

CancelWrite(p) ==
  /\ At(p, "cancel")
  /\ IF row.status \in Live
     THEN /\ row' = [row EXCEPT !.status = "cancelled", !.due = NotCommitted]
          /\ Goto(p, IF req[p].seen.receipt # NoReceipt THEN "refund" ELSE "reverse")
     ELSE End(p) /\ UNCHANGED row
  /\ blemishes' = blemishes \cup
       (IF row = req[p].seen /\ \A q \in Clients \ {p} : req[q].why \in {"none", "cancel"}
        THEN {} ELSE {"overtaken"})
  /\ UNCHANGED <<accounts, payments, bounds, commits, reversals>>

(* refund() returns early on a payment already refunded. A refund Stripe   *)
(* refuses ends refundReservation(), but cancel() goes on.                 *)
(* Mutant of Refundable: only payment records, not payment intents.        *)
RefundableMutant(i) == payments[i].state = "paid" /\ payments[i].kind # "session"
Refundable(i) == payments[i].state = "paid"

RefundPayment(p) ==
  LET i == req[p].seen.receipt IN
  /\ At(p, "refund")
  /\ \/ /\ payments' = IF Refundable(i) THEN [payments EXCEPT ![i].state = "refunded"]
                                                    ELSE payments
        /\ Goto(p, IF req[p].why = "cancel" THEN "stamp" ELSE "reverse")
        /\ UNCHANGED blemishes
     \/ /\ IF req[p].why = "cancel" THEN Goto(p, "reverse") ELSE End(p)
        /\ blemishes' = blemishes \cup {"refused"}
        /\ UNCHANGED payments
  /\ UNCHANGED <<row, accounts, bounds, commits, reversals>>

(* The order differs: cancel() stamps the row before it returns credits.   *)
Stamp(p) ==
  /\ At(p, "stamp")
  /\ row' = [row EXCEPT !.refunded = TRUE]
  /\ IF req[p].why = "cancel" THEN Goto(p, "reverse") ELSE End(p)
  /\ UNCHANGED <<accounts, payments, bounds, ghosts>>

(* reverseReservationCredits(). *)
Reversed(p) == IF req[p].why = "refund" THEN Goto(p, "stamp") ELSE End(p)

(* Mutant of AlreadyReversed: the ledger is not asked for a reversal.     *)
AlreadyReversedMutant == FALSE
AlreadyReversed == returned

ReverseCheck(p) ==
  /\ At(p, "reverse")
  /\ IF AlreadyReversed THEN Reversed(p) ELSE Goto(p, "sum")
  /\ blemishes' = blemishes \cup (IF Others(p, Reversing) THEN {"twoReversals"} ELSE {})
                            \cup (IF Others(p, Committing) THEN {"overlap"} ELSE {})
  /\ UNCHANGED <<row, accounts, payments, bounds, commits, reversals>>

ReverseSum(p) ==
  /\ At(p, "sum")
  /\ IF spent = 0 THEN Reversed(p)
                  ELSE Become(p, [req[p] EXCEPT !.at = "weigh", !.units = spent])
  /\ UNCHANGED <<row, accounts, payments, bounds, ghosts>>

Room == IF wallet < allowance THEN allowance - wallet ELSE 0

ReverseWeigh(p) ==
  LET n == Lower(req[p].units, Room) IN
  /\ At(p, "weigh")
  /\ IF n = 0 THEN Reversed(p) ELSE Become(p, [req[p] EXCEPT !.at = "add", !.units = n])
  /\ blemishes' = blemishes \cup (IF n < req[p].units THEN {"capped"} ELSE {})
  /\ UNCHANGED <<row, accounts, payments, bounds, commits, reversals>>

ReverseAdd(p) ==
  /\ At(p, "add")
  /\ wallet' = wallet + req[p].units /\ reversals' = reversals + 1
  /\ Goto(p, "addEntry")
  /\ UNCHANGED <<row, allowance, spent, returned, payments, bounds, commits, blemishes>>

ReverseEntry(p) ==
  /\ At(p, "addEntry")
  /\ returned' = TRUE
  /\ Reversed(p)
  /\ UNCHANGED <<row, wallet, allowance, spent, payments, bounds, ghosts>>

-----------------------------------------------------------------------------
(* Stripe: the member pays an open session; handleReservationCheckout() is *)
(* called until it has answered once, and may be called again.             *)
PayOnline(i) ==
  /\ payments[i].kind = "session" /\ payments[i].state = "open"
  /\ payments' = [payments EXCEPT ![i].state = "paid"]
  /\ UNCHANGED <<row, accounts, req, bounds, ghosts>>

Hear(p, i) ==
  /\ req[p] = Idle
  /\ payments[i].kind = "session" /\ payments[i].state # "open"
  /\ payments[i].told => calls < MaxCalls
  /\ calls' = IF payments[i].told THEN calls + 1 ELSE calls
  /\ IF row.status \in Live
     THEN Become(p, [Idle EXCEPT !.at = "hook", !.why = "hook", !.call = i]) /\ UNCHANGED payments
     ELSE payments' = [payments EXCEPT ![i].told = TRUE] /\ UNCHANGED req
  /\ UNCHANGED <<row, accounts, upsets, ghosts>>

HookWrite(p) ==
  LET i == req[p].call IN
  /\ At(p, "hook")
  /\ row' = [row EXCEPT !.status = "confirmed", !.receipt = i, !.paid = TRUE, !.due = 0]
  /\ payments' = [payments EXCEPT ![i].told = TRUE]
  /\ blemishes' = blemishes \cup (IF Eligible THEN {} ELSE {"revived"})
  /\ End(p) /\ UNCHANGED <<accounts, bounds, commits, reversals>>

-----------------------------------------------------------------------------
(* Single statements on the row, and the wallet's other life. *)
Resolve == /\ \/ row.status = "confirmed" /\ row' = [row EXCEPT !.status = "completed"]
              \/ row.status \in Live /\ row' = [row EXCEPT !.status = "no_show"]
           /\ UNCHANGED <<accounts, payments, req, bounds, ghosts>>

Elsewhere == upsets < MaxUpsets /\ upsets' = upsets + 1
             /\ UNCHANGED <<row, spent, returned, payments, req, calls, ghosts>>
Renew == allowance > 0 /\ wallet' = allowance /\ UNCHANGED allowance /\ Elsewhere
SpendElsewhere == wallet > 0 /\ wallet' = wallet - 1 /\ UNCHANGED allowance /\ Elsewhere
Unsubscribe == allowance > 0 /\ wallet' = 0 /\ allowance' = 0 /\ Elsewhere

Crash(p) ==
  /\ req[p] # Idle /\ upsets < MaxUpsets
  /\ upsets' = upsets + 1
  /\ End(p)
  /\ blemishes' = blemishes \cup (IF req[p].at \in {"entry", "mark"} THEN {"cutCommit"} ELSE {})
                            \cup (IF req[p].why \in {"cancel", "refund"} THEN {"cutCancel"} ELSE {})
  /\ UNCHANGED <<row, accounts, payments, calls, commits, reversals>>

-----------------------------------------------------------------------------
Init ==
  /\ row = NewRow
  /\ wallet \in 0..Allowance /\ allowance = Allowance
  /\ spent = 0 /\ returned = FALSE
  /\ payments = [i \in Calls |-> [kind |-> "none", state |-> "open", told |-> FALSE]]
  /\ req = [p \in Clients |-> Idle]
  /\ calls = 0 /\ upsets = 0
  /\ commits = 0 /\ reversals = 0 /\ blemishes = {}

Continue(p) ==
  \/ CommitRead(p) \/ BalanceRead(p) \/ Deduct(p) \/ DeductEntry(p) \/ Mark(p)
  \/ SettleReceipt(p) \/ Settle(p)
  \/ FinishBook(p) \/ FinishConfirm(p) \/ FinishPay(p) \/ FinishCash(p)
  \/ Reread(p) \/ Complete(p) \/ CompConfirm(p) \/ CompMark(p)
  \/ CancelWrite(p) \/ RefundPayment(p) \/ Stamp(p)
  \/ ReverseCheck(p) \/ ReverseSum(p) \/ ReverseWeigh(p) \/ ReverseAdd(p) \/ ReverseEntry(p)
  \/ HookWrite(p)

Call(p) == \/ Book(p) \/ Confirm(p) \/ Pay(p) \/ CashReceived(p) \/ Comp(p)
           \/ Cancel(p) \/ Refund(p)

Next == \/ \E p \in Clients : Continue(p) \/ Call(p) \/ Crash(p)
        \/ \E i \in Calls : PayOnline(i) \/ \E p \in Clients : Hear(p, i)
        \/ Resolve \/ Renew \/ SpendElsewhere \/ Unsubscribe

Spec == Init /\ [][Next]_vars
-----------------------------------------------------------------------------
TypeOK ==
  /\ row \in Row /\ wallet \in Nat /\ allowance \in {0, Allowance}
  /\ spent \in Nat /\ returned \in BOOLEAN
  /\ payments \in [Calls -> Payment]
  /\ req \in [Clients -> Request]
  /\ calls \in 0..MaxCalls /\ upsets \in 0..MaxUpsets
  /\ commits \in Nat /\ reversals \in Nat
  /\ blemishes \subseteq {"overlap", "comp", "overtaken", "refused", "twoReversals",
                           "capped", "revived", "dead", "cutCommit", "cutCancel"}

Quiet == \A p \in Clients : req[p] = Idle
Clean(excuses) == blemishes \cap excuses = {}

(* Cash and credits add up to the price: what a live reservation still     *)
(* owes is its cost less the units the ledger has for it, however often it *)
(* was confirmed, paid ahead or settled in whatever order and whatever     *)
(* cancels or refunds it meanwhile (commitReservationCredits). Excused are *)
(* two commits at once, one that dies, a comp and a revived row.           *)
DueIsRemainder ==
  /\ Eligible /\ row.due # NotCommitted /\ ~row.paid
  /\ Clean({"overlap", "comp", "revived", "cutCommit"})
  => spent = Cost - row.due

(* A reservation that was paid owes nothing, whatever is confirmed after   *)
(* or while the webhook comes in (handleReservationCheckout).              *)
PaidOwesNothing ==
  row.paid /\ Eligible /\ Clean({"overlap", "revived"}) => row.due = 0

(* A cancelled reservation keeps neither credits nor a recorded payment:   *)
(* its units were given back, unless the allowance capped them, and the    *)
(* payment on the row was refunded, unless Stripe refused (cancel,         *)
(* reverseReservationCredits). Excused is a cancellation that another      *)
(* request on the same row overtook, or that is lost half way, and a row   *)
(* that is paid for or revived after it.                                   *)
CancelledHoldsNothing ==
  row.status = "cancelled" /\ Quiet
    /\ Clean({"overtaken", "refused", "capped", "revived", "dead", "cutCancel"})
  => /\ spent > 0 => returned
     /\ row.receipt # NoReceipt => payments[row.receipt].state = "refunded"

(* A cancellation and a staff refund of the same reservation, one after    *)
(* the other or retried, give its credits back once.                       *)
ReturnedOnce == Clean({"twoReversals", "cutCancel"}) => reversals <= 1

(* reservation/reservation-credit-service.ts:67 says: "Commit free-hour    *)
(* credits to a reservation exactly once. Idempotent".                     *)
CommittedOnce == commits <= 1
=============================================================================
