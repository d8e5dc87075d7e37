---------------------------- MODULE EquipmentLoans ----------------------------
(***************************************************************************)
(* The loans of one member and the pieces of equipment they take: request, *)
(* scheduling, pickup, return with its settlement, cancellation, and the   *)
(* staff's edits of the stock.                                             *)
(*                                                                         *)
(* A loan's handlers read it and write it later by id. Only scheduling     *)
(* repeats a condition in its UPDATE: that enough pieces are left. A       *)
(* return is settled before its status is written: equipment credits as    *)
(* far as they go, cash for the rest. The wallet's statements are atomic   *)
(* (CreditLedger.tla). Amounts are in units of one credit.                 *)
(***************************************************************************)
EXTENDS Integers, FiniteSetsExt

CONSTANTS Clients,    \* Worker invocations
          Loans, Items,
          None,       \* no loan; or a null equipmentId: a free-form request
          Quantities, \* pieces a loan may be for
          Stocks,     \* bound: pieces of an item that staff may enter
          Charges,    \* what a return may cost
          MaxCredits, \* bound: the equipment credits of the member
          Attempts,   \* how often settleReturn tries to deduct
          MaxCalls,   \* bound: calls of the member and the staff
          MaxUpsets   \* bound: lost Workers and changes of the wallet, together

ASSUME LoansAssumption ==
  /\ None \notin Clients \cup Items \cup Loans
  /\ Quantities \subseteq Nat /\ Charges \subseteq Nat /\ Stocks \subseteq Nat
  /\ MaxCredits \in Nat /\ Attempts \in Nat /\ MaxCalls \in Nat /\ MaxUpsets \in Nat

Out == {"scheduled", "checked_out"}
Statuses == Out \cup {"new", "requested", "returned", "cancelled"}

VARIABLES loan,      \* the equipment_loan rows; "new" before the request
          stock,     \* per item, totalQuantity - outOfOrderQuantity
          retired,   \* the items with a deletedAt
          wallet,    \* the member's equipment_credits
          stripe,    \* whether the member has a Stripe customer
          taken,     \* ledger: credits deducted for each loan
          cash,      \* Stripe: cash recorded for each loan
          req, calls, upsets,
          muddled    \* ghost: loans written over, or cut off while settling

stores == <<stock, retired>>
money == <<wallet, stripe, taken, cash>>
bounds == <<calls, upsets>>
vars == <<loan, stores, money, req, bounds, muddled>>

Loan == [status : Statuses, item : Items \cup {None}, qty : Nat,
         charge : Nat, credits : Nat, cash : Nat]
NewLoan == [status |-> "new", item |-> None, qty |-> 0, charge |-> 0, credits |-> 0, cash |-> 0]

(* A request has a loan, the row it read, and an argument: an item, and a  *)
(* quantity or charge n. overtaken is a ghost: how often the balance was   *)
(* lowered by others between its read and the deduction.                   *)
Labels == {"idle", "insert", "check", "schedule", "checkout", "cancel",
           "balance", "deduct", "cash", "close"}
Request == [at : Labels, loan : Loans \cup {None}, row : Loan, item : Items \cup {None}, n : Nat,
            seen : Nat, used : Nat, tries : 0..Attempts, overtaken : 0..Attempts]
Idle == [at |-> "idle", loan |-> None, row |-> NewLoan, item |-> None, n |-> 0,
         seen |-> 0, used |-> 0, tries |-> 0, overtaken |-> 0]

At(p, label) == req[p].at = label
Become(p, r) == req' = [req EXCEPT ![p] = r]
End(p) == Become(p, Idle)
Lower(m, n) == IF m < n THEN m ELSE n

-----------------------------------------------------------------------------
Allocated(i) == MapThenSumSet(LAMBDA l : loan[l].qty,
                              {l \in Loans : loan[l].item = i /\ loan[l].status \in Out})
Left(i) == stock[i] - Allocated(i)
Available(i) == IF i \in retired THEN 0 ELSE Left(i)

(* A call arrives and reads its loan. *)
Arrive(p, l, label, i, n) ==
  /\ req[p] = Idle /\ calls < MaxCalls
  /\ calls' = calls + 1
  /\ Become(p, [Idle EXCEPT !.at = label, !.loan = l, !.row = loan[l], !.item = i, !.n = n])
  /\ UNCHANGED <<loan, stores, money, upsets, muddled>>

(* A handler's last statement: a write by id, whatever became of the loan. *)
Stale(p) == loan[req[p].loan] # req[p].row
Write(p, row) ==
  /\ loan' = [loan EXCEPT ![req[p].loan] = row]
  /\ muddled' = IF Stale(p) THEN muddled \cup {req[p].loan} ELSE muddled
  /\ End(p)

-----------------------------------------------------------------------------
RequestLoan(p, l, i, n) ==
  /\ loan[l] = NewLoan /\ \A q \in Clients : req[q].loan # l
  /\ i # None => Available(i) >= n
  /\ Arrive(p, l, "insert", i, n)

Insert(p) ==
  /\ At(p, "insert")
  /\ Write(p, [NewLoan EXCEPT !.status = "requested", !.item = req[p].item, !.qty = req[p].n])
  /\ UNCHANGED <<stores, money, bounds>>

Schedule(p, l, i) == loan[l].status = "requested" /\ Arrive(p, l, "check", i, 0)

ScheduleCheck(p) ==
  LET r == req[p] IN
  /\ At(p, "check")
  /\ IF Available(r.item) >= r.row.qty THEN Become(p, [r EXCEPT !.at = "schedule"]) ELSE End(p)
  /\ UNCHANGED <<loan, stores, money, bounds, muddled>>

(* Mutant of Enough: the UPDATE relies on the check before it.             *)
EnoughMutant(i, n) == TRUE
Enough(i, n) == Left(i) >= n

ScheduleWrite(p) ==
  LET r == req[p] IN
  /\ At(p, "schedule")
  /\ IF Enough(r.item, r.row.qty)
     THEN Write(p, [loan[r.loan] EXCEPT !.status = "scheduled", !.item = r.item])
     ELSE End(p) /\ UNCHANGED <<loan, muddled>>
  /\ UNCHANGED <<stores, money, bounds>>

Checkout(p, l) == loan[l].status = "scheduled" /\ Arrive(p, l, "checkout", None, 0)

CheckoutWrite(p) ==
  /\ At(p, "checkout")
  /\ Write(p, [loan[req[p].loan] EXCEPT !.status = "checked_out"])
  /\ UNCHANGED <<stores, money, bounds>>

Cancel(p, l) == loan[l].status \in {"requested", "scheduled"} /\ Arrive(p, l, "cancel", None, 0)

CancelWrite(p) ==
  /\ At(p, "cancel")
  /\ Write(p, [loan[req[p].loan] EXCEPT !.status = "cancelled"])
  /\ UNCHANGED <<stores, money, bounds>>

-----------------------------------------------------------------------------
(* returnLoan() and settleReturn(). *)
Return(p, l, n) == /\ loan[l].status = "checked_out"
                   /\ Arrive(p, l, IF n = 0 THEN "close" ELSE "balance", None, n)

BalanceRead(p) ==
  LET r == req[p] IN
  /\ At(p, "balance")
  /\ Become(p, IF r.tries < Attempts /\ wallet > 0
               THEN [r EXCEPT !.at = "deduct", !.seen = wallet]
               ELSE [r EXCEPT !.at = "cash"])
  /\ UNCHANGED <<loan, stores, money, bounds, muddled>>

Wanted(r) == Lower(r.seen, r.n)

Covered(n) == wallet >= n

(* The balance is lowered: p goes on with r, and whoever is about to       *)
(* deduct from what it read has been overtaken.                            *)
Spend(n, p, r) ==
  /\ wallet' = wallet - n
  /\ req' = [q \in Clients |->
       IF q = p THEN r
       ELSE IF req[q].at = "deduct" /\ req[q].overtaken < Attempts
            THEN [req[q] EXCEPT !.overtaken = @ + 1] ELSE req[q]]

Deduct(p) ==
  LET r == req[p] IN
  /\ At(p, "deduct") /\ Covered(Wanted(r))
  /\ Spend(Wanted(r), p, [r EXCEPT !.at = "cash", !.used = Wanted(r), !.seen = 0])
  /\ taken' = [taken EXCEPT ![r.loan] = @ + Wanted(r)]
  /\ UNCHANGED <<loan, stores, stripe, cash, bounds, muddled>>

(* Mutants of Retry: what was asked for counts as used; the balance is not *)
(* read again.                                                             *)
RetryMutant(r) == [r EXCEPT !.at = "cash", !.used = Wanted(r), !.seen = 0]
BlindMutant(r) == [r EXCEPT !.at = IF r.tries + 1 < Attempts THEN "deduct" ELSE "cash",
                            !.tries = @ + 1]
Retry(r) == [r EXCEPT !.at = "balance", !.seen = 0, !.tries = @ + 1]

DeductMissed(p) ==
  /\ At(p, "deduct") /\ ~Covered(Wanted(req[p]))
  /\ Become(p, Retry(req[p]))
  /\ UNCHANGED <<loan, stores, money, bounds, muddled>>

Due(r) == r.n - r.used

CashPayment(p) ==
  LET r == req[p] IN
  /\ At(p, "cash")
  /\ cash' = IF stripe THEN [cash EXCEPT ![r.loan] = @ + Due(r)] ELSE cash
  /\ Become(p, [r EXCEPT !.at = "close"])
  /\ UNCHANGED <<loan, stores, wallet, stripe, taken, bounds, muddled>>

Close(p) ==
  LET r == req[p] IN
  /\ At(p, "close")
  /\ Write(p, [loan[r.loan] EXCEPT !.status = "returned", !.charge = r.n,
                                   !.credits = r.used, !.cash = Due(r)])
  /\ UNCHANGED <<stores, money, bounds>>

-----------------------------------------------------------------------------
(* The staff's edits of an item, one statement each. *)
Edit == calls < MaxCalls /\ calls' = calls + 1
        /\ UNCHANGED <<loan, money, req, upsets, muddled>>
SetStock(i, n) == i \notin retired /\ stock' = [stock EXCEPT ![i] = n] /\ UNCHANGED retired /\ Edit
Retire(i) == i \notin retired /\ retired' = retired \cup {i} /\ UNCHANGED stock /\ Edit
Restore(i) == i \in retired /\ retired' = retired \ {i} /\ UNCHANGED stock /\ Edit

(* The wallet's other life, and the loss of a Worker.                      *)
Upset == upsets < MaxUpsets /\ upsets' = upsets + 1
         /\ UNCHANGED <<loan, stores, stripe, taken, cash, calls>>
SpendElsewhere == wallet > 0 /\ Spend(1, None, Idle) /\ UNCHANGED muddled /\ Upset
Deposit == wallet < MaxCredits /\ wallet' = wallet + 1 /\ UNCHANGED <<req, muddled>> /\ Upset
Crash(p) ==
  /\ req[p] # Idle /\ End(p)
  /\ muddled' = IF req[p].at \in {"cash", "close"} THEN muddled \cup {req[p].loan} ELSE muddled
  /\ UNCHANGED wallet /\ Upset

-----------------------------------------------------------------------------
Init ==
  /\ loan = [l \in Loans |-> NewLoan]
  /\ stock \in [Items -> Stocks] /\ retired = {}
  /\ wallet \in 0..MaxCredits /\ stripe \in BOOLEAN
  /\ taken = [l \in Loans |-> 0] /\ cash = [l \in Loans |-> 0]
  /\ req = [p \in Clients |-> Idle]
  /\ calls = 0 /\ upsets = 0 /\ muddled = {}

Call(p, l) ==
  \/ \E i \in Items \cup {None}, n \in Quantities : RequestLoan(p, l, i, n)
  \/ \E i \in Items : Schedule(p, l, i)
  \/ Checkout(p, l) \/ Cancel(p, l)
  \/ \E n \in Charges : Return(p, l, n)

Continue(p) == \/ Insert(p) \/ ScheduleCheck(p) \/ ScheduleWrite(p)
               \/ CheckoutWrite(p) \/ CancelWrite(p)
               \/ BalanceRead(p) \/ Deduct(p) \/ DeductMissed(p) \/ CashPayment(p) \/ Close(p)

Called == \/ \E p \in Clients, l \in Loans : Call(p, l)
          \/ \E i \in Items : Retire(i) \/ Restore(i) \/ \E n \in Stocks : SetStock(i, n)

Next == \/ \E p \in Clients : Continue(p) \/ Crash(p)
        \/ calls < MaxCalls /\ Called
        \/ SpendElsewhere \/ Deposit

Spec == Init /\ [][Next]_vars

-----------------------------------------------------------------------------
(* The member's credits are never overdrawn, however many returns and      *)
(* other spendings read the same balance (deductCredits).                  *)
TypeOK ==
  /\ loan \in [Loans -> Loan]
  /\ stock \in [Items -> Stocks] /\ retired \subseteq Items
  /\ wallet \in Nat /\ stripe \in BOOLEAN
  /\ taken \in [Loans -> Nat] /\ cash \in [Loans -> Nat]
  /\ req \in [Clients -> Request]
  /\ calls \in 0..MaxCalls /\ upsets \in 0..MaxUpsets
  /\ muddled \subseteq Loans

(* A loan is charged once, and its row says how: what was taken from the   *)
(* wallet and recorded in cash is what the return wrote, and adds up to    *)
(* the charge (settleReturn, returnLoan). Excused is a loan that was       *)
(* written over by a request that read it before, or whose return died     *)
(* after it had begun to take money.                                       *)
ChargedOnce ==
  \A l \in Loans \ muddled : (\A p \in Clients : req[p].loan # l) =>
    /\ taken[l] = loan[l].credits
    /\ cash[l] = IF stripe THEN loan[l].cash ELSE 0
    /\ loan[l].credits + loan[l].cash = loan[l].charge

(* No more pieces are promised than there are: an item falls short only    *)
(* when staff lower its stock, or when a pickup is recorded for a loan     *)
(* that was changed since (scheduleLoan's conditional UPDATE).             *)
ShortOnlyWhenOvertaken ==
  [][\A i \in Items : Left(i)' < 0 /\ Left(i)' < Left(i) =>
       \/ stock'[i] < stock[i]
       \/ \E p \in Clients : At(p, "checkout") /\ req'[p] = Idle /\ Stale(p)]_vars

(* A member pays cash in place of credits they have only if each attempt   *)
(* to deduct was overtaken by another spending (settleReturn's retries).   *)
MissesOnlyWhenOvertaken ==
  \A p \in Clients : LET r == req[p] IN
    /\ r.at \in {"balance", "deduct", "cash"} => r.tries <= r.overtaken
    /\ r.at = "deduct" /\ wallet < Wanted(r) => r.tries < r.overtaken
=============================================================================
