--------------------------- MODULE OperationsProofs ---------------------------
(***************************************************************************)
(* Equipment loans, merges of suggestions and the generation of series,    *)
(* for every number of rows, requests, votes, days and calls. Each         *)
(* component has its inductive invariant and its theorems, and the last    *)
(* part states them of the instance that is model-checked.                 *)
(***************************************************************************)
EXTENDS MCOperations, SetSums

-----------------------------------------------------------------------------
(* EquipmentLoans: the types, that a loan is charged once, that a member   *)
(* pays cash in place of credits only when every attempt was overtaken,    *)
(* and that no more pieces are promised than there are.                    *)

Paying(p, l) == req[p].loan = l /\ req[p].at \in {"cash", "close"}
Returning == {"balance", "deduct", "cash", "close"}

(* How far a loan has come. *)
Rank(status) == IF status = "new" THEN 0
                ELSE IF status = "requested" THEN 1
                ELSE IF status = "scheduled" THEN 2
                ELSE IF status = "checked_out" THEN 3 ELSE 4

(* A request read its loan in the state its handler asks for, and credits  *)
(* are used only once they were deducted.                                  *)
RequestOK(r) ==
  /\ r.at = "idle" => r = Idle
  /\ r.at # "idle" => r.loan \in Loans
  /\ r.at = "insert" => r.row.status = "new"
  /\ r.at \in {"check", "schedule"} => r.row.status = "requested" /\ r.item \in Items
  /\ r.at = "checkout" => r.row.status = "scheduled"
  /\ r.at = "cancel" => r.row.status \in {"requested", "scheduled"}
  /\ r.at \in Returning => r.row.status = "checked_out"
  /\ r.at \notin {"cash", "close"} => r.used = 0
  /\ r.used <= r.n
  /\ r.at = "deduct" => r.tries < Attempts

(* The accounts of a loan that nobody wrote over: as its row says while no *)
(* return takes money; and what the one return took, as long as the row is *)
(* as that return read it.                                                 *)
Settled(l) ==
  /\ taken[l] = loan[l].credits
  /\ cash[l] = IF stripe THEN loan[l].cash ELSE 0
  /\ loan[l].credits + loan[l].cash = loan[l].charge
OnlyPayer(p, l) == Paying(p, l) /\ \A q \in Clients : Paying(q, l) => q = p
Advanced(p, l) ==
  /\ taken[l] = req[p].used
  /\ cash[l] = IF stripe /\ req[p].at = "close" THEN Due(req[p]) ELSE 0
LoanOK(l) ==
  /\ loan[l].status # "returned" => loan[l].credits = 0 /\ loan[l].cash = 0 /\ loan[l].charge = 0
  /\ \A p \in Clients : req[p].loan = l => Rank(req[p].row.status) <= Rank(loan[l].status)
  /\ (\A p \in Clients : ~Paying(p, l)) => Settled(l)
  /\ \A p \in Clients : OnlyPayer(p, l) /\ ~Stale(p) => Advanced(p, l)

RequestsInv == \A p \in Clients : RequestOK(req[p])
LoansInv == \A l \in Loans \ muddled : LoanOK(l)

RequestsOK == req' \in [Clients -> Request] /\ RequestsInv'

USE LoansAssumption

-----------------------------------------------------------------------------
(* What the building blocks of a step do to the types. *)

LEMMA IdleOK == Idle \in Request /\ RequestOK(Idle) /\ Idle.at = "idle" /\ Idle.loan = None
<1>1. 0 \in 0..Attempts
  OBVIOUS
<1> QED
  BY <1>1 DEF Idle, NewLoan, Request, Labels, Loan, Statuses, Out, RequestOK, Returning

LEMMA BecomeOK ==
  ASSUME TypeOK, RequestsInv, NEW p \in Clients, NEW r \in Request, RequestOK(r), Become(p, r)
  PROVE  RequestsOK
BY DEF TypeOK, RequestsInv, RequestsOK, Become

LEMMA EndOK ==
  ASSUME TypeOK, RequestsInv, NEW p \in Clients, End(p)
  PROVE  RequestsOK
BY IdleOK, BecomeOK DEF End

LEMMA KeepRequests ==
  ASSUME TypeOK, RequestsInv, UNCHANGED req
  PROVE  RequestsOK
BY DEF TypeOK, RequestsInv, RequestsOK

LEMMA WriteOK ==
  ASSUME TypeOK, RequestsInv, NEW p \in Clients, req[p].loan \in Loans,
         NEW row \in Loan, Write(p, row)
  PROVE  RequestsOK /\ loan' \in [Loans -> Loan] /\ muddled' \subseteq Loans
BY EndOK DEF Write, TypeOK

LEMMA InitOK == Init => TypeOK /\ RequestsInv
<1> SUFFICES ASSUME Init PROVE TypeOK /\ RequestsInv
  OBVIOUS
<1>1. NewLoan \in Loan
  BY DEF NewLoan, Loan, Statuses, Out
<1>2. wallet \in Nat /\ 0 \in 0..MaxCalls /\ 0 \in 0..MaxUpsets
  BY DEF Init
<1> QED BY <1>1, <1>2, IdleOK DEF Init, TypeOK, RequestsInv

(* The row a request reads, and its arguments. *)
LEMMA ArriveTyped ==
  ASSUME TypeOK, RequestsInv, NEW p \in Clients, NEW l \in Loans, NEW label \in Labels \ {"idle"},
         NEW i \in Items \cup {None}, NEW n \in Nat, Arrive(p, l, label, i, n),
         RequestOK([Idle EXCEPT !.at = label, !.loan = l, !.row = loan[l], !.item = i, !.n = n])
  PROVE  TypeOK' /\ RequestsInv'
<1> DEFINE r == [Idle EXCEPT !.at = label, !.loan = l, !.row = loan[l], !.item = i, !.n = n]
<1>1. r \in Request
  <2>1. loan[l] \in Loan
    BY DEF TypeOK
  <2> QED BY <2>1, IdleOK DEF Idle, Request
<1>2. Become(p, r) /\ RequestOK(r)
  BY DEF Arrive
<1>3. RequestsOK
  BY <1>1, <1>2, BecomeOK
<1>4. calls' \in 0..MaxCalls
  BY DEF Arrive, TypeOK
<1> QED BY <1>3, <1>4 DEF Arrive, stores, money, TypeOK, RequestsOK

LEMMA CallTyped ==
  ASSUME TypeOK, RequestsInv, NEW p \in Clients, NEW l \in Loans, Call(p, l)
  PROVE  TypeOK' /\ RequestsInv'
<1>1. CASE \E i \in Items \cup {None}, n \in Quantities : RequestLoan(p, l, i, n)
  <2>1. PICK i \in Items \cup {None}, n \in Quantities : RequestLoan(p, l, i, n)
    BY <1>1
  <2>2. RequestOK([Idle EXCEPT !.at = "insert", !.loan = l, !.row = loan[l], !.item = i, !.n = n])
    BY <2>1 DEF RequestLoan, RequestOK, Idle, NewLoan, Returning
  <2> QED BY <2>1, <2>2, ArriveTyped DEF RequestLoan, Labels
<1>2. CASE \E i \in Items : Schedule(p, l, i)
  <2>1. PICK i \in Items : Schedule(p, l, i)
    BY <1>2
  <2>2. RequestOK([Idle EXCEPT !.at = "check", !.loan = l, !.row = loan[l], !.item = i, !.n = 0])
    BY <2>1 DEF Schedule, RequestOK, Idle, Returning
  <2> QED BY <2>1, <2>2, ArriveTyped DEF Schedule, Labels
<1>3. CASE Checkout(p, l)
  <2>1. RequestOK([Idle EXCEPT !.at = "checkout", !.loan = l, !.row = loan[l], !.item = None, !.n = 0])
    BY <1>3 DEF Checkout, RequestOK, Idle, Returning
  <2> QED BY <1>3, <2>1, ArriveTyped DEF Checkout, Labels
<1>4. CASE Cancel(p, l)
  <2>1. RequestOK([Idle EXCEPT !.at = "cancel", !.loan = l, !.row = loan[l], !.item = None, !.n = 0])
    BY <1>4 DEF Cancel, RequestOK, Idle, Returning
  <2> QED BY <1>4, <2>1, ArriveTyped DEF Cancel, Labels
<1>5. CASE \E n \in Charges : Return(p, l, n)
  <2>1. PICK n \in Charges : Return(p, l, n)
    BY <1>5
  <2> DEFINE label == IF n = 0 THEN "close" ELSE "balance"
  <2>2. RequestOK([Idle EXCEPT !.at = label, !.loan = l, !.row = loan[l], !.item = None, !.n = n])
    BY <2>1 DEF Return, RequestOK, Idle, Returning
  <2>3. Arrive(p, l, label, None, n) /\ label \in Labels \ {"idle"} /\ n \in Nat
    BY <2>1 DEF Return, Labels
  <2> HIDE DEF label
  <2> QED BY <2>2, <2>3, ArriveTyped
<1> QED BY <1>1, <1>2, <1>3, <1>4, <1>5 DEF Call

(* The balance is lowered: the others' requests are only overtaken.        *)
LEMMA SpendTyped ==
  ASSUME TypeOK, RequestsInv, NEW n \in Nat, n <= wallet, NEW p, NEW r,
         p \in Clients => r \in Request /\ RequestOK(r), Spend(n, p, r)
  PROVE  RequestsOK /\ wallet' \in Nat
<1>1. ASSUME NEW q \in Clients PROVE req'[q] \in Request /\ RequestOK(req'[q])
  <2>1. req[q] \in Request /\ RequestOK(req[q])
    BY DEF TypeOK, RequestsInv
  <2>2. CASE q = p
    BY <2>2 DEF Spend
  <2>3. CASE q # p /\ req[q].at = "deduct" /\ req[q].overtaken < Attempts
    <3> DEFINE s == [req[q] EXCEPT !.overtaken = @ + 1]
    <3>1. req[q].overtaken + 1 \in 0..Attempts
      BY <2>1, <2>3 DEF Request
    <3>2. s \in Request
      BY <2>1, <3>1 DEF Request
    <3>3. RequestOK(s)
      <4>1. /\ s.at = "deduct" /\ s.loan = req[q].loan /\ s.row = req[q].row /\ s.used = req[q].used
            /\ s.n = req[q].n /\ s.tries = req[q].tries
        BY <2>1, <2>3 DEF Request
      <4> HIDE DEF s
      <4> QED BY <2>1, <2>3, <4>1 DEF RequestOK, Returning
    <3> QED BY <2>3, <3>2, <3>3 DEF Spend
  <2>4. CASE q # p /\ ~(req[q].at = "deduct" /\ req[q].overtaken < Attempts)
    BY <2>1, <2>4 DEF Spend
  <2> QED BY <2>2, <2>3, <2>4
<1>2. req' \in [Clients -> Request]
  BY <1>1 DEF Spend
<1>3. wallet' \in Nat
  BY DEF Spend, TypeOK
<1> QED BY <1>1, <1>2, <1>3 DEF RequestsOK, RequestsInv

LEMMA WantedBounds ==
  ASSUME NEW r \in Request
  PROVE  Wanted(r) \in Nat /\ Wanted(r) <= r.n /\ Wanted(r) <= r.seen
BY DEF Request, Wanted, Lower

LEMMA ContinueTyped ==
  ASSUME TypeOK, RequestsInv, NEW p \in Clients, Continue(p)
  PROVE  TypeOK' /\ RequestsInv'
<1> DEFINE r == req[p]
<1>1. r \in Request /\ RequestOK(r)
  BY DEF TypeOK, RequestsInv
<1>2. r.loan \in Loans /\ loan[r.loan] \in Loan
  BY <1>1 DEF Continue, Insert, ScheduleCheck, ScheduleWrite, CheckoutWrite, CancelWrite, BalanceRead,
         Deduct, DeductMissed, CashPayment, Close, At, RequestOK, TypeOK
<1>3. ASSUME NEW row \in Loan, Write(p, row), UNCHANGED <<stores, money, bounds>>
      PROVE  TypeOK' /\ RequestsInv'
  BY <1>2, <1>3, WriteOK DEF TypeOK, RequestsOK, stores, money, bounds
<1>4. ASSUME RequestsOK, UNCHANGED <<loan, stores, money, bounds, muddled>>
      PROVE  TypeOK' /\ RequestsInv'
  BY <1>4 DEF TypeOK, RequestsOK, stores, money, bounds
<1>5. CASE Insert(p)
  <2> DEFINE row == [NewLoan EXCEPT !.status = "requested", !.item = r.item, !.qty = r.n]
  <2>1. row \in Loan
    BY <1>1 DEF NewLoan, Loan, Statuses, Request
  <2> QED BY <1>3, <1>5, <2>1 DEF Insert
<1>6. CASE ScheduleCheck(p)
  <2> DEFINE s == [r EXCEPT !.at = "schedule"]
  <2>1. s \in Request /\ RequestOK(s)
    BY <1>1, <1>6 DEF ScheduleCheck, At, Request, Labels, RequestOK, Returning
  <2>2. RequestsOK
    BY <1>6, <2>1, BecomeOK, EndOK DEF ScheduleCheck
  <2> QED BY <1>4, <1>6, <2>2 DEF ScheduleCheck
<1>7. CASE ScheduleWrite(p)
  <2> DEFINE row == [loan[r.loan] EXCEPT !.status = "scheduled", !.item = r.item]
  <2>1. row \in Loan
    BY <1>1, <1>2 DEF Loan, Statuses, Out, Request
  <2>2. CASE End(p) /\ UNCHANGED <<loan, muddled>>
    BY <1>4, <1>7, <2>2, EndOK DEF ScheduleWrite
  <2>3. CASE Write(p, row)
    BY <1>3, <1>7, <2>1, <2>3 DEF ScheduleWrite
  <2> QED BY <1>7, <2>2, <2>3 DEF ScheduleWrite
<1>8. CASE CheckoutWrite(p)
  <2> DEFINE row == [loan[r.loan] EXCEPT !.status = "checked_out"]
  <2>1. row \in Loan
    BY <1>2 DEF Loan, Statuses, Out
  <2> QED BY <1>3, <1>8, <2>1 DEF CheckoutWrite
<1>9. CASE CancelWrite(p)
  <2> DEFINE row == [loan[r.loan] EXCEPT !.status = "cancelled"]
  <2>1. row \in Loan
    BY <1>2 DEF Loan, Statuses
  <2> QED BY <1>3, <1>9, <2>1 DEF CancelWrite
<1>10. CASE BalanceRead(p)
  <2> DEFINE s == [r EXCEPT !.at = "deduct", !.seen = wallet]
             c == [r EXCEPT !.at = "cash"]
  <2>1. r.tries < Attempts => s \in Request /\ RequestOK(s)
    <3>1. wallet \in Nat
      BY DEF TypeOK
    <3> QED BY <1>1, <1>10, <3>1 DEF BalanceRead, At, Request, Labels, RequestOK, Returning
  <2>2. c \in Request /\ RequestOK(c)
    BY <1>1, <1>10 DEF BalanceRead, At, Request, Labels, RequestOK, Returning
  <2>3. RequestsOK
    <3>1. CASE r.tries < Attempts /\ Become(p, s)
      BY <2>1, <3>1, BecomeOK
    <3>2. CASE Become(p, c)
      BY <2>2, <3>2, BecomeOK
    <3> QED BY <1>10, <3>1, <3>2 DEF BalanceRead
  <2> QED BY <1>4, <1>10, <2>3 DEF BalanceRead
<1>11. CASE Deduct(p)
  <2> DEFINE w == Wanted(r)
             s == [r EXCEPT !.at = "cash", !.used = w, !.seen = 0]
  <2>1. w \in Nat /\ w <= r.n /\ w <= wallet
    BY <1>1, <1>11, WantedBounds DEF Deduct, Covered, TypeOK
  <2>2. Spend(w, p, s) /\ taken' = [taken EXCEPT ![r.loan] = @ + w]
    BY <1>11 DEF Deduct
  <2>3. s \in Request /\ RequestOK(s)
    <3> HIDE DEF w
    <3> QED BY <1>1, <1>11, <2>1 DEF Deduct, At, Request, Labels, RequestOK, Returning
  <2>4. taken' \in [Loans -> Nat]
    <3>1. taken[r.loan] + w \in Nat
      BY <1>2, <2>1 DEF TypeOK
    <3> HIDE DEF w, r
    <3> QED BY <1>2, <2>2, <3>1 DEF TypeOK
  <2>5. RequestsOK /\ wallet' \in Nat
    BY <2>1, <2>2, <2>3, SpendTyped
  <2> QED BY <1>11, <2>4, <2>5 DEF Deduct, TypeOK, RequestsOK, stores, bounds
<1>12. CASE DeductMissed(p)
  <2>1. r.tries + 1 \in 0..Attempts
    BY <1>1, <1>12 DEF DeductMissed, At, Request, RequestOK
  <2>2. Retry(r) \in Request /\ RequestOK(Retry(r))
    BY <1>1, <1>12, <2>1 DEF DeductMissed, At, Retry, Request, Labels, RequestOK, Returning
  <2> QED BY <1>4, <1>12, <2>2, BecomeOK DEF DeductMissed
<1>13. CASE CashPayment(p)
  <2> DEFINE s == [r EXCEPT !.at = "close"]
             d == Due(r)
  <2>1. s \in Request /\ RequestOK(s)
    BY <1>1, <1>13 DEF CashPayment, At, Request, Labels, RequestOK, Returning
  <2>2. d \in Nat
    BY <1>1 DEF Due, Request, RequestOK
  <2>3. cash' = IF stripe THEN [cash EXCEPT ![r.loan] = @ + d] ELSE cash
    BY <1>13 DEF CashPayment
  <2> HIDE DEF d
  <2>4. cash' \in [Loans -> Nat]
    <3>1. cash[r.loan] + d \in Nat
      BY <1>2, <2>2 DEF TypeOK
    <3> HIDE DEF r
    <3> QED BY <1>2, <2>3, <3>1 DEF TypeOK
  <2>5. RequestsOK
    BY <1>13, <2>1, BecomeOK DEF CashPayment
  <2> QED BY <1>13, <2>4, <2>5 DEF CashPayment, TypeOK, RequestsOK, stores, bounds
<1>14. CASE Close(p)
  <2> DEFINE d == Due(r)
             row == [loan[r.loan] EXCEPT !.status = "returned", !.charge = r.n,
                                         !.credits = r.used, !.cash = d]
  <2>1. d \in Nat
    BY <1>1 DEF Due, Request, RequestOK
  <2>2. row \in Loan
    <3> HIDE DEF d
    <3> QED BY <1>1, <1>2, <2>1 DEF Loan, Statuses, Request
  <2> QED BY <1>3, <1>14, <2>2 DEF Close
<1> QED
  BY <1>5, <1>6, <1>7, <1>8, <1>9, <1>10, <1>11, <1>12, <1>13, <1>14 DEF Continue

LEMMA TypeStep == TypeOK /\ RequestsInv /\ [Next]_vars => TypeOK' /\ RequestsInv'
<1> SUFFICES ASSUME TypeOK, RequestsInv, [Next]_vars PROVE TypeOK' /\ RequestsInv'
  OBVIOUS
<1>1. ASSUME NEW p \in Clients, Crash(p) PROVE TypeOK' /\ RequestsInv'
  <2>1. req[p].loan \in Loans
    BY <1>1 DEF Crash, TypeOK, RequestsInv, RequestOK, End
  <2> QED BY <1>1, <2>1, EndOK DEF Crash, Upset, TypeOK, RequestsOK, stores
<1>2. ASSUME NEW i \in Items, Retire(i) \/ Restore(i) \/ \E n \in Stocks : SetStock(i, n)
      PROVE  TypeOK' /\ RequestsInv'
  BY <1>2, KeepRequests DEF Retire, Restore, SetStock, Edit, TypeOK, RequestsOK, money
<1>3. CASE SpendElsewhere
  <2>1. RequestsOK /\ wallet' \in Nat
    <3>1. 1 <= wallet /\ Spend(1, None, Idle)
      BY <1>3 DEF SpendElsewhere, TypeOK
    <3> QED BY <3>1, IdleOK, SpendTyped
  <2> QED BY <1>3, <2>1 DEF SpendElsewhere, Upset, TypeOK, RequestsOK, stores
<1>4. CASE Deposit
  BY <1>4, KeepRequests DEF Deposit, Upset, TypeOK, RequestsOK, stores
<1>5. CASE UNCHANGED vars
  BY <1>5, KeepRequests DEF vars, stores, money, bounds, TypeOK, RequestsOK
<1> QED BY <1>1, <1>2, <1>3, <1>4, <1>5, CallTyped, ContinueTyped DEF Next, Called

(* The loans, the stock, the money and the requests keep their types: the  *)
(* member's credits are never overdrawn (deductCredits, settleReturn).     *)
THEOREM TypeCorrect == Spec => []TypeOK
BY InitOK, TypeStep, PTL DEF Spec

-----------------------------------------------------------------------------
(* Cash in place of credits. *)

MissOK(p) ==
  LET r == req[p] IN
    /\ r.at \in {"balance", "deduct", "cash"} => r.tries <= r.overtaken
    /\ r.at = "deduct" /\ wallet < Wanted(r) => r.tries < r.overtaken
MissesInv == \A p \in Clients : MissOK(p)

LEMMA MissEnds ==
  ASSUME TypeOK, NEW q \in Clients, NEW p, NEW r, req' = [req EXCEPT ![p] = r], wallet <= wallet',
         wallet' \in Nat, MissOK(q),
         q = p => \/ r.at \in {"balance", "cash"} /\ r.tries <= r.overtaken
                  \/ r.at \notin {"balance", "deduct", "cash"}
  PROVE  MissOK(q)'
<1>1. CASE q = p
  <2>1. req'[q] = r
    BY <1>1 DEF TypeOK
  <2> QED BY <1>1, <2>1 DEF MissOK
<1>2. CASE q # p
  <2>1. req'[q] = req[q] /\ req[q] \in Request
    BY <1>2 DEF TypeOK
  <2>2. Wanted(req[q]) \in Nat /\ wallet \in Nat
    BY <2>1, WantedBounds DEF TypeOK
  <2> QED BY <2>1, <2>2 DEF MissOK
<1> QED BY <1>1, <1>2

LEMMA MissSpend ==
  ASSUME TypeOK, RequestsInv, NEW q \in Clients, MissOK(q), NEW n, NEW p, NEW r, Spend(n, p, r), q # p
  PROVE  MissOK(q)'
<1>1. req[q] \in Request /\ RequestOK(req[q])
  BY DEF TypeOK, RequestsInv
<1>2. CASE req[q].at = "deduct" /\ req[q].overtaken < Attempts
  <2> DEFINE s == [req[q] EXCEPT !.overtaken = @ + 1]
  <2>1. req'[q] = s
    BY <1>2 DEF Spend
  <2>2. s.at = "deduct" /\ s.tries = req[q].tries /\ s.overtaken = req[q].overtaken + 1
        /\ s.tries \in Nat /\ req[q].overtaken \in Nat
    BY <1>1, <1>2 DEF Request
  <2> HIDE DEF s
  <2>3. s.tries < s.overtaken
    BY <1>2, <2>2 DEF MissOK
  <2> QED BY <2>1, <2>2, <2>3 DEF MissOK
<1>3. CASE ~(req[q].at = "deduct" /\ req[q].overtaken < Attempts)
  <2>1. req'[q] = req[q]
    BY <1>3 DEF Spend
  <2>2. req[q].at = "deduct" => req[q].tries < req[q].overtaken
    BY <1>1, <1>3 DEF RequestOK, Request
  <2> QED BY <2>1, <2>2 DEF MissOK
<1> QED BY <1>2, <1>3

LEMMA MissesStep == TypeOK /\ RequestsInv /\ MissesInv /\ [Next]_vars => MissesInv'
<1> SUFFICES ASSUME TypeOK, RequestsInv, MissesInv, [Next]_vars, NEW q \in Clients PROVE MissOK(q)'
  BY DEF MissesInv
<1>1. /\ MissOK(q) /\ req[q] \in Request /\ wallet \in Nat /\ TypeOK' /\ wallet' \in Nat
      /\ \A p \in Clients : req[p] \in Request /\ RequestOK(req[p]) /\ MissOK(p)
  BY TypeStep DEF MissesInv, RequestsInv, TypeOK
<1>2. ASSUME NEW p \in Clients, End(p), UNCHANGED wallet PROVE MissOK(q)'
  <2>1. wallet <= wallet' /\ Idle.at = "idle"
    BY <1>1, <1>2, IdleOK
  <2> QED BY <1>1, <1>2, <2>1, MissEnds DEF End, Become
<1>3. ASSUME NEW p \in Clients, NEW r, Become(p, r), UNCHANGED wallet, r.at \notin {"balance", "deduct", "cash"}
      PROVE  MissOK(q)'
  <2>1. wallet <= wallet'
    BY <1>1, <1>3
  <2> QED BY <1>1, <1>3, <2>1, MissEnds DEF Become
<1>4. ASSUME NEW p \in Clients, NEW l \in Loans, Call(p, l) PROVE MissOK(q)'
  <2>1. PICK label, i, n : label \in Labels \ {"deduct", "cash"} /\ Arrive(p, l, label, i, n)
    BY <1>4 DEF Call, RequestLoan, Schedule, Checkout, Cancel, Return, Labels
  <2> DEFINE r == [Idle EXCEPT !.at = label, !.loan = l, !.row = loan[l], !.item = i, !.n = n]
  <2>2. /\ r.at \notin {"deduct", "cash"} /\ r.tries = 0 /\ r.overtaken = 0
        /\ Become(p, r) /\ wallet' = wallet
    BY <2>1 DEF Arrive, Idle, money
  <2>3. wallet <= wallet' /\ 0 <= 0
    BY <1>1, <2>2
  <2> HIDE DEF r
  <2> QED BY <1>1, <2>2, <2>3, MissEnds DEF Become
<1>5. ASSUME NEW p \in Clients, Insert(p) \/ ScheduleWrite(p) \/ CheckoutWrite(p) \/ CancelWrite(p) \/ Close(p)
      PROVE  MissOK(q)'
  BY <1>2, <1>5 DEF Insert, ScheduleWrite, CheckoutWrite, CancelWrite, Close, Write, money
<1>6. ASSUME NEW p \in Clients, ScheduleCheck(p) PROVE MissOK(q)'
  <2>1. [req[p] EXCEPT !.at = "schedule"].at = "schedule"
    BY <1>1 DEF Request
  <2> QED BY <1>2, <1>3, <1>6, <2>1 DEF ScheduleCheck, money
<1>7. ASSUME NEW p \in Clients, BalanceRead(p) PROVE MissOK(q)'
  <2> DEFINE s == [req[p] EXCEPT !.at = "deduct", !.seen = wallet]
             c == [req[p] EXCEPT !.at = "cash"]
  <2>1. req[p].tries <= req[p].overtaken /\ wallet' = wallet
    BY <1>1, <1>7 DEF BalanceRead, At, MissOK, money
  <2>2. CASE Become(p, c)
    <3>1. c.at = "cash" /\ c.tries <= c.overtaken /\ wallet <= wallet'
      BY <1>1, <2>1 DEF Request
    <3> HIDE DEF c
    <3> QED BY <1>1, <2>2, <3>1, MissEnds DEF Become
  <2>3. CASE Become(p, s)
    <3>1. s \in Request /\ s.tries <= s.overtaken /\ s.seen = wallet
      BY <1>1, <2>1 DEF Request, Labels
    <3>2. Wanted(s) <= wallet /\ Wanted(s) \in Nat
      BY <3>1, WantedBounds
    <3>3. CASE q = p
      <4>1. req'[q] = s
        BY <2>3, <3>3 DEF Become, TypeOK
      <4> HIDE DEF s
      <4> QED BY <1>1, <2>1, <3>1, <3>2, <4>1 DEF MissOK
    <3>4. CASE q # p
      BY <1>1, <2>1, <2>3, <3>4 DEF Become, TypeOK, MissOK
    <3> QED BY <3>3, <3>4
  <2> QED BY <1>7, <2>2, <2>3 DEF BalanceRead
<1>8. ASSUME NEW p \in Clients, Deduct(p) PROVE MissOK(q)'
  <2> DEFINE s == [req[p] EXCEPT !.at = "cash", !.used = Wanted(req[p]), !.seen = 0]
  <2>1. Spend(Wanted(req[p]), p, s)
    BY <1>8 DEF Deduct
  <2>2. CASE q = p
    <3>1. req'[q] = s /\ s.at = "cash" /\ s.tries <= s.overtaken
      BY <1>1, <1>8, <2>1, <2>2 DEF Deduct, At, Spend, MissOK, Request
    <3> HIDE DEF s
    <3> QED BY <3>1 DEF MissOK
  <2> QED BY <1>1, <2>1, <2>2, MissSpend
<1>9. ASSUME NEW p \in Clients, DeductMissed(p) PROVE MissOK(q)'
  <2> DEFINE s == Retry(req[p])
  <2>1. req[p].tries < req[p].overtaken
    BY <1>1, <1>9, WantedBounds DEF DeductMissed, Covered, At, MissOK
  <2>2. s.at = "balance" /\ s.tries <= s.overtaken /\ wallet <= wallet' /\ Become(p, s)
    BY <1>1, <1>9, <2>1 DEF DeductMissed, Retry, Request, money
  <2> HIDE DEF s
  <2> QED BY <1>1, <2>2, MissEnds DEF Become
<1>10. ASSUME NEW p \in Clients, CashPayment(p) PROVE MissOK(q)'
  <2>1. [req[p] EXCEPT !.at = "close"].at = "close"
    BY <1>1 DEF Request
  <2> QED BY <1>3, <1>10, <2>1 DEF CashPayment
<1>11. ASSUME NEW p \in Clients, Crash(p) PROVE MissOK(q)'
  BY <1>2, <1>11 DEF Crash
<1>12. CASE SpendElsewhere
  BY <1>1, <1>12, MissSpend DEF SpendElsewhere
<1>13. ASSUME UNCHANGED req, wallet <= wallet' PROVE MissOK(q)'
  <2>1. Wanted(req[q]) \in Nat
    BY <1>1, WantedBounds
  <2> QED BY <1>1, <1>13, <2>1 DEF MissOK
<1>14. CASE Deposit
  BY <1>1, <1>13, <1>14 DEF Deposit
<1>15. UNCHANGED <<req, wallet>> => MissOK(q)'
  BY <1>1 DEF MissOK
<1>16. ASSUME NEW i \in Items, Retire(i) \/ Restore(i) \/ \E n \in Stocks : SetStock(i, n)
       PROVE  MissOK(q)'
  BY <1>15, <1>16 DEF Retire, Restore, SetStock, Edit, money
<1>17. CASE UNCHANGED vars
  BY <1>15, <1>17 DEF vars, money
<1> QED
  BY <1>4, <1>5, <1>6, <1>7, <1>8, <1>9, <1>10, <1>11, <1>12, <1>14, <1>16, <1>17 DEF Next, Called, Continue

(* Whoever pays cash though there are credits was overtaken on every       *)
(* attempt to deduct them (settleReturn).                                  *)
THEOREM PaysCashFairly == Spec => []MissesOnlyWhenOvertaken
<1>1. Init => MissesInv
  BY IdleOK DEF Init, MissesInv, MissOK
<1>2. MissesInv => MissesOnlyWhenOvertaken
  BY DEF MissesInv, MissOK, MissesOnlyWhenOvertaken
<1> QED BY <1>1, <1>2, InitOK, TypeStep, MissesStep, PTL DEF Spec

-----------------------------------------------------------------------------
(* A loan is charged once. *)

(* What the accounts of a loan depend on of a request.                     *)
Same(q) == /\ req'[q].at = req[q].at /\ req'[q].loan = req[q].loan /\ req'[q].row = req[q].row
           /\ req'[q].used = req[q].used /\ req'[q].n = req[q].n
Apart(q, l) == req[q].loan # l /\ req'[q].loan # l

(* Nothing that concerns a loan happens to it. *)
LEMMA Frame ==
  ASSUME NEW l \in Loans, LoanOK(l), UNCHANGED stripe,
         loan'[l] = loan[l], taken'[l] = taken[l], cash'[l] = cash[l],
         \A q \in Clients : Same(q) \/ Apart(q, l)
  PROVE  LoanOK(l)'
<1>1. ASSUME NEW q \in Clients
      PROVE  /\ req'[q].loan = l <=> req[q].loan = l
             /\ Paying(q, l)' <=> Paying(q, l)
             /\ req[q].loan = l => Same(q) /\ (Stale(q)' <=> Stale(q))
  BY DEF Same, Apart, Paying, Stale
<1>2. Settled(l)' <=> Settled(l)
  BY DEF Settled
<1>3. ASSUME NEW q \in Clients, OnlyPayer(q, l)', ~Stale(q)' PROVE Advanced(q, l)'
  <2>1. OnlyPayer(q, l) /\ ~Stale(q) /\ Same(q)
    BY <1>1, <1>3 DEF OnlyPayer, Paying
  <2>2. Advanced(q, l)
    BY <2>1 DEF LoanOK
  <2> QED BY <2>1, <2>2 DEF Advanced, Due, Same
<1>4. ASSUME NEW q \in Clients, req'[q].loan = l PROVE (Rank(req[q].row.status) <= Rank(loan[l].status))'
  BY <1>1, <1>4 DEF LoanOK, Same
<1>5. (\A p \in Clients : ~Paying(p, l))' => Settled(l)'
  BY <1>1, <1>2 DEF LoanOK
<1> QED BY <1>3, <1>4, <1>5 DEF LoanOK

(* A request that takes no money and that has done with its loan, or goes  *)
(* on, concerns no account.                                                *)
LEMMA Unpaid ==
  ASSUME TypeOK, NEW p \in Clients, NEW l \in Loans, LoanOK(l), NEW r, Become(p, r),
         UNCHANGED <<loan, money>>,
         req[p].at \notin {"cash", "close"} \/ req[p].loan # l,
         \/ r.loan # l
         \/ r.loan = l /\ r.at \notin {"cash", "close"} /\ Rank(r.row.status) <= Rank(loan[l].status)
  PROVE  LoanOK(l)'
<1>1. req'[p] = r /\ \A q \in Clients \ {p} : req'[q] = req[q]
  BY DEF TypeOK, Become
<1>2. UNCHANGED <<loan, taken, cash, stripe>>
  BY DEF money
<1>3. \A q \in Clients : Paying(q, l)' <=> Paying(q, l)
  BY <1>1 DEF Paying
<1>4. ASSUME NEW q \in Clients, OnlyPayer(q, l)', ~Stale(q)' PROVE Advanced(q, l)'
  <2>1. q # p /\ OnlyPayer(q, l)
    BY <1>1, <1>3, <1>4 DEF OnlyPayer, Paying
  <2> QED BY <1>1, <1>2, <1>4, <2>1 DEF LoanOK, Stale, Advanced
<1>5. (\A q \in Clients : ~Paying(q, l))' => Settled(l)'
  BY <1>2, <1>3 DEF LoanOK, Settled
<1>6. ASSUME NEW q \in Clients, req'[q].loan = l PROVE (Rank(req[q].row.status) <= Rank(loan[l].status))'
  BY <1>1, <1>2, <1>6 DEF LoanOK
<1> QED BY <1>2, <1>4, <1>5, <1>6 DEF LoanOK

(* A request begins to take money, or takes it: before, nothing was taken  *)
(* for a loan that is as the request read it.                              *)
LEMMA Untouched ==
  ASSUME TypeOK, RequestsInv, NEW l \in Loans, LoanOK(l), loan[l].status = "checked_out",
         \A q \in Clients : ~Paying(q, l)
  PROVE  taken[l] = 0 /\ cash[l] = 0
BY DEF LoanOK, Settled

LEMMA Pays ==
  ASSUME TypeOK, RequestsInv, TypeOK', RequestsInv', NEW p \in Clients, NEW l \in Loans, LoanOK(l),
         UNCHANGED <<loan, stripe>>, \A q \in Clients \ {p} : Same(q), Paying(p, l)',
         req'[p].row = req[p].row \/ req'[p].row = loan[l],
         req[p].loan # l => req'[p].row = loan[l],
         (\A q \in Clients \ {p} : ~Paying(q, l)) /\ req'[p].row = loan[l] => Advanced(p, l)'
  PROVE  LoanOK(l)'
<1>1. ASSUME NEW q \in Clients, OnlyPayer(q, l)', ~Stale(q)' PROVE Advanced(q, l)'
  <2>1. q = p /\ \A o \in Clients \ {p} : ~Paying(o, l)
    BY <1>1 DEF OnlyPayer, Paying, Same
  <2>2. req'[p].row = loan[l]
    BY <1>1, <2>1 DEF Stale, Paying
  <2> QED BY <2>1, <2>2
<1>2. ASSUME NEW q \in Clients, req'[q].loan = l PROVE (Rank(req[q].row.status) <= Rank(loan[l].status))'
  <2>1. CASE q # p
    BY <1>2, <2>1 DEF LoanOK, Same
  <2>2. CASE q = p
    <3>1. CASE req'[p].row = loan[l]
      <4>1. Rank(loan[l].status) \in Nat
        BY DEF Rank
      <4> QED BY <2>2, <3>1, <4>1
    <3>2. CASE req'[p].row = req[p].row /\ req[p].loan = l
      BY <2>2, <3>2 DEF LoanOK
    <3> QED BY <3>1, <3>2
  <2> QED BY <2>1, <2>2
<1> QED BY <1>1, <1>2 DEF LoanOK

(* A loan goes forward while nobody takes money for it: a return would     *)
(* have read it in a state it has not come to.                             *)
LEMMA Advances ==
  ASSUME TypeOK, RequestsInv, NEW p \in Clients, NEW l \in Loans, l = req[p].loan, LoanOK(l), ~Stale(p),
         NEW row \in Loan, Write(p, row), UNCHANGED money, req[p].at \notin {"cash", "close"},
         row.credits = loan[l].credits, row.cash = loan[l].cash, row.charge = loan[l].charge,
         loan[l].status \in {"new", "requested", "scheduled"},
         row.status # "returned", Rank(loan[l].status) < Rank(row.status)
  PROVE  LoanOK(l)'
<1>1. /\ loan'[l] = row /\ req'[p] = Idle /\ \A q \in Clients \ {p} : req'[q] = req[q]
      /\ UNCHANGED <<taken, cash, stripe>>
  BY DEF Write, End, Become, TypeOK, money
<1>2. Rank(loan[l].status) < 3 /\ Rank(loan[l].status) \in Nat /\ Rank(row.status) \in Nat
      /\ Rank("checked_out") = 3 /\ \A q \in Clients : Rank(req[q].row.status) \in Nat
  BY DEF Rank
<1>3. ASSUME NEW q \in Clients PROVE ~Paying(q, l) /\ ~Paying(q, l)'
  <2>1. ~Paying(q, l)
    <3>1. req[q].loan = l => Rank(req[q].row.status) < 3
      BY <1>2 DEF LoanOK
    <3>2. Paying(q, l) => req[q].row.status = "checked_out"
      BY DEF Paying, RequestsInv, RequestOK, Returning
    <3> QED BY <1>2, <3>1, <3>2 DEF Paying
  <2> QED BY <1>1, <2>1, IdleOK DEF Paying
<1>4. Settled(l)'
  BY <1>1, <1>3 DEF LoanOK, Settled
<1>5. ASSUME NEW q \in Clients, req'[q].loan = l PROVE Rank(req'[q].row.status) <= Rank(row.status)
  <2>1. q # p
    BY <1>1, <1>5, IdleOK
  <2> QED BY <1>1, <1>2, <1>5, <2>1 DEF LoanOK
<1>6. loan'[l].credits = 0 /\ loan'[l].cash = 0 /\ loan'[l].charge = 0
  BY <1>1 DEF LoanOK
<1> QED BY <1>1, <1>3, <1>4, <1>5, <1>6 DEF LoanOK, OnlyPayer

(* The return that took the money closes the loan, and says what it took.  *)
LEMMA Closes ==
  ASSUME TypeOK, RequestsInv, NEW p \in Clients, NEW l \in Loans, l = req[p].loan, LoanOK(l), ~Stale(p),
         Close(p)
  PROVE  LoanOK(l)'
<1> DEFINE r == req[p]
           d == Due(r)
<1>1. /\ r \in Request /\ loan[l] = r.row /\ loan[l] \in Loan /\ r.used <= r.n
      /\ loan[l].status = "checked_out" /\ Paying(p, l) /\ r.at = "close"
  BY DEF Close, At, TypeOK, RequestsInv, RequestOK, Returning, Stale, Paying
<1>2. d \in Nat /\ r.used + d = r.n
  BY <1>1 DEF Due, Request
<1>3. loan' = [loan EXCEPT ![l] = [loan[l] EXCEPT !.status = "returned", !.charge = r.n,
                                                 !.credits = r.used, !.cash = d]]
  BY DEF Close, Write
<1> HIDE DEF d
<1>4. /\ loan'[l].status = "returned" /\ loan'[l].charge = r.n
      /\ loan'[l].credits = r.used /\ loan'[l].cash = d
  BY <1>1, <1>3 DEF Loan, TypeOK
<1>5. /\ req'[p] = Idle /\ \A q \in Clients \ {p} : req'[q] = req[q]
      /\ UNCHANGED <<taken, cash, stripe>>
  BY DEF Close, Write, End, Become, TypeOK, money
<1>6. ASSUME \A q \in Clients : ~Paying(q, l)' PROVE Settled(l)'
  <2>1. OnlyPayer(p, l)
    BY <1>1, <1>5, <1>6 DEF OnlyPayer, Paying
  <2>2. Advanced(p, l)
    BY <2>1 DEF LoanOK
  <2> QED BY <1>1, <1>2, <1>4, <1>5, <2>2 DEF Advanced, Settled, d
<1>7. ASSUME NEW q \in Clients, Paying(q, l)' PROVE Stale(q)'
  <2>1. q # p /\ Paying(q, l) /\ req'[q] = req[q]
    BY <1>5, <1>7, IdleOK DEF Paying
  <2>2. req[q].row.status = "checked_out"
    BY <2>1 DEF Paying, RequestsInv, RequestOK, Returning
  <2> QED BY <1>4, <2>1, <2>2 DEF Stale, Paying
<1>8. ASSUME NEW q \in Clients, req'[q].loan = l PROVE Rank(req'[q].row.status) <= Rank(loan'[l].status)
  BY <1>4 DEF Rank
<1> QED BY <1>4, <1>6, <1>7, <1>8 DEF LoanOK, OnlyPayer

LoansInvOK == \A l \in Loans \ muddled' : l \notin muddled /\ LoanOK(l) => LoanOK(l)'

(* What the requests do to the accounts. *)
LEMMA CallLoans ==
  ASSUME TypeOK, RequestsInv, NEW p \in Clients, NEW k \in Loans, Call(p, k)
  PROVE  muddled' = muddled /\ LoansInvOK
<1>1. PICK label \in Labels \ {"idle"}, i \in Items \cup {None}, n \in Nat :
        Arrive(p, k, label, i, n) /\ (label \in {"cash", "close"} => label = "close" /\ n = 0 /\ loan[k].status = "checked_out")
  <2>1. 0 \in Nat
    OBVIOUS
  <2> QED BY <2>1 DEF Call, RequestLoan, Schedule, Checkout, Cancel, Return, Labels
<1> DEFINE r == [Idle EXCEPT !.at = label, !.loan = k, !.row = loan[k], !.item = i, !.n = n]
<1>2. /\ r.at = label /\ r.loan = k /\ r.row = loan[k] /\ r.n = n /\ r.used = 0
      /\ Become(p, r) /\ UNCHANGED <<loan, money, muddled>> /\ req[p] = Idle
  BY <1>1 DEF Arrive, Idle
<1> HIDE DEF r
<1>3. req'[p] = r /\ (\A q \in Clients \ {p} : req'[q] = req[q]) /\ UNCHANGED <<taken, cash, stripe>>
  BY <1>2 DEF Become, TypeOK, money
<1>4. ASSUME NEW l \in Loans, LoanOK(l) PROVE LoanOK(l)'
  <2>1. CASE l # k \/ label \notin {"cash", "close"}
    <3>1. Rank(loan[l].status) <= Rank(loan[l].status)
      BY DEF Rank
    <3> QED BY <1>2, <1>4, <2>1, <3>1, IdleOK, Unpaid
  <2>2. CASE l = k /\ label \in {"cash", "close"}
    <3>1. Paying(p, l)' /\ \A q \in Clients \ {p} : Same(q)
      BY <1>2, <1>3, <2>2 DEF Paying, Same
    <3>2. ASSUME \A q \in Clients \ {p} : ~Paying(q, l) PROVE Advanced(p, l)'
      <4>1. taken[l] = 0 /\ cash[l] = 0
        BY <1>1, <1>2, <1>4, <2>2, <3>2, IdleOK, Untouched DEF Paying
      <4> QED BY <1>1, <1>2, <1>3, <2>2, <4>1 DEF Advanced, Due
    <3>3. TypeOK' /\ RequestsInv'
      BY CallTyped
    <3> QED BY <1>2, <1>3, <1>4, <2>2, <3>1, <3>2, <3>3, Pays
  <2> QED BY <2>1, <2>2
<1> QED BY <1>2, <1>4 DEF LoansInvOK

LEMMA ContinueLoans ==
  ASSUME TypeOK, RequestsInv, NEW p \in Clients, Continue(p)
  PROVE  LoansInvOK
<1> DEFINE r == req[p]
<1>1. r \in Request /\ RequestOK(r) /\ TypeOK' /\ RequestsInv'
  BY ContinueTyped DEF TypeOK, RequestsInv
<1>2. PICK k \in Loans : k = r.loan /\ loan[k] \in Loan
  BY <1>1 DEF Continue, Insert, ScheduleCheck, ScheduleWrite, CheckoutWrite, CancelWrite, BalanceRead,
         Deduct, DeductMissed, CashPayment, Close, At, RequestOK, TypeOK
<1>3. ASSUME NEW row \in Loan, Write(p, row), UNCHANGED money, NEW l \in Loans, l # k, LoanOK(l)
      PROVE  LoanOK(l)'
  <2>1. loan'[l] = loan[l] /\ UNCHANGED <<stripe, taken, cash>>
    BY <1>2, <1>3 DEF Write, TypeOK, money
  <2>2. \A q \in Clients : Same(q) \/ Apart(q, l)
    BY <1>2, <1>3, IdleOK DEF Write, End, Become, TypeOK, Same, Apart
  <2> QED BY <1>3, <2>1, <2>2, Frame
<1>4. ASSUME NEW row \in Loan, Write(p, row), NEW l \in Loans \ muddled', l = k PROVE ~Stale(p)
  BY <1>2, <1>4 DEF Write
<1>5. ASSUME NEW row \in Loan, Write(p, row), UNCHANGED money, r.at \notin {"cash", "close"},
             ~Stale(p) => /\ row.credits = loan[k].credits /\ row.cash = loan[k].cash
                          /\ row.charge = loan[k].charge
                          /\ loan[k].status \in {"new", "requested", "scheduled"}
                          /\ row.status # "returned" /\ Rank(loan[k].status) < Rank(row.status)
      PROVE  LoansInvOK
  <2>1. ASSUME NEW l \in Loans \ muddled', LoanOK(l) PROVE LoanOK(l)'
    <3>1. CASE l # k
      BY <1>3, <1>5, <2>1, <3>1
    <3>2. CASE l = k
      <4>1. ~Stale(p)
        BY <1>4, <1>5, <3>2
      <4> QED BY <1>2, <1>5, <2>1, <3>2, <4>1, Advances
    <3> QED BY <3>1, <3>2
  <2> QED BY <2>1 DEF LoansInvOK
<1>6. \A l \in Loans : Rank(loan[l].status) <= Rank(loan[l].status)
  BY DEF Rank
<1>7. ASSUME NEW s, Become(p, s), UNCHANGED <<loan, money>>, r.at \notin {"cash", "close"},
             s.loan = None \/ (s.loan = k /\ s.row = r.row /\ s.at \notin {"cash", "close"})
      PROVE  LoansInvOK
  <2>1. ASSUME NEW l \in Loans, LoanOK(l) PROVE LoanOK(l)'
    <3>1. s.loan = l => Rank(s.row.status) <= Rank(loan[l].status)
      BY <1>2, <1>7, <2>1 DEF LoanOK
    <3> QED BY <1>7, <2>1, <3>1, Unpaid
  <2> QED BY <2>1 DEF LoansInvOK
<1>8. ASSUME End(p), UNCHANGED <<loan, money>>, r.at \notin {"cash", "close"} PROVE LoansInvOK
  <2>1. ASSUME NEW l \in Loans, LoanOK(l) PROVE LoanOK(l)'
    <3>1. Become(p, Idle) /\ Idle.loan # l
      BY <1>8, IdleOK DEF End
    <3> QED BY <1>8, <2>1, <3>1, Unpaid
  <2> QED BY <2>1 DEF LoansInvOK
<1>9. CASE Insert(p)
  <2> DEFINE row == [NewLoan EXCEPT !.status = "requested", !.item = r.item, !.qty = r.n]
  <2>1. row \in Loan
    BY <1>1 DEF NewLoan, Loan, Statuses, Request
  <2>2. row.status = "requested" /\ row.credits = 0 /\ row.cash = 0 /\ row.charge = 0
    BY DEF NewLoan
  <2>3. Write(p, row) /\ r.at = "insert"
    BY <1>9 DEF Insert, At
  <2>4. ASSUME ~Stale(p) PROVE loan[k].status = "new"
    BY <1>1, <1>2, <2>3, <2>4 DEF Stale, RequestOK
  <2>5. k \notin muddled' /\ LoanOK(k) => LoanOK(k)'
    <3>1. ASSUME LoanOK(k), ~Stale(p) PROVE LoanOK(k)'
      <4>1. loan[k].credits = 0 /\ loan[k].cash = 0 /\ loan[k].charge = 0
        BY <2>4, <3>1 DEF LoanOK
      <4>2. Rank(loan[k].status) < Rank(row.status)
        BY <2>2, <2>4, <3>1 DEF Rank
      <4> HIDE DEF row
      <4> QED BY <1>2, <1>9, <2>1, <2>2, <2>3, <2>4, <3>1, <4>1, <4>2, Advances DEF Insert
    <3> QED BY <1>2, <1>4, <2>1, <2>3, <3>1
  <2> HIDE DEF row
  <2>6. \A l \in Loans : l # k /\ LoanOK(l) => LoanOK(l)'
    BY <1>3, <1>9, <2>1, <2>3 DEF Insert
  <2> QED BY <2>5, <2>6 DEF LoansInvOK
<1>10. CASE ScheduleCheck(p)
  <2> DEFINE s == [r EXCEPT !.at = "schedule"]
  <2>1. s.at = "schedule" /\ s.loan = k /\ s.row = r.row
    BY <1>1, <1>2 DEF Request
  <2>2. r.at = "check"
    BY <1>10 DEF ScheduleCheck, At
  <2> HIDE DEF s
  <2>3. Become(p, s) \/ End(p)
    BY <1>10 DEF ScheduleCheck, s
  <2>4. UNCHANGED <<loan, money>>
    BY <1>10 DEF ScheduleCheck
  <2>5. CASE Become(p, s)
    BY <1>2, <1>7, <2>1, <2>2, <2>4, <2>5
  <2> QED BY <1>8, <2>2, <2>3, <2>4, <2>5
<1>11. CASE ScheduleWrite(p)
  <2> DEFINE row == [loan[k] EXCEPT !.status = "scheduled", !.item = r.item]
  <2>1. row \in Loan /\ row.status = "scheduled"
        /\ row.credits = loan[k].credits /\ row.cash = loan[k].cash /\ row.charge = loan[k].charge
    BY <1>1, <1>2 DEF Loan, Statuses, Out, Request
  <2>2. r.at = "schedule" /\ UNCHANGED money
    BY <1>11 DEF ScheduleWrite, At
  <2>3. ~Stale(p) => loan[k].status = "requested"
    BY <1>1, <1>2, <2>2 DEF Stale, RequestOK
  <2>4. loan[k].status = "requested" => Rank(loan[k].status) < Rank(row.status)
    BY <2>1 DEF Rank
  <2>5. CASE Write(p, row)
    <3> HIDE DEF row
    <3> QED BY <1>5, <2>1, <2>2, <2>3, <2>4, <2>5
  <2>6. CASE End(p) /\ UNCHANGED loan
    BY <1>8, <1>11, <2>2, <2>6
  <2> QED BY <1>2, <1>11, <2>5, <2>6 DEF ScheduleWrite
<1>12. CASE CheckoutWrite(p)
  <2> DEFINE row == [loan[k] EXCEPT !.status = "checked_out"]
  <2>1. row \in Loan /\ row.status = "checked_out"
        /\ row.credits = loan[k].credits /\ row.cash = loan[k].cash /\ row.charge = loan[k].charge
    BY <1>2 DEF Loan, Statuses, Out
  <2>2. r.at = "checkout" /\ UNCHANGED money /\ Write(p, row)
    BY <1>2, <1>12 DEF CheckoutWrite, At
  <2>3. ~Stale(p) => loan[k].status = "scheduled"
    BY <1>1, <1>2, <2>2 DEF Stale, RequestOK
  <2>4. loan[k].status = "scheduled" => Rank(loan[k].status) < Rank(row.status)
    BY <2>1 DEF Rank
  <2> HIDE DEF row
  <2> QED BY <1>5, <2>1, <2>2, <2>3, <2>4
<1>13. CASE CancelWrite(p)
  <2> DEFINE row == [loan[k] EXCEPT !.status = "cancelled"]
  <2>1. row \in Loan /\ row.status = "cancelled"
        /\ row.credits = loan[k].credits /\ row.cash = loan[k].cash /\ row.charge = loan[k].charge
    BY <1>2 DEF Loan, Statuses
  <2>2. r.at = "cancel" /\ UNCHANGED money /\ Write(p, row)
    BY <1>2, <1>13 DEF CancelWrite, At
  <2>3. ~Stale(p) => loan[k].status \in {"requested", "scheduled"}
    BY <1>1, <1>2, <2>2 DEF Stale, RequestOK
  <2>4. loan[k].status \in {"requested", "scheduled"} => Rank(loan[k].status) < Rank(row.status)
    BY <2>1 DEF Rank
  <2> HIDE DEF row
  <2> QED BY <1>5, <2>1, <2>2, <2>3, <2>4
<1>14. ASSUME NEW s \in Request, UNCHANGED <<loan, stripe>>, req'[p] = s, s.loan = k, s.row = r.row,
              s.at \in {"cash", "close"}, \A q \in Clients \ {p} : Same(q),
              \A l \in Loans : l # k => taken'[l] = taken[l] /\ cash'[l] = cash[l],
              ASSUME LoanOK(k), \A q \in Clients \ {p} : ~Paying(q, k), ~Stale(p)
              PROVE  Advanced(p, k)'
       PROVE  LoansInvOK
  <2>1. ASSUME NEW l \in Loans, LoanOK(l), l # k PROVE LoanOK(l)'
    <3>1. \A q \in Clients : Same(q) \/ Apart(q, l)
      BY <1>2, <1>14, <2>1 DEF Apart
    <3> QED BY <1>14, <2>1, <3>1, Frame
  <2>2. ASSUME LoanOK(k) PROVE LoanOK(k)'
    <3>1. Paying(p, k)' /\ req'[p].row = req[p].row
      BY <1>14 DEF Paying
    <3>2. (\A q \in Clients \ {p} : ~Paying(q, k)) /\ req'[p].row = loan[k] => Advanced(p, k)'
      BY <1>2, <1>14, <2>2 DEF Stale
    <3> QED BY <1>1, <1>2, <1>14, <2>2, <3>1, <3>2, Pays
  <2> QED BY <2>1, <2>2 DEF LoansInvOK
<1>15. CASE BalanceRead(p)
  <2> DEFINE s == [r EXCEPT !.at = "deduct", !.seen = wallet]
             c == [r EXCEPT !.at = "cash"]
  <2>1. /\ s.at = "deduct" /\ s.loan = k /\ s.row = r.row /\ r.at = "balance"
        /\ c.at = "cash" /\ c.loan = k /\ c.row = r.row /\ c.used = 0 /\ c.n = r.n /\ c \in Request
    BY <1>1, <1>2, <1>15 DEF BalanceRead, At, Request, Labels, RequestOK
  <2>2. UNCHANGED <<loan, money>>
    BY <1>15 DEF BalanceRead
  <2>3. CASE Become(p, s)
    <3> HIDE DEF s
    <3> QED BY <1>7, <2>1, <2>2, <2>3
  <2>4. CASE Become(p, c)
    <3>1. req'[p] = c /\ (\A q \in Clients \ {p} : Same(q)) /\ UNCHANGED <<taken, cash, stripe>>
      BY <2>2, <2>4 DEF Become, TypeOK, Same, money
    <3>2. ASSUME LoanOK(k), \A q \in Clients \ {p} : ~Paying(q, k), ~Stale(p) PROVE Advanced(p, k)'
      <4>1. loan[k].status = "checked_out" /\ ~Paying(p, k)
        BY <1>1, <2>1, <3>2 DEF Stale, RequestOK, Returning, Paying
      <4>2. taken[k] = 0 /\ cash[k] = 0
        BY <1>2, <3>2, <4>1, Untouched
      <4> QED BY <2>1, <3>1, <4>2 DEF Advanced
    <3> HIDE DEF c
    <3> QED BY <1>14, <2>1, <2>2, <3>1, <3>2
  <2> QED BY <1>15, <2>3, <2>4 DEF BalanceRead
<1>16. CASE Deduct(p)
  <2> DEFINE w == Wanted(r)
             c == [r EXCEPT !.at = "cash", !.used = w, !.seen = 0]
  <2>1. w \in Nat
    BY <1>1, WantedBounds
  <2>2. /\ Spend(w, p, c) /\ taken' = [taken EXCEPT ![k] = @ + w] /\ r.at = "deduct"
        /\ UNCHANGED <<loan, stripe, cash>>
    BY <1>2, <1>16 DEF Deduct, At
  <2> HIDE DEF w
  <2>3. c.at = "cash" /\ c.loan = k /\ c.row = r.row /\ c.used = w /\ c.n = r.n /\ c \in Request
    BY <1>1, <1>2, <2>1 DEF Request, Labels
  <2>4. req'[p] = c
    BY <2>2 DEF Spend
  <2>5. ASSUME NEW q \in Clients \ {p} PROVE Same(q)
    <3>1. req[q] \in Request
      BY DEF TypeOK
    <3> QED BY <2>2, <3>1 DEF Spend, Same, Request
  <2>6. ASSUME LoanOK(k), \A q \in Clients \ {p} : ~Paying(q, k), ~Stale(p) PROVE Advanced(p, k)'
    <3>1. loan[k].status = "checked_out" /\ ~Paying(p, k)
      BY <1>1, <1>2, <2>2, <2>6 DEF Stale, RequestOK, Returning, Paying
    <3>2. taken[k] = 0 /\ cash[k] = 0
      BY <1>2, <2>6, <3>1, Untouched
    <3>3. taken'[k] = w
      BY <1>2, <2>1, <2>2, <3>2 DEF TypeOK
    <3> QED BY <2>2, <2>3, <2>4, <3>2, <3>3 DEF Advanced
  <2>7. \A l \in Loans : l # k => taken'[l] = taken[l] /\ cash'[l] = cash[l]
    BY <2>2 DEF TypeOK
  <2> HIDE DEF c
  <2> QED BY <1>14, <2>2, <2>3, <2>4, <2>5, <2>6, <2>7
<1>17. CASE DeductMissed(p)
  <2>1. /\ Retry(r).at = "balance" /\ Retry(r).loan = k /\ Retry(r).row = r.row
        /\ r.at = "deduct" /\ Become(p, Retry(r)) /\ UNCHANGED <<loan, money>>
    BY <1>1, <1>2, <1>17 DEF DeductMissed, At, Retry, Request
  <2> QED BY <1>7, <2>1
<1>18. CASE CashPayment(p)
  <2> DEFINE c == [r EXCEPT !.at = "close"]
             d == Due(r)
  <2>1. /\ c.at = "close" /\ c.loan = k /\ c.row = r.row /\ c.used = r.used /\ c.n = r.n
        /\ c \in Request /\ r.at = "cash" /\ Due(c) = d /\ d \in Nat
    BY <1>1, <1>2, <1>18 DEF CashPayment, At, Request, Labels, Due, RequestOK
  <2>2. /\ cash' = IF stripe THEN [cash EXCEPT ![k] = @ + d] ELSE cash
        /\ Become(p, c) /\ UNCHANGED <<loan, stripe, taken>>
    BY <1>2, <1>18 DEF CashPayment
  <2> HIDE DEF d
  <2>3. req'[p] = c /\ \A q \in Clients \ {p} : Same(q)
    BY <2>2 DEF Become, TypeOK, Same
  <2>4. ASSUME LoanOK(k), \A q \in Clients \ {p} : ~Paying(q, k), ~Stale(p) PROVE Advanced(p, k)'
    <3>1. OnlyPayer(p, k)
      BY <2>1, <2>4 DEF OnlyPayer, Paying
    <3>2. taken[k] = r.used /\ cash[k] = 0
      BY <2>1, <2>4, <3>1 DEF LoanOK, Advanced
    <3>3. cash'[k] = IF stripe THEN d ELSE 0
      BY <1>2, <2>1, <2>2, <3>2 DEF TypeOK
    <3> QED BY <2>1, <2>2, <2>3, <3>2, <3>3 DEF Advanced
  <2>5. \A l \in Loans : l # k => taken'[l] = taken[l] /\ cash'[l] = cash[l]
    BY <2>2 DEF TypeOK
  <2> HIDE DEF c
  <2> QED BY <1>14, <2>1, <2>2, <2>3, <2>4, <2>5
<1>19. CASE Close(p)
  <2>1. PICK row : row = [loan[k] EXCEPT !.status = "returned", !.charge = r.n,
                                         !.credits = r.used, !.cash = Due(r)]
    OBVIOUS
  <2>2. Due(r) \in Nat
    BY <1>1 DEF Due, Request, RequestOK
  <2>3. row \in Loan
    <3> DEFINE d == Due(r)
    <3>1. row = [loan[k] EXCEPT !.status = "returned", !.charge = r.n, !.credits = r.used, !.cash = d]
          /\ d \in Nat
      BY <2>1, <2>2
    <3> HIDE DEF d
    <3> QED BY <1>1, <1>2, <3>1 DEF Loan, Statuses, Request
  <2>4. Write(p, row) /\ UNCHANGED money
    BY <1>2, <1>19, <2>1 DEF Close
  <2>5. ASSUME NEW l \in Loans \ muddled', LoanOK(l) PROVE LoanOK(l)'
    <3>1. CASE l # k
      BY <1>3, <2>3, <2>4, <2>5, <3>1
    <3>2. CASE l = k
      <4>1. ~Stale(p)
        BY <1>4, <2>3, <2>4, <3>2
      <4> QED BY <1>2, <1>19, <2>5, <3>2, <4>1, Closes
    <3> QED BY <3>1, <3>2
  <2> QED BY <2>5 DEF LoansInvOK
<1> QED
  BY <1>9, <1>10, <1>11, <1>12, <1>13, <1>15, <1>16, <1>17, <1>18, <1>19 DEF Continue

LEMMA LoansStep == TypeOK /\ RequestsInv /\ LoansInv /\ [Next]_vars => LoansInv'
<1> SUFFICES ASSUME TypeOK, RequestsInv, LoansInv, [Next]_vars PROVE LoansInv'
  OBVIOUS
<1>1. muddled \subseteq muddled' /\ LoansInvOK => LoansInv'
  BY DEF LoansInv, LoansInvOK
<1>2. ASSUME NEW p \in Clients, Continue(p) PROVE muddled \subseteq muddled'
  BY <1>2
  DEF Continue, Insert, ScheduleCheck, ScheduleWrite, CheckoutWrite, CancelWrite, BalanceRead,
      Deduct, DeductMissed, CashPayment, Close, Write
<1>3. ASSUME UNCHANGED <<loan, stripe, taken, cash>>, \A q \in Clients : Same(q), muddled \subseteq muddled'
      PROVE  LoansInv'
  <2>1. ASSUME NEW l \in Loans, LoanOK(l) PROVE LoanOK(l)'
    BY <1>3, <2>1, Frame
  <2> QED BY <1>3, <2>1 DEF LoansInv
<1>4. ASSUME NEW p \in Clients, Crash(p) PROVE LoansInv'
  <2>1. ASSUME NEW l \in Loans \ muddled' PROVE LoanOK(l)'
    <3>1. l \notin muddled /\ LoanOK(l)
          /\ (req[p].at \notin {"cash", "close"} \/ req[p].loan # l)
      BY <1>4, <2>1 DEF Crash, LoansInv
    <3>2. Become(p, Idle) /\ UNCHANGED <<loan, money>> /\ Idle.loan # l
      BY <1>4, IdleOK DEF Crash, End, Upset, money
    <3> QED BY <2>1, <3>1, <3>2, Unpaid
  <2> QED BY <2>1 DEF LoansInv
<1>5. ASSUME NEW i \in Items, Retire(i) \/ Restore(i) \/ \E n \in Stocks : SetStock(i, n)
      PROVE  LoansInv'
  BY <1>3, <1>5 DEF Retire, Restore, SetStock, Edit, money, Same
<1>6. CASE SpendElsewhere
  <2>1. ASSUME NEW q \in Clients PROVE Same(q)
    <3>1. req[q] \in Request
      BY DEF TypeOK
    <3> QED BY <1>6, <3>1 DEF SpendElsewhere, Spend, Same, Request
  <2> QED BY <1>3, <1>6, <2>1 DEF SpendElsewhere, Upset
<1>7. CASE Deposit
  BY <1>3, <1>7 DEF Deposit, Upset, Same
<1>8. CASE UNCHANGED vars
  BY <1>3, <1>8 DEF vars, money, bounds, Same
<1> QED BY <1>1, <1>2, <1>4, <1>5, <1>6, <1>7, <1>8, CallLoans, ContinueLoans DEF Next, Called

(* A loan is charged once, as its row says, unless it was written over or  *)
(* its return was lost while it took the money (returnLoan, settleReturn). *)
THEOREM ChargesOnce == Spec => []ChargedOnce
<1>1. Init => LoansInv
  <2> SUFFICES ASSUME Init, NEW l \in Loans PROVE LoanOK(l)
    BY DEF LoansInv
  <2>1. loan[l] = NewLoan /\ taken[l] = 0 /\ cash[l] = 0 /\ \A p \in Clients : req[p] = Idle
    BY DEF Init
  <2> QED BY <2>1, IdleOK DEF LoanOK, Settled, OnlyPayer, Paying, NewLoan
<1>2. LoansInv => ChargedOnce
  BY DEF LoansInv, LoanOK, Paying, Settled, ChargedOnce
<1> QED BY <1>1, <1>2, InitOK, TypeStep, LoansStep, PTL DEF Spec

-----------------------------------------------------------------------------
(* What is promised of an item is the sum over the loans it is out on, and *)
(* a step changes one loan.                                                *)

OutOn(rows, i) == {l \in Loans : rows[l].item = i /\ rows[l].status \in Out}
Pieces(rows, S) == MapThenSumSet(LAMBDA l : rows[l].qty, S)
LEMMA PiecesAre ==
  ASSUME NEW S, IsFiniteSet(S), NEW rows, \A l \in S : rows[l].qty \in Int
  PROVE  Pieces(rows, S) = Total(S, [l \in S |-> rows[l].qty])
<1> DEFINE f == [l \in S |-> rows[l].qty]
           Is(g) == g = [T \in SUBSET S |-> IF T = {} THEN 0
                           ELSE rows[CHOOSE l \in T : TRUE].qty + g[T \ {CHOOSE l \in T : TRUE}]]
<1>1. Pieces(rows, S) = (CHOOSE g : Is(g))[S]
  BY DEF Pieces, MapThenSumSet, MapThenFoldSet
<1>2. \A g : Is(g) <=> IsSum(g, S, f)
  <2>1. \A T \in SUBSET S : T # {} => f[Choice(T)] = rows[CHOOSE l \in T : TRUE].qty
    BY DEF Choice
  <2> QED BY <2>1 DEF IsSum, Choice
<1> HIDE DEF Is, f
<1>3. \A x \in S : f[x] \in Int
  BY DEF f
<1>4. PICK g : IsSum(g, S, f) /\ Total(S, f) = g[S]
  BY <1>3, TotalIs
<1>5. IsSum(CHOOSE h : Is(h), S, f)
  BY <1>2, <1>4
<1>6. (CHOOSE h : Is(h))[S] = g[S]
  BY <1>4, <1>5, SumsAgree
<1> QED BY <1>1, <1>4, <1>6 DEF f

Given(rows, i) == Pieces(rows, OutOn(rows, i))
GivenFor(l, rows, i) == IF rows[l].item = i /\ rows[l].status \in Out THEN rows[l].qty ELSE 0
GivenForRest(l, rows, i) == Total(OutOn(rows, i) \ {l}, [k \in OutOn(rows, i) \ {l} |-> rows[k].qty])

LEMMA GivenParts ==
  ASSUME NEW rows \in [Loans -> Loan], NEW l \in Loans, NEW i \in Items, IsFiniteSet(OutOn(rows, i))
  PROVE  /\ IsFiniteSet(OutOn(rows, i) \ {l})
         /\ GivenForRest(l, rows, i) \in Int /\ GivenFor(l, rows, i) \in Nat
         /\ Given(rows, i) = GivenFor(l, rows, i) + GivenForRest(l, rows, i)
<1> DEFINE S == OutOn(rows, i)
           R == S \ {l}
           f == [k \in S |-> rows[k].qty]
           e == [k \in R |-> rows[k].qty]
<1>1. /\ \A k \in S : rows[k].qty \in Int /\ f[k] = rows[k].qty
      /\ \A k \in R : rows[k].qty \in Int /\ e[k] = f[k] /\ k \in S
      /\ rows[l].qty \in Nat
  BY DEF Loan, OutOn
<1>2. IsFiniteSet(R)
  BY FS_RemoveElement
<1>3. Given(rows, i) = Total(S, f)
  BY <1>1, PiecesAre DEF Given
<1>4. Total(R, e) = Total(R, f) /\ Total(R, e) \in Int
  <2> HIDE DEF f, e, R
  <2> QED BY <1>1, <1>2, TotalSame, TotalTyped
<1>5. CASE l \in S
  <2> HIDE DEF f
  <2>1. Total(S, f) = f[l] + Total(R, f)
    BY <1>1, <1>5, TotalTakes
  <2>2. GivenFor(l, rows, i) = f[l]
    BY <1>1, <1>5 DEF GivenFor, OutOn
  <2> QED BY <1>1, <1>2, <1>3, <1>4, <1>5, <2>1, <2>2 DEF GivenForRest
<1>6. CASE l \notin S
  <2>1. R = S /\ GivenFor(l, rows, i) = 0
    BY <1>6 DEF GivenFor, OutOn
  <2>2. Total(R, f) = Total(S, f)
    BY <2>1
  <2> HIDE DEF f, S, R, e
  <2>3. GivenForRest(l, rows, i) = Total(R, e)
    BY DEF GivenForRest, R, S, e
  <2> QED BY <1>2, <1>3, <1>4, <2>1, <2>2, <2>3 DEF R, S
<1> QED BY <1>5, <1>6

LEMMA GivenStep ==
  ASSUME NEW a \in [Loans -> Loan], NEW b \in [Loans -> Loan], NEW l \in Loans, NEW i \in Items,
         IsFiniteSet(OutOn(a, i)), \A k \in Loans \ {l} : b[k] = a[k]
  PROVE  /\ IsFiniteSet(OutOn(b, i)) /\ Given(a, i) \in Int /\ Given(b, i) \in Int
         /\ Given(b, i) = Given(a, i) - GivenFor(l, a, i) + GivenFor(l, b, i)
<1> DEFINE R == OutOn(a, i) \ {l}
<1>1. OutOn(b, i) \ {l} = R
  BY DEF OutOn
<1>2. IsFiniteSet(OutOn(b, i))
  <2>1. IsFiniteSet(R)
    BY FS_RemoveElement
  <2>2. OutOn(b, i) \subseteq R \cup {l}
    BY <1>1
  <2>3. IsFiniteSet(R \cup {l})
    BY <2>1, FS_AddElement
  <2> QED BY <2>2, <2>3, FS_Subset
<1>3. [k \in R |-> a[k].qty] = [k \in R |-> b[k].qty]
  BY DEF OutOn
<1> HIDE DEF R
<1>4. GivenForRest(l, b, i) = GivenForRest(l, a, i)
  BY <1>1, <1>3, Zenon DEF GivenForRest, R
<1>5. GivenForRest(l, a, i) \in Int /\ GivenFor(l, a, i) \in Nat
      /\ Given(a, i) = GivenFor(l, a, i) + GivenForRest(l, a, i)
  BY GivenParts
<1>6. GivenFor(l, b, i) \in Nat /\ Given(b, i) = GivenFor(l, b, i) + GivenForRest(l, b, i)
  BY <1>2, GivenParts
<1> QED BY <1>2, <1>4, <1>5, <1>6

-----------------------------------------------------------------------------
(* A loan keeps its quantity from the request on, so that scheduling asks  *)
(* for the pieces that it then promises.                                   *)

RowOK(p) ==
  LET r == req[p] IN
  /\ r.at = "insert" => loan[r.loan].status = "new" /\ \A q \in Clients \ {p} : req[q].loan # r.loan
  /\ r.at \notin {"idle", "insert"} => r.row.qty = loan[r.loan].qty /\ loan[r.loan].status # "new"
StockInv == /\ \A i \in Items : IsFiniteSet(OutOn(loan, i))
            /\ \A p \in Clients : RowOK(p)

(* A request that goes on, or ends, without a write.                       *)
LEMMA RowsStay ==
  ASSUME StockInv, loan' = loan,
         \A q \in Clients :
           \/ req'[q].at = "idle" /\ req'[q].loan = None
           \/ /\ req'[q].loan = req[q].loan /\ req'[q].row = req[q].row
              /\ req[q].at # "idle" /\ (req'[q].at = "insert" <=> req[q].at = "insert")
           \/ req'[q] = req[q],
         RequestsInv, RequestsInv'
  PROVE  StockInv'
<1>1. ASSUME NEW p \in Clients PROVE RowOK(p)'
  <2>1. RequestOK(req'[p]) /\ RowOK(p)
    BY DEF RequestsInv, StockInv
  <2>2. ASSUME req'[p].at = "insert"
        PROVE  loan'[req'[p].loan].status = "new" /\ \A q \in Clients \ {p} : req'[q].loan # req'[p].loan
    <3>1. req'[p].loan \in Loans /\ req'[p].loan = req[p].loan /\ req[p].at = "insert"
      BY <2>1, <2>2 DEF RequestOK
    <3> QED BY <2>1, <3>1 DEF RowOK
  <2>3. ASSUME req'[p].at \notin {"idle", "insert"}
        PROVE  req'[p].row.qty = loan'[req'[p].loan].qty /\ loan'[req'[p].loan].status # "new"
    BY <2>1, <2>3 DEF RowOK
  <2> QED BY <2>2, <2>3 DEF RowOK
<1> QED BY <1>1 DEF StockInv

(* A write keeps the quantity, but for the first.                          *)
LEMMA RowsWrite ==
  ASSUME TypeOK, RequestsInv, StockInv, NEW p \in Clients, req[p].at # "idle", NEW row \in Loan, Write(p, row),
         row.status # "new", req[p].at # "insert" => row.qty = loan[req[p].loan].qty
  PROVE  StockInv'
<1> DEFINE l == req[p].loan
<1>1. l \in Loans /\ loan \in [Loans -> Loan] /\ loan' \in [Loans -> Loan]
  BY WriteOK DEF TypeOK, RequestsInv, RequestOK
<1>2. /\ req'[p] = Idle /\ \A q \in Clients \ {p} : req'[q] = req[q]
      /\ loan'[l] = row /\ \A k \in Loans \ {l} : loan'[k] = loan[k]
  BY <1>1 DEF Write, End, Become, TypeOK
<1>3. ASSUME NEW i \in Items PROVE IsFiniteSet(OutOn(loan', i))
  BY <1>1, <1>2, GivenStep DEF StockInv
<1>4. ASSUME NEW q \in Clients PROVE RowOK(q)'
  <2>1. RowOK(p) /\ RowOK(q) /\ RequestOK(req[q])
    BY DEF StockInv, RequestsInv
  <2>2. CASE q = p
    BY <1>2, <2>2, IdleOK DEF RowOK
  <2>3. CASE q # p
    <3>1. req'[q] = req[q]
      BY <1>2, <2>3
    <3>2. ASSUME req[q].at = "insert"
          PROVE  loan'[req[q].loan].status = "new" /\ \A o \in Clients \ {q} : req'[o].loan # req[q].loan
      <4>1. req[q].loan \in Loans /\ req[q].loan # None /\ req[q].loan # l
        BY <2>1, <2>3, <3>2 DEF RequestOK, RowOK
      <4> QED BY <1>2, <2>1, <3>2, <4>1, IdleOK DEF RowOK
    <3>3. ASSUME req[q].at \notin {"idle", "insert"}
          PROVE  req[q].row.qty = loan'[req[q].loan].qty /\ loan'[req[q].loan].status # "new"
      <4>1. req[q].loan \in Loans
        BY <2>1, <3>3 DEF RequestOK
      <4>2. CASE req[q].loan = l
        BY <1>2, <2>1, <2>3, <3>3, <4>2 DEF RowOK
      <4>3. CASE req[q].loan # l
        BY <1>2, <2>1, <3>3, <4>1, <4>3 DEF RowOK
      <4> QED BY <4>2, <4>3
    <3> QED BY <3>1, <3>2, <3>3 DEF RowOK
  <2> QED BY <2>2, <2>3
<1> QED BY <1>3, <1>4 DEF StockInv

LEMMA SpendRows ==
  ASSUME TypeOK, RequestsInv, StockInv, RequestsInv', NEW n, NEW p, NEW s, Spend(n, p, s), loan' = loan,
         p \in Clients => /\ s.loan = req[p].loan /\ s.row = req[p].row
                          /\ req[p].at = "deduct" /\ s.at = "cash"
  PROVE  StockInv'
<1>1. ASSUME NEW q \in Clients, q # p
      PROVE  \/ req'[q] = req[q]
             \/ req'[q].loan = req[q].loan /\ req'[q].row = req[q].row /\ req'[q].at = "deduct" /\ req[q].at = "deduct"
  BY <1>1 DEF Spend, TypeOK, Request
<1>2. p \in Clients => req'[p] = s
  BY DEF Spend
<1> QED BY <1>1, <1>2, RowsStay

LEMMA RowsArrive ==
  ASSUME TypeOK, RequestsInv, StockInv, NEW p \in Clients, NEW l \in Loans, NEW label, NEW i, NEW n,
         Arrive(p, l, label, i, n), label # "idle",
         label = "insert" => loan[l] = NewLoan /\ \A q \in Clients : req[q].loan # l,
         label # "insert" => loan[l].status # "new"
  PROVE  StockInv'
<1> DEFINE r == [Idle EXCEPT !.at = label, !.loan = l, !.row = loan[l], !.item = i, !.n = n]
<1>1. r.at = label /\ r.loan = l /\ r.row = loan[l]
  BY DEF Idle
<1>2. req'[p] = r /\ (\A q \in Clients \ {p} : req'[q] = req[q]) /\ loan' = loan
  BY DEF Arrive, Become, TypeOK
<1> HIDE DEF r
<1>3. ASSUME NEW q \in Clients PROVE RowOK(q)'
  <2>1. RowOK(q) /\ RequestOK(req[q])
    BY DEF StockInv, RequestsInv
  <2>2. CASE q = p
    BY <1>1, <1>2, <2>2 DEF RowOK, NewLoan
  <2>3. CASE q # p
    <3>1. req[q].at = "insert" => req[q].loan # l
      BY <2>1 DEF RowOK
    <3> QED BY <1>1, <1>2, <2>1, <2>3, <3>1 DEF RowOK
  <2> QED BY <2>2, <2>3
<1> QED BY <1>2, <1>3 DEF StockInv

LEMMA StockContinue ==
  ASSUME TypeOK, RequestsInv, StockInv, NEW p \in Clients, Continue(p)
  PROVE  StockInv'
<1> DEFINE r == req[p]
<1>1. r \in Request /\ RequestOK(r) /\ RequestsInv'
  BY ContinueTyped DEF TypeOK, RequestsInv
<1>2. r.loan \in Loans /\ loan[r.loan] \in Loan /\ r.at # "idle"
  BY <1>1 DEF Continue, Insert, ScheduleCheck, ScheduleWrite, CheckoutWrite, CancelWrite, BalanceRead,
         Deduct, DeductMissed, CashPayment, Close, At, RequestOK, TypeOK
<1>3. ASSUME End(p), loan' = loan PROVE StockInv'
  BY <1>1, <1>3, IdleOK, RowsStay DEF End, Become, TypeOK
<1>4. ASSUME NEW s, loan' = loan, Become(p, s), s.loan = r.loan, s.row = r.row,
             s.at = "insert" <=> r.at = "insert"
      PROVE  StockInv'
  BY <1>1, <1>2, <1>4, RowsStay DEF Become, TypeOK
<1>5. CASE Insert(p)
  <2> DEFINE row == [NewLoan EXCEPT !.status = "requested", !.item = r.item, !.qty = r.n]
  <2>1. row \in Loan /\ row.status = "requested" /\ r.at = "insert" /\ Write(p, row)
    BY <1>1, <1>5 DEF Insert, At, NewLoan, Loan, Statuses, Request
  <2> HIDE DEF row
  <2> QED BY <1>2, <2>1, RowsWrite
<1>6. CASE ScheduleCheck(p)
  <2> DEFINE s == [r EXCEPT !.at = "schedule"]
  <2>1. s.loan = r.loan /\ s.row = r.row /\ s.at = "schedule" /\ r.at = "check"
    BY <1>1, <1>6 DEF ScheduleCheck, At, Request
  <2> QED BY <1>3, <1>4, <1>6, <2>1 DEF ScheduleCheck
<1>7. ASSUME NEW row \in Loan, row.status # "new", row.qty = loan[r.loan].qty, Write(p, row) PROVE StockInv'
  BY <1>2, <1>7, RowsWrite
<1>8. CASE ScheduleWrite(p)
  <2> DEFINE row == [loan[r.loan] EXCEPT !.status = "scheduled", !.item = r.item]
  <2>1. row \in Loan /\ row.status = "scheduled" /\ row.qty = loan[r.loan].qty
    BY <1>1, <1>2 DEF Loan, Statuses, Out, Request
  <2>2. CASE End(p) /\ loan' = loan
    BY <1>3, <2>2
  <2>3. CASE Write(p, row)
    BY <1>7, <2>1, <2>3
  <2> QED BY <1>8, <2>2, <2>3 DEF ScheduleWrite
<1>9. CASE CheckoutWrite(p) \/ CancelWrite(p)
  <2> DEFINE a == [loan[r.loan] EXCEPT !.status = "checked_out"]
             b == [loan[r.loan] EXCEPT !.status = "cancelled"]
  <2>1. a \in Loan /\ a.status = "checked_out" /\ a.qty = loan[r.loan].qty
        /\ b \in Loan /\ b.status = "cancelled" /\ b.qty = loan[r.loan].qty
    BY <1>2 DEF Loan, Statuses, Out
  <2>2. Write(p, a) \/ Write(p, b)
    BY <1>9 DEF CheckoutWrite, CancelWrite
  <2> HIDE DEF a, b
  <2> QED BY <1>7, <2>1, <2>2
<1>10. CASE Close(p)
  <2> DEFINE d == Due(r)
             row == [loan[r.loan] EXCEPT !.status = "returned", !.charge = r.n,
                                         !.credits = r.used, !.cash = d]
  <2>1. d \in Nat
    BY <1>1 DEF Due, Request, RequestOK
  <2>2. row \in Loan /\ row.status = "returned" /\ row.qty = loan[r.loan].qty
    <3> HIDE DEF d
    <3> QED BY <1>1, <1>2, <2>1 DEF Loan, Statuses, Request
  <2>3. Write(p, row)
    BY <1>10 DEF Close
  <2> HIDE DEF row
  <2> QED BY <1>7, <2>2, <2>3
<1>11. CASE BalanceRead(p)
  <2>1. PICK s \in {[r EXCEPT !.at = "deduct", !.seen = wallet], [r EXCEPT !.at = "cash"]} : Become(p, s)
    BY <1>11 DEF BalanceRead
  <2>2. s.loan = r.loan /\ s.row = r.row /\ s.at # "insert" /\ r.at = "balance" /\ loan' = loan
    BY <1>1, <1>11, <2>1 DEF BalanceRead, At, Request
  <2> QED BY <1>4, <2>1, <2>2
<1>12. CASE DeductMissed(p)
  <2>1. Retry(r).loan = r.loan /\ Retry(r).row = r.row /\ Retry(r).at = "balance" /\ r.at = "deduct"
    BY <1>1, <1>12 DEF Retry, DeductMissed, At, Request
  <2> QED BY <1>4, <1>12, <2>1 DEF DeductMissed
<1>13. CASE CashPayment(p)
  <2> DEFINE s == [r EXCEPT !.at = "close"]
  <2>1. s.loan = r.loan /\ s.row = r.row /\ s.at = "close" /\ r.at = "cash" /\ Become(p, s) /\ loan' = loan
    BY <1>1, <1>13 DEF CashPayment, At, Request
  <2> HIDE DEF s
  <2> QED BY <1>4, <2>1
<1>14. CASE Deduct(p)
  <2> DEFINE s == [r EXCEPT !.at = "cash", !.used = Wanted(r), !.seen = 0]
  <2>1. s.loan = r.loan /\ s.row = r.row /\ s.at = "cash" /\ r.at = "deduct" /\ Spend(Wanted(r), p, s) /\ loan' = loan
    BY <1>1, <1>14 DEF Deduct, At, Request
  <2> HIDE DEF s
  <2> QED BY <1>1, <2>1, SpendRows
<1> QED
  BY <1>5, <1>6, <1>8, <1>9, <1>10, <1>11, <1>12, <1>13, <1>14 DEF Continue

LEMMA StockStep == TypeOK /\ RequestsInv /\ StockInv /\ [Next]_vars => StockInv'
<1> SUFFICES ASSUME TypeOK, RequestsInv, StockInv, [Next]_vars PROVE StockInv'
  OBVIOUS
<1>1. RequestsInv'
  BY TypeStep
<1>2. ASSUME NEW p \in Clients, NEW l \in Loans, Call(p, l) PROVE StockInv'
  BY <1>2, RowsArrive DEF Call, RequestLoan, Schedule, Checkout, Cancel, Return
<1>3. ASSUME NEW p \in Clients, Crash(p) PROVE StockInv'
  BY <1>1, <1>3, IdleOK, RowsStay DEF Crash, End, Become, Upset, TypeOK
<1>4. ASSUME UNCHANGED <<loan, req>> PROVE StockInv'
  BY <1>1, <1>4, RowsStay
<1>5. CASE SpendElsewhere
  <2>1. Spend(1, None, Idle) /\ loan' = loan /\ None \notin Clients
    BY <1>5 DEF SpendElsewhere, Upset
  <2> QED BY <1>1, <2>1, SpendRows
<1>6. ASSUME NEW i \in Items, Retire(i) \/ Restore(i) \/ \E n \in Stocks : SetStock(i, n) PROVE StockInv'
  BY <1>4, <1>6 DEF Retire, Restore, SetStock, Edit
<1>7. CASE Deposit \/ UNCHANGED vars
  BY <1>4, <1>7 DEF Deposit, Upset, vars
<1> QED BY <1>2, <1>3, <1>5, <1>6, <1>7, StockContinue DEF Next, Called

Overtaken(p) == At(p, "checkout") /\ req'[p] = Idle /\ Stale(p)
Short(i) == Left(i)' < 0 /\ Left(i)' < Left(i) =>
              stock'[i] < stock[i] \/ \E p \in Clients : Overtaken(p)

LEMMA LeftIs ==
  ASSUME TypeOK, TypeOK', NEW i \in Items
  PROVE  /\ stock[i] \in Int /\ stock'[i] \in Int
         /\ Left(i) = stock[i] - Given(loan, i) /\ Left(i)' = stock'[i] - Given(loan', i)
<1>1. stock[i] \in Int /\ stock'[i] \in Int
  <2>1. stock \in [Items -> Stocks] /\ stock' \in [Items -> Stocks]
    BY DEF TypeOK
  <2>2. stock[i] \in Stocks /\ stock'[i] \in Stocks /\ Stocks \subseteq Nat
    BY <2>1
  <2>3. \A n \in Stocks : n \in Int
    OBVIOUS
  <2> QED BY <2>2, <2>3
<1>2. Left(i) = stock[i] - Given(loan, i)
  BY DEF Left, Allocated, Given, Pieces, OutOn, MapThenSumSet, MapThenFoldSet
<1>3. Left(i)' = stock'[i] - Given(loan', i)
  BY DEF Left, Allocated, Given, Pieces, OutOn, MapThenSumSet, MapThenFoldSet
<1> QED BY <1>1, <1>2, <1>3

(* Without a write to a loan, only the stock can make an item short.       *)
LEMMA NoLoanShort ==
  ASSUME TypeOK, TypeOK', StockInv, loan' = loan, NEW i \in Items
  PROVE  Short(i)
<1>1. Given(loan, i) \in Int /\ Given(loan', i) = Given(loan, i)
  <2>1. CASE Loans = {}
    <3>1. OutOn(loan, i) = {}
      BY <2>1 DEF OutOn
    <3>2. Given(loan, i) = Total({}, [l \in {} |-> loan[l].qty])
      BY <3>1, PiecesAre, FS_EmptySet DEF Given
    <3> QED BY <3>2, TotalNone
  <2>2. ASSUME NEW l \in Loans PROVE Given(loan, i) \in Int
    BY GivenStep DEF TypeOK, StockInv
  <2> QED BY <2>1, <2>2
<1> QED BY <1>1, LeftIs DEF Short

(* A write makes an item short only where it promises pieces of it anew.   *)
LEMMA WriteShort ==
  ASSUME TypeOK, TypeOK', StockInv, NEW p \in Clients, req[p].loan \in Loans, NEW row \in Loan, Write(p, row),
         stock' = stock, NEW i \in Items,
         row.status \in Out /\ row.item = i =>
           \/ row.qty <= Left(i) \/ Overtaken(p)
           \/ loan[req[p].loan].status \in Out /\ loan[req[p].loan].item = i /\ row.qty = loan[req[p].loan].qty
  PROVE  Short(i)
<1> DEFINE l == req[p].loan
<1>1. loan'[l] = row /\ \A k \in Loans \ {l} : loan'[k] = loan[k]
  BY DEF Write, TypeOK
<1>2. loan \in [Loans -> Loan] /\ loan' \in [Loans -> Loan] /\ IsFiniteSet(OutOn(loan, i))
  BY DEF TypeOK, StockInv
<1>3. /\ Given(loan, i) \in Int /\ Given(loan', i) \in Int
      /\ Given(loan', i) = Given(loan, i) - GivenFor(l, loan, i) + GivenFor(l, loan', i)
  BY <1>1, <1>2, GivenStep
<1>4. GivenFor(l, loan, i) \in Nat /\ GivenFor(l, loan', i) \in Nat
  BY <1>2 DEF GivenFor, Loan
<1>5. \/ GivenFor(l, loan', i) <= GivenFor(l, loan, i)
      \/ GivenFor(l, loan', i) <= Left(i)
      \/ Overtaken(p)
  BY <1>1, <1>4 DEF GivenFor
<1> QED BY <1>3, <1>4, <1>5, LeftIs DEF Short

LEMMA ContinueShort ==
  ASSUME TypeOK, RequestsInv, TypeOK', StockInv, NEW p \in Clients, Continue(p), NEW i \in Items
  PROVE  Short(i)
<1> DEFINE r == req[p]
           old == loan[r.loan]
<1>1. r \in Request /\ RequestOK(r) /\ RowOK(p)
  BY DEF TypeOK, RequestsInv, StockInv
<1>2. r.loan \in Loans /\ old \in Loan
  BY <1>1 DEF Continue, Insert, ScheduleCheck, ScheduleWrite, CheckoutWrite, CancelWrite, BalanceRead,
         Deduct, DeductMissed, CashPayment, Close, At, RequestOK, TypeOK
<1>3. ASSUME NEW row \in Loan, Write(p, row), stock' = stock, row.status \notin Out PROVE Short(i)
  BY <1>2, <1>3, WriteShort
<1>4. CASE Insert(p)
  <2> DEFINE row == [NewLoan EXCEPT !.status = "requested", !.item = r.item, !.qty = r.n]
  <2>1. row \in Loan /\ row.status \notin Out /\ Write(p, row) /\ stock' = stock
    BY <1>1, <1>4 DEF Insert, NewLoan, Loan, Statuses, Out, Request, stores
  <2> HIDE DEF row
  <2> QED BY <1>3, <2>1
<1>5. CASE ScheduleWrite(p)
  <2> DEFINE row == [old EXCEPT !.status = "scheduled", !.item = r.item]
  <2>1. row \in Loan /\ row.item = r.item /\ row.qty = r.row.qty
    BY <1>1, <1>2, <1>5 DEF ScheduleWrite, At, RowOK, Loan, Statuses, Out, Request
  <2>2. CASE Enough(r.item, r.row.qty) /\ Write(p, row) /\ stock' = stock
    <3>1. r.row.qty \in Nat /\ r.row.qty <= Left(r.item)
      <4>1. Left(r.item) >= r.row.qty /\ r.row.qty \in Nat
        BY <1>1, <2>2 DEF Enough, Request, Loan
      <4>2. r.item \in Items
        BY <1>1, <1>5 DEF ScheduleWrite, At, RequestOK
      <4>3. Left(r.item) \in Int
        <5>1. Given(loan, r.item) \in Int
          BY <1>2, <4>2, GivenStep DEF TypeOK, StockInv
        <5> QED BY <4>2, <5>1, LeftIs
      <4> QED BY <4>1, <4>3
    <3> HIDE DEF row
    <3> QED BY <1>2, <2>1, <2>2, <3>1, WriteShort
  <2>3. CASE loan' = loan
    BY <2>3, NoLoanShort
  <2> QED BY <1>5, <2>2, <2>3 DEF ScheduleWrite, stores
<1>6. CASE CheckoutWrite(p)
  <2> DEFINE row == [old EXCEPT !.status = "checked_out"]
  <2>1. row \in Loan /\ row.item = old.item /\ row.qty = old.qty /\ Write(p, row) /\ stock' = stock
    BY <1>2, <1>6 DEF CheckoutWrite, Loan, Statuses, Out, stores
  <2>2. Stale(p) => Overtaken(p)
    BY <1>6 DEF Overtaken, CheckoutWrite, Write, End, Become, TypeOK
  <2>3. ~Stale(p) => old.status \in Out
    BY <1>1, <1>6 DEF Stale, CheckoutWrite, At, RequestOK, Out
  <2> HIDE DEF row
  <2> QED BY <1>2, <2>1, <2>2, <2>3, WriteShort
<1>7. CASE CancelWrite(p)
  <2> DEFINE row == [old EXCEPT !.status = "cancelled"]
  <2>1. row \in Loan /\ row.status \notin Out /\ Write(p, row) /\ stock' = stock
    BY <1>2, <1>7 DEF CancelWrite, Loan, Statuses, Out, stores
  <2> HIDE DEF row
  <2> QED BY <1>3, <2>1
<1>8. CASE Close(p)
  <2> DEFINE d == Due(r)
             row == [old EXCEPT !.status = "returned", !.charge = r.n, !.credits = r.used, !.cash = d]
  <2>1. d \in Nat
    BY <1>1 DEF Due, Request, RequestOK
  <2>2. row \in Loan /\ row.status \notin Out
    <3> HIDE DEF d
    <3> QED BY <1>1, <1>2, <2>1 DEF Loan, Statuses, Out, Request
  <2>3. Write(p, row) /\ stock' = stock
    BY <1>8 DEF Close, stores
  <2> HIDE DEF row
  <2> QED BY <1>3, <2>2, <2>3
<1>9. CASE ScheduleCheck(p) \/ BalanceRead(p) \/ Deduct(p) \/ DeductMissed(p) \/ CashPayment(p)
  BY <1>9, NoLoanShort DEF ScheduleCheck, BalanceRead, Deduct, DeductMissed, CashPayment
<1> QED BY <1>4, <1>5, <1>6, <1>7, <1>8, <1>9 DEF Continue

(* No more pieces are promised than there are: an item falls short only    *)
(* when its stock is lowered, or a pickup is recorded for a loan that was  *)
(* changed since (scheduleLoan's conditional UPDATE).                      *)
THEOREM NeverShort == Spec => ShortOnlyWhenOvertaken
<1>1. Init => StockInv
  <2> SUFFICES ASSUME Init PROVE StockInv
    OBVIOUS
  <2>1. ASSUME NEW i \in Items PROVE OutOn(loan, i) = {}
    BY DEF Init, OutOn, NewLoan, Out
  <2> QED BY <2>1, IdleOK, FS_EmptySet DEF Init, StockInv, RowOK
<1>2. TypeOK /\ RequestsInv /\ StockInv /\ [Next]_vars => [\A i \in Items : Left(i)' < 0 /\ Left(i)' < Left(i) =>
       \/ stock'[i] < stock[i]
       \/ \E p \in Clients : At(p, "checkout") /\ req'[p] = Idle /\ Stale(p)]_vars
  <2> SUFFICES ASSUME TypeOK, RequestsInv, StockInv, Next, NEW i \in Items PROVE Short(i)
    BY DEF Short, Overtaken
  <2>1. TypeOK'
    BY TypeStep
  <2>2. ASSUME NEW p \in Clients, Continue(p) PROVE Short(i)
    BY <2>1, <2>2, ContinueShort
  <2>3. (\E p \in Clients : Continue(p)) \/ loan' = loan
    BY DEF Next, Called, Call, RequestLoan, Schedule, Checkout, Cancel, Return, Arrive, Crash, Upset, Retire, Restore,
           SetStock, Edit, SpendElsewhere, Deposit
  <2> QED BY <2>1, <2>2, <2>3, NoLoanShort
<1> QED BY <1>1, <1>2, InitOK, TypeStep, StockStep, PTL DEF Spec, ShortOnlyWhenOvertaken

-----------------------------------------------------------------------------
(* SuggestionMerges: what a merge has read, and has copied, is every vote  *)
(* of the duplicate that it has to carry over.                             *)

Act == [at : {"existing", "withdraw", "cast"}, on : Suggestions, by : Voters]
       \cup [at : {"voters"}, source : Suggestions, target : Suggestions]
       \cup [at : {"copy", "point"}, source : Suggestions, target : Suggestions, voters : SUBSET Voters]

MergeTypes ==
  /\ vote \in SUBSET (Suggestions \X Voters)
  /\ merged \in [Suggestions -> Suggestions \cup {None}]
  /\ act \in [Clients -> Act \cup {None}]

Binding == vote \ undone
Carried(s, t) == \A v \in Voters : <<s, v>> \in Binding => <<t, v>> \in vote \cup undone
MergeOK(p) ==
  /\ Merging!At(p, "copy") => \A v \in Voters : <<act[p].source, v>> \in Binding => v \in act[p].voters
  /\ Merging!At(p, "point") => Carried(act[p].source, act[p].target)

MergeInv == /\ MergeTypes
            /\ \A p \in Clients : MergeOK(p)
            /\ \A s \in Suggestions : merged[s] # None => Carried(s, merged[s])

(* A vote that was cast or withdrawn stays one or the other, and no vote   *)
(* of a duplicate comes to bind when its votes have been read.             *)
VotesStand ==
  /\ vote' \in SUBSET (Suggestions \X Voters)
  /\ vote \cup undone \subseteq vote' \cup undone'
  /\ \A s \in Suggestions, v \in Voters : Merging!Late(s) /\ <<s, v>> \in Binding' => <<s, v>> \in Binding

LEMMA MergeInitOK == Merging!Init => MergeInv
BY DEF Merging!Init, MergeInv, MergeTypes, MergeOK, Merging!At

LEMMA NoVotes == MergeInv /\ UNCHANGED <<vote, undone>> => VotesStand
BY DEF VotesStand, Binding, MergeInv, MergeTypes

LEMMA ArriveOK ==
  ASSUME MergeInv, NEW votes \in SUBSET (Suggestions \X Voters), Merging!Arrive(votes)
  PROVE  VotesStand /\ votes \subseteq vote'
<1>1. vote' = vote \cup votes /\ undone' = (undone \ (votes \ vote)) \cup {v \in votes \ vote : Merging!Late(v[1])}
  BY DEF Merging!Arrive
<1>2. vote \cup undone \subseteq vote' \cup undone'
  BY <1>1
<1>3. ASSUME NEW s \in Suggestions, NEW v \in Voters, Merging!Late(s), <<s, v>> \in Binding'
      PROVE  <<s, v>> \in Binding
  <2>1. <<s, v>> \in vote' /\ <<s, v>> \notin undone' /\ <<s, v>>[1] = s
    BY <1>3 DEF Binding
  <2>2. <<s, v>> \notin votes \ vote
    BY <1>1, <1>3, <2>1
  <2> QED BY <1>1, <2>1, <2>2 DEF Binding
<1> QED BY <1>1, <1>2, <1>3 DEF VotesStand, MergeInv, MergeTypes

(* A step of p that leaves the others' merges what they know.              *)
LEMMA OneAct ==
  ASSUME MergeInv, VotesStand, NEW p \in Clients, NEW a \in Act \cup {None}, Merging!Do(p, a),
         a # None => /\ a.at = "copy" => \A v \in Voters : <<a.source, v>> \in Binding' => v \in a.voters
                     /\ a.at = "point" => \A v \in Voters :
                          <<a.source, v>> \in Binding' => <<a.target, v>> \in vote' \cup undone',
         \/ merged' = merged
         \/ \E s \in Suggestions, t \in Suggestions : Carried(s, t)' /\ merged' = [merged EXCEPT ![s] = t]
  PROVE  MergeInv'
<1>1. /\ act' \in [Clients -> Act \cup {None}]
      /\ act'[p] = a /\ \A q \in Clients \ {p} : act'[q] = act[q]
  BY DEF MergeInv, MergeTypes, Merging!Do
<1>2. ASSUME NEW s \in Suggestions, NEW t, Merging!Late(s), Carried(s, t) PROVE Carried(s, t)'
  <2> SUFFICES ASSUME NEW v \in Voters, <<s, v>> \in Binding' PROVE <<t, v>> \in vote' \cup undone'
    BY DEF Carried
  <2>1. <<s, v>> \in Binding
    BY <1>2 DEF VotesStand
  <2> QED BY <1>2, <2>1 DEF Carried, VotesStand
<1>3. ASSUME NEW q \in Clients PROVE MergeOK(q)'
  <2>1. CASE q = p
    <3>1. Merging!At(q, "copy")' => a # None /\ a.at = "copy"
      BY <1>1, <2>1 DEF Merging!At
    <3>2. Merging!At(q, "point")' => a # None /\ a.at = "point"
      BY <1>1, <2>1 DEF Merging!At
    <3>3. act'[q] = a
      BY <1>1, <2>1
    <3>4. Merging!At(q, "point")' => Carried(act[q].source, act[q].target)'
      BY <3>2, <3>3 DEF Carried
    <3> QED BY <3>1, <3>3, <3>4 DEF MergeOK
  <2>2. CASE q # p
    <3>1. act'[q] = act[q] /\ MergeOK(q)
      BY <1>1, <2>2 DEF MergeInv
    <3>2. ASSUME Merging!At(q, "copy") \/ Merging!At(q, "point")
          PROVE  act[q].source \in Suggestions /\ Merging!Late(act[q].source)
      BY <3>2 DEF Merging!At, Merging!Late, MergeInv, MergeTypes, Act
    <3>3. Merging!At(q, "copy")' => \A v \in Voters : <<act'[q].source, v>> \in Binding' => v \in act'[q].voters
      BY <3>1, <3>2 DEF MergeOK, Merging!At, VotesStand
    <3>4. ASSUME Merging!At(q, "point")' PROVE Carried(act[q].source, act[q].target)'
      <4>1. Merging!At(q, "point")
        BY <3>1, <3>4 DEF Merging!At
      <4>2. Carried(act[q].source, act[q].target)
        BY <3>1, <4>1 DEF MergeOK
      <4> DEFINE s == act[q].source
                 t == act[q].target
      <4>3. \A v \in Voters : <<s, v>> \in Binding' => <<t, v>> \in vote' \cup undone'
        BY <3>2, <4>1, <4>2 DEF Carried, VotesStand
      <4> QED BY <3>1, <4>3 DEF Carried
    <3> QED BY <3>3, <3>4 DEF MergeOK
  <2> QED BY <2>1, <2>2
<1>4. ASSUME NEW s \in Suggestions, merged'[s] # None PROVE Carried(s, merged[s])'
  <2> SUFFICES ASSUME NEW v \in Voters, <<s, v>> \in Binding' PROVE <<merged'[s], v>> \in vote' \cup undone'
    BY DEF Carried
  <2>1. CASE merged'[s] = merged[s]
    <3>1. Merging!Late(s) /\ Carried(s, merged[s])
      BY <1>4, <2>1 DEF Merging!Late, MergeInv
    <3> QED BY <2>1, <3>1 DEF Carried, VotesStand
  <2>2. CASE merged'[s] # merged[s]
    <3>1. PICK t \in Suggestions : Carried(s, t)' /\ merged'[s] = t
      BY <2>2 DEF MergeInv, MergeTypes
    <3> QED BY <3>1 DEF Carried
  <2> QED BY <2>1, <2>2
<1>5. MergeTypes'
  BY <1>1 DEF MergeInv, MergeTypes, VotesStand
<1> QED BY <1>3, <1>4, <1>5 DEF MergeInv

LEMMA MergeStep == MergeInv /\ [Merging!Next]_(Merging!mergeVars) => MergeInv'
<1> SUFFICES ASSUME MergeInv, [Merging!Next]_(Merging!mergeVars) PROVE MergeInv'
  OBVIOUS
<1>1. ASSUME NEW p \in Clients, NEW s \in Suggestions, NEW v \in Voters, Merging!ToggleVote(p, s, v) PROVE MergeInv'
  <2> DEFINE a == [at |-> "existing", on |-> s, by |-> v]
  <2>1. a \in Act /\ a.at = "existing"
    BY DEF Act
  <2>2. Merging!Do(p, a) /\ UNCHANGED <<vote, merged, undone>>
    BY <1>1 DEF Merging!ToggleVote
  <2> HIDE DEF a
  <2> QED BY <2>1, <2>2, NoVotes, OneAct
<1>2. ASSUME NEW p \in Clients, Merging!Existing(p) PROVE MergeInv'
  <2> DEFINE a == [act[p] EXCEPT !.at = IF act[p].by \in Merging!OfSuggestion(act[p].on) THEN "withdraw" ELSE "cast"]
  <2>1. act[p] \in [at : {"existing"}, on : Suggestions, by : Voters]
    BY <1>2 DEF Merging!Existing, Merging!At, MergeInv, MergeTypes, Act
  <2>2. a \in Act /\ a.at \in {"withdraw", "cast"}
    BY <2>1 DEF Act
  <2>3. Merging!Do(p, a) /\ UNCHANGED <<vote, merged, undone>>
    BY <1>2 DEF Merging!Existing
  <2> HIDE DEF a
  <2> QED BY <2>2, <2>3, NoVotes, OneAct
<1>3. ASSUME NEW p \in Clients, Merging!Withdraw(p) PROVE MergeInv'
  <2>1. Merging!Do(p, None) /\ merged' = merged
        /\ vote' = vote \ {<<act[p].on, act[p].by>>} /\ undone' = undone \cup {<<act[p].on, act[p].by>>}
    BY <1>3 DEF Merging!Withdraw, Merging!Finish
  <2>2. VotesStand
    BY <2>1 DEF VotesStand, Binding, MergeInv, MergeTypes
  <2> QED BY <2>1, <2>2, OneAct
<1>4. ASSUME NEW p \in Clients, Merging!Cast(p) PROVE MergeInv'
  <2>1. Merging!Do(p, None) /\ merged' = merged /\ Merging!Arrive({<<act[p].on, act[p].by>>})
    BY <1>4 DEF Merging!Cast, Merging!Finish
  <2>2. act[p].on \in Suggestions /\ act[p].by \in Voters
    BY <1>4 DEF Merging!Cast, Merging!At, MergeInv, MergeTypes, Act
  <2>3. VotesStand
    BY <2>1, <2>2, ArriveOK
  <2> QED BY <2>1, <2>3, OneAct
<1>5. ASSUME NEW p \in Clients, NEW s \in Suggestions, NEW t \in Suggestions, Merging!Merge(p, s, t) PROVE MergeInv'
  <2> DEFINE a == [at |-> "voters", source |-> s, target |-> t]
  <2>1. a \in Act /\ a.at = "voters"
    BY DEF Act
  <2>2. Merging!Do(p, a) /\ UNCHANGED <<vote, merged, undone>>
    BY <1>5 DEF Merging!Merge
  <2> HIDE DEF a
  <2> QED BY <2>1, <2>2, NoVotes, OneAct
<1>6. ASSUME NEW p \in Clients, Merging!ReadVoters(p) PROVE MergeInv'
  <2> DEFINE votes == Merging!OfSuggestion(act[p].source)
             a == [at |-> "copy", source |-> act[p].source, target |-> act[p].target, voters |-> votes]
  <2>1. act[p] \in [at : {"voters"}, source : Suggestions, target : Suggestions]
    BY <1>6 DEF Merging!ReadVoters, Merging!At, MergeInv, MergeTypes, Act
  <2>2. votes \in SUBSET Voters /\ \A v \in Voters : <<act[p].source, v>> \in vote => v \in votes
    BY DEF Merging!OfSuggestion
  <2> HIDE DEF votes
  <2>3. a \in Act /\ a.at = "copy" /\ a.source = act[p].source /\ a.voters = votes
    BY <2>1, <2>2 DEF Act
  <2>4. Merging!Do(p, a) /\ UNCHANGED <<vote, merged, undone>>
    BY <1>6 DEF Merging!ReadVoters, Merging!Second, votes
  <2> HIDE DEF a
  <2>5. \A v \in Voters : <<a.source, v>> \in Binding' => v \in a.voters
    BY <2>2, <2>3, <2>4 DEF Binding
  <2> QED BY <2>3, <2>4, <2>5, NoVotes, OneAct
<1>7. ASSUME NEW p \in Clients, Merging!CopyVotes(p) PROVE MergeInv'
  <2> DEFINE a == [act[p] EXCEPT !.at = "point"]
             votes == {act[p].target} \X act[p].voters
  <2>1. act[p] \in [at : {"copy"}, source : Suggestions, target : Suggestions, voters : SUBSET Voters]
        /\ act[p] # None
    BY <1>7 DEF Merging!CopyVotes, Merging!At, MergeInv, MergeTypes, Act
  <2>2. a \in Act /\ a.at = "point" /\ a.source = act[p].source /\ a.target = act[p].target
    BY <2>1 DEF Act
  <2>3. Merging!Do(p, a) /\ merged' = merged /\ Merging!Arrive(votes)
    BY <1>7 DEF Merging!CopyVotes
  <2>4. votes \in SUBSET (Suggestions \X Voters) /\ \A v \in act[p].voters : <<act[p].target, v>> \in votes
    BY <2>1
  <2> HIDE DEF a, votes
  <2>5. VotesStand /\ votes \subseteq vote'
    BY <2>3, <2>4, ArriveOK
  <2>6. Merging!Late(act[p].source) /\ \A v \in Voters : <<act[p].source, v>> \in Binding => v \in act[p].voters
    BY <2>1 DEF Merging!Late, Merging!At, MergeInv, MergeOK
  <2>7. \A v \in Voters : <<act[p].source, v>> \in Binding' => <<act[p].target, v>> \in vote' \cup undone'
    BY <2>1, <2>4, <2>5, <2>6 DEF VotesStand
  <2>8. \A v \in Voters : <<a.source, v>> \in Binding' => <<a.target, v>> \in vote' \cup undone'
    BY <2>2, <2>7
  <2> QED BY <2>2, <2>3, <2>5, <2>8, OneAct
<1>8. ASSUME NEW p \in Clients, Merging!Point(p) PROVE MergeInv'
  <2> DEFINE s == act[p].source
             t == act[p].target
  <2>1. act[p] # None /\ act[p].at = "point" /\ s \in Suggestions /\ t \in Suggestions /\ Carried(s, t)
    BY <1>8 DEF Merging!Point, Merging!At, MergeInv, MergeTypes, MergeOK, Act
  <2>2. Merging!Do(p, None) /\ UNCHANGED <<vote, undone>>
        /\ (merged' = merged \/ merged' = [merged EXCEPT ![s] = t])
    BY <1>8 DEF Merging!Point, Merging!Finish
  <2> HIDE DEF s, t
  <2>3. \A v \in Voters : <<s, v>> \in Binding' => <<t, v>> \in vote' \cup undone'
    BY <2>1, <2>2 DEF Carried, Binding
  <2> QED BY <2>1, <2>2, <2>3, NoVotes, OneAct DEF Carried
<1>9. ASSUME NEW p \in Clients, Merging!Crash(p) PROVE MergeInv'
  BY <1>9, NoVotes, OneAct DEF Merging!Crash, Merging!Finish
<1>10. CASE UNCHANGED Merging!mergeVars
  BY <1>10 DEF Merging!mergeVars, MergeInv, MergeTypes, MergeOK, Merging!At, Carried, Binding
<1> QED BY <1>1, <1>2, <1>3, <1>4, <1>5, <1>6, <1>7, <1>8, <1>9, <1>10 DEF Merging!Next

(* Whoever voted for a duplicate counts for what it was merged into, but   *)
(* for those who took a vote back, or whose vote came when the votes had   *)
(* been read (mergeSuggestions, toggleVote).                               *)
THEOREM MergesKeepVotes == Merging!Spec => []Merging!MergeKeepsVotes
<1>1. MergeInv => Merging!MergeKeepsVotes
  BY DEF MergeInv, Carried, Binding, Merging!MergeKeepsVotes
<1> QED BY <1>1, MergeInitOK, MergeStep, PTL DEF Merging!Spec

-----------------------------------------------------------------------------
(* SeriesGeneration, for every calendar: the rows of shows and of rooms    *)
(* that a request works on, what a run of the job still has to do, and     *)
(* which days of the series of events were generated.                      *)

(* The rooms of a show: they are as the show says; none but x is held.     *)
Meets(sh, rm, i) ==
  \A r \in DOMAIN rm : rm[r].show = i =>
    (rm[r].status = "held" <=> sh[i].status = "live" /\ sh[i].room = r)
OnlyHeld(rm, i, x) == \A r \in DOMAIN rm : rm[r].show = i /\ r # x => rm[r].status # "held"
NoneHeld(rm, i) == \A r \in DOMAIN rm : rm[r].show = i => rm[r].status # "held"

(* Where a request works on a show, and what it does there. *)
OnShow == {"room", "hold", "link", "cancel", "clash", "free", "delete", "rehold", "write"}
OnDay == {"day", "others", "insert", "room", "hold", "link"}
OfOp(r) ==
  /\ r.at \in {"room", "hold", "link"} => r.op = "shows"
  /\ r.at \in {"others", "insert"} => r.op = "rooms"
  /\ r.at \in {"series", "day"} => r.op \in {"shows", "rooms"}
  /\ r.op \in {"shows", "rooms"} => r.at \in OnDay \cup {"series"}
  /\ r.at = "cancel" => r.op = "cancel"
  /\ r.at \in {"clash", "rehold"} => r.op = "rebook"
  /\ r.at = "delete" => r.op = "remove"
  /\ r.at = "free" => r.op \in {"cancel", "remove", "rebook"}
  /\ r.at = "write" => r.op \in {"update", "rebook"}

(* The rows that a request names: the show, and a room of that show.       *)
Names(sh, rm, r) ==
  /\ r.show # 0 <=> r.at \in OnShow
  /\ r.show # 0 => r.show \in DOMAIN sh
  /\ r.show # 0 /\ r.room # 0 => r.room \in DOMAIN rm /\ rm[r.room].show = r.show
  /\ r.at \in {"link", "free"} \/ (r.at = "write" /\ r.op = "rebook") => r.room # 0
  /\ r.at \in {"series", "day", "room", "hold"} => r.room = 0

(* What a request that works on a show alone has made of its rooms.        *)
Midway(sh, rm, r) ==
  LET i == r.show IN
  /\ r.at \in {"room", "hold", "link", "clash", "rehold"} => sh[i].status = "live"
  /\ r.at \in {"room", "hold", "link"} => sh[i].room = 0
  /\ r.at \in {"room", "hold", "delete", "rehold"} => NoneHeld(rm, i)
  /\ r.at \in {"cancel", "clash"} => Meets(sh, rm, i) /\ r.room = sh[i].room
  /\ r.at \in {"link", "free"} => OnlyHeld(rm, i, r.room)
  /\ r.at = "link" => rm[r.room].status = "held"
  /\ r.at = "free" /\ r.op = "cancel" => sh[i].status # "live"
  /\ r.at = "free" /\ r.op = "rebook" => sh[i].status = "live"
  /\ r.at = "write" /\ r.op = "update" => Meets(sh, rm, i)
  /\ r.at = "write" /\ r.op = "rebook" =>
       sh[i].status = "live" /\ rm[r.room].status = "held" /\ OnlyHeld(rm, i, r.room)

RoomsNamed ==
  /\ \A i \in DOMAIN show : show[i].room # 0 =>
       show[i].room \in DOMAIN room /\ room[show[i].room].show = i
  /\ \A r \in DOMAIN room : room[r].show # 0 => room[r].show \in DOMAIN show
Alone == \A p, q \in Clients :
  task[p].show = task[q].show /\ task[p].show # 0 /\ task[p].show \notin mixed => p = q
ShowsInv ==
  /\ \A i \in DOMAIN show \ mixed : (\E p \in Clients : task[p].show = i) \/ Meets(show, room, i)
  /\ \A p \in Clients : task[p].show # 0 /\ task[p].show \notin mixed => Midway(show, room, task[p])

(* What a run has yet to insert is new to it.                              *)
RunOK(r) ==
  /\ r.at \in OnDay => r.day \in r.pending /\ r.pending \cap r.known = {}
  /\ r.op = "shows" => r.todo \subseteq {Gigs}
  /\ r.op = "shows" /\ r.at # "series" => r.s = Gigs
  /\ r.op = "rooms" => r.todo \subseteq RoomSeries
  /\ r.op = "rooms" /\ r.at # "series" => r.s \in RoomSeries
  /\ r.at \in {"first", "register"} => r.s \in RoomSeries
  /\ r.at = "insert" => r.status # "none"

Late(r) == r.late = TRUE

(* The days of events ahead, while the series of events is active; those   *)
(* that had a show; and what a run has seen to that has missed nothing: it *)
(* has not come to the events, or has had the shows, but for those that it *)
(* is yet to insert.                                                       *)
Window(last, far) ==
  {d \in 1..last : series[Gigs].state = "active" /\ d >= series[Gigs].from /\ today < d /\ d < today + far}
EverShown(sh) == UNION {sh[i].was : i \in DOMAIN sh}
SeenTo(last, window, ever, r) ==
  r.op \in {"shows", "rooms"} =>
    /\ r.at \in OnDay => r.pending \subseteq 1..last
    /\ r.op = "shows" /\ r.at = "series" => Late(r) \/ Gigs \in r.todo \/ window \subseteq ever
    /\ r.op = "shows" /\ r.at = "day" => Late(r) \/ window \subseteq ever \cup r.pending
    /\ r.at \in {"room", "hold", "link"} => Late(r) \/ window \subseteq ever \cup (r.pending \ {r.day})
    /\ r.op = "rooms" => Late(r) \/ window \subseteq ever

ShowRow == [series : {Gigs}, day : Nat, was : SUBSET Nat, status : {"live", "cancelled", "removed"}, room : Nat]
RoomRow == [show : Nat, series : RoomSeries \cup {None}, day : Nat, status : {"held", "waitlisted", "cancelled"}]
JobLabels == OnShow \cup OnDay \cup {"idle", "series", "first", "register", "unsubscribe"}
Ops == {"none", "shows", "rooms", "book", "lapse", "cancel", "remove", "update", "rebook"}
Job == [at : JobLabels, op : Ops, todo : SUBSET (RoomSeries \cup {Gigs}), s : RoomSeries \cup {Gigs, None},
        pending : SUBSET Nat, holds : BOOLEAN, known : SUBSET Nat, gone : SUBSET Nat, late : BOOLEAN,
        show : Nat, room : Nat, day : Nat, status : {"none", "held", "waitlisted"}]
SeriesRows ==
  /\ today \in Nat
  /\ series = [s \in RoomSeries \cup {Gigs} |-> series[s]]
  /\ series[Gigs] \in [state : {"none", "active", "cancelled"}, proto : Nat, from : Nat]
SeriesTypes ==
  SeriesRows /\ show \in Seq(ShowRow) /\ room \in Seq(RoomRow) /\ task \in [Clients -> Job]

JobOK(sh, rm, r) == OfOp(r) /\ Names(sh, rm, r) /\ RunOK(r)
JobsOK == \A p \in Clients : JobOK(show, room, task[p])
SeriesInv == SeriesTypes /\ JobsOK /\ RoomsNamed /\ Alone /\ ShowsInv
DaysShown == \A i \in DOMAIN show : show[i].day \in show[i].was
SeesTo(last, far) ==
  DaysShown /\ \A p \in Clients : SeenTo(last, Window(last, far), EverShown(show), task[p])

USE SeriesAssumption

-----------------------------------------------------------------------------
(* Appending to a sequence, the least of some days, and what the job makes *)
(* of a request.                                                           *)

LEMMA Indexed ==
  ASSUME NEW S, NEW s \in Seq(S)
  PROVE  Len(s) \in Nat /\ DOMAIN s = 1..Len(s) /\ s \in [1..Len(s) -> S] /\ \A i \in DOMAIN s : s[i] \in S
OBVIOUS

LEMMA Appended ==
  ASSUME NEW S, NEW s \in Seq(S), NEW x \in S
  PROVE  /\ Append(s, x) \in Seq(S) /\ Len(Append(s, x)) = Len(s) + 1
         /\ DOMAIN Append(s, x) = DOMAIN s \cup {Len(s) + 1} /\ Len(s) + 1 \notin DOMAIN s
         /\ \A i \in DOMAIN s : Append(s, x)[i] = s[i]
         /\ Append(s, x)[Len(s) + 1] = x
OBVIOUS

LEMMA Replaced ==
  ASSUME NEW S, NEW s \in Seq(S), NEW t, DOMAIN t = DOMAIN s, t = [i \in DOMAIN s |-> t[i]],
         \A i \in DOMAIN s : t[i] \in S
  PROVE  t \in Seq(S) /\ Len(t) = Len(s)
<1>1. Len(s) \in Nat /\ DOMAIN s = 1..Len(s)
  OBVIOUS
<1>2. t \in [1..Len(s) -> S]
  BY <1>1
<1> QED BY <1>1, <1>2

(* The least of some natural numbers is one of them. *)
LEMMA LeastOne ==
  ASSUME NEW D, NEW A, NEW C, NEW M, NEW F, NEW S \in SUBSET Nat, S # {}
  PROVE  Calendar(D, A, C, M, F)!Min(S) \in S
<1>1. PICK x \in S : \A y \in S : ~(<<y, x>> \in OpToRel(<, Nat))
  <2>1. \A R, U : IsWellFoundedOn(R, U) =>
                    \A T : T \subseteq U /\ T # {} => \E x \in T : \A y \in T : ~(<<y, x>> \in R)
    BY WFMin
  <2> HIDE DEF OpToRel
  <2> QED BY <2>1, NatLessThanWellFounded, Zenon
<1>2. \A y \in S : ~(y < x)
  BY <1>1 DEF OpToRel
<1>3. \E z \in S : \A y \in S : z <= y
  BY <1>2
<1> QED BY <1>3 DEF Calendar!Min

LEMMA IdleJob ==
  ASSUME NEW D, NEW A, NEW C, NEW M, NEW F, NEW sh, NEW rm
  PROVE  LET n == Calendar(D, A, C, M, F)!Idle IN
         n \in Job /\ JobOK(sh, rm, n) /\ n.at = "idle" /\ n.op = "none" /\ n.show = 0 /\ n.room = 0 /\ ~Late(n)
<1> DEFINE n == Calendar(D, A, C, M, F)!Idle
<1>1. n \in Job
  BY DEF Calendar!Idle, Job, JobLabels, Ops
<1>2. OfOp(n) /\ Names(sh, rm, n) /\ RunOK(n)
  BY DEF Calendar!Idle, OfOp, OnDay, OnShow, Names, RunOK
<1>3. n.at = "idle" /\ n.op = "none" /\ n.show = 0 /\ n.room = 0 /\ ~Late(n)
  BY DEF Calendar!Idle, Late
<1> QED BY <1>1, <1>2, <1>3 DEF JobOK

LEMMA SkipJob ==
  ASSUME NEW D, NEW A, NEW C, NEW M, NEW F, NEW sh, NEW rm, NEW r \in Job, JobOK(sh, rm, r),
         r.op \in {"shows", "rooms"}
  PROVE  LET n == Calendar(D, A, C, M, F)!Skip(r) IN
         /\ n \in Job /\ JobOK(sh, rm, n) /\ n.at = "series" /\ n.op = r.op /\ n.show = 0 /\ n.room = 0
         /\ (Late(n) <=> Late(r)) /\ n.todo = r.todo \ {r.s}
<1> DEFINE n == Calendar(D, A, C, M, F)!Skip(r)
<1>1. n = [Calendar(D, A, C, M, F)!Idle EXCEPT
             !.at = "series", !.op = r.op, !.todo = r.todo \ {r.s}, !.late = r.late]
  BY DEF Calendar!Skip
<1>2. n \in Job
  <2>1. r.op \in Ops /\ r.late \in BOOLEAN /\ r.todo \ {r.s} \in SUBSET (RoomSeries \cup {Gigs})
    BY DEF Job
  <2>2. "series" \in JobLabels
    BY DEF JobLabels
  <2>3. Calendar(D, A, C, M, F)!Idle \in Job
    BY IdleJob
  <2> HIDE DEF n
  <2> QED BY <1>1, <2>1, <2>2, <2>3 DEF Job
<1>3. /\ n.at = "series" /\ n.op = r.op /\ n.show = 0 /\ n.room = 0
      /\ (Late(n) <=> Late(r)) /\ n.todo = r.todo \ {r.s}
  BY <1>1 DEF Calendar!Idle, Late
<1> HIDE DEF n
<1>4. OfOp(n) /\ Names(sh, rm, n)
  BY <1>3 DEF OfOp, OnDay, OnShow, Names
<1>5. RunOK(n)
  BY <1>3 DEF RunOK, JobOK, OnDay
<1> QED BY <1>2, <1>3, <1>4, <1>5 DEF JobOK, n

(* A run that is late, or not, is the same otherwise. *)
LEMMA LateJob ==
  ASSUME NEW sh, NEW rm, NEW r \in Job, JobOK(sh, rm, r), NEW b \in BOOLEAN
  PROVE  LET n == [r EXCEPT !.late = b] IN
         /\ n \in Job /\ JobOK(sh, rm, n) /\ (Late(n) <=> b = TRUE)
         /\ n.at = r.at /\ n.op = r.op /\ n.show = r.show /\ n.room = r.room /\ n.todo = r.todo
         /\ n.s = r.s /\ n.day = r.day /\ n.pending = r.pending /\ n.known = r.known /\ n.status = r.status
<1> DEFINE n == [r EXCEPT !.late = b]
<1>1. n \in Job /\ (Late(n) <=> b = TRUE)
  BY DEF Job, Late
<1>2. /\ n.at = r.at /\ n.op = r.op /\ n.show = r.show /\ n.room = r.room /\ n.todo = r.todo
      /\ n.s = r.s /\ n.day = r.day /\ n.pending = r.pending /\ n.known = r.known /\ n.status = r.status
  BY DEF Job
<1> HIDE DEF n
<1>3. OfOp(n) /\ Names(sh, rm, n) /\ RunOK(n)
  BY <1>2 DEF JobOK, OfOp, OnDay, OnShow, Names, RunOK
<1> QED BY <1>1, <1>2, <1>3 DEF JobOK, n

LEMMA AbortedJob ==
  ASSUME NEW D, NEW A, NEW C, NEW M, NEW F, NEW sh, NEW rm, NEW r \in Job, JobOK(sh, rm, r),
         r.op \in {"shows", "rooms"}
  PROVE  LET n == Calendar(D, A, C, M, F)!Aborted(r) IN
         /\ n \in Job /\ JobOK(sh, rm, n) /\ n.at = "series" /\ n.op = r.op /\ n.show = 0 /\ n.room = 0 /\ Late(n)
<1>1. PICK q : q = [r EXCEPT !.late = TRUE]
  OBVIOUS
<1>2. Calendar(D, A, C, M, F)!Aborted(r) = Calendar(D, A, C, M, F)!Skip(q)
  BY <1>1 DEF Calendar!Aborted
<1>3. q \in Job /\ JobOK(sh, rm, q) /\ Late(q) /\ q.op = r.op
  BY <1>1, LateJob
<1>4. PICK n : n = Calendar(D, A, C, M, F)!Skip(q)
  OBVIOUS
<1>5. n \in Job /\ JobOK(sh, rm, n) /\ (Late(n) <=> Late(q))
  BY <1>3, <1>4, SkipJob
<1>6. n.at = "series" /\ n.op = q.op /\ n.show = 0 /\ n.room = 0
  BY <1>4 DEF Calendar!Skip, Calendar!Idle
<1> QED BY <1>2, <1>3, <1>4, <1>5, <1>6

(* The run goes on to its next day, or leaves the series. *)
Followed(r, n) ==
  \/ n.at = "series" /\ r.pending = {r.day} /\ n.todo = r.todo \ {r.s}
  \/ n.at = "day" /\ n.pending = r.pending \ {r.day}

LEMMA FollowingJob ==
  ASSUME NEW D, NEW A, NEW C, NEW M, NEW F, NEW sh, NEW rm, NEW r \in Job, JobOK(sh, rm, r), r.at \in OnDay
  PROVE  LET n == Calendar(D, A, C, M, F)!Following(r) IN
         /\ n \in Job /\ JobOK(sh, rm, n) /\ n.op = r.op /\ n.show = 0 /\ n.room = 0 /\ (Late(n) <=> Late(r))
         /\ Followed(r, n)
<1>1. r.op \in {"shows", "rooms"} /\ r.day \in r.pending /\ r.pending \cap r.known = {}
  BY DEF JobOK, OfOp, OnDay, RunOK
<1>2. CASE r.pending = {r.day}
  <2>1. Calendar(D, A, C, M, F)!Following(r) = Calendar(D, A, C, M, F)!Skip(r)
    BY <1>2 DEF Calendar!Following
  <2>2. PICK n : n = Calendar(D, A, C, M, F)!Skip(r)
    OBVIOUS
  <2>3. n \in Job /\ JobOK(sh, rm, n) /\ n.at = "series" /\ n.op = r.op /\ n.show = 0 /\ n.room = 0
        /\ (Late(n) <=> Late(r)) /\ n.todo = r.todo \ {r.s}
    BY <1>1, <2>2, SkipJob
  <2>4. Followed(r, n)
    BY <1>2, <2>3 DEF Followed
  <2> QED BY <2>1, <2>2, <2>3, <2>4
<1>3. CASE r.pending # {r.day}
  <2> DEFINE rest == r.pending \ {r.day}
             first == Calendar(D, A, C, M, F)!Min(rest)
             n == [r EXCEPT !.at = "day", !.pending = rest, !.day = first, !.show = 0, !.room = 0, !.status = "none"]
  <2>1. rest \in SUBSET Nat /\ rest # {}
    BY <1>1, <1>3 DEF Job
  <2>2. first \in rest
    BY <2>1, LeastOne
  <2>3. Calendar(D, A, C, M, F)!Following(r) = n
    BY <1>3 DEF Calendar!Following
  <2> HIDE DEF first
  <2>4. n \in Job
    BY <2>1, <2>2 DEF Job, JobLabels, OnDay
  <2>5. /\ n.at = "day" /\ n.op = r.op /\ n.show = 0 /\ n.room = 0 /\ (Late(n) <=> Late(r)) /\ n.todo = r.todo
        /\ n.s = r.s /\ n.pending = rest /\ n.known = r.known /\ n.day = first
    BY DEF Job, Late
  <2> HIDE DEF n
  <2>6. OfOp(n) /\ Names(sh, rm, n)
    BY <1>1, <2>5 DEF OfOp, OnDay, Names, OnShow
  <2>7. RunOK(n)
    BY <1>1, <2>2, <2>5 DEF RunOK, OnDay, JobOK
  <2>8. Followed(r, n)
    BY <2>5 DEF Followed
  <2> QED BY <2>3, <2>4, <2>5, <2>6, <2>7, <2>8 DEF JobOK
<1> QED BY <1>2, <1>3

-----------------------------------------------------------------------------
(* A step of one request touches one show and its rooms (or none: 0), and  *)
(* leaves the other requests, but that a run may be late.                  *)

OthersAs(p) == \A q \in Clients \ {p} : task'[q] = task[q] \/ task'[q] = [task[q] EXCEPT !.late = TRUE]
RowsBut(i) ==
  /\ \A j \in DOMAIN show : j \in DOMAIN show'
  /\ \A j \in DOMAIN show : j # i => show'[j].status = show[j].status /\ show'[j].room = show[j].room
  /\ \A j \in DOMAIN show' : j \in DOMAIN show \/ j = i
  /\ \A r \in DOMAIN room : r \in DOMAIN room' /\ room'[r].show = room[r].show
  /\ \A r \in DOMAIN room : room[r].show # i => room'[r].status = room[r].status
  /\ \A r \in DOMAIN room' : r \in DOMAIN room \/ room'[r].show \in {0, i}

LEMMA Elsewhere ==
  ASSUME NEW i, NEW j \in DOMAIN show, j # i, j # 0, RowsBut(i)
  PROVE  /\ Meets(show, room, j) => Meets(show', room', j)
         /\ NoneHeld(room, j) => NoneHeld(room', j)
         /\ \A x : OnlyHeld(room, j, x) => OnlyHeld(room', j, x)
<1>1. show'[j].status = show[j].status /\ show'[j].room = show[j].room
  BY DEF RowsBut
<1>2. \A r \in DOMAIN room' : room'[r].show = j =>
         r \in DOMAIN room /\ room[r].show = j /\ room'[r].status = room[r].status
  BY DEF RowsBut
<1> QED BY <1>1, <1>2 DEF Meets, NoneHeld, OnlyHeld

LEMMA MidwayKept ==
  ASSUME NEW i, NEW r, r.show \in DOMAIN show, r.show # i, r.show # 0, RowsBut(i),
         Names(show, room, r), Midway(show, room, r)
  PROVE  Midway(show', room', r)
<1> DEFINE j == r.show
<1>1. show'[j].status = show[j].status /\ show'[j].room = show[j].room
  BY DEF RowsBut
<1>2. r.room # 0 => room'[r.room].status = room[r.room].status
  BY DEF RowsBut, Names
<1>3. /\ Meets(show, room, j) => Meets(show', room', j)
      /\ NoneHeld(room, j) => NoneHeld(room', j)
      /\ OnlyHeld(room, j, r.room) => OnlyHeld(room', j, r.room)
  BY Elsewhere
<1> QED BY <1>1, <1>2, <1>3 DEF Midway, Names

LEMMA NamesKept ==
  ASSUME NEW i, NEW r, RowsBut(i), Names(show, room, r)
  PROVE  Names(show', room', r)
BY DEF RowsBut, Names

(* A disturbed run is the same to the rows. *)
LEMMA SameOnRows ==
  ASSUME NEW r \in Job, NEW n, n = r \/ n = [r EXCEPT !.late = TRUE], NEW sh, NEW rm, JobOK(sh, rm, r)
  PROVE  n \in Job /\ n.show = r.show /\ n.at = r.at /\ JobOK(sh, rm, n) /\ (Midway(sh, rm, r) => Midway(sh, rm, n))
<1>1. CASE n = r
  BY <1>1
<1>2. CASE n = [r EXCEPT !.late = TRUE]
  <2>1. n \in Job /\ JobOK(sh, rm, n) /\ n.at = r.at /\ n.op = r.op /\ n.show = r.show /\ n.room = r.room
    BY <1>2, LateJob
  <2> QED BY <2>1 DEF Midway
<1> QED BY <1>1, <1>2

LEMMA Zeroless == ASSUME NEW S, NEW s \in Seq(S) PROVE 0 \notin DOMAIN s
OBVIOUS

LEMMA OneRow ==
  ASSUME SeriesInv, SeriesTypes', NEW p \in Clients, NEW i, RowsBut(i), OthersAs(p),
         mixed \subseteq mixed', RoomsNamed', JobOK(show', room', task'[p]),
         task[p].show \in {0, i}, task'[p].show \in {0, i},
         i # 0 /\ i \notin mixed' =>
           /\ \A q \in Clients \ {p} : task[q].show # i
           /\ IF task'[p].show = i THEN Midway(show', room', task'[p]) ELSE i \in DOMAIN show' => Meets(show', room', i)
  PROVE  SeriesInv'
<1>1. 0 \notin DOMAIN show /\ 0 \notin DOMAIN show'
  BY Zeroless DEF SeriesInv, SeriesTypes
<1>2. \A q \in Clients : task[q] \in Job /\ JobOK(show, room, task[q])
  BY DEF SeriesInv, SeriesTypes, JobsOK
<1>3. ASSUME NEW q \in Clients \ {p}
      PROVE  /\ task'[q].show = task[q].show /\ JobOK(show', room', task'[q])
             /\ Midway(show', room', task[q]) => Midway(show', room', task'[q])
  <2>1. JobOK(show', room', task[q])
    BY <1>2, NamesKept DEF JobOK
  <2> QED BY <1>2, <2>1, SameOnRows DEF OthersAs
<1>4. JobsOK'
  BY <1>3 DEF JobsOK
<1>5. Alone'
  BY <1>3 DEF Alone, SeriesInv
<1>6. ASSUME NEW j \in DOMAIN show' \ mixed', \A q \in Clients : task'[q].show # j
      PROVE  Meets(show', room', j)
  <2>1. CASE j = i
    BY <1>1, <1>6, <2>1
  <2>2. CASE j # i
    <3>1. j \in DOMAIN show /\ j \notin mixed /\ j # 0
      BY <2>2, <1>1 DEF RowsBut
    <3>2. \A q \in Clients : task[q].show # j
      BY <1>3, <1>6, <2>2, <3>1
    <3> QED BY <3>1, <3>2, <2>2, Elsewhere DEF SeriesInv, ShowsInv
  <2> QED BY <2>1, <2>2
<1>7. ASSUME NEW q \in Clients, task'[q].show # 0, task'[q].show \notin mixed'
      PROVE  Midway(show', room', task'[q])
  <2>1. CASE q = p
    BY <1>7, <2>1
  <2>2. CASE q # p
    <3>1. task[q].show = task'[q].show /\ task[q].show # 0 /\ task[q].show \notin mixed
      BY <1>3, <1>7, <2>2
    <3>2. task[q].show # i
      BY <1>7, <2>2, <3>1
    <3>3. Midway(show, room, task[q]) /\ Names(show, room, task[q]) /\ task[q].show \in DOMAIN show
      BY <3>1, <1>2 DEF SeriesInv, ShowsInv, JobOK, Names
    <3>4. Midway(show', room', task[q])
      BY <3>1, <3>2, <3>3, MidwayKept
    <3> QED BY <3>4, <1>3, <2>2
  <2> QED BY <2>1, <2>2
<1>8. ShowsInv'
  BY <1>6, <1>7 DEF ShowsInv
<1> QED BY <1>4, <1>5, <1>8 DEF SeriesInv

(* The frequent cases: the rows stay as they are. *)
LEMMA NoRows ==
  ASSUME UNCHANGED <<show, room>>, NEW i
  PROVE  RowsBut(i) /\ (SeriesInv => RoomsNamed')
BY DEF RowsBut, SeriesInv, RoomsNamed

LEMMA SoleTask ==
  ASSUME SeriesInv, NEW p \in Clients, NEW n \in Job, task' = [task EXCEPT ![p] = n]
  PROVE  task' \in [Clients -> Job] /\ task'[p] = n /\ OthersAs(p)
BY DEF SeriesInv, SeriesTypes, OthersAs

LEMMA TaskOf ==
  ASSUME SeriesInv, NEW p \in Clients
  PROVE  /\ task[p] \in Job /\ JobOK(show, room, task[p])
         /\ OfOp(task[p]) /\ Names(show, room, task[p]) /\ RunOK(task[p])
         /\ task[p].show # 0 /\ task[p].show \notin mixed => Midway(show, room, task[p])
         /\ task[p].show # 0 /\ task[p].show \notin mixed => \A q \in Clients \ {p} : task[q].show # task[p].show
BY DEF SeriesInv, SeriesTypes, JobsOK, JobOK, ShowsInv, Alone

LEMMA RowsOf ==
  ASSUME SeriesInv
  PROVE  /\ Len(show) \in Nat /\ DOMAIN show = 1..Len(show) /\ \A i \in DOMAIN show : show[i] \in ShowRow
         /\ Len(room) \in Nat /\ DOMAIN room = 1..Len(room) /\ \A r \in DOMAIN room : room[r] \in RoomRow
BY Indexed DEF SeriesInv, SeriesTypes

(* A step that writes nothing but its request. *)
LEMMA Quiet ==
  ASSUME SeriesInv, NEW p \in Clients, NEW n \in Job, task' = [task EXCEPT ![p] = n],
         UNCHANGED <<show, room>>, SeriesRows', mixed \subseteq mixed',
         JobOK(show, room, n), n.show \in {0, task[p].show},
         task[p].show # 0 /\ task[p].show \notin mixed' /\ Midway(show, room, task[p]) =>
           IF n.show = 0 THEN Meets(show, room, task[p].show) ELSE Midway(show, room, n)
  PROVE  SeriesInv'
<1> DEFINE i == task[p].show
<1>1. RowsBut(i) /\ RoomsNamed'
  BY NoRows
<1>2. task' \in [Clients -> Job] /\ task'[p] = n /\ OthersAs(p)
  BY SoleTask
<1>3. SeriesTypes'
  BY <1>2 DEF SeriesInv, SeriesTypes
<1>4. JobOK(show', room', task'[p])
  BY <1>2
<1>5. i # 0 /\ i \notin mixed' =>
        /\ \A q \in Clients \ {p} : task[q].show # i
        /\ IF task'[p].show = i THEN Midway(show', room', task'[p]) ELSE i \in DOMAIN show' => Meets(show', room', i)
  BY <1>2, TaskOf
<1>6. task[p].show \in {0, i} /\ task'[p].show \in {0, i}
  BY <1>2
<1> HIDE DEF i
<1> QED BY <1>1, <1>2, <1>3, <1>4, <1>5, <1>6, OneRow

(* A reservation that is not a show's. *)
LEMMA PlainRoom ==
  ASSUME SeriesInv, NEW p \in Clients, NEW n \in Job, task' = [task EXCEPT ![p] = n],
         NEW row \in RoomRow, row.show = 0, room' = Append(room, row),
         UNCHANGED <<show, series, today>>, mixed \subseteq mixed',
         JobOK(show, room, n), n.show = 0, task[p].show = 0
  PROVE  SeriesInv'
<1>1. /\ room' \in Seq(RoomRow) /\ DOMAIN room' = DOMAIN room \cup {Len(room) + 1}
      /\ \A r \in DOMAIN room : room'[r] = room[r]
      /\ room'[Len(room) + 1] = row /\ Len(room) + 1 \notin DOMAIN room
  BY Appended DEF SeriesInv, SeriesTypes
<1>2. task' \in [Clients -> Job] /\ task'[p] = n /\ OthersAs(p)
  BY SoleTask
<1>3. SeriesTypes'
  BY <1>1, <1>2 DEF SeriesInv, SeriesTypes, SeriesRows
<1>4. RowsBut(0)
  BY <1>1 DEF RowsBut
<1>5. RoomsNamed'
  BY <1>1 DEF SeriesInv, RoomsNamed
<1>6. JobOK(show', room', task'[p])
  BY <1>2, <1>4, NamesKept DEF JobOK
<1> QED BY <1>2, <1>3, <1>4, <1>5, <1>6, OneRow

LEMMA KeepTask ==
  ASSUME SeriesInv, NEW p \in Clients, UNCHANGED task
  PROVE  task' = [task EXCEPT ![p] = task[p]]
BY DEF SeriesInv, SeriesTypes

LEMMA Free ==
  ASSUME NEW D, NEW A, NEW C, NEW M, NEW F, NEW p \in Clients, Calendar(D, A, C, M, F)!Call(p)
  PROVE  task[p] = Calendar(D, A, C, M, F)!Idle /\ task[p].show = 0 /\ task[p].op = "none" /\ ~Late(task[p])
BY IdleJob DEF Calendar!Call

-----------------------------------------------------------------------------
(* The steps of the job. *)

LEMMA PassJob ==
  ASSUME NEW D, NEW A, NEW C, NEW M, NEW F, NEW k \in {1, 2}, NEW sh, NEW rm
  PROVE  LET n == Calendar(D, A, C, M, F)!StartPass(k) IN
         /\ n \in Job /\ JobOK(sh, rm, n) /\ n.at = "series" /\ n.show = 0 /\ n.room = 0 /\ ~Late(n)
         /\ k = 1 => n.op = "shows" /\ (series[Gigs].state = "active" => Gigs \in n.todo)
         /\ k = 2 => n.op = "rooms"
<1> DEFINE n == Calendar(D, A, C, M, F)!StartPass(k)
           op == IF k = 1 THEN "shows" ELSE "rooms"
           all == IF k = 1 THEN {Gigs} ELSE RoomSeries
           todo == {s \in all : series[s].state = "active"}
<1>1. n = [Calendar(D, A, C, M, F)!Idle EXCEPT !.at = "series", !.op = op, !.todo = todo]
  <2>1. Calendar(D, A, C, M, F)!Passes[k] = op
    BY DEF Calendar!Passes
  <2>2. Calendar(D, A, C, M, F)!Of(op) = all
    BY DEF Calendar!Of
  <2>3. {s \in all : Calendar(D, A, C, M, F)!Active(s)} = todo
    BY DEF Calendar!Active
  <2> HIDE DEF op, all, todo
  <2> QED BY <2>1, <2>2, <2>3 DEF Calendar!StartPass
<1>2. op \in Ops /\ "series" \in JobLabels /\ todo \in SUBSET (RoomSeries \cup {Gigs})
  BY DEF Ops, JobLabels
<1>3. /\ n.at = "series" /\ n.op = op /\ n.show = 0 /\ n.room = 0 /\ ~Late(n) /\ n.todo = todo
  BY <1>1 DEF Calendar!Idle, Late
<1>4. k = 1 => todo \subseteq {Gigs} /\ (series[Gigs].state = "active" => Gigs \in todo)
  OBVIOUS
<1>5. k = 2 => todo \subseteq RoomSeries
  OBVIOUS
<1>6. op = (IF k = 1 THEN "shows" ELSE "rooms")
  OBVIOUS
<1>7. Calendar(D, A, C, M, F)!Idle \in Job
  BY IdleJob
<1> HIDE DEF n, op, todo
<1>8. n \in Job
  BY <1>1, <1>2, <1>7 DEF Job
<1>9. OfOp(n) /\ Names(sh, rm, n) /\ RunOK(n)
  BY <1>3, <1>4, <1>5, <1>6 DEF OfOp, OnDay, OnShow, Names, RunOK
<1> QED BY <1>3, <1>4, <1>6, <1>8, <1>9 DEF JobOK, n

LEMMA SameSeries ==
  ASSUME SeriesInv, UNCHANGED <<today, series>>
  PROVE  SeriesRows'
BY DEF SeriesInv, SeriesTypes, SeriesRows

LEMMA StartRunStep ==
  ASSUME SeriesInv, NEW D, NEW A, NEW C, NEW M, NEW F, NEW p \in Clients, Calendar(D, A, C, M, F)!StartRun(p)
  PROVE  SeriesInv'
<1> DEFINE n == Calendar(D, A, C, M, F)!StartPass(1)
<1>1. task' = [task EXCEPT ![p] = n] /\ UNCHANGED <<today, series, show, room, mixed>> /\ task[p].show = 0
  BY IdleJob DEF Calendar!StartRun, Calendar!Become, Calendar!db
<1>2. n \in Job /\ JobOK(show, room, n) /\ n.show = 0
  BY PassJob
<1> HIDE DEF n
<1> QED BY <1>1, <1>2, Quiet, SameSeries

LEMMA NextPassStep ==
  ASSUME SeriesInv, NEW D, NEW A, NEW C, NEW M, NEW F, NEW p \in Clients, Calendar(D, A, C, M, F)!NextPass(p)
  PROVE  SeriesInv'
<1> DEFINE q == Calendar(D, A, C, M, F)!StartPass(2)
           m == [q EXCEPT !.late = task[p].late]
           n == IF task[p].op = "shows" THEN m ELSE Calendar(D, A, C, M, F)!Idle
<1>1. task' = [task EXCEPT ![p] = n] /\ UNCHANGED <<today, series, show, room, mixed>> /\ task[p].at = "series"
  BY DEF Calendar!NextPass, Calendar!Become, Calendar!db, Calendar!At, Calendar!Passes
<1>2. task[p].show = 0 /\ task[p].late \in BOOLEAN
  BY <1>1, TaskOf DEF Names, OnShow, Job
<1>3. q \in Job /\ JobOK(show, room, q) /\ q.show = 0 /\ ~Late(q)
  BY PassJob
<1> HIDE DEF q
<1>4. m \in Job /\ JobOK(show, room, m) /\ m.show = 0
  <2>1. m \in Job /\ m.show = q.show /\ m.at = q.at /\ m.op = q.op /\ m.room = q.room /\ m.todo = q.todo
    BY <1>2, <1>3 DEF Job
  <2>2. q.at = "series"
    BY PassJob DEF q
  <2> HIDE DEF m
  <2> QED BY <1>3, <2>1, <2>2 DEF JobOK, OfOp, Names, RunOK, OnDay, OnShow
<1> HIDE DEF m
<1>5. n \in Job /\ JobOK(show, room, n) /\ n.show = 0
  BY <1>4, IdleJob
<1> HIDE DEF n
<1> QED BY <1>1, <1>2, <1>5, Quiet, SameSeries

(* What a run sets out to insert is in the calendar, and not among the     *)
(* days it knows.                                                          *)
LEMMA Fresh ==
  ASSUME SeriesInv, NEW D \in Nat, NEW A, NEW C, NEW M, NEW F, NEW s \in RoomSeries \cup {Gigs}
  PROVE  LET pending == Calendar(D, A, C, M, F)!Occurrences(s) \ Calendar(D, A, C, M, F)!Existing(s)
             known == Calendar(D, A, C, M, F)!EverOn(s) \ Calendar(D, A, C, M, F)!Gone(s)
         IN  /\ pending \in SUBSET Nat /\ known \in SUBSET Nat /\ Calendar(D, A, C, M, F)!Gone(s) \in SUBSET Nat
             /\ pending \cap known = {}
<1> DEFINE ever == Calendar(D, A, C, M, F)!EverOn(s)
           gone == Calendar(D, A, C, M, F)!Gone(s)
           there == Calendar(D, A, C, M, F)!Existing(s)
<1>1. Calendar(D, A, C, M, F)!Occurrences(s) \in SUBSET Nat
  BY DEF Calendar!Occurrences, Calendar!Days
<1>2. ever \in SUBSET Nat
  <2>1. CASE s = Gigs
    <3>1. ever = UNION {show[i].was : i \in {i \in DOMAIN show : show[i].series = s}}
      BY <2>1 DEF Calendar!EverOn
    <3>2. \A i \in DOMAIN show : show[i].was \subseteq Nat
      BY RowsOf DEF ShowRow
    <3> QED BY <3>1, <3>2
  <2>2. CASE s # Gigs
    <3>1. ever = {room[r].day : r \in {r \in DOMAIN room : room[r].series = s}}
      BY <2>2 DEF Calendar!EverOn
    <3>2. \A r \in DOMAIN room : room[r].day \in Nat
      BY RowsOf DEF RoomRow
    <3> QED BY <3>1, <3>2
  <2> QED BY <2>1, <2>2
<1>3. gone \subseteq ever
  BY DEF Calendar!Gone
<1>4. ever \ gone \subseteq there
  <2>1. CASE s = Gigs
    <3>1. SUFFICES ASSUME NEW d \in ever, d \notin gone PROVE d \in there
      OBVIOUS
    <3>2. PICK i \in DOMAIN show : show[i].series = s /\ d \in show[i].was
      BY <2>1, <3>1 DEF Calendar!EverOn
    <3>3. ~(show[i].day # d \/ show[i].status = "removed")
      BY <2>1, <3>1, <3>2 DEF Calendar!Gone
    <3> QED BY <2>1, <3>2, <3>3 DEF Calendar!Existing
  <2>2. CASE s # Gigs
    BY <2>2 DEF Calendar!EverOn, Calendar!Existing
  <2> QED BY <2>1, <2>2
<1> HIDE DEF ever, gone, there
<1>5. gone \in SUBSET Nat /\ ever \ gone \in SUBSET Nat
  BY <1>2, <1>3
<1> QED BY <1>1, <1>4, <1>5 DEF ever, gone, there

(* What a run makes of a series that it takes. *)
Taken(D, A, C, M, F, r, s, n) ==
  LET q == [r EXCEPT !.s = s]
      pending == Calendar(D, A, C, M, F)!Occurrences(s) \ Calendar(D, A, C, M, F)!Existing(s) IN
  \/ n = Calendar(D, A, C, M, F)!Aborted(q)
  \/ n = Calendar(D, A, C, M, F)!Skip(q) /\ pending = {}
  \/ /\ n = [q EXCEPT !.at = "day", !.pending = pending, !.day = Calendar(D, A, C, M, F)!Min(pending),
                      !.holds = s = Gigs /\ show[series[s].proto].room # 0,
                      !.known = Calendar(D, A, C, M, F)!EverOn(s) \ Calendar(D, A, C, M, F)!Gone(s),
                      !.gone = Calendar(D, A, C, M, F)!Gone(s)]
     /\ pending # {}

(* It is late, or has seen to all the days of the series, or sets out to. *)
SetOut(D, A, C, M, F, r, s, n) ==
  LET pending == Calendar(D, A, C, M, F)!Occurrences(s) \ Calendar(D, A, C, M, F)!Existing(s) IN
  /\ n.show = 0 /\ n.op = r.op
  /\ \/ Late(n) /\ n.at = "series"
     \/ (Late(n) <=> Late(r)) /\ n.at = "series" /\ n.todo = r.todo \ {s} /\ pending = {}
     \/ (Late(n) <=> Late(r)) /\ n.at = "day" /\ n.pending = pending

LEMMA TakenJob ==
  ASSUME SeriesInv, NEW D \in Nat, NEW A, NEW C, NEW M, NEW F, NEW p \in Clients, task[p].at = "series",
         NEW s \in task[p].todo, NEW n, Taken(D, A, C, M, F, task[p], s, n)
  PROVE  n \in Job /\ JobOK(show, room, n) /\ SetOut(D, A, C, M, F, task[p], s, n)
<1> DEFINE r == task[p]
           occ == Calendar(D, A, C, M, F)!Occurrences(s)
           there == Calendar(D, A, C, M, F)!Existing(s)
           pend == occ \ there
           q == [r EXCEPT !.s = s]
           gone == Calendar(D, A, C, M, F)!Gone(s)
           known == Calendar(D, A, C, M, F)!EverOn(s) \ gone
           holds == s = Gigs /\ show[series[s].proto].room # 0
           first == Calendar(D, A, C, M, F)!Min(pend)
           begun == [q EXCEPT !.at = "day", !.pending = pend, !.day = first,
                              !.holds = holds, !.known = known, !.gone = gone]
<1>1. r \in Job /\ JobOK(show, room, r) /\ r.at = "series" /\ r.show = 0 /\ r.op \in {"shows", "rooms"}
  BY TaskOf DEF Names, OnShow, OfOp
<1>2. s \in RoomSeries \cup {Gigs} /\ holds \in BOOLEAN
  BY <1>1 DEF Job
<1>3. pend \in SUBSET Nat /\ known \in SUBSET Nat /\ gone \in SUBSET Nat /\ pend \cap known = {}
  BY <1>2, Fresh
<1>4. n = Calendar(D, A, C, M, F)!Aborted(q) \/ (n = Calendar(D, A, C, M, F)!Skip(q) /\ pend = {}) \/ (n = begun /\ pend # {})
  BY DEF Taken
<1> HIDE DEF r, pend, gone, known, holds, first
<1>5. q \in Job /\ JobOK(show, room, q) /\ q.at = "series" /\ q.op = r.op /\ (Late(q) <=> Late(r)) /\ q.show = 0
      /\ q.todo = r.todo /\ q.s = s /\ q.op \in {"shows", "rooms"}
  <2>1. q \in Job
    BY <1>1, <1>2 DEF Job
  <2>2. /\ q.at = "series" /\ q.op = r.op /\ (Late(q) <=> Late(r)) /\ q.show = r.show /\ q.s = s
        /\ q.todo = r.todo /\ q.room = r.room
    BY <1>1 DEF Job, Late
  <2> HIDE DEF q
  <2>3. OfOp(q) /\ Names(show, room, q) /\ RunOK(q)
    BY <1>1, <2>2 DEF JobOK, OfOp, OnDay, OnShow, Names, RunOK
  <2> QED BY <1>1, <2>1, <2>2, <2>3 DEF JobOK
<1> HIDE DEF q
<1>6. CASE n = Calendar(D, A, C, M, F)!Aborted(q)
  <2>1. n \in Job /\ JobOK(show, room, n) /\ n.show = 0 /\ n.op = q.op /\ Late(n) /\ n.at = "series"
    BY <1>5, <1>6, AbortedJob
  <2>2. SetOut(D, A, C, M, F, task[p], s, n)
    BY <1>5, <2>1 DEF SetOut, r
  <2> QED BY <1>5, <2>1, <2>2 DEF r
<1>7. CASE n = Calendar(D, A, C, M, F)!Skip(q) /\ pend = {}
  <2>1. n \in Job /\ JobOK(show, room, n) /\ n.show = 0 /\ n.op = q.op /\ (Late(n) <=> Late(q)) /\ n.at = "series"
        /\ n.todo = q.todo \ {q.s}
    BY <1>5, <1>7, SkipJob
  <2>2. SetOut(D, A, C, M, F, task[p], s, n)
    BY <1>5, <1>7, <2>1 DEF SetOut, r, pend
  <2> QED BY <1>5, <2>1, <2>2 DEF r
<1>8. CASE n = begun /\ pend # {}
  <2>1. first \in pend
    BY <1>3, <1>8, LeastOne DEF first
  <2> HIDE DEF occ, there
  <2>2. begun \in Job
    BY <1>2, <1>3, <1>5, <2>1 DEF Job, JobLabels, OnDay
  <2>3. /\ begun.show = 0 /\ begun.room = q.room /\ begun.at = "day" /\ begun.op = q.op /\ begun.s = s
        /\ begun.pending = pend /\ begun.known = known /\ begun.day = first /\ begun.todo = q.todo
        /\ (Late(begun) <=> Late(q))
    BY <1>5 DEF Job, Late
  <2> HIDE DEF begun
  <2>4. OfOp(begun) /\ Names(show, room, begun)
    BY <1>5, <2>3 DEF JobOK, OfOp, OnDay, OnShow, Names
  <2>5. RunOK(begun)
    <3>1. q.op = "shows" => q.todo \subseteq {Gigs}
      BY <1>5 DEF JobOK, RunOK
    <3>2. q.op = "rooms" => q.todo \subseteq RoomSeries
      BY <1>5 DEF JobOK, RunOK
    <3>3. s \in q.todo
      BY <1>5 DEF r
    <3> QED BY <1>3, <1>5, <2>1, <2>3, <3>1, <3>2, <3>3 DEF RunOK, OnDay
  <2>6. SetOut(D, A, C, M, F, task[p], s, n)
    BY <1>5, <1>8, <2>3 DEF SetOut, r, pend, occ, there
  <2> QED BY <1>5, <1>8, <2>2, <2>3, <2>4, <2>5, <2>6 DEF JobOK, r
<1> QED BY <1>4, <1>6, <1>7, <1>8

LEMMA TakeSeriesStep ==
  ASSUME SeriesInv, NEW D \in Nat, NEW A, NEW C, NEW M, NEW F, NEW p \in Clients,
         Calendar(D, A, C, M, F)!TakeSeries(p)
  PROVE  /\ SeriesInv' /\ UNCHANGED <<today, series, show, room>> /\ task[p].at = "series"
         /\ OthersAs(p) /\ \E s \in task[p].todo : Taken(D, A, C, M, F, task[p], s, task'[p])
<1>1. UNCHANGED <<today, series, show, room, mixed>> /\ task[p].at = "series"
  BY DEF Calendar!TakeSeries, Calendar!db, Calendar!At
<1>2. PICK s \in task[p].todo : \E n : task' = [task EXCEPT ![p] = n] /\ Taken(D, A, C, M, F, task[p], s, n)
  BY DEF Calendar!TakeSeries, Calendar!Become, Taken
<1>3. PICK n : task' = [task EXCEPT ![p] = n] /\ Taken(D, A, C, M, F, task[p], s, n)
  BY <1>2
<1>4. n \in Job /\ JobOK(show, room, n) /\ n.show = 0
  <2>1. n \in Job /\ JobOK(show, room, n) /\ SetOut(D, A, C, M, F, task[p], s, n)
    BY <1>1, <1>3, TakenJob
  <2> QED BY <2>1 DEF SetOut
<1>5. task[p].show = 0
  BY <1>1, TaskOf DEF Names, OnShow
<1>6. SeriesInv'
  BY <1>1, <1>3, <1>4, <1>5, Quiet, SameSeries
<1> QED BY <1>1, <1>3, <1>4, <1>6, SoleTask

-----------------------------------------------------------------------------
(* What the steps that write a show or a room of it have in common.        *)

LEMMA SameNames ==
  ASSUME NEW sh, NEW rm, NEW sh2, NEW rm2, NEW r, JobOK(sh, rm, r), DOMAIN sh2 = DOMAIN sh,
         \A x \in DOMAIN rm : x \in DOMAIN rm2 /\ rm2[x].show = rm[x].show
  PROVE  JobOK(sh2, rm2, r)
BY DEF JobOK, Names

(* The row of the show is written. *)
LEMMA Rewrite ==
  ASSUME SeriesInv, NEW p \in Clients, task' \in [Clients -> Job], OthersAs(p),
         NEW i, i = task[p].show, i # 0, NEW row \in ShowRow, show' = [show EXCEPT ![i] = row], UNCHANGED room,
         UNCHANGED <<today, series>>, mixed \subseteq mixed',
         row.room = show[i].room \/ row.room = task[p].room,
         JobOK(show, room, task'[p]), task'[p].show \in {0, i},
         i \notin mixed' =>
           IF task'[p].show = i THEN Midway(show', room, task'[p]) ELSE Meets(show', room, i)
  PROVE  SeriesInv'
<1>1. i \in DOMAIN show /\ (task[p].room # 0 => task[p].room \in DOMAIN room /\ room[task[p].room].show = i)
  BY TaskOf DEF Names
<1>2. DOMAIN show' = DOMAIN show /\ show'[i] = row /\ \A j \in DOMAIN show : j # i => show'[j] = show[j]
  BY <1>1
<1>3. show' \in Seq(ShowRow)
  <2>1. \A j \in DOMAIN show : show'[j] \in ShowRow
    BY <1>2, RowsOf
  <2>2. show' = [j \in DOMAIN show |-> show'[j]]
    OBVIOUS
  <2> QED BY <1>2, <2>1, <2>2, Replaced DEF SeriesInv, SeriesTypes
<1>4. SeriesTypes'
  BY <1>3, SameSeries DEF SeriesInv, SeriesTypes
<1>5. RowsBut(i)
  BY <1>2 DEF RowsBut
<1>6. RoomsNamed'
  <2>1. \A j \in DOMAIN show : show[j].room # 0 => show[j].room \in DOMAIN room /\ room[show[j].room].show = j
    BY DEF SeriesInv, RoomsNamed
  <2>2. \A j \in DOMAIN show : show'[j].room # 0 => show'[j].room \in DOMAIN room /\ room[show'[j].room].show = j
    BY <1>1, <1>2, <2>1
  <2> QED BY <1>2, <2>2 DEF SeriesInv, RoomsNamed
<1>7. JobOK(show', room', task'[p])
  BY <1>2, SameNames
<1>8. i \notin mixed' =>
        /\ \A q \in Clients \ {p} : task[q].show # i
        /\ IF task'[p].show = i THEN Midway(show', room', task'[p]) ELSE i \in DOMAIN show' => Meets(show', room', i)
  BY TaskOf
<1>9. task[p].show \in {0, i} /\ task'[p].show \in {0, i}
  OBVIOUS
<1> QED BY <1>4, <1>5, <1>6, <1>7, <1>8, <1>9, OneRow

(* The room is held for the show anew. *)
LEMMA HeldAnew ==
  ASSUME SeriesInv, NEW p \in Clients, NEW n \in Job, task' = [task EXCEPT ![p] = n],
         NEW i, i = task[p].show, i # 0, NEW row \in RoomRow, row.show = i, row.status = "held",
         room' = Append(room, row), UNCHANGED <<show, series, today>>, mixed \subseteq mixed',
         i \notin mixed => Midway(show, room, task[p]), task[p].at \in {"hold", "rehold"},
         OfOp(n), RunOK(n), n.show = i, n.room = Len(room) + 1,
         n.at = (IF task[p].at = "hold" THEN "link" ELSE "write"), n.op = task[p].op
  PROVE  SeriesInv'
<1>1. /\ room' \in Seq(RoomRow) /\ DOMAIN room' = DOMAIN room \cup {Len(room) + 1}
      /\ \A r \in DOMAIN room : room'[r] = room[r]
      /\ room'[Len(room) + 1] = row /\ Len(room) + 1 \notin DOMAIN room
  BY Appended DEF SeriesInv, SeriesTypes
<1>2. task' \in [Clients -> Job] /\ task'[p] = n /\ OthersAs(p)
  BY SoleTask
<1>3. SeriesTypes'
  BY <1>1, <1>2, SameSeries DEF SeriesInv, SeriesTypes
<1>4. RowsBut(i)
  BY <1>1 DEF RowsBut
<1>5. i \in DOMAIN show /\ Len(room) \in Nat
  BY TaskOf, RowsOf DEF Names
<1>6. RoomsNamed'
  BY <1>1, <1>5 DEF SeriesInv, RoomsNamed
<1>7. JobOK(show', room', n)
  <2>1. n.at \in {"link", "write"} /\ n.room # 0 /\ n.room \in DOMAIN room' /\ room'[n.room].show = i
    BY <1>1, <1>5
  <2> QED BY <1>5, <2>1 DEF JobOK, Names, OnShow
<1>8. i \notin mixed' => Midway(show', room', n)
  <2> SUFFICES ASSUME i \notin mixed' PROVE Midway(show', room', n)
    OBVIOUS
  <2>1. show[i].status = "live" /\ (n.at = "link" => show[i].room = 0) /\ NoneHeld(room, i)
    BY DEF Midway
  <2>2. OnlyHeld(room', i, n.room) /\ room'[n.room].status = "held"
    BY <1>1, <2>1 DEF NoneHeld, OnlyHeld
  <2>3. n.at = "write" => n.op = "rebook"
    BY TaskOf DEF OfOp
  <2>4. n.at \in {"link", "write"}
    OBVIOUS
  <2> QED BY <2>1, <2>2, <2>3, <2>4 DEF Midway
<1>9. i \notin mixed' =>
        /\ \A q \in Clients \ {p} : task[q].show # i
        /\ IF task'[p].show = i THEN Midway(show', room', task'[p]) ELSE i \in DOMAIN show' => Meets(show', room', i)
  BY <1>2, <1>8, TaskOf
<1>10. task[p].show \in {0, i} /\ task'[p].show \in {0, i} /\ JobOK(show', room', task'[p])
  BY <1>2, <1>7
<1> QED BY <1>2, <1>3, <1>4, <1>6, <1>9, <1>10, OneRow

(* The room of the show is let go. *)
LEMMA LetGo ==
  ASSUME SeriesInv, NEW p \in Clients, NEW n \in Job, task' = [task EXCEPT ![p] = n],
         NEW i, i = task[p].show, i # 0, task[p].room # 0,
         room' = [room EXCEPT ![task[p].room].status = "cancelled"],
         UNCHANGED <<show, series, today>>, mixed \subseteq mixed',
         i \notin mixed => OnlyHeld(room, i, task[p].room),
         JobOK(show, room, n), n.show \in {0, i},
         n.show = 0 /\ i \notin mixed => show[i].status # "live",
         n.show = i => n.at \in {"delete", "rehold"} /\ (n.at = "rehold" /\ i \notin mixed => show[i].status = "live")
  PROVE  SeriesInv'
<1> DEFINE x == task[p].room
<1>1. i \in DOMAIN show /\ x \in DOMAIN room /\ room[x].show = i /\ room[x] \in RoomRow
  BY TaskOf, RowsOf DEF Names
<1>2. /\ DOMAIN room' = DOMAIN room /\ \A r \in DOMAIN room : room'[r].show = room[r].show
      /\ room'[x].status = "cancelled" /\ \A r \in DOMAIN room : r # x => room'[r] = room[r]
      /\ room'[x] \in RoomRow
  BY <1>1 DEF RoomRow
<1>3. room' \in Seq(RoomRow)
  <2>1. \A r \in DOMAIN room : room'[r] \in RoomRow
    BY <1>2, RowsOf
  <2>2. room' = [r \in DOMAIN room |-> room'[r]]
    OBVIOUS
  <2> QED BY <1>2, <2>1, <2>2, Replaced DEF SeriesInv, SeriesTypes
<1>4. task' \in [Clients -> Job] /\ task'[p] = n /\ OthersAs(p)
  BY SoleTask
<1>5. SeriesTypes'
  BY <1>3, <1>4, SameSeries DEF SeriesInv, SeriesTypes
<1>6. RowsBut(i)
  BY <1>1, <1>2 DEF RowsBut
<1>7. RoomsNamed'
  BY <1>2 DEF SeriesInv, RoomsNamed
<1>8. JobOK(show', room', n)
  BY <1>2, SameNames
<1>9. i \notin mixed' => NoneHeld(room', i)
  BY <1>1, <1>2 DEF OnlyHeld, NoneHeld
<1> HIDE DEF x
<1>10. i \notin mixed' => IF n.show = i THEN Midway(show', room', n) ELSE Meets(show', room', i)
  <2>1. CASE n.show = i
    BY <1>9, <2>1 DEF Midway
  <2>2. CASE n.show = 0
    BY <1>9, <2>2 DEF Meets, NoneHeld
  <2> QED BY <2>1, <2>2
<1>11. i \notin mixed' =>
        /\ \A q \in Clients \ {p} : task[q].show # i
        /\ IF task'[p].show = i THEN Midway(show', room', task'[p]) ELSE i \in DOMAIN show' => Meets(show', room', i)
  BY <1>4, <1>10, TaskOf
<1>12. task[p].show \in {0, i} /\ task'[p].show \in {0, i} /\ JobOK(show', room', task'[p])
  BY <1>4, <1>8
<1> QED BY <1>4, <1>5, <1>6, <1>7, <1>11, <1>12, OneRow

(* A show whose rooms are none held and that has none is as it says. *)
LEMMA NoneMeets ==
  ASSUME SeriesInv, NEW i, NoneHeld(room, i), show[i].room = 0 \/ show[i].status # "live"
  PROVE  Meets(show, room, i)
<1>1. 0 \notin DOMAIN room
  BY Zeroless DEF SeriesInv, SeriesTypes
<1> QED BY <1>1 DEF NoneHeld, Meets

-----------------------------------------------------------------------------
(* The steps of the job, from the draft to the insert. *)

(* The runs whose next label alone changes. *)
LEMMA NextLabel ==
  ASSUME NEW r \in Job, NEW label \in JobLabels
  PROVE  LET n == [r EXCEPT !.at = label] IN
         /\ n \in Job /\ n.at = label /\ n.op = r.op /\ n.show = r.show /\ n.room = r.room /\ n.day = r.day
         /\ n.pending = r.pending /\ n.known = r.known /\ n.todo = r.todo /\ n.s = r.s /\ n.status = r.status
         /\ (Late(n) <=> Late(r))
BY DEF Job, Late

LEMMA DraftStep ==
  ASSUME SeriesInv, NEW D, NEW A, NEW C, NEW M, NEW F, NEW p \in Clients, Calendar(D, A, C, M, F)!Draft(p)
  PROVE  SeriesInv'
<1> DEFINE r == task[p]
           i == Len(show) + 1
           row == [series |-> r.s, day |-> r.day, was |-> {r.day}, status |-> "live", room |-> 0]
<1>1. r \in Job /\ JobOK(show, room, r) /\ r.at = "day" /\ r.op = "shows" /\ r.show = 0
  BY TaskOf DEF Calendar!Draft, Calendar!At, Names, OnShow
<1>2. r.s = Gigs /\ r.day \in Nat /\ r.op \in {"shows", "rooms"} /\ r.at \in OnDay
  BY <1>1 DEF JobOK, RunOK, Job, OnDay
<1>3. UNCHANGED <<today, series, room, mixed>>
  BY DEF Calendar!Draft
<1>4. CASE task' = [task EXCEPT ![p] = Calendar(D, A, C, M, F)!Aborted(r)] /\ UNCHANGED show
  <2> DEFINE n == Calendar(D, A, C, M, F)!Aborted(r)
  <2>1. n \in Job /\ JobOK(show, room, n) /\ n.show = 0
    BY <1>1, <1>2, AbortedJob
  <2> HIDE DEF n
  <2> QED BY <1>1, <1>3, <1>4, <2>1, Quiet, SameSeries DEF n
<1>5. ASSUME show' = Append(show, row),
             task' = [task EXCEPT ![p] = IF r.holds THEN [r EXCEPT !.at = "room", !.show = Len(show')]
                                         ELSE Calendar(D, A, C, M, F)!Following(r)]
      PROVE  SeriesInv'
  <2>1. row \in ShowRow /\ row.room = 0 /\ row.status = "live"
    BY <1>2 DEF ShowRow
  <2> HIDE DEF row
  <2>2. /\ show' \in Seq(ShowRow) /\ DOMAIN show' = DOMAIN show \cup {i} /\ Len(show') = i
        /\ \A j \in DOMAIN show : show'[j] = show[j]
        /\ show'[i] = row /\ i \notin DOMAIN show
    BY <1>5, <2>1, Appended DEF SeriesInv, SeriesTypes
  <2>3. i \in Nat /\ i # 0
    BY RowsOf
  <2> HIDE DEF i
  <2>4. RowsBut(i)
    BY <1>3, <2>2 DEF RowsBut
  <2>5. \A x \in DOMAIN room : room[x].show # i
    BY <2>2, <2>3 DEF SeriesInv, RoomsNamed
  <2>6. \A q \in Clients : task[q].show # i
    BY <2>2, <2>3, TaskOf DEF Names
  <2>7. RoomsNamed'
    BY <1>3, <2>1, <2>2 DEF SeriesInv, RoomsNamed
  <2>8. PICK n : task' = [task EXCEPT ![p] = n] /\ n \in Job /\ JobOK(show', room', n) /\ n.show \in {0, i}
                 /\ (n.show = i => n.at = "room")
    <3>1. CASE r.holds
      <4> DEFINE n == [r EXCEPT !.at = "room", !.show = i]
      <4>1. n \in Job
        BY <1>1, <2>3 DEF Job, JobLabels, OnShow
      <4>2. /\ n.at = "room" /\ n.show = i /\ n.op = r.op /\ n.room = r.room /\ n.day = r.day
            /\ n.pending = r.pending /\ n.known = r.known /\ n.todo = r.todo /\ n.s = r.s
        BY <1>1 DEF Job
      <4>3. task' = [task EXCEPT ![p] = n]
        BY <1>5, <2>2, <3>1
      <4>4. r.room = 0
        BY <1>1 DEF JobOK, Names, OnShow
      <4> HIDE DEF n
      <4>5. OfOp(n) /\ Names(show', room', n)
        BY <1>1, <2>2, <2>3, <4>2, <4>4 DEF OfOp, OnDay, OnShow, Names
      <4>6. RunOK(n)
        BY <1>1, <1>2, <4>2 DEF RunOK, JobOK, OnDay
      <4> QED BY <4>1, <4>2, <4>3, <4>5, <4>6 DEF JobOK
    <3>2. CASE ~r.holds
      <4> DEFINE n == Calendar(D, A, C, M, F)!Following(r)
      <4>1. n \in Job /\ JobOK(show, room, n) /\ n.show = 0
        BY <1>1, <1>2, FollowingJob
      <4> HIDE DEF n
      <4>2. task' = [task EXCEPT ![p] = n]
        BY <1>5, <3>2 DEF n
      <4>3. JobOK(show', room', n)
        BY <2>4, <4>1, NamesKept DEF JobOK
      <4> QED BY <4>1, <4>2, <4>3, <2>3
    <3> QED BY <3>1, <3>2
  <2>9. task' \in [Clients -> Job] /\ task'[p] = n /\ OthersAs(p)
    BY <2>8, SoleTask
  <2>10. SeriesTypes'
    BY <1>3, <2>2, <2>9, SameSeries DEF SeriesInv, SeriesTypes
  <2>11. IF task'[p].show = i THEN Midway(show', room', task'[p]) ELSE i \in DOMAIN show' => Meets(show', room', i)
    BY <1>3, <2>1, <2>2, <2>5, <2>8, <2>9 DEF Midway, Meets, NoneHeld
  <2>12. task[p].show \in {0, i} /\ task'[p].show \in {0, i} /\ JobOK(show', room', task'[p])
    BY <1>1, <2>8, <2>9
  <2> QED BY <1>3, <2>4, <2>6, <2>7, <2>9, <2>10, <2>11, <2>12, OneRow
<1> QED BY <1>4, <1>5 DEF Calendar!Draft, Calendar!Become

LEMMA CheckRoomStep ==
  ASSUME SeriesInv, NEW D, NEW A, NEW C, NEW M, NEW F, NEW p \in Clients, Calendar(D, A, C, M, F)!CheckRoom(p)
  PROVE  SeriesInv'
<1> DEFINE r == task[p]
           n1 == Calendar(D, A, C, M, F)!Following(r)
           n2 == [r EXCEPT !.at = "hold"]
<1>1. r \in Job /\ JobOK(show, room, r) /\ r.at = "room" /\ r.at \in OnDay
      /\ UNCHANGED <<today, series, show, room, mixed>> /\ "hold" \in JobLabels
  BY TaskOf DEF Calendar!CheckRoom, Calendar!At, Calendar!db, OnDay, JobLabels
<1>2. task' = [task EXCEPT ![p] = n1] \/ task' = [task EXCEPT ![p] = n2]
  BY DEF Calendar!CheckRoom, Calendar!Become
<1>3. n1 \in Job /\ JobOK(show, room, n1) /\ n1.show = 0
  BY <1>1, FollowingJob
<1>4. n2 \in Job /\ n2.at = "hold" /\ n2.show = r.show /\ n2.room = r.room /\ n2.op = r.op /\ n2.day = r.day
      /\ n2.pending = r.pending /\ n2.known = r.known /\ n2.todo = r.todo /\ n2.s = r.s
  BY <1>1, NextLabel
<1> HIDE DEF n1, n2
<1>5. OfOp(n2) /\ Names(show, room, n2) /\ RunOK(n2)
  BY <1>1, <1>4 DEF JobOK, OfOp, OnDay, OnShow, Names, RunOK
<1>6. Midway(show, room, r) => Midway(show, room, n2) /\ Meets(show, room, r.show)
  <2>1. Midway(show, room, r) => Midway(show, room, n2)
    BY <1>1, <1>4 DEF Midway
  <2>2. Midway(show, room, r) => NoneHeld(room, r.show) /\ show[r.show].room = 0
    BY <1>1 DEF Midway
  <2> QED BY <2>1, <2>2, NoneMeets
<1>7. CASE task' = [task EXCEPT ![p] = n1]
  BY <1>1, <1>3, <1>6, <1>7, Quiet, SameSeries
<1>8. CASE task' = [task EXCEPT ![p] = n2]
  <2>1. r.show # 0
    BY <1>1 DEF JobOK, Names, OnShow
  <2> QED BY <1>1, <1>4, <1>5, <1>6, <1>8, <2>1, Quiet, SameSeries DEF JobOK
<1> QED BY <1>2, <1>7, <1>8

LEMMA HoldStep ==
  ASSUME SeriesInv, NEW D, NEW A, NEW C, NEW M, NEW F, NEW p \in Clients, Calendar(D, A, C, M, F)!Hold(p)
  PROVE  SeriesInv'
<1> DEFINE r == task[p]
           i == r.show
           row == [show |-> i, series |-> None, day |-> r.day, status |-> "held"]
           n == [r EXCEPT !.at = "link", !.room = Len(room) + 1]
<1>1. r \in Job /\ JobOK(show, room, r) /\ r.at = "hold" /\ UNCHANGED <<today, series, show, mixed>>
  BY TaskOf DEF Calendar!Hold, Calendar!At
<1>2. row \in RoomRow /\ row.show = i /\ row.status = "held"
  BY <1>1 DEF RoomRow, Job
<1>3. room' = Append(room, row)
  BY DEF Calendar!Hold, Calendar!AddRoom
<1>4. Len(room') = Len(room) + 1 /\ Len(room) \in Nat
  BY <1>2, <1>3, Appended, RowsOf DEF SeriesInv, SeriesTypes
<1>5. task' = [task EXCEPT ![p] = n]
  BY <1>4 DEF Calendar!Hold, Calendar!Become
<1>6. n \in Job
  <2>1. Len(room) + 1 \in Nat /\ "link" \in JobLabels
    BY <1>4 DEF JobLabels, OnShow
  <2> QED BY <1>1, <2>1 DEF Job
<1>7. /\ n.at = "link" /\ n.show = i /\ n.op = r.op /\ n.room = Len(room) + 1 /\ n.day = r.day
      /\ n.pending = r.pending /\ n.known = r.known /\ n.todo = r.todo /\ n.s = r.s
  BY <1>1 DEF Job
<1> HIDE DEF n, row
<1>8. OfOp(n) /\ RunOK(n) /\ i # 0
  BY <1>1, <1>7 DEF JobOK, OfOp, RunOK, OnDay, Names, OnShow
<1>9. i \notin mixed => Midway(show, room, r)
  BY <1>8, TaskOf
<1> HIDE DEF i
<1> QED BY <1>1, <1>2, <1>3, <1>5, <1>6, <1>7, <1>8, <1>9, HeldAnew DEF i

LEMMA LinkStep ==
  ASSUME SeriesInv, NEW D, NEW A, NEW C, NEW M, NEW F, NEW p \in Clients, Calendar(D, A, C, M, F)!Link(p)
  PROVE  SeriesInv'
<1> DEFINE r == task[p]
           i == r.show
           row == [show[i] EXCEPT !.room = r.room]
           n == Calendar(D, A, C, M, F)!Following(r)
<1>1. r \in Job /\ JobOK(show, room, r) /\ r.at = "link" /\ r.at \in OnDay /\ UNCHANGED <<today, series, room, mixed>>
  BY TaskOf DEF Calendar!Link, Calendar!At, OnDay
<1>2. i # 0 /\ i \in DOMAIN show /\ show[i] \in ShowRow
  BY <1>1, RowsOf DEF JobOK, Names, OnShow
<1>3. n \in Job /\ JobOK(show, room, n) /\ n.show = 0
  BY <1>1, FollowingJob
<1>4. task' = [task EXCEPT ![p] = n]
  BY DEF Calendar!Link, Calendar!Become
<1> HIDE DEF n
<1>5. task' \in [Clients -> Job] /\ task'[p] = n /\ OthersAs(p)
  BY <1>3, <1>4, SoleTask
<1>6. CASE show[i].status = "removed" /\ UNCHANGED show
  <2>1. i \notin mixed => show[i].status = "live"
    BY <1>1, <1>2, TaskOf DEF Midway
  <2> HIDE DEF r, i
  <2> QED BY <1>1, <1>2, <1>3, <1>4, <1>6, <2>1, Quiet, SameSeries DEF r, i
<1>7. CASE show' = [show EXCEPT ![i] = row]
  <2>1. row \in ShowRow /\ row.room = r.room /\ row.status = show[i].status
    BY <1>1, <1>2 DEF ShowRow, Job
  <2> HIDE DEF row
  <2>2. show'[i] = row
    BY <1>2, <1>7
  <2>3. i \notin mixed' => Meets(show', room', i)
    <3> SUFFICES ASSUME i \notin mixed PROVE Meets(show', room, i)
      BY <1>1
    <3>1. Midway(show, room, r)
      BY <1>2, TaskOf
    <3>2. show[i].status = "live" /\ room[r.room].status = "held" /\ OnlyHeld(room, i, r.room)
      BY <1>1, <3>1 DEF Midway
    <3> QED BY <2>1, <2>2, <3>2 DEF OnlyHeld, Meets
  <2> HIDE DEF i
  <2> QED BY <1>1, <1>2, <1>3, <1>5, <1>7, <2>1, <2>3, Rewrite DEF i
<1> QED BY <1>6, <1>7 DEF Calendar!Link, Calendar!SetShow, Calendar!Linked

LEMMA CheckShowsStep ==
  ASSUME SeriesInv, NEW D, NEW A, NEW C, NEW M, NEW F, NEW p \in Clients, Calendar(D, A, C, M, F)!CheckShows(p)
  PROVE  SeriesInv'
<1> DEFINE r == task[p]
           n1 == Calendar(D, A, C, M, F)!Following(r)
           n2 == [r EXCEPT !.at = "others"]
<1>1. r \in Job /\ JobOK(show, room, r) /\ r.at = "day" /\ r.at \in OnDay /\ r.op = "rooms" /\ r.show = 0
      /\ UNCHANGED <<today, series, show, room, mixed>> /\ "others" \in JobLabels
  BY TaskOf DEF Calendar!CheckShows, Calendar!At, Calendar!db, OnDay, JobLabels, Names, OnShow
<1>2. task' = [task EXCEPT ![p] = n1] \/ task' = [task EXCEPT ![p] = n2]
  BY DEF Calendar!CheckShows, Calendar!Become
<1>3. n1 \in Job /\ JobOK(show, room, n1) /\ n1.show = 0
  BY <1>1, FollowingJob
<1>4. n2 \in Job /\ n2.at = "others" /\ n2.show = r.show /\ n2.room = r.room /\ n2.op = r.op /\ n2.day = r.day
      /\ n2.pending = r.pending /\ n2.known = r.known /\ n2.todo = r.todo /\ n2.s = r.s
  BY <1>1, NextLabel
<1> HIDE DEF n1, n2
<1>5. OfOp(n2) /\ Names(show, room, n2) /\ RunOK(n2)
  BY <1>1, <1>4 DEF JobOK, OfOp, OnDay, OnShow, Names, RunOK
<1>6. CASE task' = [task EXCEPT ![p] = n1]
  BY <1>1, <1>3, <1>6, Quiet, SameSeries
<1>7. CASE task' = [task EXCEPT ![p] = n2]
  BY <1>1, <1>4, <1>5, <1>7, Quiet, SameSeries DEF JobOK
<1> QED BY <1>2, <1>6, <1>7

LEMMA CheckOthersStep ==
  ASSUME SeriesInv, NEW D, NEW A, NEW C, NEW M, NEW F, NEW p \in Clients, Calendar(D, A, C, M, F)!CheckOthers(p)
  PROVE  SeriesInv'
<1> DEFINE r == task[p]
           status == IF \E h \in Calendar(D, A, C, M, F)!Held(r.day) : room[h].series # r.s
                     THEN "waitlisted" ELSE "held"
           n == [r EXCEPT !.at = "insert", !.status = status]
<1>1. r \in Job /\ JobOK(show, room, r) /\ r.at = "others" /\ r.show = 0
      /\ UNCHANGED <<today, series, show, room, mixed>> /\ "insert" \in JobLabels
  BY TaskOf DEF Calendar!CheckOthers, Calendar!At, Calendar!db, OnDay, JobLabels, Names, OnShow
<1>2. task' = [task EXCEPT ![p] = n]
  BY DEF Calendar!CheckOthers, Calendar!Become
<1>3. status \in {"held", "waitlisted"}
  OBVIOUS
<1> HIDE DEF status
<1>4. n \in Job
  BY <1>1, <1>3 DEF Job
<1>5. /\ n.at = "insert" /\ n.show = r.show /\ n.room = r.room /\ n.op = r.op /\ n.day = r.day /\ n.status = status
      /\ n.pending = r.pending /\ n.known = r.known /\ n.todo = r.todo /\ n.s = r.s
  BY <1>1 DEF Job
<1> HIDE DEF n
<1>6. OfOp(n) /\ Names(show, room, n) /\ RunOK(n)
  BY <1>1, <1>3, <1>5 DEF JobOK, OfOp, OnDay, OnShow, Names, RunOK
<1> QED BY <1>1, <1>2, <1>4, <1>5, <1>6, Quiet, SameSeries DEF JobOK

LEMMA InsertStep ==
  ASSUME SeriesInv, NEW D, NEW A, NEW C, NEW M, NEW F, NEW p \in Clients, Calendar(D, A, C, M, F)!Insert(p)
  PROVE  SeriesInv'
<1> DEFINE r == task[p]
           row == [show |-> 0, series |-> r.s, day |-> r.day, status |-> r.status]
           n1 == Calendar(D, A, C, M, F)!Aborted(r)
           n2 == Calendar(D, A, C, M, F)!Following(r)
<1>1. r \in Job /\ JobOK(show, room, r) /\ r.at = "insert" /\ r.at \in OnDay /\ r.op = "rooms" /\ r.show = 0
      /\ r.op \in {"shows", "rooms"} /\ r.s \in RoomSeries /\ r.status # "none"
      /\ UNCHANGED <<today, series, show, mixed>>
  BY TaskOf DEF Calendar!Insert, Calendar!At, OnDay, OfOp, Names, OnShow, RunOK
<1>2. \/ task' = [task EXCEPT ![p] = n1] /\ UNCHANGED room
      \/ task' = [task EXCEPT ![p] = n2] /\ room' = Append(room, row)
  BY DEF Calendar!Insert, Calendar!Become, Calendar!AddRoom
<1>3. n1 \in Job /\ JobOK(show, room, n1) /\ n1.show = 0
  BY <1>1, AbortedJob
<1>4. n2 \in Job /\ JobOK(show, room, n2) /\ n2.show = 0
  BY <1>1, FollowingJob
<1>5. row \in RoomRow /\ row.show = 0
  BY <1>1 DEF RoomRow, Job
<1> HIDE DEF n1, n2, row
<1>6. CASE task' = [task EXCEPT ![p] = n1] /\ UNCHANGED room
  BY <1>1, <1>3, <1>6, Quiet, SameSeries
<1>7. CASE task' = [task EXCEPT ![p] = n2] /\ room' = Append(room, row)
  BY <1>1, <1>4, <1>5, <1>7, PlainRoom
<1> QED BY <1>2, <1>6, <1>7

(* A statement of the job fails, or a request is lost. *)
LEMMA FailStep ==
  ASSUME SeriesInv, NEW D, NEW A, NEW C, NEW M, NEW F, NEW p \in Clients, Calendar(D, A, C, M, F)!Fail(p)
  PROVE  SeriesInv'
<1> DEFINE r == task[p]
           q == Calendar(D, A, C, M, F)!Disturbed(r)
           n1 == Calendar(D, A, C, M, F)!Following(q)
           n2 == Calendar(D, A, C, M, F)!Aborted(r)
<1>1. r \in Job /\ JobOK(show, room, r) /\ r.at \in OnDay /\ r.op \in {"shows", "rooms"}
      /\ UNCHANGED <<today, series, show, room>> /\ mixed' = mixed \cup ({r.show} \ {0})
  BY TaskOf DEF Calendar!Fail, Calendar!db, Calendar!Muddle, OnDay, OfOp
<1>2. task' = [task EXCEPT ![p] = n1] \/ task' = [task EXCEPT ![p] = n2]
  BY DEF Calendar!Fail, Calendar!Become
<1>3. q \in Job /\ JobOK(show, room, q) /\ q.at = r.at
  <2>1. q = r \/ q = [r EXCEPT !.late = TRUE]
    BY DEF Calendar!Disturbed
  <2> HIDE DEF q
  <2> QED BY <1>1, <2>1, SameOnRows
<1> HIDE DEF q
<1>4. n1 \in Job /\ JobOK(show, room, n1) /\ n1.show = 0
  BY <1>1, <1>3, FollowingJob
<1>5. n2 \in Job /\ JobOK(show, room, n2) /\ n2.show = 0
  BY <1>1, AbortedJob
<1> HIDE DEF n1, n2
<1>6. r.show = 0 \/ r.show \in mixed'
  BY <1>1
<1>7. CASE task' = [task EXCEPT ![p] = n1]
  BY <1>1, <1>4, <1>6, <1>7, Quiet, SameSeries
<1>8. CASE task' = [task EXCEPT ![p] = n2]
  BY <1>1, <1>5, <1>6, <1>8, Quiet, SameSeries
<1> QED BY <1>2, <1>7, <1>8

LEMMA CrashStep ==
  ASSUME SeriesInv, NEW D, NEW A, NEW C, NEW M, NEW F, NEW p \in Clients, Calendar(D, A, C, M, F)!Crash(p)
  PROVE  SeriesInv'
<1> DEFINE n == Calendar(D, A, C, M, F)!Idle
<1>1. UNCHANGED <<today, series, show, room>> /\ mixed' = mixed \cup ({task[p].show} \ {0})
      /\ task' = [task EXCEPT ![p] = n]
  BY DEF Calendar!Crash, Calendar!End, Calendar!Become, Calendar!db, Calendar!Muddle
<1>2. n \in Job /\ JobOK(show, room, n) /\ n.show = 0
  BY IdleJob
<1> HIDE DEF n
<1>3. task[p].show = 0 \/ task[p].show \in mixed'
  BY <1>1
<1> QED BY <1>1, <1>2, <1>3, Quiet, SameSeries

LEMMA TickStep ==
  ASSUME SeriesInv, NEW D, NEW A, NEW C, NEW M, NEW F, Calendar(D, A, C, M, F)!Tick
  PROVE  SeriesInv'
<1>1. today' \in Nat /\ UNCHANGED <<series, show, room, mixed>>
  BY DEF Calendar!Tick, Calendar!db, SeriesInv, SeriesTypes, SeriesRows
<1>2. task' = [q \in Clients |-> Calendar(D, A, C, M, F)!Disturbed(task[q])]
  BY DEF Calendar!Tick
<1>3. ASSUME NEW q \in Clients
      PROVE  task'[q] \in Job /\ task'[q].show = task[q].show /\ JobOK(show, room, task'[q])
             /\ (Midway(show, room, task[q]) => Midway(show, room, task'[q]))
  <2>1. task'[q] = task[q] \/ task'[q] = [task[q] EXCEPT !.late = TRUE]
    BY <1>2 DEF Calendar!Disturbed
  <2> QED BY <2>1, TaskOf, SameOnRows
<1>4. task' \in [Clients -> Job]
  BY <1>2, <1>3
<1>5. SeriesTypes'
  BY <1>1, <1>4 DEF SeriesInv, SeriesTypes, SeriesRows
<1>6. JobsOK' /\ RoomsNamed' /\ Alone'
  BY <1>1, <1>3 DEF SeriesInv, JobsOK, RoomsNamed, Alone
<1>7. ShowsInv'
  BY <1>1, <1>3 DEF SeriesInv, ShowsInv
<1> QED BY <1>5, <1>6, <1>7 DEF SeriesInv

-----------------------------------------------------------------------------
(* The steps of members. *)

LEMMA BookStep ==
  ASSUME SeriesInv, NEW D \in Nat, NEW A, NEW C, NEW M, NEW F, NEW p \in Clients, NEW s \in RoomSeries,
         NEW d \in Calendar(D, A, C, M, F)!Days, Calendar(D, A, C, M, F)!Book(p, s, d)
  PROVE  SeriesInv'
<1> DEFINE n == [Calendar(D, A, C, M, F)!Idle EXCEPT !.at = "first", !.op = "book", !.s = s, !.day = d]
<1>1. task' = [task EXCEPT ![p] = n] /\ UNCHANGED <<today, series, show, room, mixed>> /\ task[p].show = 0
  BY Free DEF Calendar!Book, Calendar!Become, Calendar!db
<1>2. d \in Nat
  BY DEF Calendar!Days
<1>3. n \in Job
  BY <1>2 DEF Job, JobLabels, Ops, Calendar!Idle
<1>4. n.at = "first" /\ n.op = "book" /\ n.s = s /\ n.show = 0 /\ n.room = 0
  BY DEF Calendar!Idle
<1> HIDE DEF n
<1>5. OfOp(n) /\ Names(show, room, n) /\ RunOK(n)
  BY <1>4 DEF OfOp, OnDay, OnShow, Names, RunOK
<1> QED BY <1>1, <1>3, <1>4, <1>5, Quiet, SameSeries DEF JobOK

LEMMA FirstStep ==
  ASSUME SeriesInv, NEW D, NEW A, NEW C, NEW M, NEW F, NEW p \in Clients, Calendar(D, A, C, M, F)!First(p)
  PROVE  SeriesInv'
<1> DEFINE r == task[p]
           status == IF Calendar(D, A, C, M, F)!Held(r.day) = {} THEN "held" ELSE "waitlisted"
           row == [show |-> 0, series |-> None, day |-> r.day, status |-> status]
           n == [r EXCEPT !.at = "register", !.room = Len(room) + 1]
<1>1. r \in Job /\ JobOK(show, room, r) /\ r.at = "first" /\ r.show = 0 /\ r.s \in RoomSeries
      /\ UNCHANGED <<today, series, show, mixed>> /\ room' = Append(room, row)
  BY TaskOf DEF Calendar!First, Calendar!At, Calendar!AddRoom, Names, OnShow, RunOK
<1>2. row \in RoomRow /\ row.show = 0
  BY <1>1 DEF RoomRow, Job
<1> HIDE DEF row
<1>3. Len(room) + 1 \in Nat /\ Len(room') = Len(room) + 1
  BY <1>1, <1>2, RowsOf, Appended DEF SeriesInv, SeriesTypes
<1>4. task' = [task EXCEPT ![p] = n]
  BY <1>3 DEF Calendar!First, Calendar!Become
<1>5. n \in Job
  BY <1>1, <1>3 DEF Job, JobLabels
<1>6. n.at = "register" /\ n.op = r.op /\ n.s = r.s /\ n.show = 0
  BY <1>1 DEF Job
<1> HIDE DEF n
<1>7. OfOp(n) /\ Names(show, room, n) /\ RunOK(n)
  BY <1>1, <1>6 DEF JobOK, OfOp, OnDay, OnShow, Names, RunOK
<1> QED BY <1>1, <1>2, <1>4, <1>5, <1>6, <1>7, PlainRoom DEF JobOK

LEMMA RegisterStep ==
  ASSUME SeriesInv, NEW D, NEW A, NEW C, NEW M, NEW F, NEW p \in Clients, Calendar(D, A, C, M, F)!Register(p)
  PROVE  SeriesInv'
<1> DEFINE r == task[p]
           row == [state |-> "active", proto |-> r.room, from |-> r.day]
           n == Calendar(D, A, C, M, F)!Idle
<1>1. r \in Job /\ r.at = "register" /\ r.show = 0 /\ r.s \in RoomSeries /\ r.s # Gigs
      /\ UNCHANGED <<today, show, mixed>> /\ task' = [task EXCEPT ![p] = n]
      /\ series' = [series EXCEPT ![r.s] = row] /\ room' = [room EXCEPT ![r.room].series = r.s]
  BY TaskOf DEF Calendar!Register, Calendar!At, Calendar!End, Calendar!Become, Names, OnShow, RunOK
<1>2. n \in Job /\ JobOK(show, room, n) /\ n.show = 0
  BY IdleJob
<1> HIDE DEF n
<1>3. task' \in [Clients -> Job] /\ task'[p] = n /\ OthersAs(p)
  BY <1>1, <1>2, SoleTask
<1>4. DOMAIN room' = DOMAIN room /\ \A x \in DOMAIN room :
        room'[x].show = room[x].show /\ room'[x].status = room[x].status /\ room'[x] \in RoomRow
  BY <1>1, RowsOf DEF RoomRow
<1>5. room' \in Seq(RoomRow)
  <2>1. room' = [x \in DOMAIN room |-> room'[x]]
    BY <1>1
  <2> QED BY <1>4, <2>1, Replaced DEF SeriesInv, SeriesTypes
<1>6. SeriesRows'
  BY <1>1 DEF SeriesInv, SeriesTypes, SeriesRows
<1>7. SeriesTypes'
  BY <1>1, <1>3, <1>5, <1>6 DEF SeriesInv, SeriesTypes
<1>8. RowsBut(0) /\ RoomsNamed'
  BY <1>1, <1>4 DEF RowsBut, RoomsNamed, SeriesInv
<1>9. JobOK(show', room', task'[p])
  BY <1>2, <1>3, <1>8, NamesKept DEF JobOK
<1> QED BY <1>1, <1>2, <1>3, <1>7, <1>8, <1>9, OneRow

(* No series is begun by stopping some. *)
LEMMA Stopped ==
  ASSUME SeriesInv, NEW D, NEW A, NEW C, NEW M, NEW F, NEW ss, Calendar(D, A, C, M, F)!Stop(ss), today' = today
  PROVE  SeriesRows'
<1>1. /\ series' = [s \in RoomSeries \cup {Gigs} |-> series'[s]]
      /\ series'[Gigs] = series[Gigs] \/ series'[Gigs] = [series[Gigs] EXCEPT !.state = "cancelled"]
  BY DEF Calendar!Stop, Calendar!Series
<1> QED BY <1>1 DEF SeriesInv, SeriesTypes, SeriesRows

LEMMA CancelSeriesStep ==
  ASSUME SeriesInv, NEW D, NEW A, NEW C, NEW M, NEW F, NEW p \in Clients, NEW s,
         Calendar(D, A, C, M, F)!CancelSeries(p, s)
  PROVE  SeriesInv'
<1>1. UNCHANGED <<today, show, room, mixed, task>> /\ task[p].show = 0
  BY Free DEF Calendar!CancelSeries
<1>2. SeriesRows'
  BY <1>1, Stopped DEF Calendar!CancelSeries
<1>3. task' = [task EXCEPT ![p] = task[p]]
  BY <1>1, KeepTask
<1> QED BY <1>1, <1>2, <1>3, TaskOf, Quiet

LEMMA LapseStep ==
  ASSUME SeriesInv, NEW D, NEW A, NEW C, NEW M, NEW F, NEW p \in Clients, Calendar(D, A, C, M, F)!Lapse(p)
  PROVE  SeriesInv'
<1> DEFINE n == [Calendar(D, A, C, M, F)!Idle EXCEPT !.at = "unsubscribe", !.op = "lapse"]
<1>1. task' = [task EXCEPT ![p] = n] /\ UNCHANGED <<today, show, room, mixed>> /\ task[p].show = 0
  BY Free DEF Calendar!Lapse, Calendar!Become
<1>2. n \in Job
  BY DEF Job, JobLabels, Ops, Calendar!Idle
<1>3. n.at = "unsubscribe" /\ n.op = "lapse" /\ n.show = 0 /\ n.room = 0
  BY DEF Calendar!Idle
<1> HIDE DEF n
<1>4. OfOp(n) /\ Names(show, room, n) /\ RunOK(n)
  BY <1>3 DEF OfOp, OnDay, OnShow, Names, RunOK
<1>5. SeriesRows'
  BY <1>1, Stopped DEF Calendar!Lapse
<1> QED BY <1>1, <1>2, <1>3, <1>4, <1>5, Quiet DEF JobOK

LEMMA UnsubscribeStep ==
  ASSUME SeriesInv, NEW D, NEW A, NEW C, NEW M, NEW F, NEW p \in Clients, Calendar(D, A, C, M, F)!Unsubscribe(p)
  PROVE  SeriesInv'
<1> DEFINE n == Calendar(D, A, C, M, F)!Idle
<1>1. UNCHANGED <<today, series, show, room, mixed>> /\ task' = [task EXCEPT ![p] = n] /\ task[p].show = 0
  BY TaskOf DEF Calendar!Unsubscribe, Calendar!End, Calendar!Become, Calendar!At, Names, OnShow
<1>2. n \in Job /\ JobOK(show, room, n) /\ n.show = 0
  BY IdleJob
<1> HIDE DEF n
<1> QED BY <1>1, <1>2, Quiet, SameSeries

LEMMA CancelRoomStep ==
  ASSUME SeriesInv, NEW D, NEW A, NEW C, NEW M, NEW F, NEW p \in Clients, NEW x \in DOMAIN room,
         Calendar(D, A, C, M, F)!CancelRoom(p, x)
  PROVE  SeriesInv'
<1>1. UNCHANGED <<today, series, show, mixed, task>> /\ room[x].show = 0 /\ task[p].show = 0
      /\ room' = [room EXCEPT ![x].status = "cancelled"]
  BY Free DEF Calendar!CancelRoom
<1>2. DOMAIN room' = DOMAIN room /\ (\A r \in DOMAIN room : r # x => room'[r] = room[r])
      /\ \A r \in DOMAIN room : room'[r].show = room[r].show /\ room'[r] \in RoomRow
  BY <1>1, RowsOf DEF RoomRow
<1>3. room' \in Seq(RoomRow)
  <2>1. room' = [r \in DOMAIN room |-> room'[r]]
    BY <1>1
  <2> QED BY <1>2, <2>1, Replaced DEF SeriesInv, SeriesTypes
<1>4. SeriesTypes'
  BY <1>1, <1>3, SameSeries DEF SeriesInv, SeriesTypes
<1>5. RowsBut(0) /\ RoomsNamed'
  BY <1>1, <1>2 DEF RowsBut, RoomsNamed, SeriesInv
<1>6. JobOK(show', room', task'[p]) /\ OthersAs(p)
  BY <1>1, <1>5, TaskOf, NamesKept DEF JobOK, OthersAs
<1> QED BY <1>1, <1>4, <1>5, <1>6, OneRow

LEMMA BookOtherStep ==
  ASSUME SeriesInv, NEW D \in Nat, NEW A, NEW C, NEW M, NEW F, NEW p \in Clients,
         NEW d \in Calendar(D, A, C, M, F)!Days, Calendar(D, A, C, M, F)!BookOther(p, d)
  PROVE  SeriesInv'
<1> DEFINE row == [show |-> 0, series |-> None, day |-> d, status |-> "held"]
<1>1. UNCHANGED <<today, series, show, mixed, task>> /\ task[p].show = 0 /\ room' = Append(room, row)
  BY Free DEF Calendar!BookOther, Calendar!AddRoom
<1>2. row \in RoomRow /\ row.show = 0
  BY DEF RoomRow, Calendar!Days
<1> HIDE DEF row
<1>3. task' = [task EXCEPT ![p] = task[p]]
  BY <1>1, KeepTask
<1> QED BY <1>1, <1>2, <1>3, TaskOf, PlainRoom

-----------------------------------------------------------------------------
(* The steps of staff. *)

(* What a show says of its rooms, where it has one and where it has none. *)
LEMMA OnlyItsRoom ==
  ASSUME SeriesInv, NEW i, Meets(show, room, i)
  PROVE  OnlyHeld(room, i, show[i].room) /\ (show[i].room = 0 => NoneHeld(room, i))
<1>1. 0 \notin DOMAIN room
  BY Zeroless DEF SeriesInv, SeriesTypes
<1> QED BY <1>1 DEF Meets, OnlyHeld, NoneHeld

LEMMA OpenStep ==
  ASSUME SeriesInv, NEW D, NEW A, NEW C, NEW M, NEW F, NEW p \in Clients, NEW i \in DOMAIN show, NEW d \in Nat,
         NEW op \in {"cancel", "remove", "update", "rebook"}, NEW label \in OnShow,
         op = "cancel" => label = "cancel", op = "update" => label = "write",
         op = "remove" => label = IF show[i].room = 0 THEN "delete" ELSE "free",
         op = "rebook" => label = "clash" \/ label = IF show[i].room = 0 THEN "rehold" ELSE "free",
         op # "remove" => show[i].status = "live",
         Calendar(D, A, C, M, F)!Open(p, i, op, label, d)
  PROVE  SeriesInv'
<1> DEFINE x == show[i].room
           n == [Calendar(D, A, C, M, F)!Idle EXCEPT !.at = label, !.op = op, !.show = i, !.room = x, !.day = d]
<1>1. task' = [task EXCEPT ![p] = n] /\ UNCHANGED <<today, series, show, room>> /\ task[p].show = 0
  BY Free DEF Calendar!Open, Calendar!Become, Calendar!db
<1>2. mixed' = IF \E q \in Clients \ {p} : task[q].show = i THEN mixed \cup {i} ELSE mixed
  BY DEF Calendar!Open, Calendar!Take, Calendar!Others
<1>3. i \in Nat /\ i # 0 /\ x \in Nat
  BY RowsOf DEF ShowRow
<1>4. x # 0 => x \in DOMAIN room /\ room[x].show = i
  BY DEF SeriesInv, RoomsNamed
<1> HIDE DEF x
<1>5. op \in Ops /\ label \in JobLabels
  BY DEF Ops, JobLabels
<1>6. n \in Job
  BY <1>3, <1>5 DEF Job, Calendar!Idle
<1>7. n.at = label /\ n.op = op /\ n.show = i /\ n.room = x
  BY DEF Calendar!Idle
<1> HIDE DEF n
<1>8. OfOp(n)
  BY <1>7 DEF OfOp, OnDay, OnShow
<1>9. Names(show, room, n)
  BY <1>3, <1>4, <1>7 DEF OnShow, Names, x
<1>10. RunOK(n)
  BY <1>7 DEF OnDay, RunOK
<1>11. i \notin mixed' => (\A q \in Clients \ {p} : task[q].show # i) /\ Midway(show, room, n)
  <2> SUFFICES ASSUME i \notin mixed' PROVE (\A q \in Clients \ {p} : task[q].show # i) /\ Midway(show, room, n)
    OBVIOUS
  <2>1. i \notin mixed /\ \A q \in Clients : task[q].show # i
    BY <1>1, <1>2, <1>3
  <2>2. Meets(show, room, i)
    BY <2>1 DEF SeriesInv, ShowsInv
  <2>3. OnlyHeld(room, i, x) /\ (x = 0 => NoneHeld(room, i))
    BY <2>2, OnlyItsRoom DEF x
  <2> QED BY <1>7, <2>1, <2>2, <2>3 DEF Midway, x
<1>12. RowsBut(i) /\ RoomsNamed' /\ mixed \subseteq mixed'
  BY <1>1, <1>2, NoRows
<1>13. task' \in [Clients -> Job] /\ task'[p] = n /\ OthersAs(p)
  BY <1>1, <1>6, SoleTask
<1>14. SeriesTypes'
  BY <1>1, <1>13, SameSeries DEF SeriesInv, SeriesTypes
<1>15. JobOK(show', room', task'[p]) /\ task[p].show \in {0, i} /\ task'[p].show \in {0, i}
  BY <1>1, <1>7, <1>8, <1>9, <1>10, <1>13 DEF JobOK
<1>16. i # 0 /\ i \notin mixed' =>
         /\ \A q \in Clients \ {p} : task[q].show # i
         /\ IF task'[p].show = i THEN Midway(show', room', task'[p]) ELSE i \in DOMAIN show' => Meets(show', room', i)
  BY <1>1, <1>7, <1>11, <1>13
<1> QED BY <1>12, <1>13, <1>14, <1>15, <1>16, OneRow

LEMMA OpenedStep ==
  ASSUME SeriesInv, NEW D \in Nat, NEW A, NEW C, NEW M, NEW F, NEW p \in Clients, NEW i \in DOMAIN show,
         \/ Calendar(D, A, C, M, F)!CancelShow(p, i) \/ Calendar(D, A, C, M, F)!RemoveShow(p, i)
         \/ \E d \in Calendar(D, A, C, M, F)!Days :
              \/ Calendar(D, A, C, M, F)!MoveShow(p, i, d)
              \/ \E o \in BOOLEAN : Calendar(D, A, C, M, F)!RebookShow(p, i, d, o)
  PROVE  SeriesInv'
<1>1. CASE Calendar(D, A, C, M, F)!CancelShow(p, i)
  <2>1. Calendar(D, A, C, M, F)!Open(p, i, "cancel", "cancel", 0) /\ show[i].status = "live" /\ "cancel" \in OnShow
    BY <1>1 DEF Calendar!CancelShow, OnShow
  <2> QED BY <2>1, OpenStep
<1>2. CASE Calendar(D, A, C, M, F)!RemoveShow(p, i)
  <2> DEFINE label == IF show[i].room = 0 THEN "delete" ELSE "free"
  <2>1. Calendar(D, A, C, M, F)!Open(p, i, "remove", label, 0) /\ label \in OnShow
    BY <1>2 DEF Calendar!RemoveShow, OnShow
  <2> QED BY <2>1, OpenStep
<1>3. ASSUME NEW d \in Calendar(D, A, C, M, F)!Days, Calendar(D, A, C, M, F)!MoveShow(p, i, d)
      PROVE  SeriesInv'
  <2>1. Calendar(D, A, C, M, F)!Open(p, i, "update", "write", d) /\ show[i].status = "live" /\ "write" \in OnShow
        /\ d \in Nat
    BY <1>3 DEF Calendar!MoveShow, OnShow, Calendar!Days
  <2> QED BY <2>1, OpenStep
<1>4. ASSUME NEW d \in Calendar(D, A, C, M, F)!Days, NEW o \in BOOLEAN, Calendar(D, A, C, M, F)!RebookShow(p, i, d, o)
      PROVE  SeriesInv'
  <2> DEFINE label == IF ~o THEN "clash" ELSE IF show[i].room = 0 THEN "rehold" ELSE "free"
  <2>1. Calendar(D, A, C, M, F)!Open(p, i, "rebook", label, d) /\ show[i].status = "live" /\ label \in OnShow
        /\ d \in Nat
    BY <1>4 DEF Calendar!RebookShow, OnShow, Calendar!Days
  <2>2. label = "clash" \/ label = IF show[i].room = 0 THEN "rehold" ELSE "free"
    OBVIOUS
  <2> HIDE DEF label
  <2> QED BY <2>1, <2>2, OpenStep
<1> QED BY <1>1, <1>2, <1>3, <1>4

(* Where a request is at work on a show: its row, and its rooms. *)
LEMMA AtShow ==
  ASSUME SeriesInv, NEW p \in Clients, task[p].at \in OnShow
  PROVE  /\ task[p].show # 0 /\ task[p].show \in DOMAIN show /\ show[task[p].show] \in ShowRow
         /\ task[p].show \notin mixed => Midway(show, room, task[p])
         /\ task[p] \in Job /\ OfOp(task[p]) /\ Names(show, room, task[p]) /\ RunOK(task[p])
<1>1. task[p].show # 0 /\ task[p].show \in DOMAIN show
  BY TaskOf DEF Names
<1> QED BY <1>1, TaskOf, RowsOf

LEMMA WriteCancelStep ==
  ASSUME SeriesInv, NEW D, NEW A, NEW C, NEW M, NEW F, NEW p \in Clients, Calendar(D, A, C, M, F)!WriteCancel(p)
  PROVE  SeriesInv'
<1> DEFINE r == task[p]
           i == r.show
           row == [show[i] EXCEPT !.status = "cancelled"]
           end == Calendar(D, A, C, M, F)!Idle
           free == [r EXCEPT !.at = "free"]
           n == IF r.room = 0 THEN end ELSE free
<1>1. r.at = "cancel" /\ r.at \in OnShow /\ UNCHANGED <<today, series, room, mixed>> /\ "free" \in JobLabels
  BY DEF Calendar!WriteCancel, Calendar!At, OnShow, JobLabels
<1>2. /\ i # 0 /\ i \in DOMAIN show /\ show[i] \in ShowRow /\ (i \notin mixed => Midway(show, room, r))
      /\ r \in Job /\ OfOp(r) /\ Names(show, room, r) /\ r.op = "cancel"
  BY <1>1, AtShow DEF OfOp
<1>3. i \notin mixed => Meets(show, room, i) /\ r.room = show[i].room
  BY <1>1, <1>2 DEF Midway
<1>4. end \in Job /\ JobOK(show, room, end) /\ end.show = 0
  BY IdleJob
<1> HIDE DEF end
<1>5. free \in Job /\ free.at = "free" /\ free.show = i /\ free.room = r.room /\ free.op = r.op
  BY <1>1, <1>2, NextLabel
<1> HIDE DEF free
<1>6. r.room # 0 => OfOp(free) /\ Names(show, room, free) /\ RunOK(free)
  BY <1>1, <1>2, <1>5 DEF OfOp, OnDay, OnShow, Names, RunOK
<1>7. n \in Job /\ JobOK(show, room, n) /\ n.show \in {0, i}
  BY <1>4, <1>5, <1>6 DEF JobOK
<1>8. CASE show' = [show EXCEPT ![i] = row] /\ task' = [task EXCEPT ![p] = n]
  <2>1. row \in ShowRow /\ row.room = show[i].room /\ row.status # "live"
    BY <1>2 DEF ShowRow
  <2> HIDE DEF row
  <2>2. show'[i].status # "live"
    BY <1>2, <1>8, <2>1
  <2>3. i \notin mixed' => IF n.show = i THEN Midway(show', room, n) ELSE Meets(show', room, i)
    <3> SUFFICES ASSUME i \notin mixed PROVE IF n.show = i THEN Midway(show', room, n) ELSE Meets(show', room, i)
      BY <1>1
    <3>1. OnlyHeld(room, i, r.room) /\ (r.room = 0 => NoneHeld(room, i))
      BY <1>3, OnlyItsRoom
    <3>2. CASE r.room = 0
      <4>1. Meets(show', room, i)
        BY <2>2, <3>1, <3>2 DEF Meets, NoneHeld
      <4> QED BY <1>2, <1>4, <3>2, <4>1
    <3>3. CASE r.room # 0
      <4>1. Midway(show', room, free)
        BY <1>2, <1>5, <2>2, <3>1 DEF Midway
      <4> QED BY <1>5, <3>3, <4>1
    <3> QED BY <3>2, <3>3
  <2> HIDE DEF n
  <2>4. task' \in [Clients -> Job] /\ task'[p] = n /\ OthersAs(p)
    BY <1>7, <1>8, SoleTask
  <2> HIDE DEF i
  <2> QED BY <1>1, <1>2, <1>7, <1>8, <2>1, <2>3, <2>4, Rewrite DEF i
<1>9. CASE UNCHANGED show /\ task' = [task EXCEPT ![p] = end]
  <2> HIDE DEF i
  <2> QED BY <1>1, <1>3, <1>4, <1>9, Quiet, SameSeries DEF i
<1> QED BY <1>8, <1>9 DEF Calendar!WriteCancel, Calendar!End, Calendar!Become, end, free

LEMMA CheckClashStep ==
  ASSUME SeriesInv, NEW D, NEW A, NEW C, NEW M, NEW F, NEW p \in Clients, Calendar(D, A, C, M, F)!CheckClash(p)
  PROVE  SeriesInv'
<1> DEFINE r == task[p]
           i == r.show
           label == IF r.room = 0 THEN "rehold" ELSE "free"
           end == Calendar(D, A, C, M, F)!Idle
           n == [r EXCEPT !.at = label]
<1>1. r.at = "clash" /\ r.at \in OnShow /\ UNCHANGED <<today, series, show, room, mixed>> /\ label \in JobLabels
  BY DEF Calendar!CheckClash, Calendar!At, Calendar!db, OnShow, JobLabels
<1>2. /\ i # 0 /\ i \in DOMAIN show /\ (i \notin mixed => Midway(show, room, r))
      /\ r \in Job /\ OfOp(r) /\ Names(show, room, r) /\ r.op = "rebook"
  BY <1>1, AtShow DEF OfOp
<1>3. i \notin mixed => Meets(show, room, i) /\ r.room = show[i].room /\ show[i].status = "live"
  BY <1>1, <1>2 DEF Midway
<1>4. end \in Job /\ JobOK(show, room, end) /\ end.show = 0
  BY IdleJob
<1>5. task' = [task EXCEPT ![p] = end] \/ task' = [task EXCEPT ![p] = n]
  BY DEF Calendar!CheckClash, Calendar!End, Calendar!Become
<1> HIDE DEF end
<1>6. label = IF r.room = 0 THEN "rehold" ELSE "free"
  OBVIOUS
<1> HIDE DEF label
<1>7. n \in Job /\ n.at = label /\ n.show = i /\ n.room = r.room /\ n.op = r.op
  BY <1>1, <1>2, NextLabel
<1> HIDE DEF n
<1>8. OfOp(n) /\ Names(show, room, n) /\ RunOK(n)
  BY <1>1, <1>2, <1>6, <1>7 DEF OfOp, OnDay, OnShow, Names, RunOK
<1>9. i \notin mixed => Midway(show, room, n)
  <2> SUFFICES ASSUME i \notin mixed PROVE Midway(show, room, n)
    OBVIOUS
  <2>1. OnlyHeld(room, i, r.room) /\ (r.room = 0 => NoneHeld(room, i))
    BY <1>3, OnlyItsRoom
  <2> QED BY <1>2, <1>3, <1>6, <1>7, <2>1 DEF Midway
<1>10. CASE task' = [task EXCEPT ![p] = end]
  <2> HIDE DEF i
  <2> QED BY <1>1, <1>3, <1>4, <1>10, Quiet, SameSeries DEF i
<1>11. CASE task' = [task EXCEPT ![p] = n]
  <2>1. JobOK(show, room, n) /\ n.show # 0
    BY <1>2, <1>7, <1>8 DEF JobOK
  <2> HIDE DEF i
  <2> QED BY <1>1, <1>7, <1>9, <1>11, <2>1, Quiet, SameSeries DEF i
<1> QED BY <1>5, <1>10, <1>11

LEMMA FreeRoomStep ==
  ASSUME SeriesInv, NEW D, NEW A, NEW C, NEW M, NEW F, NEW p \in Clients, Calendar(D, A, C, M, F)!FreeRoom(p)
  PROVE  SeriesInv'
<1> DEFINE r == task[p]
           i == r.show
           label == IF r.op = "remove" THEN "delete" ELSE "rehold"
           end == Calendar(D, A, C, M, F)!Idle
           on == [r EXCEPT !.at = label]
           n == IF r.op = "cancel" THEN end ELSE on
<1>1. r.at = "free" /\ r.at \in OnShow /\ UNCHANGED <<today, series, show, mixed>> /\ label \in JobLabels
      /\ room' = [room EXCEPT ![r.room].status = "cancelled"]
  BY DEF Calendar!FreeRoom, Calendar!At, OnShow, JobLabels
<1>2. /\ i # 0 /\ i \in DOMAIN show /\ (i \notin mixed => Midway(show, room, r))
      /\ r \in Job /\ OfOp(r) /\ Names(show, room, r) /\ r.op \in {"cancel", "remove", "rebook"} /\ r.room # 0
  BY <1>1, AtShow DEF OfOp, Names
<1>3. i \notin mixed => /\ OnlyHeld(room, i, r.room)
                        /\ r.op = "cancel" => show[i].status # "live"
                        /\ r.op = "rebook" => show[i].status = "live"
  BY <1>1, <1>2 DEF Midway
<1>4. end \in Job /\ JobOK(show, room, end) /\ end.show = 0
  BY IdleJob
<1>5. task' = [task EXCEPT ![p] = n]
  BY <1>2 DEF Calendar!FreeRoom, Calendar!End, Calendar!Become
<1> HIDE DEF end
<1>6. label = IF r.op = "remove" THEN "delete" ELSE "rehold"
  OBVIOUS
<1> HIDE DEF label
<1>7. on \in Job /\ on.at = label /\ on.show = i /\ on.room = r.room /\ on.op = r.op
  BY <1>1, <1>2, NextLabel
<1> HIDE DEF on
<1>8. r.op # "cancel" => OfOp(on) /\ Names(show, room, on) /\ RunOK(on)
  BY <1>1, <1>2, <1>6, <1>7 DEF OfOp, OnDay, OnShow, Names, RunOK
<1>9. n \in Job /\ JobOK(show, room, n) /\ n.show = (IF r.op = "cancel" THEN 0 ELSE i)
      /\ (r.op # "cancel" => n.at = label)
  BY <1>4, <1>7, <1>8 DEF JobOK
<1> HIDE DEF n
<1>10. n.show \in {0, i} /\ (n.show = 0 /\ i \notin mixed => show[i].status # "live")
       /\ (n.show = i => n.at \in {"delete", "rehold"} /\ (n.at = "rehold" /\ i \notin mixed => show[i].status = "live"))
  BY <1>2, <1>3, <1>6, <1>9
<1> HIDE DEF i
<1> QED BY <1>1, <1>2, <1>3, <1>5, <1>9, <1>10, LetGo DEF i

LEMMA DeleteStep ==
  ASSUME SeriesInv, NEW D, NEW A, NEW C, NEW M, NEW F, NEW p \in Clients, Calendar(D, A, C, M, F)!Delete(p)
  PROVE  SeriesInv'
<1> DEFINE i == task[p].show
           row == [show[i] EXCEPT !.status = "removed"]
           n == Calendar(D, A, C, M, F)!Idle
<1>1. task[p].at = "delete" /\ task[p].at \in OnShow /\ UNCHANGED <<today, series, room, mixed>>
      /\ show' = [show EXCEPT ![i] = row] /\ task' = [task EXCEPT ![p] = n]
  BY DEF Calendar!Delete, Calendar!At, Calendar!End, Calendar!Become, OnShow
<1>2. i # 0 /\ i \in DOMAIN show /\ show[i] \in ShowRow /\ (i \notin mixed => NoneHeld(room, i))
  BY <1>1, AtShow DEF Midway
<1>3. n \in Job /\ JobOK(show, room, n) /\ n.show = 0
  BY IdleJob
<1> HIDE DEF n
<1>4. task' \in [Clients -> Job] /\ task'[p] = n /\ OthersAs(p)
  BY <1>1, <1>3, SoleTask
<1>5. row \in ShowRow /\ row.room = show[i].room /\ row.status # "live"
  BY <1>2 DEF ShowRow
<1> HIDE DEF row
<1>6. show'[i].status # "live"
  BY <1>1, <1>2, <1>5
<1>7. i \notin mixed' => Meets(show', room, i)
  BY <1>1, <1>2, <1>6 DEF Meets, NoneHeld
<1> HIDE DEF i
<1> QED BY <1>1, <1>2, <1>3, <1>4, <1>5, <1>7, Rewrite DEF i

LEMMA ReholdStep ==
  ASSUME SeriesInv, NEW D, NEW A, NEW C, NEW M, NEW F, NEW p \in Clients, Calendar(D, A, C, M, F)!Rehold(p)
  PROVE  SeriesInv'
<1> DEFINE r == task[p]
           i == r.show
           row == [show |-> i, series |-> None, day |-> r.day, status |-> "held"]
           n == [r EXCEPT !.at = "write", !.room = Len(room) + 1]
<1>1. r.at = "rehold" /\ r.at \in OnShow /\ UNCHANGED <<today, series, show, mixed>> /\ room' = Append(room, row)
  BY DEF Calendar!Rehold, Calendar!At, Calendar!AddRoom, OnShow
<1>2. /\ i # 0 /\ i \in DOMAIN show /\ (i \notin mixed => Midway(show, room, r))
      /\ r \in Job /\ OfOp(r) /\ Names(show, room, r) /\ r.op = "rebook"
  BY <1>1, AtShow DEF OfOp
<1>3. row \in RoomRow /\ row.show = i /\ row.status = "held"
  BY <1>2 DEF RoomRow, Job
<1> HIDE DEF row
<1>4. Len(room) + 1 \in Nat /\ Len(room') = Len(room) + 1 /\ "write" \in JobLabels
  BY <1>1, <1>3, RowsOf, Appended DEF SeriesInv, SeriesTypes, JobLabels, OnShow
<1>5. task' = [task EXCEPT ![p] = n]
  BY <1>4 DEF Calendar!Rehold, Calendar!Become
<1>6. n \in Job
  BY <1>2, <1>4 DEF Job
<1>7. n.at = "write" /\ n.show = i /\ n.op = r.op /\ n.room = Len(room) + 1
  BY <1>2 DEF Job
<1> HIDE DEF n
<1>8. OfOp(n) /\ RunOK(n)
  BY <1>2, <1>7 DEF OfOp, OnDay, RunOK
<1> HIDE DEF i
<1> QED BY <1>1, <1>2, <1>3, <1>5, <1>6, <1>7, <1>8, HeldAnew DEF i

LEMMA WriteUpdateStep ==
  ASSUME SeriesInv, NEW D, NEW A, NEW C, NEW M, NEW F, NEW p \in Clients, Calendar(D, A, C, M, F)!WriteUpdate(p)
  PROVE  SeriesInv'
<1> DEFINE r == task[p]
           i == r.show
           x == IF r.op = "rebook" THEN r.room ELSE show[i].room
           row == [show[i] EXCEPT !.day = r.day, !.was = show[i].was \cup {r.day}, !.room = x]
           n == Calendar(D, A, C, M, F)!Idle
<1>1. r.at = "write" /\ r.at \in OnShow /\ UNCHANGED <<today, series, room>>
  BY DEF Calendar!WriteUpdate, Calendar!At, OnShow
<1>2. /\ i # 0 /\ i \in DOMAIN show /\ show[i] \in ShowRow /\ (i \notin mixed => Midway(show, room, r))
      /\ r \in Job /\ OfOp(r) /\ Names(show, room, r) /\ r.op \in {"update", "rebook"}
  BY <1>1, AtShow DEF OfOp
<1>3. n \in Job /\ JobOK(show, room, n) /\ n.show = 0
  BY IdleJob
<1>4. \/ task' = [task EXCEPT ![p] = n] /\ UNCHANGED show /\ mixed' = mixed \cup ({i} \ {0})
      \/ /\ task' = [q \in Clients |-> IF q = p THEN n ELSE Calendar(D, A, C, M, F)!Disturbed(task[q])]
         /\ UNCHANGED mixed
         /\ IF show[i].status = "removed" THEN UNCHANGED show ELSE show' = [show EXCEPT ![i] = row]
  BY DEF Calendar!WriteUpdate, Calendar!End, Calendar!Become, Calendar!Muddle, Calendar!SetShow
<1> HIDE DEF n
<1>5. CASE task' = [task EXCEPT ![p] = n] /\ UNCHANGED show /\ mixed' = mixed \cup ({i} \ {0})
  <2>1. i \in mixed'
    BY <1>2, <1>5
  <2> HIDE DEF i
  <2> QED BY <1>1, <1>3, <1>5, <2>1, Quiet, SameSeries DEF i
<1>6. ASSUME task' = [q \in Clients |-> IF q = p THEN n ELSE Calendar(D, A, C, M, F)!Disturbed(task[q])],
             UNCHANGED mixed,
             IF show[i].status = "removed" THEN UNCHANGED show ELSE show' = [show EXCEPT ![i] = row]
      PROVE  SeriesInv'
  <2>1. task'[p] = n /\ OthersAs(p)
    BY <1>6 DEF OthersAs, Calendar!Disturbed
  <2>2. task' \in [Clients -> Job]
    <3>1. \A q \in Clients \ {p} : task'[q] \in Job
      BY <2>1, TaskOf, SameOnRows DEF OthersAs
    <3>2. task' = [q \in Clients |-> task'[q]]
      BY <1>6
    <3> QED BY <1>3, <2>1, <3>1, <3>2
  <2>3. CASE show[i].status = "removed"
    <3>1. i \notin mixed' => Meets(show', room, i)
      BY <1>1, <1>2, <1>6, <2>3 DEF Midway
    <3>2. show' = [show EXCEPT ![i] = show[i]]
      BY <1>6, <2>3 DEF SeriesInv, SeriesTypes
    <3> HIDE DEF i
    <3> QED BY <1>1, <1>2, <1>3, <1>6, <2>1, <2>2, <3>1, <3>2, Rewrite DEF i
  <2>4. CASE show[i].status # "removed"
    <3>1. x \in Nat /\ r.day \in Nat
      BY <1>2 DEF ShowRow, Job
    <3>2. row \in ShowRow /\ row.room = x /\ row.status = show[i].status
      BY <1>2, <3>1 DEF ShowRow
    <3>3. show' = [show EXCEPT ![i] = row]
      BY <1>6, <2>4
    <3> HIDE DEF row
    <3>4. show'[i] = row
      BY <1>2, <3>3
    <3>5. i \notin mixed' => Meets(show', room, i)
      <4> SUFFICES ASSUME i \notin mixed, Midway(show, room, r) PROVE Meets(show', room, i)
        BY <1>2, <1>6
      <4>1. CASE r.op = "update"
        <5>1. Meets(show, room, i)
          BY <1>1, <4>1 DEF Midway
        <5> QED BY <3>2, <3>4, <4>1, <5>1 DEF Meets
      <4>2. CASE r.op = "rebook"
        <5>1. show[i].status = "live" /\ room[r.room].status = "held" /\ OnlyHeld(room, i, r.room)
          BY <1>1, <4>2 DEF Midway
        <5> QED BY <3>2, <3>4, <4>2, <5>1 DEF Meets, OnlyHeld
      <4> QED BY <1>2, <4>1, <4>2
    <3>6. row.room = show[i].room \/ row.room = r.room
      BY <3>2
    <3> HIDE DEF i, x
    <3> QED BY <1>1, <1>2, <1>3, <1>6, <2>1, <2>2, <3>2, <3>3, <3>5, <3>6, Rewrite DEF i
  <2> QED BY <2>3, <2>4
<1> QED BY <1>4, <1>5, <1>6

-----------------------------------------------------------------------------
(* The invariant holds at first, and after every step of any calendar. *)

LEMMA SeriesStep ==
  ASSUME SeriesInv, NEW D \in Nat, NEW A, NEW C, NEW M, NEW F, Calendar(D, A, C, M, F)!Next
  PROVE  SeriesInv'
<1>1. ASSUME NEW p \in Clients, Calendar(D, A, C, M, F)!Generate(p) PROVE SeriesInv'
  BY <1>1, NextPassStep, TakeSeriesStep, DraftStep, CheckRoomStep, HoldStep, LinkStep, CheckShowsStep,
     CheckOthersStep, InsertStep DEF Calendar!Generate
<1>2. ASSUME NEW p \in Clients, Calendar(D, A, C, M, F)!Serve(p) PROVE SeriesInv'
  BY <1>2, FirstStep, RegisterStep, UnsubscribeStep, WriteCancelStep, CheckClashStep, FreeRoomStep, DeleteStep,
     ReholdStep, WriteUpdateStep DEF Calendar!Serve
<1>3. ASSUME NEW p \in Clients, Calendar(D, A, C, M, F)!Work(p) PROVE SeriesInv'
  BY <1>1, <1>2, <1>3, StartRunStep DEF Calendar!Work
<1>4. ASSUME NEW p \in Clients, NEW s \in RoomSeries, NEW d \in Calendar(D, A, C, M, F)!Days,
             Calendar(D, A, C, M, F)!Book(p, s, d)
      PROVE  SeriesInv'
  BY <1>4, BookStep
<1>5. ASSUME NEW p \in Clients, NEW i \in DOMAIN show,
             \/ Calendar(D, A, C, M, F)!CancelShow(p, i) \/ Calendar(D, A, C, M, F)!RemoveShow(p, i)
             \/ \E d \in Calendar(D, A, C, M, F)!Days :
                  \/ Calendar(D, A, C, M, F)!MoveShow(p, i, d)
                  \/ \E o \in BOOLEAN : Calendar(D, A, C, M, F)!RebookShow(p, i, d, o)
      PROVE  SeriesInv'
  BY <1>5, OpenedStep
<1>6. ASSUME NEW p \in Clients,
             \/ Calendar(D, A, C, M, F)!Lapse(p) \/ Calendar(D, A, C, M, F)!Fail(p) \/ Calendar(D, A, C, M, F)!Crash(p)
             \/ \E s \in Calendar(D, A, C, M, F)!Series : Calendar(D, A, C, M, F)!CancelSeries(p, s)
      PROVE  SeriesInv'
  BY <1>6, LapseStep, FailStep, CrashStep, CancelSeriesStep
<1>7. ASSUME NEW p \in Clients,
             \/ \E r \in DOMAIN room : Calendar(D, A, C, M, F)!CancelRoom(p, r)
             \/ \E d \in Calendar(D, A, C, M, F)!Days : Calendar(D, A, C, M, F)!BookOther(p, d)
      PROVE  SeriesInv'
  BY <1>7, CancelRoomStep, BookOtherStep
<1>8. CASE Calendar(D, A, C, M, F)!Tick
  BY <1>8, TickStep
<1> QED BY <1>3, <1>4, <1>5, <1>6, <1>7, <1>8 DEF Calendar!Next, Calendar!Called

LEMMA Joined ==
  ASSUME NEW S, NEW s \in Seq(S), NEW t \in Seq(S)
  PROVE  s \o t \in Seq(S) /\ DOMAIN (s \o t) = 1..(Len(s) + Len(t))
OBVIOUS

LEMMA SeriesStays ==
  ASSUME SeriesInv, UNCHANGED seriesVars
  PROVE  SeriesInv'
<1>1. UNCHANGED <<today, series, show, room, task, mixed>>
  BY DEF seriesVars
<1>2. SeriesTypes'
  BY <1>1, SameSeries DEF SeriesInv, SeriesTypes
<1>3. JobsOK' /\ RoomsNamed' /\ Alone' /\ ShowsInv'
  BY <1>1 DEF SeriesInv, JobsOK, RoomsNamed, Alone, ShowsInv
<1> QED BY <1>2, <1>3 DEF SeriesInv

(* The rows at first: the series of events with its prototype, and a       *)
(* reservation of every series of members.                                 *)
FirstHold(d, holds) == IF holds THEN <<[show |-> 1, series |-> None, day |-> d, status |-> "held"]>> ELSE <<>>
FirstRows(d, holds, order) ==
  /\ show = <<[series |-> Gigs, day |-> d, was |-> {d}, status |-> "live", room |-> IF holds THEN 1 ELSE 0]>>
  /\ room = FirstHold(d, holds)
              \o [n \in DOMAIN order |-> [show |-> 0, series |-> order[n], day |-> 0, status |-> "held"]]
FirstSeries(d, started) ==
  [s \in RoomSeries \cup {Gigs} |->
    CASE s = Gigs -> [state |-> "active", proto |-> 1, from |-> d]
      [] s \in started -> [state |-> "active", from |-> 0,
           proto |-> CHOOSE r \in DOMAIN room : room[r].series = s]
      [] OTHER -> [state |-> "none", proto |-> 0, from |-> 0]]

LEMMA SeriesBegins ==
  ASSUME NEW D, NEW A, NEW C, NEW M, NEW F, Calendar(D, A, C, M, F)!Init
  PROVE  SeriesInv
<1>1. PICK d \in 0..1, holds \in BOOLEAN, started \in SUBSET RoomSeries :
        \E order \in Calendar(D, A, C, M, F)!Bijection(1..Calendar(D, A, C, M, F)!Cardinality(started), started) :
           FirstRows(d, holds, order) /\ series = FirstSeries(d, started)
  BY Zenon DEF Calendar!Init, Calendar!Series, FirstRows, FirstSeries, FirstHold
<1>2. PICK order \in Calendar(D, A, C, M, F)!Bijection(1..Cardinality(started), started) : FirstRows(d, holds, order)
  <2>1. Calendar(D, A, C, M, F)!Cardinality(started) = Cardinality(started)
    BY DEF Calendar!Cardinality, Cardinality
  <2> QED BY <1>1, <2>1
<1> DEFINE k == Cardinality(started)
           first == FirstHold(d, holds)
           rest == [n \in DOMAIN order |-> [show |-> 0, series |-> order[n], day |-> 0, status |-> "held"]]
           gig == [series |-> Gigs, day |-> d, was |-> {d}, status |-> "live", room |-> IF holds THEN 1 ELSE 0]
<1>3. d \in Nat /\ k \in Nat
  BY FS_Subset, FS_CardinalityType DEF SeriesAssumption
<1>4. order \in [1..k -> started]
  BY DEF Calendar!Bijection, Calendar!Injection, Calendar!IsInjective, Calendar!Surjection
<1>5. rest \in Seq(RoomRow) /\ Len(rest) = k /\ \A n \in DOMAIN rest : rest[n].show = 0
  <2>1. \A n \in 1..k : [show |-> 0, series |-> order[n], day |-> 0, status |-> "held"] \in RoomRow
    BY <1>4 DEF RoomRow
  <2>2. DOMAIN order = 1..k
    BY <1>4
  <2> HIDE DEF k
  <2>3. rest \in [1..k -> RoomRow]
    BY <2>1, <2>2
  <2> QED BY <1>3, <2>2, <2>3
<1>6. /\ first \in Seq(RoomRow) /\ Len(first) = IF holds THEN 1 ELSE 0
      /\ holds => first[1] = [show |-> 1, series |-> None, day |-> d, status |-> "held"]
  <2>1. [show |-> 1, series |-> None, day |-> d, status |-> "held"] \in RoomRow
    BY <1>3 DEF RoomRow
  <2> QED BY <2>1 DEF FirstHold
<1>7. room = first \o rest
  BY <1>2 DEF FirstRows
<1>a. Len(first) \in Nat
  BY <1>6
<1> HIDE DEF first, rest
<1>8. /\ room \in Seq(RoomRow) /\ (holds => 1 \in DOMAIN room /\ room[1].show = 1 /\ room[1].status = "held")
      /\ \A x \in DOMAIN room : room[x].show = 0 \/ (holds /\ x = 1)
  <2>1. room \in Seq(RoomRow) /\ DOMAIN room = 1..(Len(first) + Len(rest))
    BY <1>3, <1>5, <1>6, <1>7, <1>a, Joined
  <2>2. \A x \in 1..Len(first) : room[x] = first[x]
    BY <1>5, <1>6, <1>7
  <2>3. \A x \in DOMAIN room : x > Len(first) => room[x] = rest[x - Len(first)] /\ x - Len(first) \in DOMAIN rest
    BY <1>5, <1>6, <1>7, <2>1
  <2>4. holds => 1 \in DOMAIN room /\ room[1] = first[1]
    BY <1>3, <1>5, <1>6, <2>1, <2>2
  <2>5. holds => room[1].show = 1 /\ room[1].status = "held"
    BY <1>6, <2>4
  <2>6. \A x \in DOMAIN room : x <= Len(first) => holds /\ x = 1
    BY <1>6, <2>1
  <2>7. \A x \in DOMAIN room : x > Len(first) => room[x].show = 0
    BY <1>5, <2>3
  <2>8. \A x \in DOMAIN room : x <= Len(first) \/ x > Len(first)
    BY <1>6, <2>1
  <2> QED BY <2>1, <2>4, <2>5, <2>6, <2>7, <2>8
<1>9. gig \in ShowRow /\ gig.room = (IF holds THEN 1 ELSE 0) /\ gig.status = "live"
  BY <1>3 DEF ShowRow
<1>10. show = <<gig>>
  BY <1>2 DEF FirstRows
<1> HIDE DEF gig
<1>11. show \in Seq(ShowRow) /\ DOMAIN show = {1} /\ show[1] = gig
  BY <1>9, <1>10
<1>12. task = [p \in Clients |-> Calendar(D, A, C, M, F)!Idle] /\ today = 0 /\ mixed = {}
  BY DEF Calendar!Init
<1>13. SeriesRows
  <2>1. series[Gigs] = [state |-> "active", proto |-> 1, from |-> d]
    BY <1>1, Zenon DEF FirstSeries
  <2>2. series = [s \in RoomSeries \cup {Gigs} |-> series[s]]
    BY <1>1, Zenon DEF FirstSeries
  <2> QED BY <1>3, <1>12, <2>1, <2>2 DEF SeriesRows
<1>14. \A p \in Clients : task[p] \in Job /\ JobOK(show, room, task[p]) /\ task[p].show = 0
  BY <1>12, IdleJob
<1>15. SeriesTypes
  BY <1>8, <1>11, <1>12, <1>13, <1>14 DEF SeriesTypes
<1>16. RoomsNamed
  BY <1>8, <1>9, <1>11 DEF RoomsNamed
<1>17. Meets(show, room, 1)
  BY <1>8, <1>9, <1>11 DEF Meets
<1> QED BY <1>11, <1>14, <1>15, <1>16, <1>17 DEF SeriesInv, JobsOK, Alone, ShowsInv

LEMMA HoldsMatch ==
  ASSUME SeriesInv, NEW D, NEW A, NEW C, NEW M, NEW F
  PROVE  Calendar(D, A, C, M, F)!HoldsMatchShows
BY DEF Calendar!HoldsMatchShows, SeriesInv, ShowsInv, Meets

LEMMA Once ==
  ASSUME SeriesInv, NEW D, NEW A, NEW C, NEW M, NEW F
  PROVE  Calendar(D, A, C, M, F)!GeneratesOnce
<1>1. \A p \in Clients : task[p].at \in {"day", "insert"} => task[p].day \notin task[p].known
  BY TaskOf DEF RunOK, OnDay
<1> QED BY <1>1 DEF Calendar!GeneratesOnce, Calendar!Inserts, Calendar!At

-----------------------------------------------------------------------------
(* The job sees to the shows before it sees to the reservations.           *)

LEMMA IdleSees ==
  ASSUME NEW last, NEW window, NEW ever, NEW r, r.op \notin {"shows", "rooms"}
  PROVE  SeenTo(last, window, ever, r)
BY DEF SeenTo

(* What a run has seen to stays so while the days ahead get fewer and the  *)
(* days that had a show more.                                              *)
LEMMA SeenOn ==
  ASSUME NEW last, NEW window, NEW ever, NEW less, less \subseteq window, NEW more, ever \subseteq more,
         NEW r \in Job, NEW n, n = r \/ n = [r EXCEPT !.late = TRUE], SeenTo(last, window, ever, r)
  PROVE  SeenTo(last, less, more, n)
<1>1. n.at = r.at /\ n.op = r.op /\ n.pending = r.pending /\ n.todo = r.todo /\ n.day = r.day /\ (Late(r) => Late(n))
  BY DEF Job, Late
<1> QED BY <1>1 DEF SeenTo

LEMMA FollowingSees ==
  ASSUME NEW D, NEW A, NEW C, NEW M, NEW F, NEW last, NEW window, NEW ever, NEW sh, NEW rm,
         NEW r \in Job, JobOK(sh, rm, r), r.at \in OnDay, r.pending \subseteq 1..last,
         \/ Late(r) \/ window \subseteq ever
         \/ r.op = "shows" /\ window \subseteq ever \cup (r.pending \ {r.day})
  PROVE  SeenTo(last, window, ever, Calendar(D, A, C, M, F)!Following(r))
<1> DEFINE n == Calendar(D, A, C, M, F)!Following(r)
<1>1. n.op = r.op /\ (Late(n) <=> Late(r)) /\ Followed(r, n)
  BY FollowingJob
<1> HIDE DEF n
<1>2. CASE n.at = "series" /\ r.pending = {r.day}
  <2>1. SeenTo(last, window, ever, n)
    BY <1>1, <1>2 DEF SeenTo, OnDay
  <2> QED BY <2>1 DEF n
<1>3. CASE n.at = "day" /\ n.pending = r.pending \ {r.day}
  <2>1. SeenTo(last, window, ever, n)
    BY <1>1, <1>3 DEF SeenTo, OnDay
  <2> QED BY <2>1 DEF n
<1> QED BY <1>1, <1>2, <1>3 DEF Followed

LEMMA AbortedSees ==
  ASSUME NEW D, NEW A, NEW C, NEW M, NEW F, NEW last, NEW window, NEW ever, NEW sh, NEW rm,
         NEW r \in Job, JobOK(sh, rm, r), r.op \in {"shows", "rooms"}
  PROVE  SeenTo(last, window, ever, Calendar(D, A, C, M, F)!Aborted(r))
<1> DEFINE n == Calendar(D, A, C, M, F)!Aborted(r)
<1>1. n.at = "series" /\ Late(n)
  BY AbortedJob
<1> HIDE DEF n
<1>2. SeenTo(last, window, ever, n)
  BY <1>1 DEF SeenTo, OnDay
<1> QED BY <1>2 DEF n

(* A step of one request, for the others. *)
LEMMA OneSees ==
  ASSUME NEW last, NEW far, SeriesInv, SeesTo(last, far), NEW p \in Clients, OthersAs(p), DaysShown',
         Window(last, far)' \subseteq Window(last, far), EverShown(show) \subseteq EverShown(show'),
         SeenTo(last, Window(last, far)', EverShown(show'), task'[p])
  PROVE  SeesTo(last, far)'
<1>1. ASSUME NEW q \in Clients \ {p}
      PROVE  SeenTo(last, Window(last, far)', EverShown(show'), task'[q])
  <2>1. SeenTo(last, Window(last, far), EverShown(show), task[q]) /\ task[q] \in Job
    BY TaskOf DEF SeesTo
  <2> QED BY <2>1, SeenOn DEF OthersAs
<1> QED BY <1>1 DEF SeesTo

LEMMA SameWindow ==
  ASSUME NEW last, NEW far, today' = today,
         series'[Gigs] = series[Gigs] \/ (series'[Gigs].state # "active")
  PROVE  Window(last, far)' \subseteq Window(last, far)
BY DEF Window

(* Shows keep the days they were on, and are on one of them. *)
LEMMA DaysKept ==
  ASSUME DaysShown, NEW i,
         \A j \in DOMAIN show : j \in DOMAIN show' /\ show[j].was \subseteq show'[j].was,
         \A j \in DOMAIN show' : j # i => j \in DOMAIN show /\ show'[j] = show[j],
         i \in DOMAIN show' => show'[i].day \in show'[i].was
  PROVE  DaysShown' /\ EverShown(show) \subseteq EverShown(show')
BY DEF DaysShown, EverShown

LEMMA SameDays ==
  ASSUME DaysShown, UNCHANGED show
  PROVE  DaysShown' /\ EverShown(show) \subseteq EverShown(show')
BY DEF DaysShown, EverShown

(* A request that is not the job's, and the row that it writes. *)
LEMMA Written ==
  ASSUME SeriesInv, DaysShown, NEW i \in DOMAIN show, NEW row, show' = [show EXCEPT ![i] = row],
         show[i].was \subseteq row.was, row.day \in row.was
  PROVE  DaysShown' /\ EverShown(show) \subseteq EverShown(show')
<1>1. DOMAIN show' = DOMAIN show /\ show'[i] = row /\ \A j \in DOMAIN show : j # i => show'[j] = show[j]
  OBVIOUS
<1> QED BY <1>1, DaysKept

(* A step that writes nothing that the window or the shows depend on. *)
LEMMA StillSees ==
  ASSUME NEW last, NEW far, SeriesInv, SeesTo(last, far), NEW p \in Clients, NEW n \in Job,
         task' = [task EXCEPT ![p] = n], UNCHANGED <<today, series, show>>,
         SeenTo(last, Window(last, far), EverShown(show), n)
  PROVE  SeesTo(last, far)'
<1>1. task'[p] = n /\ OthersAs(p)
  BY SoleTask
<1>2. DaysShown' /\ EverShown(show) \subseteq EverShown(show')
  BY SameDays DEF SeesTo
<1>3. Window(last, far)' = Window(last, far) /\ show' = show
  BY DEF Window
<1>4. Window(last, far)' \subseteq Window(last, far)
  BY <1>3
<1>5. SeenTo(last, Window(last, far)', EverShown(show'), task'[p])
  BY <1>1, <1>3
<1> QED BY <1>1, <1>2, <1>4, <1>5, OneSees

LEMMA PassSees ==
  ASSUME NEW last, NEW far, SeriesInv, SeesTo(last, far), NEW D, NEW A, NEW C, NEW M, NEW F, NEW p \in Clients,
         Calendar(D, A, C, M, F)!StartRun(p) \/ Calendar(D, A, C, M, F)!NextPass(p)
  PROVE  SeesTo(last, far)'
<1>1. UNCHANGED <<today, series, show>>
  BY DEF Calendar!StartRun, Calendar!NextPass, Calendar!db
<1>2. CASE Calendar(D, A, C, M, F)!StartRun(p)
  <2>1. PICK n : n = Calendar(D, A, C, M, F)!StartPass(1)
    OBVIOUS
  <2>2. n \in Job /\ n.at = "series" /\ n.op = "shows" /\ (series[Gigs].state = "active" => Gigs \in n.todo)
    BY <2>1, PassJob
  <2>3. series[Gigs].state # "active" => Window(last, far) = {}
    BY DEF Window
  <2>4. SeenTo(last, Window(last, far), EverShown(show), n)
    BY <2>2, <2>3 DEF SeenTo, OnDay
  <2>5. task' = [task EXCEPT ![p] = n]
    BY <1>2, <2>1 DEF Calendar!StartRun, Calendar!Become
  <2> QED BY <1>1, <2>2, <2>4, <2>5, StillSees
<1>3. CASE Calendar(D, A, C, M, F)!NextPass(p)
  <2>1. task[p].at = "series" /\ task[p].todo = {} /\ task[p] \in Job /\ task[p].late \in BOOLEAN
        /\ SeenTo(last, Window(last, far), EverShown(show), task[p])
    BY <1>3, TaskOf DEF Calendar!NextPass, Calendar!At, SeesTo, Job
  <2>2. PICK q : q = Calendar(D, A, C, M, F)!StartPass(2)
    OBVIOUS
  <2>3. PICK idle : idle = Calendar(D, A, C, M, F)!Idle
    OBVIOUS
  <2>4. q \in Job /\ q.at = "series" /\ q.op = "rooms" /\ idle \in Job /\ idle.op = "none"
    BY <2>2, <2>3, PassJob, IdleJob
  <2> DEFINE m == [q EXCEPT !.late = task[p].late]
  <2>5. m \in Job /\ m.at = "series" /\ m.op = "rooms" /\ (Late(m) <=> Late(task[p]))
    BY <2>1, <2>4 DEF Job, Late
  <2>6. task' = [task EXCEPT ![p] = IF task[p].op = "shows" THEN m ELSE idle]
    BY <1>3, <2>2, <2>3 DEF Calendar!NextPass, Calendar!Become, Calendar!Passes
  <2> HIDE DEF m
  <2>7. CASE task[p].op = "shows"
    <3>1. SeenTo(last, Window(last, far), EverShown(show), m)
      BY <2>1, <2>5, <2>7 DEF SeenTo, OnDay
    <3>2. task' = [task EXCEPT ![p] = m]
      BY <2>6, <2>7
    <3> QED BY <1>1, <2>5, <3>1, <3>2, StillSees
  <2>8. CASE task[p].op # "shows"
    <3>1. SeenTo(last, Window(last, far), EverShown(show), idle)
      BY <2>4, IdleSees
    <3>2. task' = [task EXCEPT ![p] = idle]
      BY <2>6, <2>8
    <3> QED BY <1>1, <2>4, <3>1, <3>2, StillSees
  <2> QED BY <2>7, <2>8
<1> QED BY <1>2, <1>3

(* The days that are there already had a show; a run sets out for the rest. *)
LEMMA TakeSeriesSees ==
  ASSUME SeriesInv, NEW D \in Nat, NEW A, SeesTo(D, A), NEW C, NEW M, NEW F, NEW p \in Clients,
         Calendar(D, A, C, M, F)!TakeSeries(p)
  PROVE  SeesTo(D, A)'
<1>1. UNCHANGED <<today, series, show>> /\ task[p].at = "series"
  BY TakeSeriesStep
<1>2. PICK s \in task[p].todo : \E n : task' = [task EXCEPT ![p] = n] /\ Taken(D, A, C, M, F, task[p], s, n)
  BY DEF Calendar!TakeSeries, Calendar!Become, Taken
<1>3. PICK n : task' = [task EXCEPT ![p] = n] /\ Taken(D, A, C, M, F, task[p], s, n)
  BY <1>2
<1>4. n \in Job /\ SetOut(D, A, C, M, F, task[p], s, n)
  BY <1>1, <1>3, TakenJob
<1>5. SeenTo(D, Window(D, A), EverShown(show), task[p]) /\ OfOp(task[p]) /\ RunOK(task[p])
  BY TaskOf DEF SeesTo
<1> DEFINE occ == Calendar(D, A, C, M, F)!Occurrences(s)
           there == Calendar(D, A, C, M, F)!Existing(s)
<1>6. occ \subseteq 1..D
  BY DEF Calendar!Occurrences, Calendar!Days
<1>7. task[p].op \in {"shows", "rooms"} /\ n.op = task[p].op /\ (task[p].op = "shows" => s = Gigs)
  BY <1>1, <1>4, <1>5 DEF SetOut, OfOp, RunOK
<1>8. s = Gigs => Window(D, A) \subseteq occ /\ there \subseteq EverShown(show)
  <2>1. \A d \in Window(D, A) : s = Gigs => d \in occ
    BY DEF Window, Calendar!Occurrences, Calendar!Days
  <2>2. ASSUME NEW d \in there, s = Gigs PROVE d \in EverShown(show)
    <3>1. PICK i \in DOMAIN show : d = show[i].day
      BY <2>2 DEF Calendar!Existing
    <3> QED BY <3>1 DEF SeesTo, DaysShown, EverShown
  <2> QED BY <2>1, <2>2
<1> HIDE DEF occ, there
<1>9. SeenTo(D, Window(D, A), EverShown(show), n)
  <2>1. CASE n.at = "series" /\ Late(n)
    BY <2>1 DEF SeenTo, OnDay
  <2>2. CASE (Late(n) <=> Late(task[p])) /\ n.at = "series" /\ occ \ there = {}
    BY <1>1, <1>5, <1>7, <1>8, <2>2 DEF SeenTo, OnDay
  <2>3. CASE (Late(n) <=> Late(task[p])) /\ n.at = "day" /\ n.pending = occ \ there
    BY <1>1, <1>5, <1>6, <1>7, <1>8, <2>3 DEF SeenTo, OnDay
  <2> QED BY <1>4, <2>1, <2>2, <2>3 DEF SetOut, occ, there
<1> QED BY <1>1, <1>3, <1>4, <1>9, StillSees

(* A run that follows from what it has checked, or ends the series. *)
LEMMA GoesOn ==
  ASSUME NEW last, NEW far, SeriesInv, SeesTo(last, far), NEW D, NEW A, NEW C, NEW M, NEW F,
         NEW p \in Clients, task[p].at \in OnDay, task[p].at # "day" \/ task[p].op = "rooms"
  PROVE  SeenTo(last, Window(last, far), EverShown(show), Calendar(D, A, C, M, F)!Following(task[p]))
<1>1. SeenTo(last, Window(last, far), EverShown(show), task[p]) /\ task[p] \in Job /\ JobOK(show, room, task[p])
  BY TaskOf DEF SeesTo
<1>2. task[p].op \in {"shows", "rooms"} /\ (task[p].at \in {"others", "insert"} => task[p].op = "rooms")
      /\ (task[p].at \in {"room", "hold", "link"} => task[p].op = "shows")
  BY <1>1 DEF JobOK, OfOp, OnDay
<1>3. /\ task[p].pending \subseteq 1..last
      /\ task[p].op = "rooms" => Late(task[p]) \/ Window(last, far) \subseteq EverShown(show)
      /\ task[p].at \in {"room", "hold", "link"} =>
           Late(task[p]) \/ Window(last, far) \subseteq EverShown(show) \cup (task[p].pending \ {task[p].day})
  BY <1>1, <1>2 DEF SeenTo
<1>4. \/ Late(task[p]) \/ Window(last, far) \subseteq EverShown(show)
      \/ task[p].op = "shows"
         /\ Window(last, far) \subseteq EverShown(show) \cup (task[p].pending \ {task[p].day})
  BY <1>2, <1>3 DEF OnDay
<1> QED BY <1>1, <1>3, <1>4, FollowingSees

LEMMA MovesOn ==
  ASSUME NEW last, NEW window, NEW ever, NEW r, NEW n, SeenTo(last, window, ever, r), OfOp(r), r.at \in OnDay,
         n.op = r.op, n.pending = r.pending, n.day = r.day, Late(n) <=> Late(r),
         \/ r.at \in {"room", "hold"} /\ n.at \in {"hold", "link"}
         \/ r.op = "rooms" /\ n.at \in {"others", "insert"}
  PROVE  SeenTo(last, window, ever, n)
BY DEF SeenTo, OfOp, OnDay

LEMMA CheckSees ==
  ASSUME NEW last, NEW far, SeriesInv, SeesTo(last, far), NEW D, NEW A, NEW C, NEW M, NEW F, NEW p \in Clients,
         \/ Calendar(D, A, C, M, F)!CheckRoom(p) \/ Calendar(D, A, C, M, F)!Hold(p)
         \/ Calendar(D, A, C, M, F)!CheckShows(p) \/ Calendar(D, A, C, M, F)!CheckOthers(p)
  PROVE  SeesTo(last, far)'
<1> DEFINE r == task[p]
<1>1. /\ r \in Job /\ JobOK(show, room, r) /\ OfOp(r) /\ SeenTo(last, Window(last, far), EverShown(show), r)
      /\ UNCHANGED <<today, series, show>> /\ Len(room) \in Nat
  BY TaskOf, RowsOf DEF SeesTo, Calendar!CheckRoom, Calendar!Hold, Calendar!CheckShows, Calendar!CheckOthers, Calendar!db
<1>2. r.at \in OnDay /\ (r.at # "day" \/ r.op = "rooms")
  BY DEF Calendar!CheckRoom, Calendar!Hold, Calendar!CheckShows, Calendar!CheckOthers, Calendar!At, OnDay
<1>3. PICK f : f = Calendar(D, A, C, M, F)!Following(r)
  OBVIOUS
<1>4. f \in Job /\ SeenTo(last, Window(last, far), EverShown(show), f)
  BY <1>1, <1>2, <1>3, FollowingJob, GoesOn
<1>5. PICK n \in Job :
        /\ task' = [task EXCEPT ![p] = f] \/ task' = [task EXCEPT ![p] = n]
        /\ n.op = r.op /\ n.pending = r.pending /\ n.day = r.day /\ (Late(n) <=> Late(r))
        /\ \/ r.at \in {"room", "hold"} /\ n.at \in {"hold", "link"}
           \/ r.op = "rooms" /\ n.at \in {"others", "insert"}
  <2>1. CASE Calendar(D, A, C, M, F)!CheckRoom(p)
    <3> DEFINE n == [r EXCEPT !.at = "hold"]
    <3>1. task' = [task EXCEPT ![p] = f] \/ task' = [task EXCEPT ![p] = n]
      BY <1>3, <2>1 DEF Calendar!CheckRoom, Calendar!Become
    <3>2. r.at = "room" /\ "hold" \in JobLabels
      BY <2>1 DEF Calendar!CheckRoom, Calendar!At, JobLabels, OnShow
    <3>3. n \in Job /\ n.at = "hold" /\ n.op = r.op /\ n.pending = r.pending /\ n.day = r.day /\ (Late(n) <=> Late(r))
      BY <1>1, <3>2, NextLabel
    <3> HIDE DEF n
    <3> QED BY <3>1, <3>2, <3>3
  <2>2. CASE Calendar(D, A, C, M, F)!Hold(p)
    <3>1. PICK x : x = Len(room') /\ task' = [task EXCEPT ![p] = [r EXCEPT !.at = "link", !.room = x]]
      BY <2>2 DEF Calendar!Hold, Calendar!Become
    <3>2. x \in Nat
      <4>1. PICK row : room' = Append(room, row)
        BY <2>2 DEF Calendar!Hold, Calendar!AddRoom
      <4>2. Len(room') \in Nat
        BY <4>1 DEF SeriesInv, SeriesTypes
      <4> QED BY <3>1, <4>2
    <3> DEFINE n == [r EXCEPT !.at = "link", !.room = x]
    <3>3. r.at = "hold" /\ "link" \in JobLabels
      BY <2>2 DEF Calendar!Hold, Calendar!At, JobLabels, OnShow
    <3>4. n \in Job /\ n.at = "link" /\ n.op = r.op /\ n.pending = r.pending /\ n.day = r.day /\ (Late(n) <=> Late(r))
      BY <1>1, <3>2, <3>3 DEF Job, Late
    <3> HIDE DEF n
    <3> QED BY <3>1, <3>3, <3>4 DEF n
  <2>3. CASE Calendar(D, A, C, M, F)!CheckShows(p)
    <3> DEFINE n == [r EXCEPT !.at = "others"]
    <3>1. task' = [task EXCEPT ![p] = f] \/ task' = [task EXCEPT ![p] = n]
      BY <1>3, <2>3 DEF Calendar!CheckShows, Calendar!Become
    <3>2. r.op = "rooms" /\ "others" \in JobLabels
      BY <2>3 DEF Calendar!CheckShows, JobLabels, OnDay
    <3>3. n \in Job /\ n.at = "others" /\ n.op = r.op /\ n.pending = r.pending /\ n.day = r.day /\ (Late(n) <=> Late(r))
      BY <1>1, <3>2, NextLabel
    <3> HIDE DEF n
    <3> QED BY <3>1, <3>2, <3>3
  <2>4. CASE Calendar(D, A, C, M, F)!CheckOthers(p)
    <3>1. PICK x \in {"waitlisted", "held"} : task' = [task EXCEPT ![p] = [r EXCEPT !.at = "insert", !.status = x]]
      BY <2>4 DEF Calendar!CheckOthers, Calendar!Become
    <3> DEFINE n == [r EXCEPT !.at = "insert", !.status = x]
    <3>2. r.op = "rooms" /\ "insert" \in JobLabels
      BY <1>1, <2>4 DEF Calendar!CheckOthers, Calendar!At, OfOp, JobLabels, OnDay
    <3>3. n \in Job /\ n.at = "insert" /\ n.op = r.op /\ n.pending = r.pending /\ n.day = r.day /\ (Late(n) <=> Late(r))
      BY <1>1, <3>2 DEF Job, Late
    <3> HIDE DEF n
    <3> QED BY <3>1, <3>2, <3>3 DEF n
  <2> QED BY <2>1, <2>2, <2>3, <2>4
<1>6. SeenTo(last, Window(last, far), EverShown(show), n)
  BY <1>1, <1>2, <1>5, MovesOn
<1> HIDE DEF r
<1> QED BY <1>1, <1>4, <1>5, <1>6, StillSees

LEMMA InsertSees ==
  ASSUME NEW last, NEW far, SeriesInv, SeesTo(last, far), NEW D, NEW A, NEW C, NEW M, NEW F, NEW p \in Clients,
         Calendar(D, A, C, M, F)!Insert(p)
  PROVE  SeesTo(last, far)'
<1>1. /\ task[p] \in Job /\ JobOK(show, room, task[p]) /\ task[p].at = "insert" /\ task[p].op = "rooms"
      /\ UNCHANGED <<today, series, show>>
  BY TaskOf DEF Calendar!Insert, Calendar!At, OfOp
<1>2. PICK n : n = Calendar(D, A, C, M, F)!Following(task[p])
  OBVIOUS
<1>3. PICK m : m = Calendar(D, A, C, M, F)!Aborted(task[p])
  OBVIOUS
<1>4. n \in Job /\ SeenTo(last, Window(last, far), EverShown(show), n)
  BY <1>1, <1>2, FollowingJob, GoesOn DEF OnDay
<1>5. m \in Job /\ SeenTo(last, Window(last, far), EverShown(show), m)
  BY <1>1, <1>3, AbortedJob, AbortedSees
<1>6. task' = [task EXCEPT ![p] = n] \/ task' = [task EXCEPT ![p] = m]
  BY <1>2, <1>3 DEF Calendar!Insert, Calendar!Become
<1> QED BY <1>1, <1>4, <1>5, <1>6, StillSees

LEMMA FailSees ==
  ASSUME NEW last, NEW far, SeriesInv, SeesTo(last, far), NEW D, NEW A, NEW C, NEW M, NEW F, NEW p \in Clients,
         Calendar(D, A, C, M, F)!Fail(p) \/ Calendar(D, A, C, M, F)!Crash(p)
  PROVE  SeesTo(last, far)'
<1>1. UNCHANGED <<today, series, show>>
  BY DEF Calendar!Fail, Calendar!Crash, Calendar!db
<1>2. CASE Calendar(D, A, C, M, F)!Crash(p)
  <2>1. PICK n : n = Calendar(D, A, C, M, F)!Idle
    OBVIOUS
  <2>2. n \in Job /\ n.op = "none" /\ task' = [task EXCEPT ![p] = n]
    BY <1>2, <2>1, IdleJob DEF Calendar!Crash, Calendar!End, Calendar!Become
  <2>3. SeenTo(last, Window(last, far), EverShown(show), n)
    BY <2>2, IdleSees
  <2> QED BY <1>1, <2>2, <2>3, StillSees
<1>3. CASE Calendar(D, A, C, M, F)!Fail(p)
  <2> DEFINE r == task[p]
             q == [r EXCEPT !.late = TRUE]
  <2>1. r \in Job /\ JobOK(show, room, r) /\ r.at \in OnDay /\ r.op \in {"shows", "rooms"}
        /\ SeenTo(last, Window(last, far), EverShown(show), r)
    BY <1>3, TaskOf DEF Calendar!Fail, OnDay, OfOp, SeesTo
  <2>2. q \in Job /\ JobOK(show, room, q) /\ q.at = r.at /\ q.pending = r.pending /\ Late(q)
    <3>1. q \in Job /\ q.at = r.at /\ q.pending = r.pending /\ Late(q)
      BY <2>1 DEF Job, Late
    <3>2. JobOK(show, room, q)
      BY <2>1, SameOnRows
    <3> QED BY <3>1, <3>2
  <2>3. r.pending \subseteq 1..last
    BY <2>1 DEF SeenTo
  <2>4. PICK n : n = Calendar(D, A, C, M, F)!Following(q)
    OBVIOUS
  <2>5. PICK m : m = Calendar(D, A, C, M, F)!Aborted(r)
    OBVIOUS
  <2>6. task' = [task EXCEPT ![p] = n] \/ task' = [task EXCEPT ![p] = m]
    BY <1>3, <2>1, <2>4, <2>5 DEF Calendar!Fail, Calendar!Become, Calendar!Disturbed
  <2> HIDE DEF q
  <2>7. n \in Job /\ SeenTo(last, Window(last, far), EverShown(show), n)
    BY <2>1, <2>2, <2>3, <2>4, FollowingJob, FollowingSees
  <2>8. m \in Job /\ SeenTo(last, Window(last, far), EverShown(show), m)
    BY <2>1, <2>5, AbortedJob, AbortedSees
  <2> QED BY <1>1, <2>6, <2>7, <2>8, StillSees
<1> QED BY <1>2, <1>3

LEMMA DraftSees ==
  ASSUME NEW last, NEW far, SeriesInv, SeesTo(last, far), NEW D, NEW A, NEW C, NEW M, NEW F, NEW p \in Clients,
         Calendar(D, A, C, M, F)!Draft(p)
  PROVE  SeesTo(last, far)'
<1> DEFINE r == task[p]
           i == Len(show) + 1
           row == [series |-> r.s, day |-> r.day, was |-> {r.day}, status |-> "live", room |-> 0]
           ever == EverShown(show) \cup {r.day}
<1>1. /\ r \in Job /\ JobOK(show, room, r) /\ r.at = "day" /\ r.op = "shows" /\ r.at \in OnDay /\ r.s = Gigs
      /\ UNCHANGED <<today, series>>
  BY TaskOf DEF Calendar!Draft, Calendar!At, OnDay, RunOK
<1>2. r.pending \subseteq 1..last /\ (Late(r) \/ Window(last, far) \subseteq EverShown(show) \cup r.pending)
  <2>1. SeenTo(last, Window(last, far), EverShown(show), r)
    BY DEF SeesTo
  <2> QED BY <1>1, <2>1 DEF SeenTo
<1>3. PICK m : m = Calendar(D, A, C, M, F)!Aborted(r)
  OBVIOUS
<1>4. CASE task' = [task EXCEPT ![p] = m] /\ UNCHANGED show
  <2>1. m \in Job /\ SeenTo(last, Window(last, far), EverShown(show), m)
    BY <1>1, <1>3, AbortedJob, AbortedSees
  <2> QED BY <1>1, <1>4, <2>1, StillSees
<1>5. PICK f : f = Calendar(D, A, C, M, F)!Following(r)
  OBVIOUS
<1>6. ASSUME show' = Append(show, row),
             task' = [task EXCEPT ![p] = IF r.holds THEN [r EXCEPT !.at = "room", !.show = Len(show')] ELSE f]
      PROVE  SeesTo(last, far)'
  <2>1. row \in ShowRow /\ row.day = r.day /\ row.was = {r.day}
    BY <1>1 DEF ShowRow, Job
  <2> HIDE DEF row
  <2>2. /\ DOMAIN show' = DOMAIN show \cup {i} /\ Len(show') = i /\ i \in Nat
        /\ \A j \in DOMAIN show : show'[j] = show[j]
        /\ show'[i] = row
    BY <1>6, <2>1, Appended, RowsOf DEF SeriesInv, SeriesTypes
  <2>3. DaysShown' /\ EverShown(show) \subseteq EverShown(show')
    <3>1. show'[i].day \in show'[i].was
      BY <2>1, <2>2
    <3>2. \A j \in DOMAIN show : j \in DOMAIN show' /\ show[j].was \subseteq show'[j].was
      BY <2>2
    <3>3. \A j \in DOMAIN show' : j # i => j \in DOMAIN show /\ show'[j] = show[j]
      BY <2>2
    <3> HIDE DEF i
    <3> QED BY <3>1, <3>2, <3>3, DaysKept DEF SeesTo
  <2>4. r.day \in EverShown(show')
    BY <2>1, <2>2 DEF EverShown
  <2>5. PICK n \in Job : task' = [task EXCEPT ![p] = n] /\ SeenTo(last, Window(last, far), EverShown(show'), n)
    <3>1. Late(r) \/ Window(last, far) \subseteq EverShown(show') \cup (r.pending \ {r.day})
      BY <1>2, <2>3, <2>4
    <3>2. CASE r.holds
      <4> DEFINE n == [r EXCEPT !.at = "room", !.show = i]
      <4>1. n \in Job
        BY <1>1, <2>2 DEF Job, JobLabels, OnShow
      <4>2. n.at = "room" /\ n.op = "shows" /\ n.pending = r.pending /\ n.day = r.day /\ (Late(n) <=> Late(r))
        BY <1>1 DEF Job, Late
      <4>3. task' = [task EXCEPT ![p] = n]
        BY <1>6, <2>2, <3>2
      <4> HIDE DEF n
      <4>4. SeenTo(last, Window(last, far), EverShown(show'), n)
        BY <1>2, <3>1, <4>2 DEF SeenTo, OnDay
      <4> QED BY <4>1, <4>3, <4>4
    <3>3. CASE ~r.holds
      <4>1. f \in Job /\ SeenTo(last, Window(last, far), EverShown(show'), f)
        BY <1>1, <1>2, <1>5, <3>1, FollowingJob, FollowingSees
      <4> QED BY <1>6, <3>3, <4>1
    <3> QED BY <3>2, <3>3
  <2>6. task'[p] = n /\ OthersAs(p)
    BY <2>5, SoleTask
  <2>7. Window(last, far)' = Window(last, far)
    BY <1>1 DEF Window
  <2>8. Window(last, far)' \subseteq Window(last, far) /\ SeenTo(last, Window(last, far)', EverShown(show'), task'[p])
    BY <2>5, <2>6, <2>7
  <2> QED BY <2>3, <2>6, <2>8, OneSees
<1> QED BY <1>3, <1>4, <1>5, <1>6 DEF Calendar!Draft, Calendar!Become

LEMMA LinkSees ==
  ASSUME NEW last, NEW far, SeriesInv, SeesTo(last, far), NEW D, NEW A, NEW C, NEW M, NEW F, NEW p \in Clients,
         Calendar(D, A, C, M, F)!Link(p)
  PROVE  SeesTo(last, far)'
<1> DEFINE r == task[p]
           i == r.show
           row == [show[i] EXCEPT !.room = r.room]
<1>1. r.at = "link" /\ r.at \in OnShow /\ r.at \in OnDay /\ UNCHANGED <<today, series>>
  BY DEF Calendar!Link, Calendar!At, OnShow, OnDay
<1>2. r \in Job /\ JobOK(show, room, r) /\ i \in DOMAIN show /\ show[i] \in ShowRow
  BY <1>1, AtShow, TaskOf
<1>3. PICK f : f = Calendar(D, A, C, M, F)!Following(r)
  OBVIOUS
<1>4. f \in Job /\ SeenTo(last, Window(last, far), EverShown(show), f)
  BY <1>1, <1>2, <1>3, FollowingJob, GoesOn
<1>5. task' = [task EXCEPT ![p] = f]
  BY <1>3 DEF Calendar!Link, Calendar!Become
<1>6. DaysShown' /\ EverShown(show) \subseteq EverShown(show')
  <2>1. row.was = show[i].was /\ row.day = show[i].day
    BY <1>2 DEF ShowRow
  <2>2. UNCHANGED show \/ show' = [show EXCEPT ![i] = row]
    BY DEF Calendar!Link, Calendar!SetShow, Calendar!Linked
  <2>3. show[i].was \subseteq row.was /\ row.day \in row.was
    BY <1>2, <2>1 DEF SeesTo, DaysShown
  <2> HIDE DEF row, i
  <2> QED BY <1>2, <2>2, <2>3, Written, SameDays DEF SeesTo
<1>7. task'[p] = f /\ OthersAs(p)
  BY <1>4, <1>5, SoleTask
<1>8. Window(last, far)' = Window(last, far)
  BY <1>1 DEF Window
<1>9. SeenTo(last, Window(last, far)', EverShown(show'), task'[p])
  BY <1>2, <1>4, <1>6, <1>7, <1>8, SeenOn
<1> QED BY <1>6, <1>7, <1>8, <1>9, OneSees

(* Members and staff: their requests are not runs of the job. *)
LEMMA AsideSees ==
  ASSUME NEW last, NEW far, SeriesInv, SeesTo(last, far), NEW p \in Clients, OthersAs(p),
         task'[p].op \notin {"shows", "rooms"}, today' = today,
         series'[Gigs] = series[Gigs] \/ series'[Gigs].state # "active",
         DaysShown' /\ EverShown(show) \subseteq EverShown(show')
  PROVE  SeesTo(last, far)'
<1>1. SeenTo(last, Window(last, far)', EverShown(show'), task'[p])
  BY IdleSees
<1>2. Window(last, far)' \subseteq Window(last, far)
  BY SameWindow
<1> QED BY <1>1, <1>2, OneSees

LEMMA StoppedGigs ==
  ASSUME SeriesInv, NEW D, NEW A, NEW C, NEW M, NEW F, NEW ss, Calendar(D, A, C, M, F)!Stop(ss)
  PROVE  series'[Gigs] = series[Gigs] \/ series'[Gigs].state # "active"
<1>1. series'[Gigs] = series[Gigs] \/ series'[Gigs] = [series[Gigs] EXCEPT !.state = "cancelled"]
  BY DEF Calendar!Stop, Calendar!Series
<1> QED BY <1>1 DEF SeriesInv, SeriesTypes, SeriesRows

LEMMA NotTheJob ==
  ASSUME SeriesInv, NEW p \in Clients, task[p].at \notin OnDay \cup {"series"}
  PROVE  task[p].op \notin {"shows", "rooms"}
BY TaskOf DEF OfOp

LEMMA MemberSees ==
  ASSUME NEW last, NEW far, SeriesInv, SeesTo(last, far), NEW D, NEW A, NEW C, NEW M, NEW F, NEW p \in Clients,
         \/ \E s \in RoomSeries, d \in Calendar(D, A, C, M, F)!Days : Calendar(D, A, C, M, F)!Book(p, s, d)
         \/ Calendar(D, A, C, M, F)!First(p) \/ Calendar(D, A, C, M, F)!Register(p)
         \/ \E s \in Calendar(D, A, C, M, F)!Series : Calendar(D, A, C, M, F)!CancelSeries(p, s)
         \/ Calendar(D, A, C, M, F)!Lapse(p) \/ Calendar(D, A, C, M, F)!Unsubscribe(p)
         \/ \E r \in DOMAIN room : Calendar(D, A, C, M, F)!CancelRoom(p, r)
         \/ \E d \in Calendar(D, A, C, M, F)!Days : Calendar(D, A, C, M, F)!BookOther(p, d)
  PROVE  SeesTo(last, far)'
<1>1. today' = today /\ UNCHANGED show
  BY DEF Calendar!Book, Calendar!First, Calendar!Register, Calendar!CancelSeries, Calendar!Lapse,
         Calendar!Unsubscribe, Calendar!CancelRoom, Calendar!BookOther, Calendar!db
<1>2. DaysShown' /\ EverShown(show) \subseteq EverShown(show')
  BY <1>1, SameDays DEF SeesTo
<1>3. series'[Gigs] = series[Gigs] \/ series'[Gigs].state # "active"
  <2>1. CASE \/ \E s \in Calendar(D, A, C, M, F)!Series : Calendar(D, A, C, M, F)!CancelSeries(p, s)
             \/ Calendar(D, A, C, M, F)!Lapse(p)
    BY <2>1, StoppedGigs DEF Calendar!CancelSeries, Calendar!Lapse
  <2>2. CASE Calendar(D, A, C, M, F)!Register(p)
    <3>1. task[p].at = "register" /\ series' = [series EXCEPT ![task[p].s] =
            [state |-> "active", proto |-> task[p].room, from |-> task[p].day]]
      BY <2>2 DEF Calendar!Register, Calendar!At
    <3>2. task[p].s # Gigs
      BY <3>1, TaskOf DEF RunOK
    <3> QED BY <3>1, <3>2 DEF SeriesInv, SeriesTypes, SeriesRows
  <2>3. CASE series' = series
    BY <2>3
  <2> QED BY <2>1, <2>2, <2>3 DEF Calendar!Book, Calendar!First, Calendar!Unsubscribe, Calendar!CancelRoom,
                                  Calendar!BookOther, Calendar!db
<1>4. OthersAs(p) /\ task'[p].op \notin {"shows", "rooms"}
  <2>1. CASE Calendar(D, A, C, M, F)!Register(p) \/ Calendar(D, A, C, M, F)!Unsubscribe(p)
    <3>1. task' = [task EXCEPT ![p] = Calendar(D, A, C, M, F)!Idle]
      BY <2>1 DEF Calendar!Register, Calendar!Unsubscribe, Calendar!End, Calendar!Become
    <3> QED BY <3>1, IdleJob, SoleTask
  <2>2. CASE UNCHANGED task /\ Calendar(D, A, C, M, F)!Call(p)
    BY <2>2, Free DEF OthersAs
  <2>3. CASE Calendar(D, A, C, M, F)!First(p)
    <3>1. PICK x : task' = [task EXCEPT ![p] = [task[p] EXCEPT !.at = "register", !.room = x]]
      BY <2>3 DEF Calendar!First, Calendar!Become
    <3>2. task[p].at = "first"
      BY <2>3 DEF Calendar!First, Calendar!At
    <3>3. task[p].op \notin {"shows", "rooms"}
      BY <3>2, NotTheJob DEF OnDay
    <3> QED BY <3>1, <3>3, TaskOf DEF OthersAs, Job, SeriesInv, SeriesTypes
  <2>4. CASE Calendar(D, A, C, M, F)!Lapse(p)
    <3>1. task' = [task EXCEPT ![p] = [Calendar(D, A, C, M, F)!Idle EXCEPT !.at = "unsubscribe", !.op = "lapse"]]
      BY <2>4 DEF Calendar!Lapse, Calendar!Become
    <3> QED BY <3>1 DEF OthersAs, Calendar!Idle, SeriesInv, SeriesTypes
  <2>5. ASSUME NEW s \in RoomSeries, NEW d \in Calendar(D, A, C, M, F)!Days, Calendar(D, A, C, M, F)!Book(p, s, d)
        PROVE  OthersAs(p) /\ task'[p].op \notin {"shows", "rooms"}
    <3>1. task' = [task EXCEPT ![p] =
                     [Calendar(D, A, C, M, F)!Idle EXCEPT !.at = "first", !.op = "book", !.s = s, !.day = d]]
      BY <2>5 DEF Calendar!Book, Calendar!Become
    <3> QED BY <3>1 DEF OthersAs, Calendar!Idle, SeriesInv, SeriesTypes
  <2> QED BY <2>1, <2>2, <2>3, <2>4, <2>5 DEF Calendar!CancelSeries, Calendar!CancelRoom, Calendar!BookOther
<1> QED BY <1>1, <1>2, <1>3, <1>4, AsideSees

LEMMA OpenSees ==
  ASSUME NEW last, NEW far, SeriesInv, SeesTo(last, far), NEW D, NEW A, NEW C, NEW M, NEW F, NEW p \in Clients,
         NEW i \in DOMAIN show,
         \/ Calendar(D, A, C, M, F)!CancelShow(p, i) \/ Calendar(D, A, C, M, F)!RemoveShow(p, i)
         \/ \E d \in Calendar(D, A, C, M, F)!Days :
              \/ Calendar(D, A, C, M, F)!MoveShow(p, i, d)
              \/ \E o \in BOOLEAN : Calendar(D, A, C, M, F)!RebookShow(p, i, d, o)
  PROVE  SeesTo(last, far)'
<1>1. PICK op \in {"cancel", "remove", "update", "rebook"} :
        \E label, d : Calendar(D, A, C, M, F)!Open(p, i, op, label, d)
  BY DEF Calendar!CancelShow, Calendar!RemoveShow, Calendar!MoveShow, Calendar!RebookShow
<1>2. PICK label, d : Calendar(D, A, C, M, F)!Open(p, i, op, label, d)
  BY <1>1
<1>3. UNCHANGED <<today, series, show>>
  BY <1>2 DEF Calendar!Open, Calendar!db
<1>4. task' = [task EXCEPT ![p] = [Calendar(D, A, C, M, F)!Idle EXCEPT
                 !.at = label, !.op = op, !.show = i, !.room = show[i].room, !.day = d]]
  BY <1>2 DEF Calendar!Open, Calendar!Become
<1>5. OthersAs(p) /\ task'[p].op \notin {"shows", "rooms"}
  BY <1>4 DEF OthersAs, Calendar!Idle, SeriesInv, SeriesTypes
<1>6. DaysShown' /\ EverShown(show) \subseteq EverShown(show')
  BY <1>3, SameDays DEF SeesTo
<1> QED BY <1>3, <1>5, <1>6, AsideSees

LEMMA StaffSees ==
  ASSUME NEW last, NEW far, SeriesInv, SeesTo(last, far), NEW D, NEW A, NEW C, NEW M, NEW F, NEW p \in Clients,
         \/ Calendar(D, A, C, M, F)!WriteCancel(p) \/ Calendar(D, A, C, M, F)!CheckClash(p)
         \/ Calendar(D, A, C, M, F)!FreeRoom(p) \/ Calendar(D, A, C, M, F)!Delete(p)
         \/ Calendar(D, A, C, M, F)!Rehold(p) \/ Calendar(D, A, C, M, F)!WriteUpdate(p)
  PROVE  SeesTo(last, far)'
<1> DEFINE r == task[p]
           i == r.show
<1>1. r.at \in {"cancel", "clash", "free", "delete", "rehold", "write"} /\ UNCHANGED <<today, series>>
  BY DEF Calendar!WriteCancel, Calendar!CheckClash, Calendar!FreeRoom, Calendar!Delete, Calendar!Rehold,
         Calendar!WriteUpdate, Calendar!At, Calendar!db
<1>2. r \in Job /\ r.op \notin {"shows", "rooms"} /\ i \in DOMAIN show /\ show[i] \in ShowRow
  BY <1>1, AtShow, NotTheJob DEF OnShow, OnDay
<1>3. DaysShown' /\ EverShown(show) \subseteq EverShown(show')
  <2>1. PICK row : /\ \/ row.was = show[i].was /\ row.day = show[i].day
                      \/ row.was = show[i].was \cup {row.day}
                   /\ UNCHANGED show \/ show' = [show EXCEPT ![i] = row]
    <3>1. CASE UNCHANGED show
      BY <3>1
    <3>2. CASE show' = [show EXCEPT ![i].status = "cancelled"]
      <4> DEFINE row == [show[i] EXCEPT !.status = "cancelled"]
      <4>1. row.was = show[i].was /\ row.day = show[i].day
        BY <1>2 DEF ShowRow
      <4>2. show' = [show EXCEPT ![i] = row]
        BY <3>2
      <4> HIDE DEF row
      <4> QED BY <4>1, <4>2
    <3>3. CASE show' = [show EXCEPT ![i].status = "removed"]
      <4> DEFINE row == [show[i] EXCEPT !.status = "removed"]
      <4>1. row.was = show[i].was /\ row.day = show[i].day
        BY <1>2 DEF ShowRow
      <4>2. show' = [show EXCEPT ![i] = row]
        BY <3>3
      <4> HIDE DEF row
      <4> QED BY <4>1, <4>2
    <3>4. CASE Calendar(D, A, C, M, F)!WriteUpdate(p)
      <4>1. PICK x : UNCHANGED show \/ show' = [show EXCEPT ![i] =
                       [show[i] EXCEPT !.day = r.day, !.was = show[i].was \cup {r.day}, !.room = x]]
        BY <3>4 DEF Calendar!WriteUpdate, Calendar!SetShow
      <4> DEFINE row == [show[i] EXCEPT !.day = r.day, !.was = show[i].was \cup {r.day}, !.room = x]
      <4>2. row.was = show[i].was \cup {row.day}
        BY <1>2 DEF ShowRow
      <4>3. UNCHANGED show \/ show' = [show EXCEPT ![i] = row]
        BY <4>1
      <4> HIDE DEF row
      <4> QED BY <4>2, <4>3
    <3> QED BY <3>1, <3>2, <3>3, <3>4 DEF Calendar!WriteCancel, Calendar!CheckClash, Calendar!FreeRoom,
               Calendar!Delete, Calendar!Rehold, Calendar!db
  <2>2. show[i].was \subseteq row.was /\ row.day \in row.was
    BY <1>2, <2>1 DEF SeesTo, DaysShown
  <2> HIDE DEF i
  <2> QED BY <1>2, <2>1, <2>2, Written, SameDays DEF SeesTo
<1>4. OthersAs(p) /\ task'[p].op \notin {"shows", "rooms"}
  <2>1. PICK idle : idle = Calendar(D, A, C, M, F)!Idle
    OBVIOUS
  <2>2. idle.op \notin {"shows", "rooms"}
    BY <2>1, IdleJob
  <2>3. CASE task' = [task EXCEPT ![p] = idle]
    BY <2>2, <2>3 DEF OthersAs, SeriesInv, SeriesTypes
  <2>4. ASSUME NEW label, task' = [task EXCEPT ![p] = [r EXCEPT !.at = label]]
        PROVE  OthersAs(p) /\ task'[p].op \notin {"shows", "rooms"}
    <3>1. task'[p] = [r EXCEPT !.at = label] /\ OthersAs(p)
      BY <2>4 DEF OthersAs, SeriesInv, SeriesTypes
    <3> HIDE DEF r
    <3> QED BY <1>2, <3>1 DEF Job
  <2>5. CASE Calendar(D, A, C, M, F)!Rehold(p)
    <3>1. PICK x : task' = [task EXCEPT ![p] = [r EXCEPT !.at = "write", !.room = x]]
      BY <2>5 DEF Calendar!Rehold, Calendar!Become
    <3>2. task'[p] = [r EXCEPT !.at = "write", !.room = x] /\ OthersAs(p)
      BY <3>1 DEF OthersAs, SeriesInv, SeriesTypes
    <3> HIDE DEF r
    <3> QED BY <1>2, <3>2 DEF Job
  <2>6. CASE Calendar(D, A, C, M, F)!WriteUpdate(p)
    <3>1. task'[p] = idle /\ OthersAs(p)
      BY <2>1, <2>6 DEF Calendar!WriteUpdate, Calendar!End, Calendar!Become, Calendar!Disturbed, OthersAs,
                        SeriesInv, SeriesTypes
    <3> QED BY <2>2, <3>1
  <2>7. CASE Calendar(D, A, C, M, F)!WriteCancel(p) \/ Calendar(D, A, C, M, F)!CheckClash(p)
             \/ Calendar(D, A, C, M, F)!Delete(p)
    <3>1. task' = [task EXCEPT ![p] = idle] \/ \E label : task' = [task EXCEPT ![p] = [r EXCEPT !.at = label]]
      BY <2>1, <2>7 DEF Calendar!WriteCancel, Calendar!CheckClash, Calendar!Delete, Calendar!End, Calendar!Become
    <3> QED BY <2>3, <2>4, <3>1
  <2>8. CASE Calendar(D, A, C, M, F)!FreeRoom(p)
    <3>1. r.op \in {"cancel", "remove", "rebook"}
      BY <1>2, <2>8, TaskOf DEF Calendar!FreeRoom, Calendar!At, OfOp
    <3>2. task' = [task EXCEPT ![p] = idle] \/ \E label : task' = [task EXCEPT ![p] = [r EXCEPT !.at = label]]
      BY <2>1, <2>8, <3>1 DEF Calendar!FreeRoom, Calendar!End, Calendar!Become
    <3> QED BY <2>3, <2>4, <3>2
  <2> QED BY <2>5, <2>6, <2>7, <2>8
<1> QED BY <1>1, <1>3, <1>4, AsideSees

(* At midnight every run has missed something. *)
LEMMA TickSees ==
  ASSUME NEW last, NEW far, SeriesInv, SeesTo(last, far), NEW D, NEW A, NEW C, NEW M, NEW F,
         Calendar(D, A, C, M, F)!Tick
  PROVE  SeesTo(last, far)'
<1>1. UNCHANGED show /\ task' = [q \in Clients |-> Calendar(D, A, C, M, F)!Disturbed(task[q])]
  BY DEF Calendar!Tick, Calendar!db
<1>2. ASSUME NEW q \in Clients
      PROVE  SeenTo(last, Window(last, far)', EverShown(show'), task'[q])
  <2>1. task[q] \in Job /\ SeenTo(last, Window(last, far), EverShown(show), task[q])
    BY TaskOf DEF SeesTo
  <2>2. CASE task[q].op \in {"shows", "rooms"}
    <3>1. task'[q] = [task[q] EXCEPT !.late = TRUE]
      BY <1>1, <2>2 DEF Calendar!Disturbed
    <3>2. /\ task'[q].at = task[q].at /\ task'[q].op = task[q].op /\ task'[q].pending = task[q].pending
          /\ Late(task'[q])
      BY <2>1, <3>1 DEF Job, Late
    <3> QED BY <2>1, <3>2 DEF SeenTo
  <2>3. CASE task[q].op \notin {"shows", "rooms"}
    <3>1. task'[q] = task[q]
      BY <1>1, <2>3 DEF Calendar!Disturbed
    <3> QED BY <2>3, <3>1, IdleSees
  <2> QED BY <2>2, <2>3
<1>3. DaysShown'
  BY <1>1, SameDays DEF SeesTo
<1> QED BY <1>2, <1>3 DEF SeesTo

LEMMA SeesStep ==
  ASSUME SeriesInv, NEW D \in Nat, NEW A, SeesTo(D, A), NEW C, NEW M, NEW F, Calendar(D, A, C, M, F)!Next
  PROVE  SeesTo(D, A)'
<1>1. ASSUME NEW p \in Clients, Calendar(D, A, C, M, F)!Work(p) PROVE SeesTo(D, A)'
  <2>1. CASE Calendar(D, A, C, M, F)!StartRun(p) \/ Calendar(D, A, C, M, F)!Generate(p)
    BY <2>1, PassSees, TakeSeriesSees, DraftSees, LinkSees, CheckSees, InsertSees DEF Calendar!Generate
  <2>2. CASE Calendar(D, A, C, M, F)!Serve(p)
    BY <2>2, MemberSees, StaffSees DEF Calendar!Serve
  <2> QED BY <1>1, <2>1, <2>2 DEF Calendar!Work
<1>2. ASSUME NEW p \in Clients,
             \/ \E s \in RoomSeries, d \in Calendar(D, A, C, M, F)!Days : Calendar(D, A, C, M, F)!Book(p, s, d)
             \/ \E s \in Calendar(D, A, C, M, F)!Series : Calendar(D, A, C, M, F)!CancelSeries(p, s)
             \/ Calendar(D, A, C, M, F)!Lapse(p)
             \/ \E r \in DOMAIN room : Calendar(D, A, C, M, F)!CancelRoom(p, r)
             \/ \E d \in Calendar(D, A, C, M, F)!Days : Calendar(D, A, C, M, F)!BookOther(p, d)
      PROVE  SeesTo(D, A)'
  BY <1>2, MemberSees
<1>3. ASSUME NEW p \in Clients, NEW i \in DOMAIN show,
             \/ Calendar(D, A, C, M, F)!CancelShow(p, i) \/ Calendar(D, A, C, M, F)!RemoveShow(p, i)
             \/ \E d \in Calendar(D, A, C, M, F)!Days :
                  \/ Calendar(D, A, C, M, F)!MoveShow(p, i, d)
                  \/ \E o \in BOOLEAN : Calendar(D, A, C, M, F)!RebookShow(p, i, d, o)
      PROVE  SeesTo(D, A)'
  BY <1>3, OpenSees
<1>4. ASSUME NEW p \in Clients, Calendar(D, A, C, M, F)!Fail(p) \/ Calendar(D, A, C, M, F)!Crash(p)
      PROVE  SeesTo(D, A)'
  BY <1>4, FailSees
<1>5. CASE Calendar(D, A, C, M, F)!Tick
  BY <1>5, TickSees
<1> QED BY <1>1, <1>2, <1>3, <1>4, <1>5 DEF Calendar!Next, Calendar!Called

LEMMA SeesStays ==
  ASSUME NEW last, NEW far, SeesTo(last, far), UNCHANGED seriesVars
  PROVE  SeesTo(last, far)'
<1>1. UNCHANGED <<today, series, show, task>>
  BY DEF seriesVars
<1> QED BY <1>1 DEF SeesTo, DaysShown, Window

LEMMA SeesBegins ==
  ASSUME NEW last, NEW far, NEW D, NEW A, NEW C, NEW M, NEW F, Calendar(D, A, C, M, F)!Init
  PROVE  SeesTo(last, far)
<1>1. PICK d, x : show = <<[series |-> Gigs, day |-> d, was |-> {d}, status |-> "live", room |-> x]>>
  BY Zenon DEF Calendar!Init
<1>2. DaysShown
  BY <1>1 DEF DaysShown
<1>3. task = [p \in Clients |-> Calendar(D, A, C, M, F)!Idle]
  BY DEF Calendar!Init
<1>4. \A p \in Clients : task[p].op = "none"
  BY <1>3, IdleJob
<1> QED BY <1>2, <1>4, IdleSees DEF SeesTo

(* The days of one calendar, for a run of the job of another. *)
LEMMA SeenFirst ==
  ASSUME SeriesInv, NEW last, NEW far, SeesTo(last, far), NEW D, NEW A, NEW C, NEW M, NEW F,
         Calendar(D, A, C, M, F)!Occurrences(Gigs) \cap (1..last) \subseteq
           {d \in 1..last : d >= series[Gigs].from /\ today < d /\ d < today + far}
  PROVE  Calendar(D, A, C, M, F)!LetsEventsFirst
<1> SUFFICES ASSUME NEW p \in Clients, task[p].at = "insert", series[Gigs].state = "active",
                    task[p].day \in Calendar(D, A, C, M, F)!Occurrences(Gigs)
             PROVE  task[p].day \in Calendar(D, A, C, M, F)!EverOn(Gigs) \/ task[p].late
  BY DEF Calendar!LetsEventsFirst, Calendar!At, Calendar!Active
<1>1. /\ task[p] \in Job /\ task[p].op = "rooms" /\ task[p].at \in OnDay /\ task[p].day \in task[p].pending
      /\ SeenTo(last, Window(last, far), EverShown(show), task[p])
  BY TaskOf DEF SeesTo, OfOp, RunOK, OnDay
<1>2. task[p].day \in 1..last /\ (Late(task[p]) \/ Window(last, far) \subseteq EverShown(show))
  BY <1>1 DEF SeenTo
<1>3. task[p].day \in Window(last, far)
  BY <1>2 DEF Window
<1>4. EverShown(show) \subseteq Calendar(D, A, C, M, F)!EverOn(Gigs)
  BY RowsOf DEF EverShown, Calendar!EverOn, ShowRow
<1> QED BY <1>2, <1>3, <1>4 DEF Late

(* A show and its hold of the room name each other, in a calendar of any   *)
(* length, whatever the job looks ahead and whatever fails                 *)
(* (processEventSeries, update, cancel, remove).                           *)
THEOREM HoldsMatchTheirShows ==
  ASSUME NEW CONSTANT D \in Nat, NEW CONSTANT A, NEW CONSTANT C, NEW CONSTANT M, NEW CONSTANT F
  PROVE  Calendar(D, A, C, M, F)!Spec => []Calendar(D, A, C, M, F)!HoldsMatchShows
<1>1. Calendar(D, A, C, M, F)!Init => SeriesInv
  BY SeriesBegins
<1>2. SeriesInv /\ [Calendar(D, A, C, M, F)!Next]_(Calendar(D, A, C, M, F)!vars) => SeriesInv'
  BY SeriesStep, SeriesStays DEF Calendar!vars, Calendar!db, seriesVars
<1>3. SeriesInv => Calendar(D, A, C, M, F)!HoldsMatchShows
  BY HoldsMatch
<1> QED BY <1>1, <1>2, <1>3, PTL DEF Calendar!Spec

(* An occurrence is generated once, also when it was cancelled, but for a  *)
(* run that saw its show moved or deleted (existingInstances).             *)
THEOREM GeneratesEachOnce ==
  ASSUME NEW CONSTANT D \in Nat, NEW CONSTANT A, NEW CONSTANT C, NEW CONSTANT M, NEW CONSTANT F
  PROVE  Calendar(D, A, C, M, F)!Spec => Calendar(D, A, C, M, F)!GeneratedOnceUnlessOvertaken
<1>1. Calendar(D, A, C, M, F)!Init => SeriesInv
  BY SeriesBegins
<1>2. SeriesInv /\ [Calendar(D, A, C, M, F)!Next]_(Calendar(D, A, C, M, F)!vars) => SeriesInv'
  BY SeriesStep, SeriesStays DEF Calendar!vars, Calendar!db, seriesVars
<1>3. SeriesInv => Calendar(D, A, C, M, F)!GeneratesOnce
  BY Once
<1> QED BY <1>1, <1>2, <1>3, PTL DEF Calendar!Spec, Calendar!GeneratedOnceUnlessOvertaken

(* No reservation of a series takes the room on a day that a series of     *)
(* events has yet to hold it for, but by a run that missed something       *)
(* (generateRecurring).                                                    *)
THEOREM ShowsBeforeRooms ==
  ASSUME NEW CONSTANT D \in Nat, NEW CONSTANT A, NEW CONSTANT C, NEW CONSTANT M, NEW CONSTANT F
  PROVE  Calendar(D, A, C, M, F)!Spec => Calendar(D, A, C, M, F)!EventsFirst
<1>1. Calendar(D, A, C, M, F)!Init => SeriesInv /\ SeesTo(D, A)
  BY SeriesBegins, SeesBegins
<1>2. /\ SeriesInv /\ SeesTo(D, A) /\ [Calendar(D, A, C, M, F)!Next]_(Calendar(D, A, C, M, F)!vars)
      => SeriesInv' /\ SeesTo(D, A)'
  BY SeriesStep, SeriesStays, SeesStep, SeesStays DEF Calendar!vars, Calendar!db, seriesVars
<1>3. SeriesInv /\ SeesTo(D, A) => Calendar(D, A, C, M, F)!LetsEventsFirst
  <2>1. Calendar(D, A, C, M, F)!Occurrences(Gigs) \cap (1..D) \subseteq
          {d \in 1..D : d >= series[Gigs].from /\ today < d /\ d < today + A}
    BY DEF Calendar!Occurrences, Calendar!Days
  <2> QED BY <2>1, SeenFirst
<1> QED BY <1>1, <1>2, <1>3, PTL DEF Calendar!Spec, Calendar!EventsFirst

-----------------------------------------------------------------------------
(* The instance that is model-checked: a behaviour of it is one of each    *)
(* component, and has what was proved of that component.                   *)

LEMMA LoansRun == MCSpec => Spec
<1>1. MCInit => Init
  BY DEF MCInit
<1>2. [MCNext]_allVars => [Next]_vars
  BY DEF MCNext, allVars
<1> QED BY <1>1, <1>2, PTL DEF MCSpec, Spec

LEMMA MergingRun == MCSpec => Merging!Spec
<1>1. MCInit => Merging!Init
  BY DEF MCInit
<1>2. [MCNext]_allVars => [Merging!Next]_(Merging!mergeVars)
  BY DEF MCNext, allVars, mergingVars, Merging!mergeVars
<1> QED BY <1>1, <1>2, PTL DEF MCSpec, Merging!Spec

(* A merge keeps the votes (mergeSuggestions).                             *)
THEOREM MergedVotesKept == MCSpec => []MergeKeepsVotes
<1>1. Merging!MergeKeepsVotes => MergeKeepsVotes
  BY DEF MergeKeepsVotes
<1> QED BY <1>1, MergingRun, MergesKeepVotes, PTL

(* The parts of the instance that are series, each with its calendar.      *)
MCSeriesInv ==
  /\ part \in {"loans", "merges", "calls", "faults", "days", "closure"}
  /\ SeriesInv
  /\ part \in {"calls", "faults"} => SeesTo(1, 2)
  /\ part \in {"days", "closure"} => SeesTo(2, 3)

LEMMA SeriesRun == MCSpec => []MCSeriesInv
<1>1. MCInit => MCSeriesInv
  BY SeriesBegins, SeesBegins DEF MCInit, MCSeriesInv
<1>2. MCSeriesInv /\ [MCNext]_allVars => MCSeriesInv'
  <2> SUFFICES ASSUME MCSeriesInv, [MCNext]_allVars PROVE MCSeriesInv'
    OBVIOUS
  <2>1. CASE UNCHANGED <<part, seriesVars>>
    BY <2>1, SeriesStays, SeesStays DEF MCSeriesInv
  <2>2. CASE part = "calls" /\ Calendar(1, 2, {}, 2, 0)!Next /\ UNCHANGED part
    BY <2>2, SeriesStep, SeesStep DEF MCSeriesInv
  <2>3. CASE part = "faults" /\ Calendar(1, 2, {}, 1, 1)!Next /\ UNCHANGED part
    BY <2>3, SeriesStep, SeesStep DEF MCSeriesInv
  <2>4. CASE part = "days" /\ Calendar(2, 3, {}, 1, 0)!Next /\ UNCHANGED part
    BY <2>4, SeriesStep, SeesStep DEF MCSeriesInv
  <2>5. CASE part = "closure" /\ Calendar(2, 3, {2}, 1, 0)!Next /\ UNCHANGED part
    BY <2>5, SeriesStep, SeesStep DEF MCSeriesInv
  <2> QED BY <2>1, <2>2, <2>3, <2>4, <2>5 DEF MCNext, allVars
<1> QED BY <1>1, <1>2, PTL DEF MCSpec

(* A show and its hold of the room name each other (processEventSeries,    *)
(* update, cancel, remove).                                                *)
THEOREM HoldsKept == MCSpec => []HoldsMatchShows
<1>1. MCSeriesInv => HoldsMatchShows
  BY HoldsMatch DEF MCSeriesInv, HoldsMatchShows
<1> QED BY <1>1, SeriesRun, PTL

(* An occurrence is generated once (existingInstances).                    *)
THEOREM GeneratedOnce == MCSpec => GeneratedOnceUnlessOvertaken
<1>1. MCSeriesInv /\ [MCNext]_allVars => [Calendar(2, 3, {}, 1, 0)!GeneratesOnce]_seriesVars
  BY Once DEF MCSeriesInv
<1> QED BY <1>1, SeriesRun, PTL DEF MCSpec, GeneratedOnceUnlessOvertaken

(* Events take the room before members' series do (generateRecurring). *)
THEOREM EventsComeFirst == MCSpec => EventsFirst
<1>1. MCSeriesInv /\ [MCNext]_allVars => [Calendar(2, 3, {}, 1, 0)!LetsEventsFirst]_seriesVars
  <2> SUFFICES ASSUME MCSeriesInv, [MCNext]_allVars, seriesVars' # seriesVars
               PROVE  Calendar(2, 3, {}, 1, 0)!LetsEventsFirst
    OBVIOUS
  <2>1. part \in {"calls", "faults"} \/ part \in {"days", "closure"}
    BY DEF MCNext, allVars
  <2>2. CASE part \in {"calls", "faults"}
    <3>1. today \in Nat /\ series[Gigs].from \in Nat
      BY DEF MCSeriesInv, SeriesInv, SeriesTypes, SeriesRows
    <3>2. Calendar(2, 3, {}, 1, 0)!Occurrences(Gigs) \cap (1..1) \subseteq
            {d \in 1..1 : d >= series[Gigs].from /\ today < d /\ d < today + 2}
      BY <3>1 DEF Calendar!Occurrences, Calendar!Days
    <3> QED BY <2>2, <3>2, SeenFirst DEF MCSeriesInv
  <2>3. CASE part \in {"days", "closure"}
    <3>1. Calendar(2, 3, {}, 1, 0)!Occurrences(Gigs) \cap (1..2) \subseteq
            {d \in 1..2 : d >= series[Gigs].from /\ today < d /\ d < today + 3}
      BY DEF Calendar!Occurrences, Calendar!Days
    <3> QED BY <2>3, <3>1, SeenFirst DEF MCSeriesInv
  <2> QED BY <2>1, <2>2, <2>3
<1> QED BY <1>1, SeriesRun, PTL DEF MCSpec, EventsFirst
=============================================================================
