--------------------------- MODULE SettlementProofs ---------------------------
(***************************************************************************)
(* The money of one reservation, for every price, allowance, number of     *)
(* requests and calls: the types, that credits and cash add up to the      *)
(* price, that a paid row owes nothing, that a cancelled one holds nothing *)
(* and that credits are given back once.                                   *)
(***************************************************************************)
EXTENDS ReservationSettlement, TLAPS

(* A request is where its handler leads; it takes no more than the price,  *)
(* and returns or refunds only what there is.                              *)
RequestOK(r) ==
  /\ r.at = "idle" => r = Idle
  /\ r.at # "idle" => r.call \in Calls
  /\ r.at \in Committing \cup {"receipt", "settle", "finish", "reread", "complete"} =>
       r.why \in {"book", "confirm", "pay", "cash"}
  /\ r.at \in Reversing \cup {"cancel", "refund", "stamp"} => r.why \in {"cancel", "refund"}
  /\ r.at = "cancel" => r.why = "cancel" /\ r.seen.status \in Live
  /\ r.at \in {"deduct", "entry", "mark"} => r.units <= Cost
  /\ r.at = "weigh" => r.units > 0
  /\ r.at = "refund" => r.seen.receipt # NoReceipt
TypeInv == TypeOK /\ \A p \in Clients : RequestOK(req[p])

RequestsOK == req' \in [Clients -> Request] /\ \A p \in Clients : RequestOK(req'[p])
(* What the rest of the state has to keep. *)
StoreOK == row' \in Row /\ wallet' \in Nat /\ spent' \in Nat /\ payments' \in [Calls -> Payment]
GhostsOK == /\ commits' \in Nat /\ reversals' \in Nat
            /\ \E X \in SUBSET {"overlap", "comp", "overtaken", "refused", "twoReversals",
                                "capped", "revived", "dead", "cutCommit", "cutCancel"} :
                 blemishes' = blemishes \cup X

USE SettlementAssumption

-----------------------------------------------------------------------------
(* Type correctness. *)

LEMMA IdleOK == Idle \in Request /\ RequestOK(Idle) /\ NewRow \in Row
<1>1. NewRow \in Row
  BY DEF NewRow, Row, Statuses, Live, NotCommitted, NoReceipt
<1> QED
  BY <1>1 DEF Idle, Request, Labels, Reasons, RequestOK, Committing, Reversing

LEMMA BecomeOK ==
  ASSUME TypeInv, NEW p \in Clients, NEW r \in Request, RequestOK(r), Become(p, r)
  PROVE  RequestsOK
BY DEF TypeInv, TypeOK, RequestsOK, Become

LEMMA EndOK ==
  ASSUME TypeInv, NEW p \in Clients, End(p)
  PROVE  RequestsOK
BY IdleOK, BecomeOK DEF End

LEMMA GotoOK ==
  ASSUME TypeInv, NEW p \in Clients, NEW label \in Labels, Goto(p, label),
         RequestOK([req[p] EXCEPT !.at = label])
  PROVE  RequestsOK
<1>1. [req[p] EXCEPT !.at = label] \in Request
  BY DEF TypeInv, TypeOK, Request
<1> QED BY <1>1, BecomeOK DEF Goto

LEMMA KeepRequests ==
  ASSUME TypeInv, UNCHANGED req
  PROVE  RequestsOK
BY DEF TypeInv, TypeOK, RequestsOK

LEMMA KeepStore ==
  ASSUME TypeInv, UNCHANGED <<row, wallet, spent, payments>>
  PROVE  StoreOK
BY DEF TypeInv, TypeOK, StoreOK

LEMMA KeepGhosts ==
  ASSUME TypeInv, UNCHANGED ghosts
  PROVE  GhostsOK
BY DEF TypeInv, TypeOK, GhostsOK, ghosts

LEMMA Combine ==
  ASSUME TypeInv, RequestsOK, StoreOK, GhostsOK, allowance' \in {0, Allowance},
         returned' \in BOOLEAN, calls' \in 0..MaxCalls, upsets' \in 0..MaxUpsets
  PROVE  TypeInv' /\ blemishes \subseteq blemishes'
BY DEF TypeInv, TypeOK, RequestsOK, StoreOK, GhostsOK

LEMMA InitOK == Init => TypeInv
<1> SUFFICES ASSUME Init PROVE TypeInv
  OBVIOUS
<1>1. wallet \in Nat /\ 0 \in 0..MaxCalls /\ 0 \in 0..MaxUpsets
  BY DEF Init
<1>2. payments \in [Calls -> Payment]
  BY DEF Init, Payment
<1> QED BY <1>1, <1>2, IdleOK DEF Init, TypeInv, TypeOK

LEMMA ArriveTyped ==
  ASSUME TypeInv, NEW p \in Clients, NEW why \in Reasons, NEW label \in Labels \ {"idle"},
         Arrive(p, why, label),
         label = "commit" => why \in {"book", "confirm", "pay", "cash"},
         label \in {"cancel", "refund"} => why = label,
         label \in {"commit", "cancel", "refund", "compMark", "compConfirm"},
         label = "cancel" => row.status \in Live, label = "refund" => row.receipt # NoReceipt
  PROVE  TypeInv' /\ blemishes \subseteq blemishes'
<1> DEFINE seen == IF why \in {"confirm", "cancel", "refund"} THEN row ELSE NewRow
           r == [Idle EXCEPT !.at = label, !.why = why, !.call = calls + 1, !.seen = seen]
<1>1. calls + 1 \in Calls /\ calls' \in 0..MaxCalls
  BY DEF Arrive, TypeInv, TypeOK, Calls
<1>2. seen \in Row
  BY IdleOK DEF TypeInv, TypeOK
<1>3. r \in Request
  <2> HIDE DEF seen
  <2> QED BY <1>1, <1>2, IdleOK DEF Idle, Request
<1>4. /\ r.at = label /\ r.why = why /\ r.call = calls + 1 /\ r.seen = seen
  BY DEF Idle
<1>5. RequestOK(r)
  <2>1. label \in {"cancel", "refund"} => seen = row
    OBVIOUS
  <2> HIDE DEF r, seen
  <2> QED BY <1>1, <1>4, <2>1 DEF RequestOK, Committing, Reversing
<1>6. RequestsOK
  BY <1>3, <1>5, BecomeOK DEF Arrive
<1> QED
  BY <1>1, <1>6, KeepStore, KeepGhosts, Combine DEF Arrive, accounts, ghosts, TypeInv, TypeOK

LEMMA CallTyped ==
  ASSUME TypeInv, NEW p \in Clients, Call(p)
  PROVE  TypeInv' /\ blemishes \subseteq blemishes'
<1>1. CASE Book(p) \/ Confirm(p) \/ Pay(p) \/ CashReceived(p)
  <2>1. PICK why \in {"book", "confirm", "pay", "cash"} : Arrive(p, why, "commit")
    BY <1>1 DEF Book, Confirm, Pay, CashReceived
  <2> QED BY <2>1, ArriveTyped DEF Reasons, Labels, Committing
<1>2. CASE Comp(p)
  <2>1. PICK label \in {"compMark", "compConfirm"} : Arrive(p, "comp", label)
    BY <1>2 DEF Comp
  <2> QED BY <2>1, ArriveTyped DEF Reasons, Labels
<1>3. CASE Cancel(p)
  BY <1>3, ArriveTyped DEF Cancel, Eligible, Reasons, Labels
<1>4. CASE Refund(p)
  BY <1>4, ArriveTyped DEF Refund, Reasons, Labels
<1> QED BY <1>1, <1>2, <1>3, <1>4 DEF Call

LEMMA AfterCommitOK ==
  ASSUME TypeInv, NEW p \in Clients, NEW due, AfterCommit(p, due), req[p].at \in Committing
  PROVE  RequestsOK
<1> DEFINE label == IF due > 0 THEN "finish" ELSE "receipt"
           r == [req[p] EXCEPT !.at = label, !.units = 0]
<1>1. label \in {"finish", "receipt"}
  OBVIOUS
<1> HIDE DEF label
<1>2. req[p] \in Request /\ RequestOK(req[p])
  BY DEF TypeInv, TypeOK
<1>3. r \in Request /\ RequestOK(r)
  BY <1>1, <1>2 DEF Request, Labels, RequestOK, Committing, Reversing
<1>4. Become(p, r)
  BY DEF AfterCommit, label
<1> QED BY <1>3, <1>4, BecomeOK

LEMMA CommitTyped ==
  ASSUME TypeInv, NEW p \in Clients,
         CommitRead(p) \/ BalanceRead(p) \/ Deduct(p) \/ DeductEntry(p) \/ Mark(p)
  PROVE  TypeInv' /\ blemishes \subseteq blemishes'
<1>1. req[p] \in Request /\ RequestOK(req[p]) /\ row \in Row /\ wallet \in Nat /\ spent \in Nat
  BY DEF TypeInv, TypeOK
<1>2. CASE CommitRead(p)
  <2>1. RequestsOK
    <3>1. CASE Goto(p, "balance")
      BY <1>1, <1>2, <3>1, GotoOK DEF CommitRead, At, Labels, RequestOK, Committing, Reversing
    <3> QED BY <1>2, <3>1, AfterCommitOK DEF CommitRead, At, Committing
  <2>2. GhostsOK
    BY <1>2 DEF CommitRead, GhostsOK, TypeInv, TypeOK
  <2> QED BY <1>2, <2>1, <2>2, KeepStore, Combine DEF CommitRead, accounts, bounds, TypeInv, TypeOK
<1>3. CASE BalanceRead(p)
  <2> DEFINE n == Lower(wallet, Cost)
             label == IF n > 0 THEN "deduct" ELSE "mark"
             r == [req[p] EXCEPT !.units = n, !.at = label]
  <2>1. n \in Nat /\ n <= Cost /\ label \in {"deduct", "mark"} /\ Become(p, r)
    BY <1>1, <1>3 DEF BalanceRead, Lower
  <2> HIDE DEF n, label
  <2>2. r \in Request /\ RequestOK(r)
    BY <1>1, <1>3, <2>1 DEF BalanceRead, At, Request, Labels, RequestOK, Committing, Reversing
  <2> QED
    BY <1>3, <2>1, <2>2, BecomeOK, KeepStore, KeepGhosts, Combine
    DEF BalanceRead, accounts, bounds, TypeInv, TypeOK
<1>4. CASE Deduct(p)
  <2>1. RequestsOK
    <3>1. CASE Goto(p, "entry")
      BY <1>1, <1>4, <3>1, GotoOK DEF Deduct, At, Labels, RequestOK, Committing, Reversing
    <3> QED BY <1>4, <3>1, EndOK DEF Deduct
  <2>2. wallet' \in Nat
    BY <1>1, <1>4 DEF Deduct, Affordable, Request
  <2>3. GhostsOK
    BY <1>4 DEF Deduct, GhostsOK, TypeInv, TypeOK
  <2> QED BY <1>4, <2>1, <2>2, <2>3, Combine DEF Deduct, StoreOK, bounds, TypeInv, TypeOK
<1>5. CASE DeductEntry(p)
  <2>1. RequestsOK
    BY <1>1, <1>5, GotoOK DEF DeductEntry, At, Labels, RequestOK, Committing, Reversing
  <2>2. spent' \in Nat
    BY <1>1, <1>5 DEF DeductEntry, Request
  <2> QED BY <1>5, <2>1, <2>2, KeepGhosts, Combine DEF DeductEntry, StoreOK, bounds, TypeInv, TypeOK
<1>6. CASE Mark(p)
  <2>1. RequestsOK
    BY <1>6, AfterCommitOK DEF Mark, At, Committing
  <2>2. Remainder(req[p].units) \in 0..Cost
    BY <1>1, <1>6 DEF Mark, At, Remainder, RequestOK, Request
  <2>3. row' \in Row
    <3> DEFINE due == Remainder(req[p].units)
    <3> HIDE DEF due
    <3>1. row' = [row EXCEPT !.due = due] /\ due \in 0..Cost
      BY <1>6, <2>2 DEF Mark, due
    <3> QED BY <1>1, <3>1 DEF Row
  <2> QED BY <1>6, <2>1, <2>3, KeepGhosts, Combine DEF Mark, StoreOK, accounts, bounds, TypeInv, TypeOK
<1> QED BY <1>2, <1>3, <1>4, <1>5, <1>6

LEMMA RecordOK ==
  ASSUME TypeInv, NEW i \in Calls, NEW kind \in {"none", "session", "cash", "credits"},
         NEW state \in {"open", "paid", "refunded"}, Record(i, kind, state)
  PROVE  payments' \in [Calls -> Payment]
BY DEF Record, TypeInv, TypeOK, Payment

LEMMA SettleTyped ==
  ASSUME TypeInv, NEW p \in Clients,
         \/ SettleReceipt(p) \/ Settle(p) \/ FinishBook(p) \/ FinishConfirm(p) \/ FinishPay(p)
         \/ FinishCash(p) \/ Reread(p) \/ Complete(p) \/ CompConfirm(p) \/ CompMark(p)
  PROVE  TypeInv' /\ blemishes \subseteq blemishes'
<1>1. req[p] \in Request /\ RequestOK(req[p]) /\ row \in Row
  BY DEF TypeInv, TypeOK
<1>2. CASE SettleReceipt(p)
  <2>1. RequestsOK
    BY <1>1, <1>2, GotoOK DEF SettleReceipt, At, Labels, RequestOK, Committing, Reversing
  <2>2. payments' \in [Calls -> Payment]
    BY <1>1, <1>2, RecordOK DEF SettleReceipt, At, RequestOK, TypeInv, TypeOK
  <2> QED
    BY <1>2, <2>1, <2>2, KeepGhosts, Combine
    DEF SettleReceipt, StoreOK, accounts, bounds, TypeInv, TypeOK
<1>3. CASE Settle(p)
  <2>1. RequestsOK
    <3>1. CASE Goto(p, "reread")
      BY <1>1, <1>3, <3>1, GotoOK DEF Settle, At, Labels, RequestOK, Committing, Reversing
    <3> QED BY <1>3, <3>1, EndOK DEF Settle
  <2>2. row' \in Row
    <3> DEFINE i == req[p].call
               receipt == IF payments[i].kind = "credits" THEN i ELSE NoReceipt
    <3>1. receipt \in {NoReceipt} \cup Calls /\ 0 \in 0..Cost
      BY <1>1, <1>3 DEF Settle, At, RequestOK
    <3> HIDE DEF receipt
    <3>2. \/ row' = [row EXCEPT !.status = "confirmed", !.due = 0, !.receipt = receipt]
          \/ row' = row
      BY <1>3 DEF Settle, receipt
    <3> QED BY <1>1, <3>1, <3>2 DEF Row, Statuses, Live
  <2> QED BY <1>3, <2>1, <2>2, KeepGhosts, Combine DEF Settle, StoreOK, accounts, bounds, TypeInv, TypeOK
<1>4. CASE FinishBook(p) \/ FinishConfirm(p) \/ CompMark(p)
  <2>1. row' \in Row
    BY <1>1, <1>4 DEF FinishBook, FinishConfirm, CompMark, Row, Statuses, Live
  <2>2. GhostsOK
    BY <1>4 DEF FinishBook, FinishConfirm, CompMark, GhostsOK, TypeInv, TypeOK, ghosts
  <2>3. RequestsOK
    BY <1>4, EndOK DEF FinishBook, FinishConfirm, CompMark
  <2> QED
    BY <1>4, <2>1, <2>2, <2>3, Combine
    DEF FinishBook, FinishConfirm, CompMark, StoreOK, accounts, bounds, TypeInv, TypeOK
<1>5. CASE FinishPay(p)
  <2>1. payments' \in [Calls -> Payment]
    BY <1>1, <1>5, RecordOK DEF FinishPay, At, RequestOK
  <2> QED
    BY <1>5, <2>1, EndOK, KeepGhosts, Combine
    DEF FinishPay, StoreOK, accounts, bounds, TypeInv, TypeOK
<1>6. CASE FinishCash(p)
  <2> DEFINE r == [req[p] EXCEPT !.at = "complete", !.seen.receipt = req[p].call]
  <2>1. payments' \in [Calls -> Payment] /\ req[p].call \in Calls
    BY <1>1, <1>6, RecordOK DEF FinishCash, At, RequestOK
  <2>2. r \in Request /\ RequestOK(r)
    BY <1>1, <1>6, <2>1 DEF FinishCash, At, Request, Row, Labels, RequestOK, Committing, Reversing
  <2>3. RequestsOK
    BY <1>6, <2>2, BecomeOK DEF FinishCash
  <2> QED
    BY <1>6, <2>1, <2>3, KeepGhosts, Combine
    DEF FinishCash, StoreOK, accounts, bounds, TypeInv, TypeOK
<1>7. CASE Reread(p)
  <2> DEFINE r == [req[p] EXCEPT !.at = "complete", !.seen.receipt = row.receipt]
  <2>1. r \in Request /\ RequestOK(r)
    BY <1>1, <1>7 DEF Reread, At, Request, Row, Labels, RequestOK, Committing, Reversing
  <2> QED
    BY <1>7, <2>1, BecomeOK, KeepStore, KeepGhosts, Combine
    DEF Reread, accounts, bounds, TypeInv, TypeOK
<1>8. CASE Complete(p)
  <2>1. row' \in Row
    <3> DEFINE receipt == req[p].seen.receipt
    <3>1. receipt \in {NoReceipt} \cup Calls /\ 0 \in 0..Cost
      BY <1>1 DEF Request, Row
    <3> HIDE DEF receipt
    <3>2. \/ row' = [row EXCEPT !.status = "completed", !.receipt = receipt, !.paid = TRUE, !.due = 0]
          \/ row' = row
      BY <1>8 DEF Complete, receipt
    <3> QED BY <1>1, <3>1, <3>2 DEF Row, Statuses
  <2> QED
    BY <1>8, <2>1, EndOK, KeepGhosts, Combine DEF Complete, StoreOK, accounts, bounds, TypeInv, TypeOK
<1>9. CASE CompConfirm(p)
  <2>1. row' \in Row
    BY <1>1, <1>9 DEF CompConfirm, Row, Statuses, Live
  <2>2. RequestsOK
    <3>1. CASE Goto(p, "compMark")
      BY <1>1, <1>9, <3>1, GotoOK DEF CompConfirm, At, Labels, RequestOK, Committing, Reversing
    <3> QED BY <1>9, <3>1, EndOK DEF CompConfirm
  <2> QED
    BY <1>9, <2>1, <2>2, KeepGhosts, Combine DEF CompConfirm, StoreOK, accounts, bounds, TypeInv, TypeOK
<1> QED BY <1>2, <1>3, <1>4, <1>5, <1>6, <1>7, <1>8, <1>9

LEMMA ReversedOK ==
  ASSUME TypeInv, NEW p \in Clients, Reversed(p), req[p].at \in Reversing
  PROVE  RequestsOK
<1>1. CASE Goto(p, "stamp")
  <2>1. RequestOK(req[p])
    BY DEF TypeInv
  <2> QED BY <1>1, <2>1, GotoOK DEF Labels, RequestOK, Committing, Reversing
<1> QED BY <1>1, EndOK DEF Reversed

LEMMA ReturnTyped ==
  ASSUME TypeInv, NEW p \in Clients,
         \/ CancelWrite(p) \/ RefundPayment(p) \/ Stamp(p) \/ HookWrite(p)
         \/ ReverseCheck(p) \/ ReverseSum(p) \/ ReverseWeigh(p) \/ ReverseAdd(p) \/ ReverseEntry(p)
  PROVE  TypeInv' /\ blemishes \subseteq blemishes'
<1>1. req[p] \in Request /\ RequestOK(req[p]) /\ row \in Row /\ wallet \in Nat /\ spent \in Nat
  BY DEF TypeInv, TypeOK
<1>2. ASSUME NEW label \in {"refund", "stamp", "reverse", "sum", "addEntry"}, Goto(p, label),
             req[p].at \in {"cancel", "refund"} \cup Reversing, ~At(p, "addEntry"),
             label = "refund" => req[p].seen.receipt # NoReceipt
      PROVE  RequestsOK
  BY <1>1, <1>2, GotoOK DEF Labels, RequestOK, Committing, Reversing
<1>3. CASE CancelWrite(p)
  <2>1. row' \in Row
    BY <1>1, <1>3 DEF CancelWrite, Row, Statuses
  <2>2. RequestsOK
    BY <1>2, <1>3, EndOK DEF CancelWrite, At
  <2>3. GhostsOK
    BY <1>3 DEF CancelWrite, GhostsOK, TypeInv, TypeOK
  <2> QED
    BY <1>3, <2>1, <2>2, <2>3, Combine DEF CancelWrite, StoreOK, accounts, bounds, TypeInv, TypeOK
<1>4. CASE RefundPayment(p)
  <2>1. payments' \in [Calls -> Payment]
    BY <1>1, <1>4 DEF RefundPayment, TypeInv, TypeOK, Payment
  <2>2. RequestsOK
    BY <1>2, <1>4, EndOK DEF RefundPayment, At
  <2>3. GhostsOK
    BY <1>4 DEF RefundPayment, GhostsOK, TypeInv, TypeOK
  <2> QED
    BY <1>4, <2>1, <2>2, <2>3, Combine DEF RefundPayment, StoreOK, accounts, bounds, TypeInv, TypeOK
<1>5. CASE Stamp(p)
  <2>1. row' \in Row
    BY <1>1, <1>5 DEF Stamp, Row
  <2>2. RequestsOK
    <3>1. CASE Goto(p, "reverse")
      BY <1>1, <1>5, <3>1, GotoOK DEF Stamp, At, Labels, RequestOK, Committing, Reversing
    <3> QED BY <1>5, <3>1, EndOK DEF Stamp
  <2> QED BY <1>5, <2>1, <2>2, KeepGhosts, Combine DEF Stamp, StoreOK, accounts, bounds, TypeInv, TypeOK
<1>6. CASE HookWrite(p)
  <2> DEFINE i == req[p].call
  <2>1. i \in Calls
    BY <1>1, <1>6 DEF HookWrite, At, RequestOK
  <2> HIDE DEF i
  <2>2. row' = [row EXCEPT !.status = "confirmed", !.receipt = i, !.paid = TRUE, !.due = 0]
        /\ payments' = [payments EXCEPT ![i].told = TRUE]
    BY <1>6 DEF HookWrite, i
  <2>3. row' \in Row
    <3>1. 0 \in 0..Cost
      OBVIOUS
    <3> QED BY <1>1, <2>1, <2>2, <3>1 DEF Row, Statuses, Live
  <2>4. payments' \in [Calls -> Payment]
    BY <2>2 DEF TypeInv, TypeOK, Payment
  <2>5. GhostsOK
    BY <1>6 DEF HookWrite, GhostsOK, TypeInv, TypeOK
  <2> QED
    BY <1>6, <2>3, <2>4, <2>5, EndOK, Combine DEF HookWrite, StoreOK, accounts, bounds, TypeInv, TypeOK
<1>7. CASE ReverseCheck(p)
  <2>1. RequestsOK
    BY <1>2, <1>7, ReversedOK DEF ReverseCheck, At, Reversing
  <2>2. GhostsOK
    <3> DEFINE two == IF Others(p, Reversing) THEN {"twoReversals"} ELSE {}
               over == IF Others(p, Committing) THEN {"overlap"} ELSE {}
    <3>1. two \cup over \subseteq {"twoReversals", "overlap"}
      OBVIOUS
    <3>2. blemishes' = blemishes \cup (two \cup over)
      BY <1>7 DEF ReverseCheck
    <3> HIDE DEF two, over
    <3> QED BY <1>7, <3>1, <3>2 DEF ReverseCheck, GhostsOK, TypeInv, TypeOK
  <2> QED BY <1>7, <2>1, <2>2, KeepStore, Combine DEF ReverseCheck, accounts, bounds, TypeInv, TypeOK
<1>8. CASE ReverseSum(p)
  <2> DEFINE r == [req[p] EXCEPT !.at = "weigh", !.units = spent]
  <2>1. RequestsOK
    <3>1. CASE spent = 0
      BY <1>8, <3>1, ReversedOK DEF ReverseSum, At, Reversing
    <3>2. CASE spent # 0
      <4>1. spent > 0 /\ req[p].at = "sum"
        BY <1>1, <1>8, <3>2 DEF ReverseSum, At
      <4>2. r \in Request
        BY <1>1 DEF Request, Labels, Committing, Reversing
      <4>3. RequestOK(r)
        BY <1>1, <4>1 DEF Request, RequestOK, Committing, Reversing
      <4> QED BY <1>8, <3>2, <4>2, <4>3, BecomeOK DEF ReverseSum
    <3> QED BY <3>1, <3>2
  <2> QED
    BY <1>8, <2>1, KeepStore, KeepGhosts, Combine DEF ReverseSum, accounts, bounds, TypeInv, TypeOK
<1>9. CASE ReverseWeigh(p)
  <2> DEFINE n == Lower(req[p].units, Room)
             r == [req[p] EXCEPT !.at = "add", !.units = n]
  <2>1. n \in Nat
    <3>1. Room \in Nat
      BY <1>1 DEF Room, TypeInv, TypeOK
    <3> QED BY <1>1, <3>1 DEF Lower, Request
  <2>2. CASE n = 0 /\ Reversed(p)
    BY <1>9, <2>2, ReversedOK, KeepStore, Combine
    DEF ReverseWeigh, At, Reversing, GhostsOK, accounts, bounds, TypeInv, TypeOK
  <2>3. CASE Become(p, r)
    <3> HIDE DEF n
    <3>1. r \in Request /\ RequestOK(r)
      BY <1>1, <1>9, <2>1 DEF ReverseWeigh, At, Request, Labels, RequestOK, Committing, Reversing
    <3> QED
      BY <1>9, <2>3, <3>1, BecomeOK, KeepStore, Combine
      DEF ReverseWeigh, GhostsOK, accounts, bounds, TypeInv, TypeOK
  <2> QED BY <1>9, <2>2, <2>3 DEF ReverseWeigh
<1>10. CASE ReverseAdd(p)
  <2>1. RequestsOK
    BY <1>2, <1>10 DEF ReverseAdd, At, Reversing
  <2>2. wallet' \in Nat /\ GhostsOK
    BY <1>1, <1>10 DEF ReverseAdd, GhostsOK, TypeInv, TypeOK, Request
  <2> QED BY <1>10, <2>1, <2>2, Combine DEF ReverseAdd, StoreOK, bounds, TypeInv, TypeOK
<1>11. CASE ReverseEntry(p)
  BY <1>11, ReversedOK, KeepStore, KeepGhosts, Combine
  DEF ReverseEntry, At, Reversing, bounds, TypeInv, TypeOK
<1> QED BY <1>3, <1>4, <1>5, <1>6, <1>7, <1>8, <1>9, <1>10, <1>11

LEMMA TypeStep == TypeInv /\ [Next]_vars => TypeInv' /\ blemishes \subseteq blemishes'
<1> SUFFICES ASSUME TypeInv, [Next]_vars PROVE TypeInv' /\ blemishes \subseteq blemishes'
  OBVIOUS
<1>1. ASSUME NEW p \in Clients, Crash(p) PROVE TypeInv' /\ blemishes \subseteq blemishes'
  <2>1. GhostsOK
    <3> DEFINE commit == IF req[p].at \in {"entry", "mark"} THEN {"cutCommit"} ELSE {}
               cancel == IF req[p].why \in {"cancel", "refund"} THEN {"cutCancel"} ELSE {}
    <3>1. commit \cup cancel \subseteq {"cutCommit", "cutCancel"}
      OBVIOUS
    <3>2. blemishes' = blemishes \cup (commit \cup cancel)
      BY <1>1 DEF Crash
    <3> HIDE DEF commit, cancel
    <3> QED BY <1>1, <3>1, <3>2 DEF Crash, GhostsOK, TypeInv, TypeOK
  <2>2. upsets' \in 0..MaxUpsets
    BY <1>1 DEF Crash, TypeInv, TypeOK
  <2> QED BY <1>1, <2>1, <2>2, EndOK, KeepStore, Combine DEF Crash, accounts, TypeInv, TypeOK
<1>2. ASSUME NEW i \in Calls, PayOnline(i) PROVE TypeInv' /\ blemishes \subseteq blemishes'
  <2>1. payments' \in [Calls -> Payment]
    BY <1>2 DEF PayOnline, TypeInv, TypeOK, Payment
  <2> QED
    BY <1>2, <2>1, KeepRequests, KeepGhosts, Combine
    DEF PayOnline, StoreOK, accounts, bounds, TypeInv, TypeOK
<1>3. ASSUME NEW i \in Calls, NEW p \in Clients, Hear(p, i)
      PROVE  TypeInv' /\ blemishes \subseteq blemishes'
  <2> DEFINE r == [Idle EXCEPT !.at = "hook", !.why = "hook", !.call = i]
  <2>1. r \in Request /\ RequestOK(r)
    BY IdleOK DEF Idle, Request, Labels, Reasons, RequestOK, Committing, Reversing
  <2>2. RequestsOK
    BY <1>3, <2>1, BecomeOK, KeepRequests DEF Hear
  <2>3. payments' \in [Calls -> Payment]
    <3>1. payments' = payments \/ payments' = [payments EXCEPT ![i].told = TRUE]
      BY <1>3 DEF Hear
    <3>2. payments[i] \in Payment /\ [payments[i] EXCEPT !.told = TRUE] \in Payment
      BY DEF TypeInv, TypeOK, Payment
    <3> QED BY <3>1, <3>2 DEF TypeInv, TypeOK
  <2>4. calls' \in 0..MaxCalls
    BY <1>3 DEF Hear, TypeInv, TypeOK
  <2> QED BY <1>3, <2>2, <2>3, <2>4, KeepGhosts, Combine DEF Hear, StoreOK, accounts, TypeInv, TypeOK
<1>4. CASE Resolve
  <2>1. row' \in Row
    BY <1>4 DEF Resolve, TypeInv, TypeOK, Row, Statuses, Live
  <2> QED
    BY <1>4, <2>1, KeepRequests, KeepGhosts, Combine
    DEF Resolve, StoreOK, accounts, bounds, TypeInv, TypeOK
<1>5. CASE Renew \/ SpendElsewhere \/ Unsubscribe
  <2>1. wallet' \in Nat /\ allowance' \in {0, Allowance}
    BY <1>5 DEF Renew, SpendElsewhere, Unsubscribe, TypeInv, TypeOK
  <2>2. upsets' \in 0..MaxUpsets /\ UNCHANGED <<row, spent, returned, payments, req, calls, ghosts>>
    BY <1>5 DEF Renew, SpendElsewhere, Unsubscribe, Elsewhere, TypeInv, TypeOK
  <2> QED BY <2>1, <2>2, KeepRequests, KeepGhosts, Combine DEF StoreOK, TypeInv, TypeOK
<1>6. CASE UNCHANGED vars
  BY <1>6, KeepRequests, KeepStore, KeepGhosts, Combine DEF vars, accounts, bounds, TypeInv, TypeOK
<1> QED
  BY <1>1, <1>2, <1>3, <1>4, <1>5, <1>6, CallTyped, CommitTyped, SettleTyped, ReturnTyped
  DEF Next, Continue

(* The row, the money and the requests keep their types: the member's      *)
(* wallet is never overdrawn, and no more is due than the price            *)
(* (commitReservationCredits, deductCredits).                              *)
THEOREM TypeCorrect == Spec => []TypeOK
<1>1. TypeInv => TypeOK
  BY DEF TypeInv
<1> QED BY <1>1, InitOK, TypeStep, PTL DEF Spec

-----------------------------------------------------------------------------
(* Who moves, and where it goes. *)

Stays(p) == \A q \in Clients \ {p} : req'[q] = req[q]

LEMMA OthersStay ==
  ASSUME TypeInv, NEW p \in Clients, NEW r, Become(p, r)
  PROVE  Stays(p) /\ req'[p] = r
BY DEF TypeInv, TypeOK, Become, Stays

LEMMA Gone ==
  ASSUME TypeInv, NEW p \in Clients, NEW label, Goto(p, label)
  PROVE  /\ Stays(p) /\ req'[p].at = label /\ req'[p].why = req[p].why
         /\ req'[p].call = req[p].call /\ req'[p].seen = req[p].seen /\ req'[p].units = req[p].units
<1>1. req[p] \in Request
  BY DEF TypeInv, TypeOK
<1> QED BY <1>1, OthersStay DEF Goto, Request

LEMMA Ended ==
  ASSUME TypeInv, NEW p \in Clients, End(p)
  PROVE  Stays(p) /\ req'[p] = Idle /\ req'[p].at = "idle" /\ req'[p].seen.receipt = NoReceipt
BY OthersStay DEF End, Idle, NewRow

LEMMA Arrived ==
  ASSUME TypeInv, NEW p \in Clients, Call(p)
  PROVE  /\ Stays(p) /\ req[p] = Idle /\ req'[p].call = calls + 1 /\ calls' = calls + 1
         /\ req'[p].at \in {"commit", "cancel", "refund", "compMark", "compConfirm"}
         /\ req'[p].at \in {"cancel", "refund"} => req'[p].seen = row
         /\ req'[p].seen \in {row, NewRow}
         /\ UNCHANGED <<row, accounts, payments, ghosts>>
<1>1. PICK why, label :
        /\ Arrive(p, why, label)
        /\ label \in {"commit", "cancel", "refund", "compMark", "compConfirm"}
        /\ label \in {"cancel", "refund"} => why = label
  BY DEF Call, Book, Confirm, Pay, CashReceived, Comp, Cancel, Refund
<1> DEFINE seen == IF why \in {"confirm", "cancel", "refund"} THEN row ELSE NewRow
           r == [Idle EXCEPT !.at = label, !.why = why, !.call = calls + 1, !.seen = seen]
<1>2. r.at = label /\ r.call = calls + 1 /\ r.seen = seen
  BY DEF Idle
<1>3. label \in {"cancel", "refund"} => seen = row
  BY <1>1
<1>4. Become(p, r)
  BY <1>1 DEF Arrive
<1> HIDE DEF r
<1>5. Stays(p) /\ req'[p] = r
  BY <1>4, OthersStay
<1> QED BY <1>1, <1>2, <1>3, <1>5 DEF Arrive

(* The labels that a step of a commit, or of what follows it, leads to.    *)
LEMMA CommitDone ==
  ASSUME TypeInv, NEW p \in Clients, NEW due, AfterCommit(p, due)
  PROVE  /\ Stays(p) /\ req'[p].at = (IF due > 0 THEN "finish" ELSE "receipt")
         /\ req'[p].call = req[p].call /\ req'[p].seen = req[p].seen
<1>1. req[p] \in Request
  BY DEF TypeInv, TypeOK
<1> DEFINE label == IF due > 0 THEN "finish" ELSE "receipt"
           r == [req[p] EXCEPT !.at = label, !.units = 0]
<1>2. r.at = label /\ r.call = req[p].call /\ r.seen = req[p].seen
  BY <1>1 DEF Request
<1>3. Become(p, r)
  BY DEF AfterCommit
<1> HIDE DEF r
<1>4. Stays(p) /\ req'[p] = r
  BY <1>3, OthersStay
<1> QED BY <1>2, <1>4

(* A request that learns an amount, and one that learns a receipt.         *)
LEMMA Learned ==
  ASSUME TypeInv, NEW p \in Clients, NEW label, NEW n,
         Become(p, [req[p] EXCEPT !.at = label, !.units = n])
  PROVE  /\ Stays(p) /\ req'[p].at = label /\ req'[p].units = n
         /\ req'[p].call = req[p].call /\ req'[p].seen = req[p].seen /\ req'[p].why = req[p].why
<1> DEFINE r == [req[p] EXCEPT !.at = label, !.units = n]
<1>1. req[p] \in Request
  BY DEF TypeInv, TypeOK
<1>2. /\ r.at = label /\ r.units = n /\ r.call = req[p].call /\ r.seen = req[p].seen
      /\ r.why = req[p].why
  BY <1>1 DEF Request
<1> HIDE DEF r
<1> QED BY <1>2, OthersStay DEF r

LEMMA ReceiptLearned ==
  ASSUME TypeInv, NEW p \in Clients, NEW i,
         Become(p, [req[p] EXCEPT !.at = "complete", !.seen.receipt = i])
  PROVE  /\ Stays(p) /\ req'[p].at = "complete" /\ req'[p].seen.receipt = i
         /\ req'[p].call = req[p].call
<1> DEFINE r == [req[p] EXCEPT !.at = "complete", !.seen.receipt = i]
<1>1. req[p] \in Request /\ req[p].seen \in Row
  BY DEF TypeInv, TypeOK, Request
<1>2. r.at = "complete" /\ r.call = req[p].call /\ r.seen.receipt = i
  BY <1>1 DEF Request, Row
<1>3. Become(p, r)
  OBVIOUS
<1> HIDE DEF r
<1> QED BY <1>2, <1>3, OthersStay

LEMMA Heard ==
  ASSUME TypeInv, NEW p \in Clients, NEW i, Hear(p, i)
  PROVE  /\ Stays(p) /\ req[p].at = "idle"
         /\ \/ /\ row.status \in Live /\ UNCHANGED payments
               /\ req'[p].at = "hook" /\ req'[p].call = i /\ req'[p].seen = NewRow
            \/ UNCHANGED req /\ payments' = [payments EXCEPT ![i].told = TRUE]
<1> DEFINE r == [Idle EXCEPT !.at = "hook", !.why = "hook", !.call = i]
<1>1. r.at = "hook" /\ r.call = i /\ r.seen = NewRow
  BY DEF Idle
<1> HIDE DEF r
<1>2. req[p].at = "idle"
  BY DEF Hear, Idle
<1>3. CASE Become(p, r) /\ row.status \in Live /\ UNCHANGED payments
  BY <1>1, <1>2, <1>3, OthersStay
<1>4. CASE UNCHANGED req /\ payments' = [payments EXCEPT ![i].told = TRUE]
  BY <1>2, <1>4 DEF Stays
<1> QED BY <1>3, <1>4 DEF Hear, r

LEMMA Weighed ==
  ASSUME TypeInv, NEW p \in Clients, BalanceRead(p)
  PROVE  /\ Stays(p) /\ req'[p].at \in {"deduct", "mark"} /\ (req'[p].at = "mark" => req'[p].units = 0)
         /\ req'[p].call = req[p].call /\ req'[p].seen = req[p].seen
<1> DEFINE n == Lower(wallet, Cost)
           label == IF n > 0 THEN "deduct" ELSE "mark"
<1>1. label \in {"deduct", "mark"} /\ Become(p, [req[p] EXCEPT !.units = n, !.at = label])
  BY DEF BalanceRead
<1>2. label = "mark" => n = 0
  BY DEF Lower, TypeInv, TypeOK
<1> DEFINE r == [req[p] EXCEPT !.units = n, !.at = label]
<1>3. r.at = label /\ r.units = n /\ r.call = req[p].call /\ r.seen = req[p].seen
  <2>1. req[p] \in Request
    BY DEF TypeInv, TypeOK
  <2> HIDE DEF n, label
  <2> QED BY <2>1 DEF Request
<1>4. Stays(p) /\ req'[p] = r
  BY <1>1, OthersStay
<1> HIDE DEF n, label, r
<1> QED BY <1>1, <1>2, <1>3, <1>4

LEMMA CommitMoves ==
  ASSUME TypeInv, NEW p \in Clients,
         CommitRead(p) \/ BalanceRead(p) \/ Deduct(p) \/ DeductEntry(p) \/ Mark(p)
  PROVE  /\ Stays(p) /\ req[p].at \in Committing
         /\ req'[p].at \in Committing \cup {"idle", "receipt", "finish"}
         /\ req'[p].at # "idle" => req'[p].call = req[p].call /\ req'[p].seen = req[p].seen
         /\ req'[p].at = "idle" => req'[p].seen.receipt = NoReceipt
<1>1. CASE CommitRead(p) \/ Mark(p)
  BY <1>1, Gone, CommitDone DEF CommitRead, Mark, At, Committing
<1>2. CASE BalanceRead(p)
  BY <1>2, Weighed DEF BalanceRead, At, Committing
<1>3. CASE Deduct(p) \/ DeductEntry(p)
  BY <1>3, Gone, Ended DEF Deduct, DeductEntry, At, Committing
<1> QED BY <1>1, <1>2, <1>3

SettleLabels == {"receipt", "settle", "finish", "reread", "complete", "compConfirm", "compMark"}

LEMMA SettleMoves ==
  ASSUME TypeInv, NEW p \in Clients,
         \/ SettleReceipt(p) \/ Settle(p) \/ FinishBook(p) \/ FinishConfirm(p) \/ FinishPay(p)
         \/ FinishCash(p) \/ Reread(p) \/ Complete(p) \/ CompConfirm(p) \/ CompMark(p)
  PROVE  /\ Stays(p) /\ req[p].at \in SettleLabels
         /\ req'[p].at \in {"idle", "settle", "reread", "complete", "compMark"}
         /\ req'[p].at = "settle" => SettleReceipt(p)
         /\ req'[p].at # "idle" => req'[p].call = req[p].call
         /\ req'[p].at # "complete" => req'[p].seen.receipt \in {NoReceipt, req[p].seen.receipt}
<1>1. CASE SettleReceipt(p) \/ Settle(p) \/ CompConfirm(p)
  BY <1>1, Gone, Ended DEF SettleReceipt, Settle, CompConfirm, At, SettleLabels
<1>2. CASE FinishCash(p) \/ Reread(p)
  BY <1>2, ReceiptLearned DEF FinishCash, Reread, At, SettleLabels
<1>3. CASE FinishBook(p) \/ FinishConfirm(p) \/ FinishPay(p) \/ Complete(p) \/ CompMark(p)
  BY <1>3, Ended DEF FinishBook, FinishConfirm, FinishPay, Complete, CompMark, At, SettleLabels
<1> QED BY <1>1, <1>2, <1>3

LEMMA ReturnMoves ==
  ASSUME TypeInv, NEW p \in Clients,
         \/ CancelWrite(p) \/ RefundPayment(p) \/ Stamp(p)
         \/ ReverseCheck(p) \/ ReverseSum(p) \/ ReverseWeigh(p) \/ ReverseAdd(p) \/ ReverseEntry(p)
  PROVE  /\ Stays(p) /\ req[p].at \in Reversing \cup {"cancel", "refund", "stamp"}
         /\ req'[p].at \in Reversing \cup {"idle", "refund", "stamp"}
         /\ req'[p].at # "idle" =>
              req'[p].seen = req[p].seen /\ req'[p].why = req[p].why /\ req'[p].call = req[p].call
         /\ req'[p].at = "idle" => req'[p].seen.receipt = NoReceipt
         /\ req'[p].at = "refund" => CancelWrite(p)
<1>1. CASE CancelWrite(p) \/ RefundPayment(p) \/ Stamp(p) \/ ReverseAdd(p)
  BY <1>1, Gone, Ended DEF CancelWrite, RefundPayment, Stamp, ReverseAdd, At, Reversing
<1>2. CASE ReverseSum(p) /\ spent # 0
  <2>1. PICK n : Become(p, [req[p] EXCEPT !.at = "weigh", !.units = n])
    BY <1>2 DEF ReverseSum
  <2>2. /\ Stays(p) /\ req'[p].at = "weigh"
        /\ req'[p].seen = req[p].seen /\ req'[p].why = req[p].why /\ req'[p].call = req[p].call
    BY <2>1, Learned
  <2> QED BY <1>2, <2>2 DEF ReverseSum, At, Reversing
<1>3. CASE ReverseWeigh(p) /\ Lower(req[p].units, Room) # 0
  <2>1. PICK n : Become(p, [req[p] EXCEPT !.at = "add", !.units = n])
    BY <1>3 DEF ReverseWeigh
  <2>2. /\ Stays(p) /\ req'[p].at = "add"
        /\ req'[p].seen = req[p].seen /\ req'[p].why = req[p].why /\ req'[p].call = req[p].call
    BY <2>1, Learned
  <2> QED BY <1>3, <2>2 DEF ReverseWeigh, At, Reversing
<1>4. ASSUME Reversed(p), req[p].at \in Reversing
      PROVE  /\ Stays(p) /\ req'[p].at \in {"idle", "stamp"}
             /\ req'[p].at # "idle" =>
              req'[p].seen = req[p].seen /\ req'[p].why = req[p].why /\ req'[p].call = req[p].call
             /\ req'[p].at = "idle" => req'[p].seen.receipt = NoReceipt
  BY <1>4, Gone, Ended DEF Reversed
<1>5. CASE ReverseCheck(p)
  BY <1>4, <1>5, Gone DEF ReverseCheck, At, Reversing
<1>6. CASE \/ ReverseEntry(p)
           \/ (ReverseSum(p) /\ spent = 0)
           \/ (ReverseWeigh(p) /\ Lower(req[p].units, Room) = 0)
  BY <1>4, <1>6 DEF ReverseEntry, ReverseSum, ReverseWeigh, At, Reversing
<1> QED BY <1>1, <1>2, <1>3, <1>5, <1>6

-----------------------------------------------------------------------------
(* Credits are given back once. Between the check and the ledger's entry   *)
(* there is one request, unless two were under way, and it adds once.      *)

Past == {"sum", "weigh", "add", "addEntry"}
ReturnsOK ==
  /\ reversals <= 1
  /\ reversals = 1 => returned \/ \E p \in Clients : At(p, "addEntry")
  /\ \A p \in Clients : req[p].at \in {"sum", "weigh", "add"} => reversals = 0
  /\ \A p, q \in Clients : req[p].at \in Past /\ req[q].at \in Past => p = q
ReturnInv == Clean({"twoReversals", "cutCancel"}) => ReturnsOK

(* A step of nobody in between, or one that leaves the part in between.    *)
LEMMA NoReturn ==
  ASSUME TypeInv, ReturnsOK, NEW p \in Clients, Stays(p), req'[p].at \notin Past,
         ~At(p, "addEntry") \/ returned', returned => returned', UNCHANGED reversals
  PROVE  ReturnsOK'
BY DEF Stays, ReturnsOK, At, Past

LEMMA SameReturn ==
  ASSUME TypeInv, ReturnsOK, UNCHANGED <<req, returned, reversals>>
  PROVE  ReturnsOK'
BY DEF ReturnsOK, At, Past

LEMMA ReturnSteps ==
  ASSUME TypeInv, ReturnsOK, Clean({"twoReversals", "cutCancel"})', NEW p \in Clients,
         \/ ReverseCheck(p) \/ ReverseSum(p) \/ ReverseWeigh(p) \/ ReverseAdd(p) \/ ReverseEntry(p)
         \/ Crash(p)
  PROVE  ReturnsOK'
<1>1. req[p] \in Request /\ RequestOK(req[p]) /\ reversals \in Nat
  BY DEF TypeInv, TypeOK
<1>2. ASSUME Reversed(p) PROVE Stays(p) /\ req'[p].at \notin Past
  BY <1>2, Gone, Ended DEF Reversed, Past
<1>3. CASE ReverseCheck(p)
  <2>1. CASE returned
    BY <1>2, <1>3, <2>1, NoReturn DEF ReverseCheck, AlreadyReversed, At, accounts
  <2>2. CASE ~returned
    <3>1. Stays(p) /\ req'[p].at = "sum"
      BY <1>3, <2>2, Gone DEF ReverseCheck, AlreadyReversed
    <3>2. \A q \in Clients \ {p} : req[q].at \notin Past
      BY <1>3 DEF ReverseCheck, Clean, Others, Reversing, Past
    <3> QED BY <1>1, <1>3, <2>2, <3>1, <3>2 DEF ReverseCheck, ReturnsOK, Stays, At, Past
  <2> QED BY <2>1, <2>2
<1>4. CASE ReverseSum(p)
  <2>1. CASE spent # 0
    <3>1. Stays(p) /\ req'[p].at = "weigh"
      <4>1. PICK n : Become(p, [req[p] EXCEPT !.at = "weigh", !.units = n])
        BY <1>4, <2>1 DEF ReverseSum
      <4> QED BY <4>1, Learned
    <3> QED BY <1>4, <3>1 DEF ReverseSum, ReturnsOK, Stays, At, Past, ghosts, accounts
  <2> QED BY <1>2, <1>4, <2>1, NoReturn DEF ReverseSum, At, ghosts, accounts
<1>5. CASE ReverseWeigh(p)
  <2>1. CASE Lower(req[p].units, Room) = 0
    BY <1>2, <1>5, <2>1, NoReturn DEF ReverseWeigh, At, accounts
  <2>2. CASE Lower(req[p].units, Room) # 0
    <3>1. Stays(p) /\ req'[p].at = "add"
      <4>1. PICK n : Become(p, [req[p] EXCEPT !.at = "add", !.units = n])
        BY <1>5, <2>2 DEF ReverseWeigh
      <4> QED BY <4>1, Learned
    <3> QED BY <1>5, <3>1 DEF ReverseWeigh, ReturnsOK, Stays, At, Past, accounts
  <2> QED BY <2>1, <2>2
<1>6. CASE ReverseAdd(p)
  BY <1>1, <1>6, Gone DEF ReverseAdd, ReturnsOK, Stays, At, Past
<1>7. CASE ReverseEntry(p)
  BY <1>2, <1>7, NoReturn DEF ReverseEntry, At, ghosts
<1>8. CASE Crash(p)
  <2>1. req[p].at \notin Reversing
    BY <1>1, <1>8 DEF Crash, RequestOK, Clean
  <2> QED BY <1>8, <2>1, Ended, NoReturn DEF Crash, At, Past, Reversing, accounts
<1> QED BY <1>3, <1>4, <1>5, <1>6, <1>7, <1>8

LEMMA ReturnStep == TypeInv /\ ReturnInv /\ [Next]_vars => ReturnInv'
<1> SUFFICES ASSUME TypeInv, ReturnInv, [Next]_vars, Clean({"twoReversals", "cutCancel"})'
             PROVE  ReturnsOK'
  BY DEF ReturnInv
<1>1. ReturnsOK
  BY TypeStep DEF ReturnInv, Clean
<1>2. ASSUME NEW p \in Clients, Call(p) PROVE ReturnsOK'
  BY <1>1, <1>2, Arrived, NoReturn DEF Past, At, Idle, accounts, ghosts
<1>3. ASSUME NEW p \in Clients,
             CommitRead(p) \/ BalanceRead(p) \/ Deduct(p) \/ DeductEntry(p) \/ Mark(p)
      PROVE  ReturnsOK'
  <2>1. Stays(p) /\ req'[p].at \notin Past
    BY <1>3, CommitMoves DEF Past, Committing
  <2> QED
    BY <1>1, <1>3, <2>1, NoReturn
    DEF CommitRead, BalanceRead, Deduct, DeductEntry, Mark, At, accounts, ghosts
<1>4. ASSUME NEW p \in Clients,
             \/ SettleReceipt(p) \/ Settle(p) \/ FinishBook(p) \/ FinishConfirm(p) \/ FinishPay(p)
             \/ FinishCash(p) \/ Reread(p) \/ Complete(p) \/ CompConfirm(p) \/ CompMark(p)
      PROVE  ReturnsOK'
  <2>1. Stays(p) /\ req'[p].at \notin Past
    BY <1>4, SettleMoves DEF Past
  <2> QED
    BY <1>1, <1>4, <2>1, NoReturn
    DEF SettleReceipt, Settle, FinishBook, FinishConfirm, FinishPay, FinishCash, Reread, Complete,
        CompConfirm, CompMark, At, accounts, ghosts
<1>5. ASSUME NEW p \in Clients, CancelWrite(p) \/ RefundPayment(p) \/ Stamp(p) \/ HookWrite(p)
      PROVE  ReturnsOK'
  <2>1. Stays(p) /\ req'[p].at \notin Past
    BY <1>5, Gone, Ended DEF CancelWrite, RefundPayment, Stamp, HookWrite, Past
  <2> QED
    BY <1>1, <1>5, <2>1, NoReturn
    DEF CancelWrite, RefundPayment, Stamp, HookWrite, At, accounts, ghosts
<1>6. ASSUME NEW i \in Calls, NEW p \in Clients, Hear(p, i) PROVE ReturnsOK'
  <2>1. Stays(p) /\ req'[p].at \notin Past /\ ~At(p, "addEntry")
    BY <1>6, Heard DEF Past, At
  <2> QED BY <1>1, <1>6, <2>1, NoReturn DEF Hear, accounts, ghosts
<1>7. CASE \/ \E i \in Calls : PayOnline(i)
           \/ Resolve \/ Renew \/ SpendElsewhere \/ Unsubscribe \/ UNCHANGED vars
  BY <1>1, <1>7, SameReturn
  DEF PayOnline, Resolve, Renew, SpendElsewhere, Unsubscribe, Elsewhere, vars, accounts, ghosts
<1> QED
  BY <1>1, <1>2, <1>3, <1>4, <1>5, <1>6, <1>7, ReturnSteps DEF Next, Continue

(* A cancellation and a refund of one reservation return its credits once  *)
(* unless two were under way at once, or one was lost                      *)
(* (reverseReservationCredits).                                            *)
THEOREM ReturnsOnce == Spec => []ReturnedOnce
<1>1. Init => ReturnInv
  BY DEF Init, ReturnInv, ReturnsOK, Past, At, Idle
<1>2. ReturnInv => ReturnedOnce
  BY DEF ReturnInv, ReturnsOK, ReturnedOnce
<1> QED BY <1>1, <1>2, InitOK, TypeStep, ReturnStep, PTL DEF Spec

-----------------------------------------------------------------------------
(* What was paid owes nothing. A payment needs a session, a session needs  *)
(* an amount on the row; so whoever still counts has nobody paying beside  *)
(* it, unless two were counting at once.                                   *)

Counting == {"balance", "deduct", "entry", "mark"}
Owing == {"finish", "receipt", "settle", "hook"}
Session == \E i \in Calls : payments[i].kind = "session"
Owed == Session \/ \E p \in Clients : req[p].at \in Owing
PaymentOK ==
  /\ Eligible /\ row.paid => row.due = 0
  /\ Eligible /\ row.due = NotCommitted => ~Owed
  /\ \A p \in Clients : req[p].at \in Counting /\ Eligible => ~row.paid /\ ~Owed
  /\ \A p, q \in Clients : req[p].at \in Counting /\ req[q].at \in Counting => p = q
PaymentInv == Clean({"overlap", "revived"}) => PaymentOK

RowKept == Eligible' => Eligible /\ row'.due = row.due /\ row'.paid = row.paid

LEMMA NoPayment ==
  ASSUME TypeInv, PaymentOK, NEW p \in Clients, Stays(p), RowKept, Session' => Session,
         req'[p].at \in Counting => req[p].at \in Counting,
         req'[p].at \in Owing => req[p].at \in Owing
  PROVE  PaymentOK'
<1>1. Owed' => Owed
  BY DEF Stays, Owed
<1>2. \A q \in Clients : req'[q].at \in Counting => req[q].at \in Counting
  BY DEF Stays
<1> QED BY <1>1, <1>2 DEF RowKept, PaymentOK

LEMMA SamePayment ==
  ASSUME TypeInv, PaymentOK, UNCHANGED req, RowKept, Session' => Session
  PROVE  PaymentOK'
<1>1. Owed' => Owed
  BY DEF Owed
<1> QED BY <1>1 DEF RowKept, PaymentOK

(* A live row gets an amount: nobody else is counting.                     *)
LEMMA AmountSet ==
  ASSUME Eligible' => row'.due # NotCommitted /\ (row'.paid => row'.due = 0),
         \A q \in Clients : req'[q].at \notin Counting
  PROVE  PaymentOK'
BY DEF PaymentOK

LEMMA PaymentSteps ==
  ASSUME TypeInv, PaymentOK, Clean({"overlap", "revived"})', NEW p \in Clients,
         \/ CommitRead(p) \/ Mark(p) \/ Settle(p) \/ FinishPay(p) \/ CompMark(p) \/ HookWrite(p)
         \/ \E i \in Calls : Hear(p, i)
  PROVE  PaymentOK'
<1>1. req[p] \in Request /\ RequestOK(req[p]) /\ row \in Row
  BY DEF TypeInv, TypeOK
<1>2. CASE CommitRead(p)
  <2>1. \A q \in Clients \ {p} : req[q].at \notin Counting
    BY <1>2 DEF CommitRead, Clean, Others, Committing, Counting
  <2>2. Stays(p) /\ UNCHANGED <<row, payments>>
    BY <1>2, CommitMoves DEF CommitRead
  <2>3. CASE row.due # NotCommitted
    <3>1. req'[p].at \in {"finish", "receipt"}
      BY <1>2, <2>3, CommitDone DEF CommitRead, Committed
    <3>2. \A q \in Clients : req'[q].at \notin Counting
      BY <2>1, <2>2, <3>1 DEF Stays, Counting
    <3> QED BY <2>2, <2>3, <3>2, AmountSet DEF PaymentOK, Eligible
  <2>4. CASE row.due = NotCommitted
    <3>1. req'[p].at = "balance"
      BY <1>2, <2>4, Gone DEF CommitRead, Committed
    <3>2. Owed' => Owed
      BY <2>2, <3>1 DEF Stays, Owed, Session, Owing
    <3>3. Eligible /\ row.paid => FALSE
      BY <2>4 DEF PaymentOK, NotCommitted
    <3> QED BY <2>1, <2>2, <2>4, <3>1, <3>2, <3>3 DEF PaymentOK, Stays, Eligible
  <2> QED BY <2>3, <2>4
<1>3. CASE Mark(p)
  <2> DEFINE due == Remainder(req[p].units)
  <2>1. row' = [row EXCEPT !.due = due] /\ AfterCommit(p, due) /\ req[p].at = "mark"
    BY <1>3 DEF Mark, At
  <2>2. due # NotCommitted
    BY <1>1, <2>1 DEF Remainder, RequestOK, Request, NotCommitted
  <2> HIDE DEF due
  <2>3. \A q \in Clients : req'[q].at \notin Counting
    BY <2>1, CommitDone DEF Stays, PaymentOK, Counting
  <2>4. row'.status = row.status /\ row'.due = due /\ row'.paid = row.paid
    BY <1>1, <2>1 DEF Row
  <2>5. Eligible => ~row.paid
    BY <2>1 DEF PaymentOK, Counting
  <2> QED BY <2>2, <2>3, <2>4, <2>5, AmountSet DEF Eligible
<1>4. CASE Settle(p) \/ CompMark(p) \/ HookWrite(p)
  <2>1. /\ Stays(p) /\ req'[p].at \notin Counting /\ req'[p].at \notin Owing
        /\ Session' => Session
    <3>1. Session' => Session
      BY <1>4 DEF Settle, CompMark, HookWrite, Session, TypeInv, TypeOK, Payment
    <3> QED BY <1>4, <3>1, Gone, Ended DEF Settle, CompMark, HookWrite, Counting, Owing
  <2>2. Eligible' => Eligible
    BY <1>1, <1>4 DEF Settle, CompMark, HookWrite, Eligible, Clean, Row, Live
  <2>3. row' = row \/ row'.due = 0
    BY <1>1, <1>4 DEF Settle, CompMark, HookWrite, Row
  <2>4. CASE row' = row
    BY <2>1, <2>4, NoPayment DEF RowKept, Eligible
  <2>5. CASE row'.due = 0
    <3>1. Owed' => Owed
      BY <2>1 DEF Stays, Owed
    <3>2. ASSUME NEW q \in Clients, req'[q].at \in Counting, Eligible' PROVE ~row'.paid /\ ~Owed'
      <4>1. req[q].at \in Counting /\ Eligible
        BY <2>1, <2>2, <3>2 DEF Stays
      <4>2. ~Owed /\ ~row.paid
        BY <4>1 DEF PaymentOK
      <4>3. CompMark(p)
        BY <1>4, <4>2 DEF Settle, HookWrite, At, Owed, Owing
      <4> QED BY <1>1, <3>1, <4>2, <4>3 DEF CompMark, Row
    <3>3. \A q \in Clients : req'[q].at \in Counting => req[q].at \in Counting
      BY <2>1 DEF Stays
    <3> QED BY <2>5, <3>2, <3>3 DEF PaymentOK, NotCommitted
  <2> QED BY <2>3, <2>4, <2>5
<1>5. CASE FinishPay(p)
  <2>1. Owed /\ Stays(p) /\ req'[p].at = "idle" /\ row' = row
    BY <1>5, Ended DEF FinishPay, At, Owed, Owing
  <2> QED BY <2>1 DEF PaymentOK, Stays, Counting, Eligible
<1>6. CASE \E i \in Calls : Hear(p, i)
  <2>1. PICK i \in Calls : Hear(p, i)
    BY <1>6
  <2>2. Stays(p) /\ Owed /\ row' = row
    BY <2>1, Heard DEF Hear, Owed, Session
  <2>3. req'[p].at \notin Counting
    BY <2>1, Heard DEF Counting
  <2> QED BY <2>2, <2>3 DEF PaymentOK, Stays, Counting, Eligible
<1> QED BY <1>2, <1>3, <1>4, <1>5, <1>6

LEMMA PaymentStep == TypeInv /\ PaymentInv /\ [Next]_vars => PaymentInv'
<1> SUFFICES ASSUME TypeInv, PaymentInv, [Next]_vars, Clean({"overlap", "revived"})'
             PROVE  PaymentOK'
  BY DEF PaymentInv
<1>1. PaymentOK
  BY TypeStep DEF PaymentInv, Clean
<1>2. row \in Row /\ payments \in [Calls -> Payment]
  BY DEF TypeInv, TypeOK
<1>3. UNCHANGED row => RowKept
  BY DEF RowKept, Eligible
<1>4. UNCHANGED payments => (Session' => Session)
  BY DEF Session
<1>5. ASSUME NEW p \in Clients, Call(p) \/ Crash(p) PROVE PaymentOK'
  <2>1. Stays(p) /\ req'[p].at \notin Counting /\ req'[p].at \notin Owing /\ UNCHANGED <<row, payments>>
    BY <1>5, Arrived, Ended DEF Crash, Counting, Owing, accounts
  <2> QED BY <1>1, <1>3, <1>4, <2>1, NoPayment
<1>6. ASSUME NEW p \in Clients, BalanceRead(p) \/ Deduct(p) \/ DeductEntry(p) PROVE PaymentOK'
  <2>1. /\ Stays(p) /\ req[p].at \in Counting /\ req'[p].at \notin Owing
        /\ UNCHANGED <<row, payments>>
    <3>1. Stays(p) /\ req'[p].at \notin Owing
      BY <1>6, Weighed, Gone, Ended DEF Deduct, DeductEntry, Owing
    <3> QED BY <1>6, <3>1 DEF BalanceRead, Deduct, DeductEntry, At, Counting, accounts
  <2> QED BY <1>1, <1>3, <1>4, <2>1, NoPayment
<1>7. ASSUME NEW p \in Clients,
             \/ SettleReceipt(p) \/ FinishBook(p) \/ FinishConfirm(p) \/ FinishCash(p) \/ Reread(p)
             \/ Complete(p) \/ CompConfirm(p)
      PROVE  PaymentOK'
  <2>1. Stays(p) /\ req'[p].at \notin Counting /\ (req'[p].at \in Owing => req[p].at \in Owing)
    BY <1>7, SettleMoves DEF SettleReceipt, At, Counting, Owing
  <2>2. RowKept
    BY <1>2, <1>7
    DEF SettleReceipt, FinishBook, FinishConfirm, FinishCash, Reread, Complete, CompConfirm,
        RowKept, Eligible, Clean, Row, Live
  <2>3. Session' => Session
    BY <1>2, <1>4, <1>7
    DEF SettleReceipt, FinishBook, FinishConfirm, FinishCash, Reread, Complete, CompConfirm,
        Record, Session, Payment
  <2> QED BY <1>1, <2>1, <2>2, <2>3, NoPayment
<1>8. ASSUME NEW p \in Clients,
             \/ CancelWrite(p) \/ RefundPayment(p) \/ Stamp(p)
             \/ ReverseCheck(p) \/ ReverseSum(p) \/ ReverseWeigh(p) \/ ReverseAdd(p) \/ ReverseEntry(p)
      PROVE  PaymentOK'
  <2>1. Stays(p) /\ req'[p].at \notin Counting /\ req'[p].at \notin Owing
    BY <1>8, ReturnMoves DEF Counting, Owing, Reversing
  <2>2. RowKept
    BY <1>2, <1>8
    DEF CancelWrite, RefundPayment, Stamp, ReverseCheck, ReverseSum, ReverseWeigh, ReverseAdd,
        ReverseEntry, RowKept, Eligible, Row, Live
  <2>3. Session' => Session
    BY <1>2, <1>4, <1>8
    DEF CancelWrite, RefundPayment, Stamp, ReverseCheck, ReverseSum, ReverseWeigh, ReverseAdd,
        ReverseEntry, Session, Payment
  <2> QED BY <1>1, <2>1, <2>2, <2>3, NoPayment
<1>9. CASE \/ \E i \in Calls : PayOnline(i)
           \/ Resolve \/ Renew \/ SpendElsewhere \/ Unsubscribe \/ UNCHANGED vars
  <2>1. UNCHANGED req
    BY <1>9 DEF PayOnline, Resolve, Renew, SpendElsewhere, Unsubscribe, Elsewhere, vars
  <2>2. RowKept
    BY <1>2, <1>9
    DEF PayOnline, Resolve, Renew, SpendElsewhere, Unsubscribe, Elsewhere, vars, RowKept, Eligible,
        Row, Live
  <2>3. Session' => Session
    BY <1>2, <1>9
    DEF PayOnline, Resolve, Renew, SpendElsewhere, Unsubscribe, Elsewhere, vars, Session, Payment
  <2> QED BY <1>1, <2>1, <2>2, <2>3, SamePayment
<1> QED
  BY <1>1, <1>5, <1>6, <1>7, <1>8, <1>9, PaymentSteps DEF Next, Continue

LEMMA PaymentInit == Init => PaymentInv
BY DEF Init, PaymentInv, PaymentOK, Owed, Session, Owing, Counting, Idle, NewRow

(* A row that was paid owes nothing, unless two requests counted at once   *)
(* or a cancelled row was revived (handleReservationCheckout).             *)
THEOREM PaysInFull == Spec => []PaidOwesNothing
<1>1. PaymentInv => PaidOwesNothing
  BY DEF PaymentInv, PaymentOK, PaidOwesNothing
<1> QED BY <1>1, InitOK, TypeStep, PaymentInit, PaymentStep, PTL DEF Spec

-----------------------------------------------------------------------------
(* Cash and credits add up to the price. A row without an amount has what  *)
(* the one request that counts has entered; its amount is what is left.    *)

DueOK ==
  /\ \A p \in Clients : req[p].at \in Counting /\ Eligible => row.due = NotCommitted
  /\ Eligible /\ row.due # NotCommitted /\ ~row.paid => spent = Cost - row.due
  /\ Eligible /\ row.due = NotCommitted =>
       /\ \A p \in Clients : At(p, "mark") => spent = req[p].units
       /\ (\A p \in Clients : ~At(p, "mark")) => spent = 0
  /\ \A p \in Clients : req[p].at \in {"receipt", "settle"} /\ Eligible => row.due = 0
DueInv == Clean({"overlap", "comp", "revived", "cutCommit"}) => DueOK

LEMMA NoDue ==
  ASSUME TypeInv, DueOK, NEW p \in Clients, Stays(p), RowKept, UNCHANGED spent,
         ~At(p, "mark"), req'[p].at # "mark",
         req'[p].at \in Counting => req[p].at \in Counting,
         req'[p].at \in {"receipt", "settle"} => req[p].at \in {"receipt", "settle"}
  PROVE  DueOK'
<1>1. \A q \in Clients : /\ req'[q].at \in Counting => req[q].at \in Counting
                         /\ At(q, "mark")' <=> At(q, "mark")
                         /\ At(q, "mark") => req'[q].units = req[q].units
                         /\ req'[q].at \in {"receipt", "settle"} => req[q].at \in {"receipt", "settle"}
  BY DEF Stays, At
<1> QED BY <1>1 DEF RowKept, DueOK

LEMMA SameDue ==
  ASSUME TypeInv, DueOK, UNCHANGED <<req, spent>>, RowKept
  PROVE  DueOK'
BY DEF RowKept, DueOK, At

(* Whoever counts is alone, and nobody has marked or settles beside it.    *)
LEMMA Alone ==
  ASSUME PaymentOK, NEW p \in Clients, req[p].at \in Counting
  PROVE  /\ \A q \in Clients \ {p} : req[q].at \notin Counting
         /\ Eligible => \A q \in Clients : req[q].at \notin Owing
BY DEF PaymentOK, Owed

LEMMA DueSteps ==
  ASSUME TypeInv, PaymentOK, DueOK, Clean({"overlap", "comp", "revived", "cutCommit"})',
         NEW p \in Clients,
         \/ CommitRead(p) \/ BalanceRead(p) \/ DeductEntry(p) \/ Mark(p)
         \/ Settle(p) \/ CompMark(p) \/ HookWrite(p)
  PROVE  DueOK'
<1>1. req[p] \in Request /\ RequestOK(req[p]) /\ row \in Row /\ spent \in Nat
  BY DEF TypeInv, TypeOK
<1>2. CASE CommitRead(p)
  <2>1. Stays(p) /\ UNCHANGED <<row, spent>> /\ ~At(p, "mark") /\ req'[p].at # "mark"
    BY <1>2, Gone, CommitDone DEF CommitRead, At, accounts
  <2>2. req'[p].at = "receipt" => row.due = 0
    BY <1>1, <1>2, Gone, CommitDone DEF CommitRead, Committed, Row
  <2>3. req'[p].at \in Counting => row.due = NotCommitted
    BY <1>2, Gone, CommitDone DEF CommitRead, Committed, Counting
  <2>4. req'[p].at # "settle"
    BY <1>2, Gone, CommitDone DEF CommitRead
  <2> QED BY <2>1, <2>2, <2>3, <2>4 DEF DueOK, Stays, At, Eligible
<1>3. CASE BalanceRead(p)
  <2>1. Stays(p) /\ req'[p].at \in {"deduct", "mark"} /\ (req'[p].at = "mark" => req'[p].units = 0)
    BY <1>3, Weighed
  <2>2. \A q \in Clients : ~At(q, "mark")
    BY <1>3, Alone DEF BalanceRead, At, Counting
  <2>3. req[p].at \in Counting /\ UNCHANGED <<row, spent>>
    BY <1>3 DEF BalanceRead, At, Counting, accounts
  <2> QED BY <2>1, <2>2, <2>3 DEF DueOK, Stays, At, Eligible, Counting
<1>4. CASE DeductEntry(p)
  <2>1. /\ Stays(p) /\ req'[p].at = "mark" /\ req'[p].units = req[p].units
        /\ spent' = spent + req[p].units /\ row' = row /\ req[p].at \in Counting
    BY <1>4, Gone DEF DeductEntry, At, Counting
  <2>2. \A q \in Clients : ~At(q, "mark")
    BY <1>4, Alone DEF DeductEntry, At, Counting
  <2>3. Eligible => row.due = NotCommitted /\ spent = 0
    BY <2>1, <2>2 DEF DueOK
  <2>4. Eligible => spent' = req[p].units
    BY <1>1, <2>1, <2>3 DEF Request
  <2> QED BY <2>1, <2>2, <2>3, <2>4 DEF DueOK, Stays, At, Eligible
<1>5. CASE Mark(p)
  <2> DEFINE due == Remainder(req[p].units)
  <2>1. row' = [row EXCEPT !.due = due] /\ AfterCommit(p, due) /\ req[p].at = "mark" /\ spent' = spent
    BY <1>5 DEF Mark, At, accounts
  <2>2. due \in 0..Cost /\ due = Cost - req[p].units
    BY <1>1, <2>1 DEF Remainder, RequestOK, Request
  <2> HIDE DEF due
  <2>3. row'.status = row.status /\ row'.due = due /\ row'.paid = row.paid
    BY <1>1, <2>1 DEF Row
  <2>4. Stays(p) /\ req'[p].at = (IF due > 0 THEN "finish" ELSE "receipt")
    BY <2>1, CommitDone
  <2>5. Eligible => spent = Cost - due
    BY <1>1, <2>1, <2>2 DEF DueOK, At, Counting, Request
  <2>6. /\ \A q \in Clients : req'[q].at \notin Counting
        /\ Eligible => \A q \in Clients \ {p} : req'[q].at \notin {"receipt", "settle"}
    BY <2>1, <2>4, Alone DEF Stays, Counting, Owing
  <2>7. due # NotCommitted /\ (req'[p].at = "receipt" => due = 0) /\ req'[p].at # "settle"
    BY <2>2, <2>4 DEF NotCommitted
  <2> QED BY <2>1, <2>3, <2>5, <2>6, <2>7 DEF DueOK, Eligible
<1>6. CASE Settle(p)
  <2>1. Stays(p) /\ req'[p].at \in {"reread", "idle"} /\ req[p].at = "settle" /\ spent' = spent
    BY <1>6, Gone, Ended DEF Settle, At, accounts
  <2>2. CASE row' = row
    BY <2>1, <2>2, NoDue DEF RowKept, Eligible, At, Counting
  <2>3. CASE row' # row
    <3>1. Eligible /\ row'.due = 0 /\ row'.paid = row.paid
      BY <1>1, <1>6, <2>3 DEF Settle, Eligible, Row
    <3>2. row.due = 0
      BY <2>1, <3>1 DEF DueOK
    <3>3. \A q \in Clients : req'[q].at \notin Counting
      BY <2>1, <3>1, Alone DEF Stays, Counting, Owing
    <3> QED BY <2>1, <3>1, <3>2, <3>3 DEF DueOK, NotCommitted
  <2> QED BY <2>2, <2>3
<1>7. CASE CompMark(p)
  BY <1>7 DEF CompMark, Clean
<1>8. CASE HookWrite(p)
  <2>1. Stays(p) /\ req'[p].at = "idle" /\ row'.due = 0 /\ row'.paid
    BY <1>1, <1>8, Ended DEF HookWrite, Row
  <2>2. Eligible /\ req[p].at \in Owing
    BY <1>8 DEF HookWrite, Clean, At, Owing
  <2>3. \A q \in Clients : req'[q].at \notin Counting
    BY <2>1, <2>2, Alone DEF Stays, Counting
  <2> QED BY <2>1, <2>3 DEF DueOK, NotCommitted
<1> QED BY <1>2, <1>3, <1>4, <1>5, <1>6, <1>7, <1>8

LEMMA DueStep == TypeInv /\ PaymentInv /\ DueInv /\ [Next]_vars => DueInv'
<1> SUFFICES ASSUME TypeInv, PaymentInv, DueInv, [Next]_vars,
                    Clean({"overlap", "comp", "revived", "cutCommit"})'
             PROVE  DueOK'
  BY DEF DueInv
<1>1. PaymentOK /\ DueOK
  BY TypeStep DEF PaymentInv, DueInv, Clean
<1>2. row \in Row
  BY DEF TypeInv, TypeOK
<1>3. UNCHANGED row => RowKept
  BY DEF RowKept, Eligible
<1>4. ASSUME NEW p \in Clients, Call(p) PROVE DueOK'
  <2>1. /\ Stays(p) /\ req'[p].at \notin Counting /\ req'[p].at \notin {"mark", "receipt", "settle"}
        /\ ~At(p, "mark") /\ UNCHANGED <<row, spent>>
    BY <1>4, Arrived DEF At, Idle, Counting, accounts
  <2> QED BY <1>1, <1>3, <2>1, NoDue
<1>5. ASSUME NEW p \in Clients, Crash(p) PROVE DueOK'
  <2>1. ~At(p, "mark") /\ UNCHANGED <<row, spent>>
    BY <1>5 DEF Crash, At, Clean, accounts
  <2>2. Stays(p) /\ req'[p].at = "idle"
    BY <1>5, Ended DEF Crash
  <2> QED BY <1>1, <1>3, <2>1, <2>2, NoDue DEF Counting
<1>6. ASSUME NEW p \in Clients, Deduct(p) PROVE DueOK'
  <2>1. Stays(p) /\ req[p].at \in Counting /\ ~At(p, "mark") /\ req'[p].at \in {"entry", "idle"}
    BY <1>6, Gone, Ended DEF Deduct, At, Counting
  <2> QED BY <1>1, <1>3, <1>6, <2>1, NoDue DEF Deduct
<1>7. ASSUME NEW p \in Clients,
             \/ SettleReceipt(p) \/ FinishBook(p) \/ FinishConfirm(p) \/ FinishPay(p)
             \/ FinishCash(p) \/ Reread(p) \/ Complete(p) \/ CompConfirm(p)
      PROVE  DueOK'
  <2>1. /\ Stays(p) /\ req'[p].at \notin Counting /\ ~At(p, "mark")
        /\ req'[p].at \in {"receipt", "settle"} => req[p].at \in {"receipt", "settle"}
    BY <1>7, SettleMoves DEF SettleReceipt, At, Counting, SettleLabels
  <2>2. RowKept
    BY <1>2, <1>7
    DEF SettleReceipt, FinishBook, FinishConfirm, FinishPay, FinishCash, Reread, Complete,
        CompConfirm, RowKept, Eligible, Clean, Row, Live
  <2>3. UNCHANGED spent
    BY <1>7
    DEF SettleReceipt, FinishBook, FinishConfirm, FinishPay, FinishCash, Reread, Complete,
        CompConfirm, accounts
  <2> QED BY <1>1, <2>1, <2>2, <2>3, NoDue DEF Counting
<1>8. ASSUME NEW p \in Clients,
             \/ CancelWrite(p) \/ RefundPayment(p) \/ Stamp(p)
             \/ ReverseCheck(p) \/ ReverseSum(p) \/ ReverseWeigh(p) \/ ReverseAdd(p) \/ ReverseEntry(p)
      PROVE  DueOK'
  <2>1. /\ Stays(p) /\ req'[p].at \notin Counting /\ ~At(p, "mark")
        /\ req'[p].at \notin {"receipt", "settle"}
    BY <1>8, ReturnMoves DEF At, Counting, Reversing
  <2>2. RowKept
    BY <1>2, <1>8
    DEF CancelWrite, RefundPayment, Stamp, ReverseCheck, ReverseSum, ReverseWeigh, ReverseAdd,
        ReverseEntry, RowKept, Eligible, Row, Live
  <2>3. UNCHANGED spent
    BY <1>8
    DEF CancelWrite, RefundPayment, Stamp, ReverseCheck, ReverseSum, ReverseWeigh, ReverseAdd,
        ReverseEntry, accounts
  <2> QED BY <1>1, <2>1, <2>2, <2>3, NoDue DEF Counting
<1>9. ASSUME NEW i \in Calls, NEW p \in Clients, Hear(p, i) PROVE DueOK'
  <2>1. /\ Stays(p) /\ req'[p].at \notin Counting /\ ~At(p, "mark")
        /\ req'[p].at \notin {"receipt", "settle"}
    BY <1>9, Heard DEF At, Counting
  <2>2. UNCHANGED <<row, spent>>
    BY <1>9 DEF Hear, accounts
  <2> QED BY <1>1, <1>3, <2>1, <2>2, NoDue DEF Counting
<1>10. CASE \/ \E i \in Calls : PayOnline(i)
            \/ Resolve \/ Renew \/ SpendElsewhere \/ Unsubscribe \/ UNCHANGED vars
  <2>1. UNCHANGED <<req, spent>>
    BY <1>10 DEF PayOnline, Resolve, Renew, SpendElsewhere, Unsubscribe, Elsewhere, vars, accounts
  <2>2. RowKept
    BY <1>2, <1>10
    DEF PayOnline, Resolve, Renew, SpendElsewhere, Unsubscribe, Elsewhere, vars, RowKept, Eligible,
        Row, Live
  <2> QED BY <1>1, <2>1, <2>2, SameDue
<1> QED
  BY <1>1, <1>4, <1>5, <1>6, <1>7, <1>8, <1>9, <1>10, DueSteps DEF Next, Continue

LEMMA DueInit == Init => DueInv
BY DEF Init, DueInv, DueOK, At, Counting, Idle, NewRow

(* Cash and credits add up to the price: what is owed is the price less    *)
(* the ledger's units, but for two commits at once, one that was lost, a   *)
(* comp and a revived row (commitReservationCredits).                      *)
THEOREM AddsUp == Spec => []DueIsRemainder
<1>1. DueInv => DueIsRemainder
  BY DEF DueInv, DueOK, DueIsRemainder
<1> QED BY <1>1, InitOK, TypeStep, PaymentInit, PaymentStep, DueInit, DueStep, PTL DEF Spec

-----------------------------------------------------------------------------
(* A call records one payment at most, which nobody else writes over; so   *)
(* the receipt of a row, and what was read of it, is a payment that was    *)
(* made.                                                                   *)

Open == Committing \cup {"receipt", "finish"}
Held(i) == i \in Calls /\ payments[i].kind # "none" /\ payments[i].state # "open"

ReceiptOK(r) ==
  /\ r.at # "idle" => r.call <= calls
  /\ r.at \in Open => payments[r.call].kind = "none"
  /\ r.at = "hook" => Held(r.call)
  /\ r.seen.receipt # NoReceipt => Held(r.seen.receipt)
ReceiptInv ==
  /\ \A i \in Calls : i > calls => payments[i].kind = "none"
  /\ \A i \in Calls : payments[i].kind \in {"cash", "credits"} => payments[i].state # "open"
  /\ \A p, q \in Clients : req[p].at \in Open /\ req[q].at \in Open /\ req[p].call = req[q].call => p = q
  /\ row.receipt # NoReceipt => Held(row.receipt)
  /\ \A p \in Clients : ReceiptOK(req[p])

(* Payments are only paid or refunded. *)
Paying == \A i \in Calls : /\ payments'[i].kind = payments[i].kind
                           /\ payments'[i].state = "open" => payments[i].state = "open"

LEMMA HeldStays == Paying => \A i \in Calls : Held(i) => Held(i)'
BY DEF Paying, Held

LEMMA OthersReceipts ==
  ASSUME TypeInv, ReceiptInv, Paying, calls' >= calls, calls' \in Nat, NEW q \in Clients, req'[q] = req[q]
  PROVE  ReceiptOK(req[q])'
<1>1. /\ req[q] \in Request /\ RequestOK(req[q]) /\ ReceiptOK(req[q]) /\ calls \in Nat
      /\ req[q].seen.receipt # NoReceipt => req[q].seen.receipt \in Calls
  BY DEF TypeInv, TypeOK, ReceiptInv, Request, Row
<1>2. req[q].at \in Open => req[q].call \in Calls
  BY <1>1 DEF RequestOK, Open, Committing
<1>3. req[q].call <= calls => req[q].call <= calls'
  BY <1>1 DEF Request, Calls
<1> QED BY <1>1, <1>2, <1>3, HeldStays DEF ReceiptOK, Held, Paying

LEMMA NoRecord ==
  ASSUME TypeInv, ReceiptInv, NEW p \in Clients, Stays(p), Paying, calls' >= calls, calls' \in Nat,
         req'[p].at \in Open => req[p].at \in Open /\ req'[p].call = req[p].call,
         ReceiptOK(req[p])', (row.receipt # NoReceipt => Held(row.receipt))'
  PROVE  ReceiptInv'
<1>1. \A q \in Clients : ReceiptOK(req[q])'
  BY OthersReceipts DEF Stays
<1>2. \A q \in Clients : req'[q].at \in Open => req[q].at \in Open /\ req'[q].call = req[q].call
  BY DEF Stays
<1>3. \A i \in Calls : i > calls' => payments'[i].kind = "none"
  BY DEF Paying, ReceiptInv, Calls, TypeInv, TypeOK
<1>4. \A i \in Calls : payments'[i].kind \in {"cash", "credits"} => payments'[i].state # "open"
  BY DEF Paying, ReceiptInv
<1>5. \A q, s \in Clients : req'[q].at \in Open /\ req'[s].at \in Open /\ req'[q].call = req'[s].call
                            => q = s
  BY <1>2 DEF ReceiptInv
<1> QED BY <1>1, <1>3, <1>4, <1>5 DEF ReceiptInv

LEMMA SameReceipts ==
  ASSUME TypeInv, ReceiptInv, UNCHANGED <<req, calls>>, Paying, row'.receipt = row.receipt
  PROVE  ReceiptInv'
<1>1. \A q \in Clients : ReceiptOK(req[q])'
  BY OthersReceipts DEF TypeInv, TypeOK
<1>2. row.receipt # NoReceipt => Held(row.receipt)'
  BY HeldStays DEF ReceiptInv, Held
<1>3. \A i \in Calls : i > calls' => payments'[i].kind = "none"
  BY DEF Paying, ReceiptInv
<1>4. \A i \in Calls : payments'[i].kind \in {"cash", "credits"} => payments'[i].state # "open"
  BY DEF Paying, ReceiptInv
<1> QED BY <1>1, <1>2, <1>3, <1>4 DEF ReceiptInv

(* A new payment is its request's own. *)
LEMMA Recorded ==
  ASSUME TypeInv, ReceiptInv, NEW p \in Clients, req[p].at \in Open, Stays(p),
         NEW kind \in {"session", "cash", "credits"}, NEW state \in {"open", "paid"},
         kind # "session" => state = "paid",
         Record(req[p].call, kind, state), UNCHANGED <<row, calls>>,
         req'[p].at \notin Open, req'[p].at # "hook", req'[p].call = req[p].call \/ req'[p].at = "idle",
         \/ req'[p].seen.receipt \in {NoReceipt, req[p].seen.receipt}
         \/ req'[p].seen.receipt = req[p].call /\ kind # "session"
  PROVE  ReceiptInv'
<1> DEFINE i == req[p].call
<1>1. i \in Calls /\ payments[i].kind = "none" /\ i <= calls
  BY DEF TypeInv, RequestOK, ReceiptInv, ReceiptOK, Open, Committing
<1>2. payments' = [payments EXCEPT ![i] = [kind |-> kind, state |-> state, told |-> FALSE]]
  BY DEF Record
<1>3. payments'[i].kind = kind /\ payments'[i].state = state
      /\ \A j \in Calls \ {i} : payments'[j] = payments[j]
  BY <1>1, <1>2 DEF TypeInv, TypeOK
<1>4. \A j \in Calls : Held(j) => Held(j)'
  BY <1>1, <1>3 DEF Held
<1>5. ASSUME NEW q \in Clients \ {p} PROVE ReceiptOK(req[q])'
  <2>1. /\ req[q] \in Request /\ RequestOK(req[q]) /\ ReceiptOK(req[q]) /\ req'[q] = req[q]
        /\ req[q].seen.receipt # NoReceipt => req[q].seen.receipt \in Calls
    BY DEF TypeInv, TypeOK, ReceiptInv, Request, Row, Stays
  <2>2. req[q].at \in Open => req[q].call \in Calls \ {i}
    BY <2>1 DEF RequestOK, Open, Committing, ReceiptInv
  <2> QED BY <1>3, <1>4, <2>1, <2>2 DEF ReceiptOK, Held
<1>6. ReceiptOK(req[p])'
  <2>1. req'[p].at # "idle" => req'[p].call <= calls'
    BY <1>1
  <2>2. (req[p].seen.receipt # NoReceipt => Held(req[p].seen.receipt))'
    BY <1>1, <1>3, <1>4 DEF Held, ReceiptInv, ReceiptOK
  <2> QED BY <2>1, <2>2 DEF ReceiptOK
<1>7. (row.receipt # NoReceipt => Held(row.receipt))'
  BY <1>4 DEF ReceiptInv, Held
<1>8. \A j \in Calls : /\ j > calls' => payments'[j].kind = "none"
                       /\ payments'[j].kind \in {"cash", "credits"} => payments'[j].state # "open"
  BY <1>1, <1>3 DEF ReceiptInv, Calls, TypeInv, TypeOK
<1>9. \A q, s \in Clients : req'[q].at \in Open /\ req'[s].at \in Open /\ req'[q].call = req'[s].call
                            => q = s
  BY DEF Stays, ReceiptInv
<1> HIDE DEF i
<1> QED BY <1>5, <1>6, <1>7, <1>8, <1>9 DEF ReceiptInv

LEMMA ReceiptSteps ==
  ASSUME TypeInv, ReceiptInv, NEW p \in Clients,
         \/ SettleReceipt(p) \/ Settle(p) \/ FinishPay(p) \/ FinishCash(p) \/ Reread(p)
         \/ Complete(p) \/ RefundPayment(p) \/ HookWrite(p)
  PROVE  ReceiptInv'
<1>1. /\ req[p] \in Request /\ RequestOK(req[p]) /\ ReceiptOK(req[p]) /\ row \in Row
      /\ payments \in [Calls -> Payment] /\ calls \in Nat
      /\ req[p].at # "idle" => req[p].call \in Calls
  BY DEF TypeInv, TypeOK, ReceiptInv, RequestOK
<1>2. UNCHANGED payments => Paying
  BY DEF Paying
<1>3. Paying /\ UNCHANGED row => (row.receipt # NoReceipt => Held(row.receipt))'
  BY HeldStays DEF ReceiptInv, Held
<1>4. CASE SettleReceipt(p)
  <2>1. /\ Stays(p) /\ req[p].at = "receipt" /\ req'[p].at = "settle"
        /\ req'[p].call = req[p].call /\ req'[p].seen = req[p].seen /\ UNCHANGED <<row, calls>>
    BY <1>4, Gone DEF SettleReceipt, At, bounds
  <2>2. CASE Record(req[p].call, "credits", "paid")
    BY <2>1, <2>2, Recorded DEF Open, Committing
  <2>3. CASE UNCHANGED payments
    <3>1. ReceiptOK(req[p])'
      BY <1>1, <2>1, <2>3 DEF ReceiptOK, Open, Committing, Held
    <3> QED BY <1>1, <1>2, <1>3, <2>1, <2>3, <3>1, NoRecord DEF Open, Committing
  <2> QED BY <1>4, <2>2, <2>3 DEF SettleReceipt
<1>5. CASE FinishPay(p)
  <2>1. /\ Stays(p) /\ req[p].at = "finish" /\ req'[p].at = "idle" /\ req'[p].seen.receipt = NoReceipt
        /\ UNCHANGED <<row, calls>>
    BY <1>5, Ended DEF FinishPay, At, bounds
  <2> QED BY <1>5, <2>1, Recorded DEF FinishPay, Open, Committing
<1>6. CASE FinishCash(p)
  <2>1. /\ Stays(p) /\ req[p].at = "finish" /\ req'[p].at = "complete" /\ req'[p].call = req[p].call
        /\ req'[p].seen.receipt = req[p].call /\ UNCHANGED <<row, calls>>
    BY <1>6, ReceiptLearned DEF FinishCash, At, bounds
  <2> QED BY <1>6, <2>1, Recorded DEF FinishCash, Open, Committing
<1>7. CASE Settle(p)
  <2>1. /\ Stays(p) /\ req[p].at = "settle" /\ req'[p].at \in {"reread", "idle"}
        /\ UNCHANGED <<payments, calls>>
        /\ req'[p].seen.receipt \in {NoReceipt, req[p].seen.receipt}
        /\ req'[p].at # "idle" => req'[p].call = req[p].call
    BY <1>7, Gone, Ended DEF Settle, At, bounds
  <2>2. ReceiptOK(req[p])'
    BY <1>1, <2>1 DEF ReceiptOK, Open, Committing, Held
  <2>3. \/ row'.receipt \in {NoReceipt, row.receipt}
        \/ (row'.receipt = req[p].call /\ payments[req[p].call].kind = "credits")
    BY <1>1, <1>7 DEF Settle, Row
  <2>4. (row.receipt # NoReceipt => Held(row.receipt))'
    BY <1>1, <2>1, <2>3 DEF ReceiptInv, Held
  <2> QED BY <1>1, <1>2, <2>1, <2>2, <2>4, NoRecord DEF Open, Committing
<1>8. CASE Reread(p)
  <2>1. /\ Stays(p) /\ req[p].at = "reread" /\ req'[p].at = "complete" /\ req'[p].call = req[p].call
        /\ req'[p].seen.receipt = row.receipt /\ UNCHANGED <<row, payments, calls>>
    BY <1>8, ReceiptLearned DEF Reread, At, bounds
  <2>2. ReceiptOK(req[p])'
    BY <1>1, <2>1 DEF ReceiptInv, ReceiptOK, Open, Committing, Held
  <2> QED BY <1>1, <1>2, <1>3, <2>1, <2>2, NoRecord DEF Open, Committing
<1>9. CASE Complete(p)
  <2>1. /\ Stays(p) /\ req'[p].at = "idle" /\ req'[p].seen.receipt = NoReceipt
        /\ UNCHANGED <<payments, calls>>
    BY <1>9, Ended DEF Complete, bounds
  <2>2. ReceiptOK(req[p])'
    BY <2>1 DEF ReceiptOK, Open, Committing
  <2>3. row'.receipt \in {row.receipt, req[p].seen.receipt}
    BY <1>1, <1>9 DEF Complete, Row
  <2>4. (row.receipt # NoReceipt => Held(row.receipt))'
    BY <1>1, <2>1, <2>3 DEF ReceiptInv, ReceiptOK, Held
  <2> QED BY <1>1, <1>2, <2>1, <2>2, <2>4, NoRecord DEF Open, Committing
<1>10. CASE RefundPayment(p)
  <2>1. /\ Stays(p) /\ req[p].at = "refund" /\ req'[p].at \in {"stamp", "reverse", "idle"}
        /\ req'[p].seen.receipt \in {NoReceipt, req[p].seen.receipt}
        /\ req'[p].at # "idle" => req'[p].call = req[p].call
        /\ UNCHANGED <<row, calls>>
    BY <1>10, Gone, Ended DEF RefundPayment, At, bounds
  <2>2. Paying
    BY <1>1, <1>2, <1>10 DEF RefundPayment, Paying, Refundable, Payment
  <2>3. ReceiptOK(req[p])'
    <3>1. req'[p].seen.receipt # NoReceipt => req'[p].seen.receipt \in Calls /\ Held(req'[p].seen.receipt)
      BY <1>1, <2>1 DEF ReceiptOK, Held
    <3>2. (req[p].seen.receipt # NoReceipt => Held(req[p].seen.receipt))'
      BY <2>2, <3>1, HeldStays DEF Held
    <3> QED BY <1>1, <2>1, <3>2 DEF ReceiptOK, Open, Committing
  <2> QED BY <1>1, <1>3, <2>1, <2>2, <2>3, NoRecord DEF Open, Committing
<1>11. CASE HookWrite(p)
  <2> DEFINE i == req[p].call
  <2>1. /\ Stays(p) /\ req[p].at = "hook" /\ req'[p].at = "idle" /\ req'[p].seen.receipt = NoReceipt
        /\ row'.receipt = i /\ Held(i) /\ UNCHANGED calls
    BY <1>1, <1>11, Ended DEF HookWrite, At, ReceiptOK, bounds, Row
  <2>2. Paying
    BY <1>1, <1>11 DEF HookWrite, Paying, Payment
  <2>3. ReceiptOK(req[p])'
    BY <2>1 DEF ReceiptOK, Open, Committing
  <2>4. (row.receipt # NoReceipt => Held(row.receipt))'
    BY <2>1, <2>2, HeldStays DEF Held
  <2> QED BY <1>1, <2>1, <2>2, <2>3, <2>4, NoRecord DEF Open, Committing
<1> QED BY <1>4, <1>5, <1>6, <1>7, <1>8, <1>9, <1>10, <1>11

LEMMA ReceiptStep == TypeInv /\ ReceiptInv /\ [Next]_vars => ReceiptInv'
<1> SUFFICES ASSUME TypeInv, ReceiptInv, [Next]_vars PROVE ReceiptInv'
  OBVIOUS
<1>1. /\ row \in Row /\ payments \in [Calls -> Payment] /\ calls \in Nat
      /\ \A p \in Clients : req[p] \in Request /\ RequestOK(req[p]) /\ ReceiptOK(req[p])
  BY DEF TypeInv, TypeOK, ReceiptInv
<1>2. UNCHANGED payments => Paying
  BY DEF Paying
<1>3. ASSUME Paying, row'.receipt = row.receipt PROVE (row.receipt # NoReceipt => Held(row.receipt))'
  BY <1>3, HeldStays DEF ReceiptInv, Held
<1>4. ASSUME NEW p \in Clients, Stays(p), UNCHANGED payments, row'.receipt = row.receipt, calls' = calls,
             req'[p].at # "hook",
             req'[p].at \in Open => req[p].at \in Open /\ req'[p].call = req[p].call,
             req'[p].at # "idle" => req[p].at # "idle" /\ req'[p].call = req[p].call,
             req'[p].seen.receipt \in {NoReceipt, req[p].seen.receipt}
      PROVE  ReceiptInv'
  <2>1. ReceiptOK(req[p])'
    BY <1>1, <1>4 DEF ReceiptOK, Held
  <2> QED BY <1>1, <1>2, <1>3, <1>4, <2>1, NoRecord
<1>5. ASSUME NEW p \in Clients, Call(p) PROVE ReceiptInv'
  <2>1. /\ Stays(p) /\ req[p] = Idle /\ req'[p].call = calls + 1 /\ calls' = calls + 1
        /\ req'[p].at \in {"commit", "cancel", "refund", "compMark", "compConfirm"}
        /\ req'[p].seen \in {row, NewRow} /\ UNCHANGED <<row, payments>>
    BY <1>5, Arrived DEF accounts
  <2>2. req'[p].call \in Calls /\ payments[req'[p].call].kind = "none"
    <3>1. calls + 1 \in Calls
      BY <1>5, <2>1, TypeStep DEF TypeInv, TypeOK, Calls
    <3> QED BY <1>1, <2>1, <3>1 DEF ReceiptInv, Calls
  <2>3. ReceiptOK(req[p])'
    <3>1. (req[p].seen.receipt # NoReceipt => Held(req[p].seen.receipt))'
      BY <2>1 DEF ReceiptInv, Held, NewRow
    <3>2. req'[p].call <= calls'
      BY <1>1, <2>1
    <3> QED BY <2>1, <2>2, <3>1, <3>2 DEF ReceiptOK
  <2>4. \A q \in Clients \ {p} : ReceiptOK(req[q])'
    BY <1>1, <1>2, <2>1, OthersReceipts DEF Stays
  <2>5. \A q \in Clients \ {p} : req'[q].at \in Open => req'[q].call # calls + 1
    <3>1. \A q \in Clients \ {p} : req[q].at \in Open => req[q].call <= calls /\ req[q].call \in Nat
      BY <1>1 DEF ReceiptOK, Open, Committing, Request, Calls
    <3> QED BY <1>1, <2>1, <3>1 DEF Stays
  <2>6. \A q, s \in Clients : req'[q].at \in Open /\ req'[s].at \in Open /\ req'[q].call = req'[s].call
                              => q = s
    BY <2>1, <2>5 DEF Stays, ReceiptInv
  <2>7. \A i \in Calls : /\ i > calls' => payments'[i].kind = "none"
                         /\ payments'[i].kind \in {"cash", "credits"} => payments'[i].state # "open"
    BY <1>1, <2>1 DEF ReceiptInv, Calls
  <2> QED BY <1>2, <1>3, <2>1, <2>3, <2>4, <2>6, <2>7 DEF ReceiptInv
<1>6. ASSUME NEW p \in Clients,
             CommitRead(p) \/ BalanceRead(p) \/ Deduct(p) \/ DeductEntry(p) \/ Mark(p)
      PROVE  ReceiptInv'
  <2>1. /\ Stays(p) /\ req[p].at \in Committing
        /\ req'[p].at \in Committing \cup {"idle", "receipt", "finish"}
        /\ req'[p].at # "idle" => req'[p].call = req[p].call /\ req'[p].seen = req[p].seen
        /\ req'[p].at = "idle" => req'[p].seen.receipt = NoReceipt
    BY <1>6, CommitMoves
  <2>2. UNCHANGED <<payments, calls>> /\ row'.receipt = row.receipt
    BY <1>1, <1>6 DEF CommitRead, BalanceRead, Deduct, DeductEntry, Mark, bounds, Row
  <2> QED BY <1>4, <2>1, <2>2 DEF Open, Committing
<1>7. ASSUME NEW p \in Clients,
             FinishBook(p) \/ FinishConfirm(p) \/ CompConfirm(p) \/ CompMark(p)
      PROVE  ReceiptInv'
  <2>1. /\ Stays(p) /\ req[p].at # "idle" /\ req'[p].at \in {"idle", "compMark"}
        /\ req'[p].at # "idle" => req'[p].call = req[p].call
        /\ req'[p].seen.receipt \in {NoReceipt, req[p].seen.receipt}
    BY <1>7, Gone, Ended DEF FinishBook, FinishConfirm, CompConfirm, CompMark, At
  <2>2. UNCHANGED <<payments, calls>> /\ row'.receipt = row.receipt
    BY <1>1, <1>7 DEF FinishBook, FinishConfirm, CompConfirm, CompMark, bounds, Row
  <2> QED BY <1>4, <2>1, <2>2 DEF Open, Committing
<1>8. ASSUME NEW p \in Clients,
             \/ CancelWrite(p) \/ Stamp(p)
             \/ ReverseCheck(p) \/ ReverseSum(p) \/ ReverseWeigh(p) \/ ReverseAdd(p) \/ ReverseEntry(p)
      PROVE  ReceiptInv'
  <2>1. /\ Stays(p) /\ req[p].at \in Reversing \cup {"cancel", "refund", "stamp"}
        /\ req'[p].at \in Reversing \cup {"idle", "refund", "stamp"}
        /\ req'[p].seen.receipt \in {NoReceipt, req[p].seen.receipt}
        /\ req'[p].at # "idle" => req'[p].call = req[p].call
    BY <1>8, ReturnMoves
  <2>2. UNCHANGED <<payments, calls>> /\ row'.receipt = row.receipt
    BY <1>1, <1>8
    DEF CancelWrite, Stamp, ReverseCheck, ReverseSum, ReverseWeigh, ReverseAdd, ReverseEntry,
        bounds, Row
  <2> QED BY <1>4, <2>1, <2>2 DEF Open, Committing, Reversing
<1>9. ASSUME NEW p \in Clients, Crash(p) PROVE ReceiptInv'
  BY <1>4, <1>9, Ended DEF Crash, Open, Committing
<1>10. ASSUME NEW i \in Calls, NEW p \in Clients, Hear(p, i) PROVE ReceiptInv'
  <2>1. /\ UNCHANGED row /\ calls' >= calls /\ calls' \in Nat
        /\ payments[i].kind = "session" /\ payments[i].state # "open"
    BY <1>1, <1>10 DEF Hear
  <2>2. i <= calls'
    BY <1>1, <2>1 DEF ReceiptInv, Calls
  <2>3. CASE UNCHANGED payments /\ req'[p].at = "hook" /\ req'[p].call = i /\ req'[p].seen = NewRow
    <3>1. ReceiptOK(req[p])'
      BY <2>1, <2>2, <2>3 DEF ReceiptOK, Held, Open, Committing, NewRow
    <3> QED BY <1>2, <1>3, <1>10, <2>1, <2>3, <3>1, Heard, NoRecord DEF Open, Committing
  <2>4. CASE UNCHANGED req /\ payments' = [payments EXCEPT ![i].told = TRUE]
    <3>1. Paying
      BY <1>1, <2>4 DEF Paying, Payment
    <3>2. ReceiptOK(req[p])'
      BY <2>1, <2>4, <3>1, OthersReceipts
    <3> QED BY <1>3, <1>10, <2>1, <2>4, <3>1, <3>2, Heard, NoRecord
  <2> QED BY <1>10, <2>3, <2>4, Heard
<1>11. ASSUME NEW i \in Calls, PayOnline(i) PROVE ReceiptInv'
  <2>1. Paying
    BY <1>1, <1>11 DEF PayOnline, Paying, Payment
  <2> QED BY <1>11, <2>1, SameReceipts DEF PayOnline, bounds
<1>12. CASE Resolve \/ Renew \/ SpendElsewhere \/ Unsubscribe \/ UNCHANGED vars
  <2>1. UNCHANGED <<req, calls, payments>> /\ row'.receipt = row.receipt
    BY <1>1, <1>12
    DEF Resolve, Renew, SpendElsewhere, Unsubscribe, Elsewhere, vars, bounds, Row
  <2> QED BY <1>2, <2>1, SameReceipts
<1> QED
  BY <1>5, <1>6, <1>7, <1>8, <1>9, <1>10, <1>11, <1>12, ReceiptSteps DEF Next, Continue

LEMMA ReceiptInit == Init => ReceiptInv
BY DEF Init, ReceiptInv, ReceiptOK, Open, Committing, Idle, NewRow

-----------------------------------------------------------------------------
(* A cancelled row holds nothing: nobody is about to enter units for it,   *)
(* and what it has is returned or refunded, or the cancellation is about   *)
(* to.                                                                     *)

Excused == {"overtaken", "refused", "capped", "revived", "dead", "cutCancel"}
Undoing(p) == req[p].why = "cancel" /\ req[p].at \in Reversing \cup {"refund", "stamp"}
Refunding(p) == req[p].why = "cancel" /\ req[p].at = "refund" /\ req[p].seen.receipt = row.receipt
CancelOK ==
  row.status = "cancelled" =>
    /\ \A p \in Clients : ~At(p, "entry")
    /\ spent > 0 => returned \/ \E p \in Clients : Undoing(p)
    /\ row.receipt # NoReceipt =>
         payments[row.receipt].state = "refunded" \/ \E p \in Clients : Refunding(p)
CancelInv == Clean(Excused) => CancelOK

Refunded == row.receipt # NoReceipt /\ payments[row.receipt].state = "refunded"
RowStill == row'.status = "cancelled" => row.status = "cancelled" /\ row'.receipt = row.receipt
(* No payment that was made is refunded no longer. *)
Kept == \A i \in Calls : Held(i) /\ payments[i].state = "refunded" => payments'[i].state = "refunded"

LEMMA KeptRefunded ==
  ASSUME ReceiptInv, Kept, RowStill, row'.status = "cancelled", Refunded
  PROVE  Refunded'
BY DEF ReceiptInv, Kept, RowStill, Refunded, Held

LEMMA KeepsCancel ==
  ASSUME TypeInv, ReceiptInv, CancelOK, NEW p \in Clients, Stays(p), RowStill, Kept,
         row'.status = "cancelled" => spent' = spent /\ req'[p].at # "entry",
         returned => returned',
         row'.status = "cancelled" /\ Undoing(p) => Undoing(p)' \/ returned' \/ ~(spent > 0),
         row'.status = "cancelled" /\ Refunding(p) => row.receipt = NoReceipt \/ Refunded'
  PROVE  CancelOK'
<1> SUFFICES ASSUME row'.status = "cancelled"
             PROVE  /\ \A q \in Clients : ~At(q, "entry")'
                    /\ spent' > 0 => returned' \/ \E q \in Clients : Undoing(q)'
                    /\ row'.receipt # NoReceipt => Refunded' \/ \E q \in Clients : Refunding(q)'
  BY DEF CancelOK, Refunded
<1>1. row.status = "cancelled" /\ row'.receipt = row.receipt
  BY DEF RowStill
<1>2. \A q \in Clients : ~At(q, "entry")'
  BY <1>1 DEF CancelOK, Stays, At
<1>3. ASSUME spent' > 0 PROVE returned' \/ \E q \in Clients : Undoing(q)'
  <2>1. returned \/ \E q \in Clients : Undoing(q)
    BY <1>1, <1>3 DEF CancelOK
  <2>2. CASE returned
    BY <2>2
  <2>3. ASSUME NEW q \in Clients, Undoing(q) PROVE returned' \/ \E s \in Clients : Undoing(s)'
    <3>1. CASE q = p
      BY <1>3, <2>3, <3>1
    <3>2. CASE q # p
      BY <2>3, <3>2 DEF Undoing, Stays
    <3> QED BY <3>1, <3>2
  <2> QED BY <2>1, <2>2, <2>3
<1>4. ASSUME row'.receipt # NoReceipt PROVE Refunded' \/ \E q \in Clients : Refunding(q)'
  <2>1. Refunded \/ \E q \in Clients : Refunding(q)
    BY <1>1, <1>4 DEF CancelOK, Refunded
  <2>2. CASE Refunded
    BY <2>2, KeptRefunded
  <2>3. ASSUME NEW q \in Clients, Refunding(q) PROVE Refunded' \/ \E s \in Clients : Refunding(s)'
    <3>1. CASE q = p
      BY <1>1, <1>4, <2>3, <3>1
    <3>2. CASE q # p
      BY <1>1, <2>3, <3>2 DEF Refunding, Stays
    <3> QED BY <3>1, <3>2
  <2> QED BY <2>1, <2>2, <2>3
<1> QED BY <1>2, <1>3, <1>4

LEMMA SameCancel ==
  ASSUME ReceiptInv, CancelOK, UNCHANGED <<req, spent, returned>>, RowStill, Kept
  PROVE  CancelOK'
<1> SUFFICES ASSUME row'.status = "cancelled" PROVE CancelOK'
  BY DEF CancelOK
<1>1. row.status = "cancelled" /\ row'.receipt = row.receipt
  BY DEF RowStill
<1>2. (\E p \in Clients : Refunding(p)) => \E p \in Clients : Refunding(p)'
  BY <1>1 DEF Refunding
<1>3. (\E p \in Clients : Undoing(p)) => \E p \in Clients : Undoing(p)'
  BY DEF Undoing
<1> QED BY <1>1, <1>2, <1>3, KeptRefunded DEF CancelOK, Refunded, At

LEMMA CancelSteps ==
  ASSUME TypeInv, ReceiptInv, CancelOK, Clean(Excused)', NEW p \in Clients,
         \/ CancelWrite(p) \/ RefundPayment(p) \/ Stamp(p)
         \/ ReverseCheck(p) \/ ReverseSum(p) \/ ReverseWeigh(p) \/ ReverseAdd(p) \/ ReverseEntry(p)
  PROVE  CancelOK'
<1>1. /\ req[p] \in Request /\ RequestOK(req[p]) /\ row \in Row /\ spent \in Nat
      /\ payments \in [Calls -> Payment] /\ \A q \in Clients : RequestOK(req[q])
  BY DEF TypeInv, TypeOK
<1>2. UNCHANGED payments => Kept
  BY DEF Kept
<1>3. UNCHANGED row => RowStill
  BY DEF RowStill
<1>4. CASE CancelWrite(p)
  <2>1. row = req[p].seen /\ \A q \in Clients \ {p} : req[q].why \in {"none", "cancel"}
    BY <1>4 DEF CancelWrite, Clean, Excused
  <2>2. req[p].why = "cancel" /\ row.status \in Live
    BY <1>1, <1>4, <2>1 DEF CancelWrite, At, RequestOK
  <2>3. /\ Stays(p) /\ req'[p].why = "cancel" /\ req'[p].seen = row
        /\ req'[p].at = (IF row.receipt # NoReceipt THEN "refund" ELSE "reverse")
    BY <1>4, <2>1, <2>2, Gone DEF CancelWrite
  <2>4. row'.receipt = row.receipt
    BY <1>1, <1>4, <2>2 DEF CancelWrite, Row
  <2>5. \A q \in Clients : req'[q].at # "entry"
    BY <1>1, <2>1, <2>3 DEF Stays, RequestOK, Committing
  <2> QED BY <2>3, <2>4, <2>5 DEF CancelOK, At, Undoing, Refunding, Reversing
<1>5. CASE RefundPayment(p)
  <2> DEFINE i == req[p].seen.receipt
  <2>1. /\ payments' = (IF payments[i].state = "paid" THEN [payments EXCEPT ![i].state = "refunded"]
                                                      ELSE payments)
        /\ Goto(p, IF req[p].why = "cancel" THEN "stamp" ELSE "reverse")
        /\ UNCHANGED <<row, accounts>> /\ i \in Calls /\ Held(i)
    <3>1. i \in Calls /\ Held(i)
      BY <1>1, <1>5 DEF RefundPayment, At, RequestOK, ReceiptInv, ReceiptOK, Held
    <3> QED BY <1>5, <3>1 DEF RefundPayment, Clean, Excused, Refundable
  <2>2. payments'[i].state = "refunded" /\ Kept
    BY <1>1, <2>1 DEF Held, Payment, Kept
  <2>3. /\ Stays(p) /\ req'[p].at \in {"stamp", "reverse"} /\ req'[p].why = req[p].why
    BY <2>1, Gone
  <2>4. Undoing(p) => Undoing(p)'
    BY <2>3 DEF Undoing, Reversing
  <2>5. Refunding(p) => row.receipt = NoReceipt \/ Refunded'
    BY <2>1, <2>2 DEF Refunding, Refunded
  <2> QED BY <1>3, <2>1, <2>2, <2>3, <2>4, <2>5, KeepsCancel DEF accounts
<1>6. ASSUME Stays(p), UNCHANGED <<payments, spent>>, RowStill, returned => returned',
             req[p].at \in Reversing \cup {"stamp"}, req'[p].at # "entry",
             Undoing(p) => Undoing(p)' \/ returned' \/ ~(spent > 0)
      PROVE  CancelOK'
  BY <1>2, <1>6, KeepsCancel DEF Refunding, Reversing
<1>7. CASE Stamp(p)
  <2>1. Stays(p) /\ req'[p].at \in {"reverse", "idle"} /\ (Undoing(p) => Undoing(p)')
    BY <1>7, Gone, Ended DEF Stamp, Undoing, Reversing
  <2>2. RowStill
    BY <1>1, <1>7 DEF Stamp, RowStill, Row
  <2> QED BY <1>6, <1>7, <2>1, <2>2 DEF Stamp, At, accounts
<1>8. ASSUME Reversed(p) PROVE Stays(p) /\ req'[p].at \in {"stamp", "idle"}
  BY <1>8, Gone, Ended DEF Reversed
<1>9. CASE ReverseCheck(p)
  <2>1. Stays(p) /\ req'[p].at # "entry" /\ (Undoing(p) => Undoing(p)' \/ returned)
    BY <1>8, <1>9, Gone DEF ReverseCheck, AlreadyReversed, Undoing, Reversing
  <2> QED BY <1>3, <1>6, <1>9, <2>1 DEF ReverseCheck, At, Reversing, accounts
<1>10. CASE ReverseSum(p)
  <2>1. CASE spent = 0
    BY <1>3, <1>6, <1>8, <1>10, <2>1 DEF ReverseSum, At, Reversing, accounts
  <2>2. CASE spent # 0
    <3>1. PICK n : Become(p, [req[p] EXCEPT !.at = "weigh", !.units = n])
      BY <1>10, <2>2 DEF ReverseSum
    <3>2. Stays(p) /\ req'[p].at = "weigh" /\ (Undoing(p) => Undoing(p)')
      BY <3>1, Learned DEF Undoing, Reversing
    <3> QED BY <1>3, <1>6, <1>10, <3>2 DEF ReverseSum, At, Reversing, accounts
  <2> QED BY <2>1, <2>2
<1>11. CASE ReverseWeigh(p)
  <2>1. Lower(req[p].units, Room) # 0
    <3>1. Lower(req[p].units, Room) >= req[p].units \/ "capped" \in blemishes'
      <4>1. Room \in Nat /\ req[p].units \in Nat
        BY <1>1 DEF Room, Request, TypeInv, TypeOK
      <4>2. Lower(req[p].units, Room) \in Nat
        BY <4>1 DEF Lower
      <4> QED BY <1>11, <4>1, <4>2 DEF ReverseWeigh
    <3> QED BY <1>1, <1>11, <3>1 DEF ReverseWeigh, At, RequestOK, Request, Clean, Excused
  <2>2. PICK n : Become(p, [req[p] EXCEPT !.at = "add", !.units = n])
    BY <1>11, <2>1 DEF ReverseWeigh
  <2>3. Stays(p) /\ req'[p].at = "add" /\ (Undoing(p) => Undoing(p)')
    BY <2>2, Learned DEF Undoing, Reversing
  <2> QED BY <1>3, <1>6, <1>11, <2>3 DEF ReverseWeigh, At, Reversing, accounts
<1>12. CASE ReverseAdd(p)
  <2>1. Stays(p) /\ req'[p].at = "addEntry" /\ (Undoing(p) => Undoing(p)')
    BY <1>12, Gone DEF ReverseAdd, Undoing, Reversing
  <2> QED BY <1>3, <1>6, <1>12, <2>1 DEF ReverseAdd, At, Reversing
<1>13. CASE ReverseEntry(p)
  BY <1>3, <1>6, <1>8, <1>13 DEF ReverseEntry, At, Reversing
<1> QED BY <1>4, <1>5, <1>7, <1>9, <1>10, <1>11, <1>12, <1>13

LEMMA CancelStep == TypeInv /\ ReceiptInv /\ CancelInv /\ [Next]_vars => CancelInv'
<1> SUFFICES ASSUME TypeInv, ReceiptInv, CancelInv, [Next]_vars, Clean(Excused)'
             PROVE  CancelOK'
  BY DEF CancelInv
<1>1. CancelOK /\ row \in Row /\ payments \in [Calls -> Payment] /\ spent \in Nat
  BY TypeStep DEF CancelInv, Clean, TypeInv, TypeOK
<1>2. UNCHANGED payments => Kept
  BY DEF Kept
<1>3. UNCHANGED row => RowStill
  BY DEF RowStill
<1>4. ASSUME NEW p \in Clients, Stays(p), RowStill, Kept, UNCHANGED <<spent, returned>>,
             ~Undoing(p), row'.status = "cancelled" => req'[p].at # "entry"
      PROVE  CancelOK'
  BY <1>1, <1>4, KeepsCancel DEF Undoing, Refunding
<1>5. ASSUME NEW p \in Clients, Call(p) PROVE CancelOK'
  <2>1. /\ Stays(p) /\ ~Undoing(p) /\ req'[p].at # "entry"
        /\ UNCHANGED <<row, payments, spent, returned>>
    BY <1>5, Arrived DEF Undoing, Idle, Reversing, accounts
  <2> QED BY <1>2, <1>3, <1>4, <2>1
<1>6. ASSUME NEW p \in Clients, Crash(p) PROVE CancelOK'
  <2>1. ~Undoing(p) /\ UNCHANGED <<row, payments, spent, returned>>
    BY <1>6 DEF Crash, Undoing, Clean, Excused, accounts
  <2> QED BY <1>2, <1>3, <1>4, <1>6, <2>1, Ended DEF Crash
<1>7. ASSUME NEW p \in Clients, CommitRead(p) \/ BalanceRead(p) \/ Deduct(p) \/ Mark(p)
      PROVE  CancelOK'
  <2>1. Stays(p) /\ ~Undoing(p) /\ UNCHANGED <<payments, spent, returned>>
    BY <1>7, CommitMoves
    DEF Undoing, Committing, Reversing, CommitRead, BalanceRead, Deduct, Mark, accounts
  <2>2. RowStill
    BY <1>1, <1>3, <1>7 DEF CommitRead, BalanceRead, Deduct, Mark, RowStill, Row
  <2>3. row'.status = "cancelled" => req'[p].at # "entry"
    <3>1. CASE Deduct(p)
      BY <3>1, Ended DEF Deduct, Clean, Excused, Eligible, Live
    <3>2. CASE CommitRead(p) \/ BalanceRead(p) \/ Mark(p)
      BY <3>2, Gone, CommitDone, Weighed DEF CommitRead, Mark
    <3> QED BY <1>7, <3>1, <3>2
  <2> QED BY <1>2, <1>4, <2>1, <2>2, <2>3
<1>8. ASSUME NEW p \in Clients, DeductEntry(p) PROVE CancelOK'
  BY <1>1, <1>8 DEF DeductEntry, CancelOK
<1>9. ASSUME NEW p \in Clients,
             \/ SettleReceipt(p) \/ Settle(p) \/ FinishBook(p) \/ FinishConfirm(p) \/ FinishPay(p)
             \/ FinishCash(p) \/ Reread(p) \/ Complete(p) \/ CompConfirm(p) \/ CompMark(p)
      PROVE  CancelOK'
  <2>1. Stays(p) /\ ~Undoing(p) /\ req'[p].at # "entry"
    BY <1>9, SettleMoves DEF Undoing, SettleLabels, Reversing
  <2>2. UNCHANGED <<spent, returned>>
    BY <1>9
    DEF SettleReceipt, Settle, FinishBook, FinishConfirm, FinishPay, FinishCash, Reread, Complete,
        CompConfirm, CompMark, accounts
  <2>3. RowStill
    BY <1>1, <1>3, <1>9
    DEF SettleReceipt, Settle, FinishBook, FinishConfirm, FinishPay, FinishCash, Reread, Complete,
        CompConfirm, CompMark, RowStill, Row, Live
  <2>4. Kept
    <3>1. CASE UNCHANGED payments
      BY <1>2, <3>1
    <3>2. ASSUME NEW kind, NEW state, Record(req[p].call, kind, state), req[p].at \in Open PROVE Kept
      <4>1. payments[req[p].call].kind = "none"
        BY <3>2 DEF ReceiptInv, ReceiptOK
      <4> QED BY <1>1, <3>2, <4>1 DEF Record, Kept, Held
    <3> QED
      BY <1>9, <3>1, <3>2
      DEF SettleReceipt, Settle, FinishBook, FinishConfirm, FinishPay, FinishCash, Reread, Complete,
          CompConfirm, CompMark, At, Open
  <2> QED BY <1>4, <2>1, <2>2, <2>3, <2>4
<1>10. ASSUME NEW p \in Clients, HookWrite(p) PROVE CancelOK'
  BY <1>1, <1>10 DEF HookWrite, CancelOK, Row
<1>11. ASSUME NEW i \in Calls, NEW p \in Clients, Hear(p, i) PROVE CancelOK'
  <2>1. Stays(p) /\ ~Undoing(p) /\ req'[p].at # "entry"
    BY <1>11, Heard DEF Undoing, Reversing
  <2>2. Kept
    BY <1>1, <1>2, <1>11 DEF Hear, Kept, Payment
  <2> QED BY <1>3, <1>4, <1>11, <2>1, <2>2 DEF Hear, accounts
<1>12. CASE \/ \E i \in Calls : PayOnline(i)
            \/ Resolve \/ Renew \/ SpendElsewhere \/ Unsubscribe \/ UNCHANGED vars
  <2>1. UNCHANGED <<req, spent, returned>>
    BY <1>12 DEF PayOnline, Resolve, Renew, SpendElsewhere, Unsubscribe, Elsewhere, vars, accounts
  <2>2. RowStill
    BY <1>1, <1>3, <1>12
    DEF PayOnline, Resolve, Renew, SpendElsewhere, Unsubscribe, Elsewhere, vars, RowStill, Row
  <2>3. Kept
    BY <1>1, <1>2, <1>12
    DEF PayOnline, Resolve, Renew, SpendElsewhere, Unsubscribe, Elsewhere, vars, Kept, Payment
  <2> QED BY <1>1, <2>1, <2>2, <2>3, SameCancel
<1> QED
  BY <1>1, <1>5, <1>6, <1>7, <1>8, <1>9, <1>10, <1>11, <1>12, CancelSteps DEF Next, Continue

(* A cancelled reservation keeps neither credits nor a recorded payment,   *)
(* but for the races and failures its excuses name (cancel,                *)
(* reverseReservationCredits).                                             *)
THEOREM CancelledIsEmpty == Spec => []CancelledHoldsNothing
<1>1. Init => CancelInv
  BY DEF Init, CancelInv, CancelOK, NewRow
<1>2. CancelInv => CancelledHoldsNothing
  BY DEF CancelInv, CancelOK, CancelledHoldsNothing, Excused, Quiet, Undoing, Refunding, Idle
<1> QED BY <1>1, <1>2, InitOK, TypeStep, ReceiptInit, ReceiptStep, CancelStep, PTL DEF Spec
=============================================================================
