----------------------------- MODULE TicketProofs -----------------------------
(***************************************************************************)
(* The tickets of an event, for every number of purchases, quantity and    *)
(* capacity: the types, that a bought ticket which opens the door was paid, *)
(* that a ticket's end is final and that an event is oversold only to a    *)
(* purchase that was overtaken.                                            *)
(***************************************************************************)
EXTENDS Tickets, FiniteSetTheorems, TLAPS

Minted(p) == req[p] \notin {"idle", "remaining", "create"}
Paid(t) == sale[t[1]].kind = "buy" => t \in stamped /\ sale[t[1]].money \in {"paid", "credits"}
Fits(p) == event = "gone" \/ sale[p].quantity <= Capacity - sale[p].counted

(* A request sells what it asked for, and got, only while that fits what   *)
(* it counted; money goes with a purchase whose tickets are there to buy.  *)
SaleOK(p) ==
  /\ req[p] = "idle" => sale[p] = NoSale
  /\ req[p] # "idle" => sale[p].quantity \in 1..MaxQuantity /\ sale[p].kind # "none"
  /\ req[p] \in {"create", "checkout", "fulfil"} => Fits(p)
  /\ ~Minted(p) \/ req[p] = "checkout" => sale[p].money = "none"
  /\ req[p] \in {"checkout", "fulfil"} => sale[p].kind = "buy"
  /\ req[p] = "fulfil" => sale[p].money = "credits"

(* A row is one of those that a request wrote.                             *)
RowOK(t) ==
  ticket[t] # "none" =>
    /\ Minted(t[1]) /\ Fits(t[1])
    /\ t[2] <= sale[t[1]].quantity

(* Staff who are about to admit somebody read a ticket that was paid.      *)
DeskOK(d) ==
  /\ d.at \in {"cancelTicket", "checkIn"} => d.row \in Tickets
  /\ d.at = "checkIn" => Minted(d.row[1]) /\ (ticket[d.row] = "none" \/ Paid(d.row))

SalesInv == \A p \in Purchases : SaleOK(p)
RowsInv == \A t \in Tickets : RowOK(t) /\ (t \in Admitted => Paid(t))
DesksInv == \A s \in Staff : DeskOK(desk[s])
TicketInv == TypeOK /\ SalesInv /\ RowsInv /\ DesksInv

-----------------------------------------------------------------------------
(* How many tickets there can be. *)

LEMMA BatchSize ==
  ASSUME NEW p \in Purchases, NEW n \in Nat
  PROVE  IsFiniteSet(Batch(p, n)) /\ Cardinality(Batch(p, n)) <= n
<1> DEFINE f == [t \in Batch(p, n) |-> t[2]]
<1>1. f \in Injection(Batch(p, n), 1..n)
  <2>1. \A t \in Batch(p, n) : t = <<p, t[2]>> /\ t[2] \in 1..n
    BY DEF Batch
  <2> QED BY <2>1 DEF Injection, IsInjective
<1>2. IsFiniteSet(1..n) /\ Cardinality(1..n) = n
  BY FS_Interval
<1> QED BY <1>1, <1>2, FS_Injection

LEMMA AdmittedFinite ==
  /\ IsFiniteSet(Admitted) /\ IsFiniteSet(Admitted')
  /\ Cardinality(Admitted) \in Nat /\ Cardinality(Admitted') \in Nat
  /\ Sold = Cardinality(Admitted)
<1>1. IsFiniteSet(Tickets)
  <2>1. IsFiniteSet(1..MaxQuantity)
    BY TicketsAssumption, FS_Interval
  <2> QED BY <2>1, TicketsAssumption, FS_Product DEF Tickets
<1>2. Admitted \subseteq Tickets /\ Admitted' \subseteq Tickets
  BY DEF Admitted
<1>3. IsFiniteSet(Admitted) /\ IsFiniteSet(Admitted')
  BY <1>1, <1>2, FS_Subset
<1> QED BY <1>3, FS_CardinalityType DEF Sold, Admitted

LEMMA BatchAdmitted ==
  ASSUME NEW p \in Purchases, NEW n \in Nat, Admitted' \subseteq Admitted \cup Batch(p, n)
  PROVE  Cardinality(Admitted') <= Cardinality(Admitted) + n
<1> DEFINE B == Batch(p, n)
<1>1. IsFiniteSet(B) /\ Cardinality(B) <= n /\ Cardinality(B) \in Nat
  BY BatchSize, FS_CardinalityType
<1>2. IsFiniteSet(Admitted \cup B)
      /\ Cardinality(Admitted \cup B) = Cardinality(Admitted) + Cardinality(B) - Cardinality(Admitted \cap B)
  BY <1>1, AdmittedFinite, FS_Union
<1>3. Cardinality(Admitted \cap B) \in Nat
  BY AdmittedFinite, FS_Subset, FS_CardinalityType
<1>4. Cardinality(Admitted') <= Cardinality(Admitted \cup B)
  BY <1>2, FS_Subset
<1>5. Cardinality(Admitted \cup B) \in Nat
  BY <1>2, FS_CardinalityType
<1> HIDE DEF B
<1> QED BY <1>1, <1>2, <1>3, <1>4, <1>5, AdmittedFinite

-----------------------------------------------------------------------------
(* Type correctness: what the building blocks of a step do. *)

TicketsOK == ticket' \in [Tickets -> Statuses]
             /\ \A t \in Tickets : ticket'[t] = "pending" => sale'[t[1]].kind = "buy"

LEMMA SetOK ==
  ASSUME TypeOK, NEW rows, NEW status \in Statuses \ {"pending"}, Set(rows, status),
         \A p \in Purchases : sale'[p].kind = sale[p].kind
  PROVE  TicketsOK
<1>1. \A t \in Tickets : t[1] \in Purchases
  BY DEF Tickets
<1> QED BY <1>1 DEF TypeOK, Set, TicketsOK

LEMMA KeepTickets ==
  ASSUME TypeOK, UNCHANGED <<ticket, sale>>
  PROVE  TicketsOK
BY DEF TypeOK, TicketsOK

LEMMA MoveOK ==
  ASSUME TypeOK, NEW p, NEW label \in Requests, Move(p, label)
  PROVE  req' \in [Purchases -> Requests]
BY DEF TypeOK, Move

LEMMA CallOK ==
  ASSUME TypeOK, NEW s \in Staff, NEW label \in Desks, NEW row \in Tickets \cup {<<>>},
         Call(s, label, row)
  PROVE  desk' \in [Staff -> [at : Desks, row : Tickets \cup {<<>>}]] /\ calls' \in 0..MaxCalls
BY TicketsAssumption DEF TypeOK, Call

LEMMA ReturnOK ==
  ASSUME TypeOK, NEW s \in Staff, Return(s)
  PROVE  desk' \in [Staff -> [at : Desks, row : Tickets \cup {<<>>}]]
BY DEF TypeOK, Return, Idle, Desks

LEMMA InitOK == Init => TicketInv
<1> SUFFICES ASSUME Init PROVE TicketInv
  OBVIOUS
<1>1. 0 \in 0..MaxCalls /\ 0 \in 0..MaxCrashes /\ 0 \in 0..MaxQuantity
  BY TicketsAssumption
<1>2. NoSale \in Sale
  BY <1>1 DEF NoSale, Sale, Kinds
<1>3. TypeOK
  BY <1>1, <1>2 DEF Init, TypeOK, Statuses, Requests, Idle, Desks
<1>4. SalesInv
  BY DEF Init, SalesInv, SaleOK, Minted, NoSale
<1>5. RowsInv /\ DesksInv
  BY DEF Init, RowsInv, RowOK, Admitted, DesksInv, DeskOK, Idle
<1> QED BY <1>3, <1>4, <1>5 DEF TicketInv

LEMMA SaleTyped ==
  ASSUME TypeOK, NEW p \in Purchases, NEW r \in Sale, sale' = [sale EXCEPT ![p] = r]
  PROVE  sale' \in [Purchases -> Sale]
         /\ (r.kind = sale[p].kind => \A q \in Purchases : sale'[q].kind = sale[q].kind)
BY DEF TypeOK

(* The purchases and the buyers' money. *)
LEMMA BuyerTyped ==
  ASSUME TypeOK, SalesInv, RowsInv, NEW p \in Purchases,
         Buyer(p) \/ Stripe(p) \/ Age(p)
  PROVE  TypeOK'
<1>1. sale[p] \in Sale
  BY DEF TypeOK
<1>2. \A t \in Tickets : t[1] \in Purchases
  BY DEF Tickets
<1>3. ASSUME NEW kind \in Kinds \ {"none"}, NEW n \in 1..MaxQuantity, Arrive(p, kind, n)
      PROVE  TypeOK'
  <2>1. sale' \in [Purchases -> Sale]
    <3> DEFINE r == [sale[p] EXCEPT !.kind = kind, !.quantity = n]
    <3>1. n \in 0..MaxQuantity
      BY TicketsAssumption
    <3>2. r \in Sale
      BY <1>1, <3>1 DEF Sale
    <3>3. sale' = [sale EXCEPT ![p] = r]
      BY <1>3 DEF Arrive
    <3> QED BY <3>2, <3>3, SaleTyped
  <2>2. \A t \in Tickets : ticket[t] = "pending" => t[1] # p
    BY <1>3 DEF Arrive, RowsInv, RowOK, Minted
  <2>3. TicketsOK
    BY <1>2, <1>3, <2>2 DEF Arrive, TypeOK, TicketsOK
  <2> QED BY <1>3, <2>1, <2>3, MoveOK DEF Arrive, TypeOK, TicketsOK, Requests, bounds
<1>4. CASE Remaining(p)
  <2> DEFINE n == Cardinality(Admitted)
  <2>1. n \in Nat
    BY AdmittedFinite
  <2>2. sale' = [sale EXCEPT ![p].counted = n]
    BY <1>4 DEF Remaining
  <2> HIDE DEF n
  <2>3. sale' \in [Purchases -> Sale] /\ \A q \in Purchases : sale'[q].kind = sale[q].kind
    BY <2>1, <2>2 DEF TypeOK, Sale
  <2>4. TicketsOK
    BY <1>2, <1>4, <2>3 DEF Remaining, TypeOK, TicketsOK
  <2>5. req' \in [Purchases -> Requests]
    BY <1>4, MoveOK DEF Remaining, Requests
  <2> QED BY <1>4, <2>3, <2>4, <2>5 DEF Remaining, TypeOK, TicketsOK, bounds
<1>5. CASE Create(p)
  <2>1. req' \in [Purchases -> Requests]
    BY <1>5, MoveOK DEF Create, Requests
  <2>2. TicketsOK
    <3>1. CASE UNCHANGED ticket
      BY <1>5, <3>1, KeepTickets DEF Create
    <3>2. ASSUME NEW n, Set(Batch(p, n), MintedAs(sale[p].kind)) PROVE TicketsOK
      <4>1. \A t \in Batch(p, n) : t[1] = p
        BY DEF Batch
      <4>2. MintedAs(sale[p].kind) \in Statuses
            /\ (MintedAs(sale[p].kind) = "pending" => sale[p].kind = "buy")
        BY DEF MintedAs, Statuses
      <4> QED BY <1>5, <3>2, <4>1, <4>2 DEF Create, Set, TypeOK, TicketsOK
    <3> QED BY <1>5, <3>1, <3>2 DEF Create
  <2> QED BY <1>5, <2>1, <2>2 DEF Create, TypeOK, TicketsOK, bounds
<1>6. CASE Checkout(p)
  <2>1. sale' \in [Purchases -> Sale] /\ \A q \in Purchases : sale'[q].kind = sale[q].kind
    <3>1. CASE UNCHANGED sale
      BY <3>1 DEF TypeOK
    <3>2. ASSUME NEW money \in {"session", "credits"}, sale' = [sale EXCEPT ![p].money = money]
          PROVE  sale' \in [Purchases -> Sale] /\ \A q \in Purchases : sale'[q].kind = sale[q].kind
      <4> DEFINE r == [sale[p] EXCEPT !.money = money]
      <4>1. r \in Sale /\ r.kind = sale[p].kind
        BY <1>1 DEF Sale
      <4> QED BY <3>2, <4>1, SaleTyped
    <3> QED BY <1>6, <3>1, <3>2 DEF Checkout
  <2>2. TicketsOK
    BY <1>2, <1>6, <2>1 DEF Checkout, TypeOK, TicketsOK
  <2>3. req' \in [Purchases -> Requests]
    BY <1>6, MoveOK DEF Checkout, Requests
  <2> QED BY <1>6, <2>1, <2>2, <2>3 DEF Checkout, TypeOK, TicketsOK, bounds
<1>7. ASSUME Fulfilled(p), UNCHANGED sale
      PROVE  TicketsOK /\ stamped' \subseteq Tickets
  <2>1. TicketsOK
    BY <1>7, SetOK DEF Fulfilled, Statuses
  <2>2. Pending(p) \subseteq Tickets
    BY DEF Pending, Batch, Tickets
  <2> QED BY <1>7, <2>1, <2>2 DEF Fulfilled, TypeOK
<1>8. CASE Fulfil(p)
  <2>1. req' \in [Purchases -> Requests]
    BY <1>8, MoveOK DEF Fulfil, Requests
  <2> QED BY <1>7, <1>8, <2>1 DEF Fulfil, TypeOK, TicketsOK, bounds
<1>9. CASE Deliver(p)
  BY <1>7, <1>9 DEF Deliver, TypeOK, TicketsOK, bounds
<1>10. CASE Crash(p)
  <2>1. req' \in [Purchases -> Requests] /\ crashes' \in 0..MaxCrashes
    BY <1>10, MoveOK, TicketsAssumption DEF Crash, TypeOK, Requests
  <2> QED BY <1>10, <2>1 DEF Crash, TypeOK
<1>11. CASE Pay(p) \/ Expire(p) \/ Age(p)
  <2>1. sale' \in [Purchases -> Sale] /\ \A q \in Purchases : sale'[q].kind = sale[q].kind
    <3> DEFINE paid == [sale[p] EXCEPT !.money = "paid"]
               late == [sale[p] EXCEPT !.money = "expired"]
               aged == [sale[p] EXCEPT !.aged = TRUE]
    <3>1. /\ paid \in Sale /\ late \in Sale /\ aged \in Sale
          /\ {paid.kind, late.kind, aged.kind} = {sale[p].kind}
      BY <1>1 DEF Sale
    <3>2. \E r \in {paid, late, aged} : sale' = [sale EXCEPT ![p] = r]
      BY <1>11 DEF Pay, Expire, Age
    <3> HIDE DEF paid, late, aged
    <3> QED BY <3>1, <3>2, SaleTyped
  <2>2. TicketsOK
    BY <1>2, <1>11, <2>1 DEF Pay, Expire, Age, TypeOK, TicketsOK
  <2> QED BY <1>11, <2>1, <2>2 DEF Pay, Expire, Age, TypeOK, TicketsOK, bounds
<1> QED
  BY <1>3, <1>4, <1>5, <1>6, <1>8, <1>9, <1>10, <1>11 DEF Buyer, Stripe, Continue

(* The calls of staff. *)
LEMMA ClerkTyped ==
  ASSUME TypeOK, NEW s \in Staff, Clerk(s)
  PROVE  TypeOK'
<1>1. ASSUME NEW t \in Tickets, ReadTicket(s, t) PROVE TypeOK'
  <2>1. desk' \in [Staff -> [at : Desks, row : Tickets \cup {<<>>}]] /\ calls' \in 0..MaxCalls
    BY <1>1, CallOK DEF ReadTicket, Desks
  <2> QED BY <1>1, <2>1 DEF ReadTicket, TypeOK
<1>2. CASE WriteTicket(s)
  <2>1. TicketsOK
    BY <1>2, SetOK DEF WriteTicket, Statuses
  <2> QED BY <1>2, <2>1, ReturnOK DEF WriteTicket, TypeOK, TicketsOK, bounds
<1>3. CASE CancelEvent(s)
  <2>1. desk' \in [Staff -> [at : Desks, row : Tickets \cup {<<>>}]] /\ calls' \in 0..MaxCalls
    BY <1>3, CallOK DEF CancelEvent, Desks
  <2> QED BY <1>3, <2>1 DEF CancelEvent, TypeOK
<1>4. CASE Void(s)
  <2>1. TicketsOK
    BY <1>4, SetOK DEF Void, Statuses
  <2> QED BY <1>4, <2>1, ReturnOK DEF Void, TypeOK, TicketsOK, bounds
<1>5. CASE CountTickets(s)
  <2>1. desk' \in [Staff -> [at : Desks, row : Tickets \cup {<<>>}]] /\ calls' \in 0..MaxCalls
    BY <1>5, CallOK DEF CountTickets, Desks
  <2> QED BY <1>5, <2>1 DEF CountTickets, TypeOK
<1>6. CASE Remove(s)
  <2>1. TicketsOK
    BY <1>6, SetOK DEF Remove, Statuses
  <2> QED BY <1>6, <2>1, ReturnOK DEF Remove, TypeOK, TicketsOK, bounds
<1>7. CASE Unpublish(s)
  <2>1. desk' \in [Staff -> [at : Desks, row : Tickets \cup {<<>>}]] /\ calls' \in 0..MaxCalls
    BY <1>7, CallOK DEF Unpublish, Desks
  <2> QED BY <1>7, <2>1 DEF Unpublish, TypeOK
<1>8. CASE CountSold(s)
  <2>1. desk' \in [Staff -> [at : Desks, row : Tickets \cup {<<>>}]]
    BY <1>8, ReturnOK DEF CountSold, TypeOK, Desks
  <2> QED BY <1>8, <2>1 DEF CountSold, TypeOK, bounds
<1>9. CASE Withdraw(s)
  BY <1>9, ReturnOK DEF Withdraw, TypeOK, bounds
<1>10. CASE Abandon(s)
  <2>1. crashes' \in 0..MaxCrashes
    BY <1>10, TicketsAssumption DEF Abandon, TypeOK
  <2> QED BY <1>10, <2>1, ReturnOK DEF Abandon, TypeOK
<1> QED BY <1>1, <1>2, <1>3, <1>4, <1>5, <1>6, <1>7, <1>8, <1>9, <1>10 DEF Clerk

LEMMA TypeStep == TicketInv /\ [Next]_vars => TypeOK'
<1> SUFFICES ASSUME TicketInv, [Next]_vars PROVE TypeOK'
  OBVIOUS
<1>1. TypeOK /\ SalesInv /\ RowsInv
  BY DEF TicketInv
<1>2. CASE Sweep
  <2>1. TicketsOK
    BY <1>1, <1>2, SetOK DEF Sweep, Statuses
  <2> QED BY <1>1, <1>2, <2>1 DEF Sweep, TypeOK, TicketsOK, bounds
<1>3. CASE Publish
  <2>1. calls' \in 0..MaxCalls
    BY <1>1, <1>3, TicketsAssumption DEF Publish, TypeOK
  <2> QED BY <1>1, <1>3, <2>1 DEF Publish, TypeOK
<1>4. CASE UNCHANGED vars
  BY <1>1, <1>4 DEF vars, bounds, TypeOK
<1> QED BY <1>1, <1>2, <1>3, <1>4, BuyerTyped, ClerkTyped DEF Next

-----------------------------------------------------------------------------
(* A purchase only goes forward. *)

Forward(p) ==
  /\ (Minted(p) => Minted(p)')
  /\ (Minted(p) \/ req[p] = "create"
       => sale'[p].kind = sale[p].kind /\ sale'[p].quantity = sale[p].quantity
          /\ sale'[p].counted = sale[p].counted)
  /\ (sale[p].money \in {"paid", "credits"} => sale'[p].money = sale[p].money)
Others(p) == \A q \in Purchases \ {p} : req'[q] = req[q] /\ sale'[q] = sale[q]

LEMMA BuyerForward ==
  ASSUME TypeOK, SalesInv, NEW p \in Purchases, Buyer(p) \/ Stripe(p) \/ Age(p)
  PROVE  Forward(p) /\ Others(p) /\ event' = event /\ desk' = desk /\ stamped \subseteq stamped'
<1>1. sale[p] \in Sale /\ SaleOK(p)
  BY DEF TypeOK, SalesInv
<1>2. ASSUME NEW kind \in Kinds \ {"none"}, NEW n \in 1..MaxQuantity, Arrive(p, kind, n)
      PROVE  Forward(p) /\ Others(p)
  BY <1>1, <1>2 DEF Arrive, Move, TypeOK, Forward, Others, Minted, SaleOK, NoSale
<1>3. ASSUME Remaining(p) PROVE Forward(p) /\ Others(p)
  BY <1>3 DEF Remaining, Move, TypeOK, Forward, Others, Minted, Sale
<1>4. ASSUME Create(p) \/ Fulfil(p) \/ Crash(p) PROVE Forward(p) /\ Others(p)
  BY <1>4 DEF Create, Fulfil, Crash, Move, TypeOK, Forward, Others, Minted
<1>5. ASSUME Checkout(p) PROVE Forward(p) /\ Others(p)
  BY <1>1, <1>5 DEF Checkout, Move, TypeOK, Forward, Others, Minted, Sale, SaleOK
<1>6. ASSUME Pay(p) \/ Expire(p) \/ Age(p) PROVE Forward(p) /\ Others(p)
  BY <1>1, <1>6 DEF Pay, Expire, Age, TypeOK, Forward, Others, Minted, Sale
<1>7. ASSUME Deliver(p) PROVE Forward(p) /\ Others(p)
  BY <1>7 DEF Deliver, Forward, Others, Minted
<1>8. event' = event /\ desk' = desk /\ stamped \subseteq stamped'
  BY DEF Buyer, Stripe, Continue, Arrive, Remaining, Create, Checkout, Fulfil, Crash, Pay, Expire,
         Deliver, Age, Fulfilled
<1> QED BY <1>2, <1>3, <1>4, <1>5, <1>6, <1>7, <1>8 DEF Buyer, Stripe, Continue

LEMMA ClerkSales ==
  ASSUME (\E s \in Staff : Clerk(s)) \/ Sweep \/ Publish \/ UNCHANGED vars
  PROVE  UNCHANGED <<sale, req>> /\ (event = "gone" => event' = "gone")
BY DEF Clerk, ReadTicket, WriteTicket, CancelEvent, Void, CountTickets, Remove, Unpublish,
       CountSold, Withdraw, Abandon, Sweep, Publish, vars

LEMMA SalesStep == TicketInv /\ [Next]_vars => SalesInv'
<1> SUFFICES ASSUME TicketInv, [Next]_vars PROVE SalesInv'
  OBVIOUS
<1>1. TypeOK /\ SalesInv
  BY DEF TicketInv
<1>2. ASSUME UNCHANGED <<sale, req>>, event = "gone" => event' = "gone" PROVE SalesInv'
  BY <1>1, <1>2 DEF SalesInv, SaleOK, Minted, Fits
<1>3. ASSUME NEW p \in Purchases, Buyer(p) \/ Stripe(p) \/ Age(p) PROVE SalesInv'
  <2>1. Others(p) /\ event' = event
    BY <1>1, <1>3, BuyerForward
  <2>2. \A q \in Purchases \ {p} : SaleOK(q)'
    BY <1>1, <2>1 DEF Others, SalesInv, SaleOK, Minted, Fits
  <2>3. sale[p] \in Sale /\ SaleOK(p) /\ sale \in [Purchases -> Sale] /\ req \in [Purchases -> Requests]
    BY <1>1 DEF TypeOK, SalesInv
  <2>4. ASSUME NEW kind \in Kinds \ {"none"}, NEW n \in 1..MaxQuantity, Arrive(p, kind, n)
        PROVE  SaleOK(p)'
    BY <2>3, <2>4 DEF Arrive, Move, SaleOK, Minted, NoSale, Sale
  <2>5. ASSUME Remaining(p) PROVE SaleOK(p)'
    <3>1. Sold = Cardinality(Admitted) /\ Cardinality(Admitted) \in Nat
      BY AdmittedFinite
    <3> DEFINE n == Cardinality(Admitted)
    <3>2. sale' = [sale EXCEPT ![p].counted = n] /\ req[p] = "remaining"
          /\ Move(p, IF event = "gone" \/ sale[p].quantity <= Capacity - n THEN "create" ELSE "done")
      BY <2>5, <3>1 DEF Remaining
    <3> HIDE DEF n
    <3> QED BY <2>1, <2>3, <3>2 DEF Move, SaleOK, Minted, Fits, Sale
  <2>6. ASSUME Create(p) \/ Fulfil(p) \/ Crash(p) PROVE SaleOK(p)'
    BY <2>1, <2>3, <2>6 DEF Create, Fulfil, Crash, Move, SaleOK, Minted, Fits
  <2>7. ASSUME Checkout(p) PROVE SaleOK(p)'
    BY <2>1, <2>3, <2>7 DEF Checkout, Move, SaleOK, Minted, Fits, Sale
  <2>8. ASSUME Pay(p) \/ Expire(p) \/ Age(p) PROVE SaleOK(p)'
    BY <2>1, <2>3, <2>8 DEF Pay, Expire, Age, SaleOK, Minted, Fits, Sale, NoSale
  <2>9. ASSUME Deliver(p) PROVE SaleOK(p)'
    BY <2>1, <2>3, <2>9 DEF Deliver, SaleOK, Minted, Fits
  <2>10. SaleOK(p)'
    BY <1>3, <2>4, <2>5, <2>6, <2>7, <2>8, <2>9 DEF Buyer, Stripe, Continue
  <2> QED BY <2>2, <2>10 DEF SalesInv
<1> QED BY <1>2, <1>3, ClerkSales DEF Next

-----------------------------------------------------------------------------
(* What becomes of the rows. *)

Stable(p) == /\ Minted(p) => Minted(p)'
             /\ Minted(p) /\ Fits(p) => Fits(p)'
             /\ Minted(p) => sale'[p].kind = sale[p].kind /\ sale'[p].quantity = sale[p].quantity
             /\ sale[p].money \in {"paid", "credits"} => sale'[p].money = sale[p].money

LEMMA PurchasesStable ==
  ASSUME TypeOK, SalesInv, [Next]_vars, NEW p \in Purchases
  PROVE  Stable(p)
<1>1. ASSUME NEW q \in Purchases, Buyer(q) \/ Stripe(q) \/ Age(q) PROVE Stable(p)
  <2>1. Forward(q) /\ Others(q) /\ event' = event
    BY <1>1, BuyerForward
  <2> QED BY <2>1 DEF Forward, Others, Stable, Minted, Fits
<1>2. ASSUME UNCHANGED <<sale, req>>, event = "gone" => event' = "gone" PROVE Stable(p)
  BY <1>2 DEF Stable, Minted, Fits
<1> QED BY <1>1, <1>2, ClerkSales DEF Next

(* Nobody takes a payment record from a row but the event's deletion.      *)
LEMMA StampsStay ==
  ASSUME TypeOK, SalesInv, [Next]_vars, ~ \E s \in Staff : Remove(s)
  PROVE  stamped \subseteq stamped'
<1>1. ASSUME NEW q \in Purchases, Buyer(q) \/ Stripe(q) \/ Age(q) PROVE stamped \subseteq stamped'
  BY <1>1, BuyerForward
<1>2. ASSUME NEW s \in Staff, Clerk(s) PROVE stamped \subseteq stamped'
  BY <1>2 DEF Clerk, ReadTicket, WriteTicket, CancelEvent, Void, CountTickets, Unpublish,
              CountSold, Withdraw, Abandon
<1> QED BY <1>1, <1>2 DEF Next, Sweep, Publish, vars

LEMMA PaidStays ==
  ASSUME TypeOK, SalesInv, [Next]_vars, ~ \E s \in Staff : Remove(s),
         NEW t \in Tickets, Minted(t[1]), Paid(t)
  PROVE  Paid(t)'
<1>1. t[1] \in Purchases
  BY DEF Tickets
<1> QED BY <1>1, StampsStay, PurchasesStable DEF Stable, Paid

(* A row that a step leaves as it was, or that was there before.           *)
RowKept(t) == ticket'[t] = ticket[t] \/ ticket'[t] \notin {"valid", "checked_in"}

LEMMA RowStays ==
  ASSUME TypeOK, SalesInv, [Next]_vars, NEW t \in Tickets, RowOK(t),
         ticket[t] # "none" \/ ticket'[t] = "none"
  PROVE  RowOK(t)'
<1>1. t[1] \in Purchases
  BY DEF Tickets
<1> QED BY <1>1, PurchasesStable DEF Stable, RowOK

LEMMA KeptRow ==
  ASSUME TypeOK, SalesInv, RowsInv, [Next]_vars, ~ \E s \in Staff : Remove(s),
         NEW t \in Tickets, RowKept(t)
  PROVE  (t \in Admitted => Paid(t))'
<1>1. CASE t \in Admitted
  BY <1>1, PaidStays DEF RowsInv, RowOK, Admitted
<1>2. CASE t \notin Admitted
  BY <1>2 DEF RowKept, Admitted
<1> QED BY <1>1, <1>2

LEMMA RowsStep == TicketInv /\ [Next]_vars => RowsInv'
<1> SUFFICES ASSUME TicketInv, [Next]_vars, NEW t \in Tickets
             PROVE  RowOK(t)' /\ (t \in Admitted => Paid(t))'
  BY DEF RowsInv, Tickets
<1>1. TypeOK /\ SalesInv /\ RowsInv /\ DesksInv /\ RowOK(t) /\ t[1] \in Purchases
  BY DEF TicketInv, RowsInv, Tickets
<1>2. ASSUME RowKept(t), ~ \E s \in Staff : Remove(s), ticket[t] # "none" \/ ticket'[t] = "none"
      PROVE  RowOK(t)' /\ (t \in Admitted => Paid(t))'
  BY <1>1, <1>2, RowStays, KeptRow
<1>3. ASSUME NEW p \in Purchases, Create(p)
      PROVE  RowOK(t)' /\ (t \in Admitted => Paid(t))'
  <2>1. ~ \E s \in Staff : Remove(s)
    BY <1>1, <1>3 DEF Create, Move, Remove, TypeOK
  <2>2. CASE ticket'[t] = ticket[t]
    BY <1>2, <2>1, <2>2 DEF RowKept
  <2>3. CASE ticket'[t] # ticket[t]
    <3>1. PICK n \in Drawn(sale[p].quantity) : Set(Batch(p, n), MintedAs(sale[p].kind))
      BY <1>3, <2>3 DEF Create
    <3>2. t[1] = p /\ t[2] \in 1..n /\ ticket'[t] = MintedAs(sale[p].kind)
      BY <2>3, <3>1 DEF Set, Batch
    <3>3. sale[p].quantity \in Nat /\ Fits(p)
      BY <1>1, <1>3 DEF Create, TypeOK, Sale, SalesInv, SaleOK
    <3>4. t[2] <= sale[p].quantity
      BY <3>1, <3>2, <3>3 DEF Drawn
    <3>5. Minted(p)' /\ UNCHANGED <<sale, event>>
      BY <1>1, <1>3 DEF Create, Move, Minted, TypeOK
    <3>6. RowOK(t)'
      BY <3>2, <3>3, <3>4, <3>5 DEF RowOK, Fits
    <3>7. (t \in Admitted => Paid(t))'
      BY <3>2, <3>5 DEF MintedAs, Admitted, Paid
    <3> QED BY <3>6, <3>7
  <2> QED BY <2>2, <2>3
<1>4. ASSUME NEW p \in Purchases, Fulfilled(p), UNCHANGED sale, sale[p].money \in {"paid", "credits"},
             ~ \E s \in Staff : Remove(s)
      PROVE  RowOK(t)' /\ (t \in Admitted => Paid(t))'
  <2>1. CASE t \notin Pending(p)
    BY <1>2, <1>4, <2>1 DEF Fulfilled, Set, RowKept
  <2>2. CASE t \in Pending(p)
    <3>1. ticket[t] = "pending" /\ t[1] = p /\ t \in stamped'
      BY <1>4, <2>2 DEF Fulfilled, Pending, Batch
    <3>2. RowOK(t)'
      BY <1>1, <3>1, RowStays
    <3> QED BY <1>4, <3>1, <3>2 DEF Paid
  <2> QED BY <2>1, <2>2
<1>5. ASSUME NEW p \in Purchases, Fulfil(p) \/ Deliver(p)
      PROVE  RowOK(t)' /\ (t \in Admitted => Paid(t))'
  <2>1. sale[p].money \in {"paid", "credits"}
    BY <1>1, <1>5 DEF Fulfil, Deliver, SalesInv, SaleOK
  <2>2. CASE \E s \in Staff : Remove(s)
    BY <1>5, <2>2, AdmittedFinite DEF Fulfil, Deliver, Remove, RowOK, Admitted, Set
  <2> QED BY <1>4, <1>5, <2>1, <2>2 DEF Fulfil, Deliver
<1>6. ASSUME NEW s \in Staff, WriteTicket(s)
      PROVE  RowOK(t)' /\ (t \in Admitted => Paid(t))'
  <2>1. CASE \E u \in Staff : Remove(u)
    BY <2>1 DEF Remove, RowOK, Admitted, Set
  <2>2. CASE ticket'[t] = ticket[t]
    BY <1>2, <2>1, <2>2 DEF RowKept
  <2>3. CASE ticket'[t] # ticket[t]
    <3>1. t = desk[s].row /\ ticket[t] # "none"
          /\ ticket'[t] = IF desk[s].at = "checkIn" THEN "checked_in" ELSE "cancelled"
      BY <1>6, <2>3 DEF WriteTicket, Set
    <3>2. CASE desk[s].at = "checkIn"
      <4>1. Minted(t[1]) /\ Paid(t)
        BY <1>1, <3>1, <3>2 DEF DesksInv, DeskOK
      <4> QED BY <1>1, <2>1, <3>1, <4>1, RowStays, PaidStays
    <3>3. CASE desk[s].at # "checkIn"
      BY <1>2, <2>1, <3>1, <3>3 DEF RowKept
    <3> QED BY <3>2, <3>3
  <2> QED BY <2>2, <2>3
<1>7. ASSUME NEW s \in Staff, Remove(s)
      PROVE  RowOK(t)' /\ (t \in Admitted => Paid(t))'
  BY <1>7 DEF Remove, RowOK, Admitted, Set
<1>8. ASSUME NEW s \in Staff, Void(s) \/ Sweep
      PROVE  RowOK(t)' /\ (t \in Admitted => Paid(t))'
  BY <1>2, <1>7, <1>8 DEF Void, Sweep, Stale, Set, RowKept
<1>9. CASE Sweep
  BY <1>2, <1>7, <1>9 DEF Sweep, Stale, Set, RowKept
<1>10. CASE UNCHANGED ticket
  BY <1>2, <1>7, <1>10 DEF RowKept
<1> QED
  BY <1>3, <1>5, <1>6, <1>7, <1>8, <1>9, <1>10
  DEF Next, Buyer, Stripe, Continue, Clerk, Arrive, Remaining, Checkout, Crash, Pay, Expire, Age,
      ReadTicket, CancelEvent, CountTickets, Unpublish, CountSold, Withdraw, Abandon, Publish, vars

LEMMA DesksStep == TicketInv /\ [Next]_vars => DesksInv'
<1> SUFFICES ASSUME TicketInv, [Next]_vars, NEW s \in Staff PROVE DeskOK(desk[s])'
  BY DEF DesksInv
<1>1. /\ TypeOK /\ SalesInv /\ RowsInv /\ DeskOK(desk[s])
      /\ \A t \in Tickets : t[1] \in Purchases
  BY DEF TicketInv, DesksInv, Tickets
<1>2. CASE \E u \in Staff : Remove(u)
  <2>1. desk'[s] \in {desk[s], Idle} /\ UNCHANGED <<sale, req>> /\ \A t \in Tickets : ticket'[t] = "none"
    BY <1>1, <1>2 DEF Remove, Set, Return, TypeOK
  <2> QED BY <1>1, <2>1 DEF DeskOK, Minted, Idle
<1>3. ASSUME ~ \E u \in Staff : Remove(u), desk'[s] = desk[s] PROVE DeskOK(desk[s])'
  <2>1. ASSUME NEW t \in Tickets, Minted(t[1]), ticket[t] = "none" PROVE ticket'[t] = "none"
    <3>1. ASSUME NEW p \in Purchases, Create(p) PROVE ticket'[t] = "none"
      BY <2>1, <3>1 DEF Create, Minted, Set, Batch
    <3>2. ASSUME NEW p \in Purchases, Fulfilled(p) PROVE ticket'[t] = "none"
      BY <2>1, <3>2 DEF Fulfilled, Pending, Set
    <3>3. ASSUME NEW u \in Staff, WriteTicket(u) \/ Void(u) \/ Remove(u) PROVE ticket'[t] = "none"
      BY <2>1, <3>3 DEF WriteTicket, Void, Remove, Set
    <3>4. CASE Sweep
      BY <2>1, <3>4 DEF Sweep, Stale, Set
    <3> QED
      BY <2>1, <3>1, <3>2, <3>3, <3>4
      DEF Next, Buyer, Stripe, Continue, Clerk, Arrive, Remaining, Checkout, Fulfil, Deliver, Crash,
          Pay, Expire, Age, ReadTicket, CancelEvent, CountTickets, Unpublish, CountSold, Withdraw,
          Abandon, Publish, vars
  <2>2. \A t \in Tickets : Minted(t[1]) => Minted(t[1])'
    BY <1>1, PurchasesStable DEF Stable
  <2>3. \A t \in Tickets : Minted(t[1]) /\ Paid(t) => Paid(t)'
    BY <1>3, <1>1, PaidStays
  <2> QED BY <1>1, <1>3, <2>1, <2>2, <2>3 DEF DeskOK
<1>4. CASE desk'[s].at \notin {"cancelTicket", "checkIn"}
  BY <1>4 DEF DeskOK
<1>5. ASSUME NEW t \in Tickets, ReadTicket(s, t) PROVE DeskOK(desk[s])'
  <2>1. UNCHANGED <<ticket, stamped, sale, req>> /\ desk'[s].row = t
        /\ (desk'[s].at = "checkIn" => ticket[t] = "valid")
    BY <1>1, <1>5 DEF ReadTicket, Call, TypeOK
  <2>2. ticket[t] = "valid" => Minted(t[1]) /\ Paid(t)
    BY <1>1 DEF RowsInv, RowOK, Admitted
  <2> QED BY <2>1, <2>2 DEF DeskOK, Minted, Paid
<1>6. ASSUME NEW u \in Staff, Clerk(u), ~ \E t \in Tickets : ReadTicket(u, t)
      PROVE  desk'[s] = desk[s] \/ desk'[s].at \notin {"cancelTicket", "checkIn"}
  BY <1>1, <1>6
  DEF Clerk, WriteTicket, CancelEvent, Void, CountTickets, Remove, Unpublish, CountSold, Withdraw,
      Abandon, Call, Return, Idle, TypeOK
<1>7. ASSUME NEW u \in Staff, NEW t \in Tickets, ReadTicket(u, t), u # s PROVE desk'[s] = desk[s]
  BY <1>1, <1>7 DEF ReadTicket, Call, TypeOK
<1>8. ASSUME NEW p \in Purchases, Buyer(p) \/ Stripe(p) \/ Age(p) PROVE desk'[s] = desk[s]
  BY <1>1, <1>8, BuyerForward
<1> QED
  BY <1>2, <1>3, <1>4, <1>5, <1>6, <1>7, <1>8 DEF Next, Clerk, Sweep, Publish, vars

LEMMA StepOK == TicketInv /\ [Next]_vars => TicketInv'
BY TypeStep, SalesStep, RowsStep, DesksStep DEF TicketInv

(* The tickets, the purchases and what staff are about to do keep their    *)
(* types, and only a purchase has tickets that wait for their payment.     *)
THEOREM TypeCorrect == FairSpec => []TypeOK
<1>1. TicketInv => TypeOK
  BY DEF TicketInv
<1> QED BY <1>1, InitOK, StepOK, PTL DEF FairSpec, Spec

(* A bought ticket that opens the door was paid (fulfillPurchase, checkIn, *)
(* cancelTicket, handleTicketCheckout).                                    *)
THEOREM BoughtArePaid == FairSpec => []BoughtTicketsArePaid
<1>1. TicketInv => BoughtTicketsArePaid
  BY DEF TicketInv, RowsInv, BoughtTicketsArePaid, Paid, Admitted
<1> QED BY <1>1, InitOK, StepOK, PTL DEF FairSpec, Spec

-----------------------------------------------------------------------------
(* What is final. *)

Revised(t) == ticket[t] \in {"checked_in", "cancelled"} /\ ticket'[t] # ticket[t]
Raced(t) == \E s \in Staff : desk[s].at \in {"cancelTicket", "checkIn"} /\ desk[s].row = t

LEMMA FinalStep ==
  ASSUME TicketInv, [Next]_vars, NEW t \in Tickets, Revised(t)
  PROVE  event' = "gone" \/ Raced(t)
<1>1. ticket' # ticket /\ t[1] \in Purchases /\ Minted(t[1])
  BY DEF Revised, Tickets, TicketInv, RowsInv, RowOK
<1>2. ASSUME NEW p \in Purchases PROVE ~Create(p)
  BY <1>1 DEF Create, Minted, Set, Batch, Revised
<1>3. ASSUME NEW p \in Purchases PROVE ~Fulfilled(p)
  BY DEF Fulfilled, Pending, Set, Revised
<1>4. ASSUME NEW s \in Staff, WriteTicket(s) PROVE Raced(t)
  BY <1>4 DEF WriteTicket, Set, Raced, Revised
<1>5. ASSUME NEW s \in Staff PROVE ~Void(s)
  BY DEF Void, Set, Revised
<1>6. ~Sweep
  BY DEF Sweep, Stale, Set, Revised
<1>7. ASSUME NEW s \in Staff, Remove(s) PROVE event' = "gone"
  BY <1>7 DEF Remove
<1> QED
  BY <1>1, <1>2, <1>3, <1>4, <1>5, <1>6, <1>7
  DEF Next, Buyer, Stripe, Continue, Clerk, Arrive, Remaining, Checkout, Fulfil, Deliver, Crash,
      Pay, Expire, Age, ReadTicket, CancelEvent, CountTickets, Unpublish, CountSold, Withdraw,
      Abandon, Publish, vars

(* A ticket that was checked in or cancelled stays so but for a call of    *)
(* staff under way (fulfillPurchase, cancelStalePendingTickets, cancel).   *)
THEOREM FinalStays == FairSpec => FinalUnlessRaced
<1>1. TicketInv /\ [Next]_vars
        => [\A t \in Tickets :
              /\ ticket[t] \in {"checked_in", "cancelled"}
              /\ ticket'[t] # ticket[t]
              => \/ event' = "gone"
                 \/ \E s \in Staff : desk[s].at \in {"cancelTicket", "checkIn"} /\ desk[s].row = t]_vars
  BY FinalStep DEF Revised, Raced
<1> QED BY <1>1, InitOK, StepOK, PTL DEF FairSpec, Spec, FinalUnlessRaced

-----------------------------------------------------------------------------
(* What is sold. *)

Oversold(t) == /\ t \notin Admitted /\ t \in Admitted'
               /\ Cardinality(Admitted') > Capacity
               /\ event # "gone"

LEMMA AdmitsBatch ==
  ASSUME TicketInv, [Next]_vars, NEW t \in Tickets, Oversold(t)
  PROVE  Admitted' \subseteq Admitted \cup Batch(t[1], sale[t[1]].quantity) /\ Fits(t[1])
<1> DEFINE p == t[1]
           B == Batch(p, sale[p].quantity)
<1>1. /\ TypeOK /\ SalesInv /\ RowsInv /\ DesksInv /\ p \in Purchases
      /\ sale[p].quantity \in Nat /\ ticket'[t] # ticket[t] /\ ticket'[t] \in {"valid", "checked_in"}
  BY DEF TicketInv, Tickets, TypeOK, Sale, Oversold, Admitted
<1>2. ASSUME NEW rows, NEW status, Set(rows, status), rows \cap Tickets \subseteq B
      PROVE  Admitted' \subseteq Admitted \cup B
  BY <1>2 DEF Set, Admitted
<1>3. ticket[t] # "none" => Fits(p) /\ t \in B
  BY <1>1 DEF RowsInv, RowOK, Batch, Tickets
<1>4. ASSUME NEW q \in Purchases, Create(q) PROVE Admitted' \subseteq Admitted \cup B /\ Fits(p)
  <2>1. PICK n \in Drawn(sale[q].quantity) : Set(Batch(q, n), MintedAs(sale[q].kind))
    BY <1>1, <1>4 DEF Create
  <2>2. q = p
    BY <1>1, <2>1 DEF Set, Batch
  <2>3. n \in Nat /\ n <= sale[p].quantity
    BY <1>1, <2>1, <2>2 DEF Drawn
  <2>4. Batch(q, n) \subseteq B
    BY <1>1, <2>2, <2>3 DEF Batch
  <2>5. Fits(p)
    BY <1>1, <1>4, <2>2 DEF Create, SalesInv, SaleOK
  <2> QED BY <1>2, <2>1, <2>4, <2>5
<1>5. ASSUME NEW q \in Purchases, Fulfilled(q) PROVE Admitted' \subseteq Admitted \cup B /\ Fits(p)
  <2>1. ticket[t] = "pending" /\ q = p
    BY <1>1, <1>5 DEF Fulfilled, Set, Pending, Batch
  <2>2. \A u \in Pending(q) : u \in B
    BY <1>1, <2>1 DEF Pending, Batch, RowsInv, RowOK, Tickets
  <2> QED BY <1>2, <1>3, <1>5, <2>1, <2>2 DEF Fulfilled
<1>6. ASSUME NEW s \in Staff, WriteTicket(s) PROVE Admitted' \subseteq Admitted \cup B /\ Fits(p)
  <2>1. t = desk[s].row /\ ticket[t] # "none"
    BY <1>1, <1>6 DEF WriteTicket, Set
  <2> QED BY <1>2, <1>3, <1>6, <2>1 DEF WriteTicket
<1>7. ASSUME NEW s \in Staff PROVE ~Void(s) /\ ~Remove(s)
  BY <1>1 DEF Void, Remove, Set
<1>8. ~Sweep
  BY <1>1 DEF Sweep, Stale, Set
<1> QED
  BY <1>1, <1>4, <1>5, <1>6, <1>7, <1>8
  DEF Next, Buyer, Stripe, Continue, Clerk, Arrive, Remaining, Checkout, Fulfil, Deliver, Crash,
      Pay, Expire, Age, ReadTicket, CancelEvent, CountTickets, Unpublish, CountSold, Withdraw,
      Abandon, Publish, vars

LEMMA OversoldStep ==
  ASSUME TicketInv, [Next]_vars, NEW t \in Tickets, Oversold(t)
  PROVE  Cardinality(Admitted) > sale[t[1]].counted
<1> DEFINE p == t[1]
           sold == Cardinality(Admitted)
           after == Cardinality(Admitted')
<1>1. p \in Purchases /\ sale[p].quantity \in Nat /\ sale[p].counted \in Nat
  BY DEF TicketInv, Tickets, TypeOK, Sale
<1>2. sold \in Nat /\ after \in Nat /\ after <= sold + sale[p].quantity
  BY <1>1, AdmitsBatch, BatchAdmitted, AdmittedFinite
<1>3. after > Capacity /\ sale[p].quantity <= Capacity - sale[p].counted
  BY AdmitsBatch DEF Oversold, Fits
<1> HIDE DEF sold, after
<1>4. sold > sale[p].counted
  BY <1>1, <1>2, <1>3, TicketsAssumption
<1> QED BY <1>4 DEF sold

(* An event is oversold only to a purchase that counted before others were *)
(* sold (getTicketsRemaining, purchaseTickets, handleTicketCheckout).      *)
THEOREM Oversells == FairSpec => OversellsOnlyWhenOvertaken
<1>1. TicketInv /\ [Next]_vars
        => [\A t \in Tickets :
              /\ t \notin Admitted /\ t \in Admitted'
              /\ Cardinality(Admitted') > Capacity
              /\ event # "gone"
              => Cardinality(Admitted) > sale[t[1]].counted]_vars
  BY OversoldStep DEF Oversold
<1> QED BY <1>1, InitOK, StepOK, PTL DEF FairSpec, Spec, OversellsOnlyWhenOvertaken
=============================================================================
