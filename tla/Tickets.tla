------------------------------- MODULE Tickets -------------------------------
(***************************************************************************)
(* The tickets of one event: buyers, claimers and staff who hand out comps *)
(* mint them, Stripe's webhook makes paid ones valid, a daily sweep voids  *)
(* the abandoned ones, and staff cancel and check in single tickets and    *)
(* withdraw, cancel or delete the event underneath.                        *)
(*                                                                         *)
(* A step is one statement of a handler and the code up to its next await. *)
(* The row of a ticket is named by its purchase and its place in the       *)
(* batch; the codes themselves appear only as the number of rows that the  *)
(* draw of unique codes yields.                                            *)
(***************************************************************************)
EXTENDS Integers, FiniteSets

CONSTANTS Purchases,   \* purchase ids; each is used by one request
          Staff,       \* Worker invocations on behalf of staff
          Capacity,    \* event.ticketQuantity
          MaxQuantity, \* bound: tickets asked for at a time (10, or 50 comps)
          Collisions,  \* whether a drawn code may already be taken
          MaxCalls,    \* bound: calls made by staff
          MaxCrashes   \* bound: Worker invocations lost half way

ASSUME TicketsAssumption ==
  /\ IsFiniteSet(Purchases)
  /\ Capacity \in Nat /\ MaxQuantity \in Nat \ {0}
  /\ Collisions \in BOOLEAN
  /\ MaxCalls \in Nat /\ MaxCrashes \in Nat

VARIABLES event,    \* the event's status, "gone" once it is deleted
          ticket,   \* the status of each ticket row, "none" where there is no row
          stamped,  \* the rows that hold a payment record's id
          sale,     \* of each purchase: what was asked, and what Stripe knows of it
          req,      \* where the request that makes the purchase is
          desk,     \* where each call of staff is, and the row it is about
          calls, crashes

bounds == <<calls, crashes>>
vars == <<event, ticket, stamped, sale, req, desk, bounds>>

Tickets == Purchases \X (1..MaxQuantity)
Batch(p, n) == {p} \X (1..n)
Statuses == {"none", "pending", "valid", "checked_in", "cancelled"}
Kinds == {"none", "buy", "claim", "comp"}
Sale == [kind : Kinds, quantity : 0..MaxQuantity,
         counted : Nat,                                \* ghost: sold when the request asked
         money : {"none", "session", "paid", "credits", "expired"},
         aged : BOOLEAN]                               \* created more than 24 hours ago
Requests == {"idle", "remaining", "create", "checkout", "fulfil", "done"}
Desks == {"idle", "cancelTicket", "checkIn", "void", "remove", "sold", "unpublish"}

\* The tickets that open the door, or did.
Admitted == {t \in Tickets : ticket[t] \in {"valid", "checked_in"}}

\* getTicketsSold
Sold == Cardinality({t \in Tickets : ticket[t] \in {"valid", "checked_in"}})

Pending(p) == {t \in Batch(p, MaxQuantity) : ticket[t] = "pending"}
Set(rows, status) == ticket' = [t \in Tickets |-> IF t \in rows THEN status ELSE ticket[t]]
Move(p, label) == req' = [req EXCEPT ![p] = label]

-----------------------------------------------------------------------------
(* The request that makes a purchase.                                      *)

\* purchaseTickets, claimFreeTicket and compTickets up to the event's read. A
\* comp does not look at the event's status. Staff may set and clear the price
\* at any time, so that one event's tickets may be bought or claimed.
Arrive(p, kind, n) ==
  /\ req[p] = "idle"
  /\ kind \in {"buy", "claim"} => event = "published"
  /\ sale' = [sale EXCEPT ![p].kind = kind, ![p].quantity = n]
  /\ Move(p, "remaining")
  /\ UNCHANGED <<event, ticket, stamped, desk, bounds>>

\* getTicketsRemaining, and the refusal to ask for more. An event that is gone
\* has no limit.
\* Mutant of Remaining: the quantity asked for is left out.
RemainingMutant(p) ==
  /\ req[p] = "remaining"
  /\ sale' = [sale EXCEPT ![p].counted = Cardinality(Admitted)]
  /\ Move(p, IF event = "gone" \/ Sold <= Capacity THEN "create" ELSE "done")
  /\ UNCHANGED <<event, ticket, stamped, desk, bounds>>
Remaining(p) ==
  /\ req[p] = "remaining"
  /\ sale' = [sale EXCEPT ![p].counted = Cardinality(Admitted)]
  /\ Move(p, IF event = "gone" \/ sale[p].quantity <= Capacity - Sold THEN "create" ELSE "done")
  /\ UNCHANGED <<event, ticket, stamped, desk, bounds>>

\* generateUniqueCodes(n): when some of the codes it draws are taken it draws
\* again only as many as were taken, and returns that last draw alone.
Drawn(n) == IF Collisions THEN 1..n ELSE {n}

\* What createTickets is told to write: only a purchase waits for its payment.
\* Mutant of MintedAs: a purchase does not wait for its payment.
MintedAsMutant(kind) == "valid"
MintedAs(kind) == IF kind = "buy" THEN "pending" ELSE "valid"

\* createTickets: the insert of the batch. The event's foreign key refuses it
\* once the event is gone, and so does a code that was drawn twice.
Create(p) ==
  /\ req[p] = "create"
  /\ \/ /\ event # "gone"
        /\ \E n \in Drawn(sale[p].quantity) : Set(Batch(p, n), MintedAs(sale[p].kind))
        /\ Move(p, IF sale[p].kind = "buy" THEN "checkout" ELSE "done")
     \/ /\ event = "gone" \/ Collisions
        /\ Move(p, "done")
        /\ UNCHANGED ticket
  /\ UNCHANGED <<event, stamped, sale, desk, bounds>>

\* checkout(): a Stripe session, or the buyer's credits cover it all, or it
\* fails. The tickets stay pending when it fails.
Checkout(p) ==
  /\ req[p] = "checkout"
  /\ \/ /\ sale' = [sale EXCEPT ![p].money = "session"]
        /\ Move(p, "done")
     \/ /\ sale' = [sale EXCEPT ![p].money = "credits"]
        /\ Move(p, "fulfil")
     \/ /\ Move(p, "done")
        /\ UNCHANGED sale
  /\ UNCHANGED <<event, ticket, stamped, desk, bounds>>

\* fulfillPurchase: one conditional UPDATE of the status and the payment record.
\* Mutant of Fulfilled: the UPDATE does not ask for pending.
FulfilledMutant(p) ==
  LET rows == {t \in Batch(p, MaxQuantity) : ticket[t] # "none"} IN
  /\ Set(rows, "valid")
  /\ stamped' = stamped \cup rows
Fulfilled(p) ==
  /\ Set(Pending(p), "valid")
  /\ stamped' = stamped \cup Pending(p)

\* purchaseTickets, paid at once: the tickets are made valid by the request itself.
Fulfil(p) ==
  /\ req[p] = "fulfil"
  /\ Fulfilled(p)
  /\ Move(p, "done")
  /\ UNCHANGED <<event, sale, desk, bounds>>

\* The Worker is lost, or the statement fails.
Crash(p) ==
  /\ req[p] \in {"remaining", "create", "checkout", "fulfil"} /\ crashes < MaxCrashes
  /\ crashes' = crashes + 1
  /\ Move(p, "done")
  /\ UNCHANGED <<event, ticket, stamped, sale, desk, calls>>

Continue(p) == Remaining(p) \/ Create(p) \/ Checkout(p) \/ Fulfil(p)

-----------------------------------------------------------------------------
(* Stripe and the clock.                                                   *)

\* The buyer pays on Stripe's page.
Pay(p) ==
  /\ sale[p].money = "session"
  /\ sale' = [sale EXCEPT ![p].money = "paid"]
  /\ UNCHANGED <<event, ticket, stamped, req, desk, bounds>>

\* A session lives for 24 hours, and is younger than the tickets it is for.
Expire(p) ==
  /\ sale[p].money = "session" /\ sale[p].aged
  /\ sale' = [sale EXCEPT ![p].money = "expired"]
  /\ UNCHANGED <<event, ticket, stamped, req, desk, bounds>>

\* handleTicketCheckout: checkout.session.completed arrives, for the first
\* time or again.
Deliver(p) ==
  /\ sale[p].money = "paid"
  /\ Fulfilled(p)
  /\ UNCHANGED <<event, sale, req, desk, bounds>>

\* A day passes after the tickets were created.
Age(p) ==
  /\ ~sale[p].aged /\ req[p] = "done" /\ \E t \in Batch(p, MaxQuantity) : ticket[t] # "none"
  /\ sale' = [sale EXCEPT ![p].aged = TRUE]
  /\ UNCHANGED <<event, ticket, stamped, req, desk, bounds>>

\* cancelStalePendingTickets, daily: one UPDATE.
\* Mutant of Stale: only tickets with a session are swept.
StaleMutant(t) == ticket[t] = "pending" /\ sale[t[1]].aged /\ sale[t[1]].money # "none"
Stale(t) == ticket[t] = "pending" /\ sale[t[1]].aged
Sweep ==
  /\ \E t \in Tickets : Stale(t)
  /\ Set({t \in Tickets : Stale(t)}, "cancelled")
  /\ UNCHANGED <<event, stamped, sale, req, desk, bounds>>

-----------------------------------------------------------------------------
(* Staff.                                                                  *)

Idle == [at |-> "idle", row |-> <<>>]
Call(s, label, row) ==
  /\ desk[s] = Idle /\ calls < MaxCalls
  /\ calls' = calls + 1
  /\ desk' = [desk EXCEPT ![s] = [at |-> label, row |-> row]]
Return(s) == desk' = [desk EXCEPT ![s] = Idle]

\* cancelTicket and checkIn, the read of the status.
\* Mutant of ReadTicket: checkIn takes a pending ticket.
ReadTicketMutant(s, t) ==
  /\ \/ ticket[t] \in {"pending", "valid"} /\ Call(s, "cancelTicket", t)
     \/ ticket[t] \in {"pending", "valid"} /\ Call(s, "checkIn", t)
  /\ UNCHANGED <<event, ticket, stamped, sale, req, crashes>>
ReadTicket(s, t) ==
  /\ \/ ticket[t] \in {"pending", "valid"} /\ Call(s, "cancelTicket", t)
     \/ ticket[t] = "valid" /\ Call(s, "checkIn", t)
  /\ UNCHANGED <<event, ticket, stamped, sale, req, crashes>>

\* ... and the write, by the row's id alone. There is nothing to write to when
\* the event has been deleted meanwhile.
WriteTicket(s) ==
  /\ desk[s].at \in {"cancelTicket", "checkIn"}
  /\ LET t == desk[s].row
         status == IF desk[s].at = "checkIn" THEN "checked_in" ELSE "cancelled" IN
     Set({t} \ {u \in Tickets : ticket[u] = "none"}, status)
  /\ Return(s)
  /\ UNCHANGED <<event, stamped, sale, req, bounds>>

\* event-service cancel(): the event's status first ...
CancelEvent(s) ==
  /\ event \in {"published", "draft"}
  /\ Call(s, "void", <<>>)
  /\ event' = "cancelled"
  /\ UNCHANGED <<ticket, stamped, sale, req, crashes>>

\* ... then, with the room released and the poster deleted, the tickets.
Void(s) ==
  /\ desk[s].at = "void"
  /\ Set({t \in Tickets : ticket[t] \in {"valid", "pending"}}, "cancelled")
  /\ Return(s)
  /\ UNCHANGED <<event, stamped, sale, req, bounds>>

\* event-service remove(): refused when the event has tickets ...
CountTickets(s) ==
  /\ event # "gone" /\ \A t \in Tickets : ticket[t] = "none"
  /\ Call(s, "remove", <<>>)
  /\ UNCHANGED <<event, ticket, stamped, sale, req, crashes>>

\* ... and the delete, which takes with it whatever tickets there are by then.
Remove(s) ==
  /\ desk[s].at = "remove"
  /\ event' = "gone"
  /\ Set(Tickets, "none")
  /\ stamped' = {}
  /\ Return(s)
  /\ UNCHANGED <<sale, req, bounds>>

\* event-service unpublish(): the event's status, the tickets sold, and a write
\* that looks at the status once more.
Unpublish(s) ==
  /\ event = "published"
  /\ Call(s, "sold", <<>>)
  /\ UNCHANGED <<event, ticket, stamped, sale, req, crashes>>
CountSold(s) ==
  /\ desk[s].at = "sold"
  /\ IF Sold = 0 THEN desk' = [desk EXCEPT ![s].at = "unpublish"] ELSE Return(s)
  /\ UNCHANGED <<event, ticket, stamped, sale, req, bounds>>
Withdraw(s) ==
  /\ desk[s].at = "unpublish"
  /\ event' = IF event = "published" THEN "draft" ELSE event
  /\ Return(s)
  /\ UNCHANGED <<ticket, stamped, sale, req, bounds>>

\* event-service publish(): one conditional UPDATE.
Publish ==
  /\ event = "draft" /\ calls < MaxCalls
  /\ event' = "published"
  /\ calls' = calls + 1
  /\ UNCHANGED <<ticket, stamped, sale, req, desk, crashes>>

\* The Worker is lost, or a statement or the poster's deletion fails.
Abandon(s) ==
  /\ desk[s] # Idle /\ crashes < MaxCrashes
  /\ crashes' = crashes + 1
  /\ Return(s)
  /\ UNCHANGED <<event, ticket, stamped, sale, req, calls>>

-----------------------------------------------------------------------------
NoSale == [kind |-> "none", quantity |-> 0, counted |-> 0, money |-> "none", aged |-> FALSE]

Init ==
  /\ event = "published"
  /\ ticket = [t \in Tickets |-> "none"]
  /\ stamped = {}
  /\ sale = [p \in Purchases |-> NoSale]
  /\ req = [p \in Purchases |-> "idle"]
  /\ desk = [s \in Staff |-> Idle]
  /\ calls = 0 /\ crashes = 0

Buyer(p) ==
  \/ \E kind \in Kinds \ {"none"}, n \in 1..MaxQuantity : Arrive(p, kind, n)
  \/ Continue(p)
  \/ Crash(p)

Stripe(p) == Pay(p) \/ Expire(p) \/ Deliver(p)

Clerk(s) ==
  \/ \E t \in Tickets : ReadTicket(s, t)
  \/ WriteTicket(s)
  \/ CancelEvent(s)
  \/ Void(s)
  \/ CountTickets(s)
  \/ Remove(s)
  \/ Unpublish(s)
  \/ CountSold(s)
  \/ Withdraw(s)
  \/ Abandon(s)

Next ==
  \/ \E p \in Purchases : Buyer(p) \/ Stripe(p) \/ Age(p)
  \/ Sweep
  \/ \E s \in Staff : Clerk(s)
  \/ Publish

Spec == Init /\ [][Next]_vars

\* Requests run on, a day passes, and the daily sweep runs. Stripe's buyers and
\* staff promise nothing.
Fairness ==
  /\ \A p \in Purchases : WF_vars(Continue(p)) /\ WF_vars(Age(p))
  /\ WF_vars(Sweep)

FairSpec == Spec /\ Fairness

-----------------------------------------------------------------------------
(* Each variable has its type, and only a purchase has pending tickets.    *)
TypeOK ==
  /\ event \in {"published", "draft", "cancelled", "gone"}
  /\ ticket \in [Tickets -> Statuses]
  /\ \A t \in Tickets : ticket[t] = "pending" => sale[t[1]].kind = "buy"
  /\ stamped \subseteq Tickets
  /\ sale \in [Purchases -> Sale]
  /\ req \in [Purchases -> Requests]
  /\ desk \in [Staff -> [at : Desks, row : Tickets \cup {<<>>}]]
  /\ calls \in 0..MaxCalls /\ crashes \in 0..MaxCrashes

(* Tickets are sold beyond the event's capacity only to a purchase that    *)
(* was overtaken: since it counted the tickets sold, others were. Without  *)
(* such an overlap getTicketsRemaining suffices, although it leaves the    *)
(* pending tickets of others out and is not repeated when they are paid.   *)
OversellsOnlyWhenOvertaken ==
  [][\A t \in Tickets :
       /\ t \notin Admitted /\ t \in Admitted'
       /\ Cardinality(Admitted') > Capacity
       /\ event # "gone"
       => Cardinality(Admitted) > sale[t[1]].counted]_vars

(* Nobody gets in who should have paid and did not: a bought ticket that   *)
(* opens the door, or did, names the payment record of a session that was  *)
(* paid or of credits that were spent, whatever staff, the sweep and late  *)
(* or repeated webhooks did to it.                                         *)
BoughtTicketsArePaid ==
  \A t \in Admitted :
    sale[t[1]].kind = "buy" => t \in stamped /\ sale[t[1]].money \in {"paid", "credits"}

(* A ticket that was checked in or cancelled stays so, unless a call of    *)
(* staff that read it as live is still under way: no webhook, however      *)
(* late, revives a cancelled ticket, and cancelling the event does not     *)
(* touch those who came in.                                                *)
FinalUnlessRaced ==
  [][\A t \in Tickets :
       /\ ticket[t] \in {"checked_in", "cancelled"}
       /\ ticket'[t] # ticket[t]
       => \/ event' = "gone"
          \/ \E s \in Staff : desk[s].at \in {"cancelTicket", "checkIn"} /\ desk[s].row = t]_vars

(* No ticket is pending for ever, whoever abandons the purchase and        *)
(* wherever its request was lost: it is paid, voided, or swept.            *)
PendingIsResolved == \A t \in Tickets : (ticket[t] = "pending") ~> (ticket[t] # "pending")
=============================================================================
