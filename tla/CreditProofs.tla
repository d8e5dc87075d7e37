---------------------------- MODULE CreditProofs ----------------------------
(***************************************************************************)
(* The credit ledger, for every number of clients, events and retries: its *)
(* types, that its statements implement atomic accounts, that a change     *)
(* fails only when it was overtaken, that an invoice is allocated once,    *)
(* and that the ledger explains the balance.                               *)
(***************************************************************************)
EXTENDS CreditLedger, SetSums

(* What a change may do to a balance: the refinement needs to know that an *)
(* addition is one of the amounts, and a reset one of the levels.          *)
AmountOK(r) ==
  \/ r.op = "add" /\ r.amount \in Amounts
  \/ /\ r.op = "reset" /\ r.amount \in Levels \cup {0}
     /\ r.type = "equipment_credits" => r.amount = 0

(* A request serves an event that was raised, and only invoices and        *)
(* cancellations have stages that change balances.                         *)
RequestOK(r) ==
  /\ r.event # 0 => events[r.event].state # "unsent"
  /\ r.at \in {"guard", "save"} => r.event # 0
  /\ r.at = "guard" => events[r.event].kind = "invoice"
  /\ r.event # 0 /\ r.at \in {"guard", "read", "swap", "log"}
       => events[r.event].kind \in {"invoice", "deleted"}
  /\ r.at \in {"read", "swap"} => AmountOK(r)

EventOK(e) == events[e].state # "unsent" /\ events[e].kind = "invoice" => events[e].level \in Levels

LedgerInv ==
  /\ TypeOK
  /\ \A e \in Events : EventOK(e)
  /\ \A p \in Clients : RequestOK(req[p])

RequestsOK == req' \in [Clients -> Request] /\ \A q \in Clients : RequestOK(req'[q])

USE LedgerAssumption DEF Types, Uncapped, Events

-----------------------------------------------------------------------------
(* What the building blocks of a step do to the types. *)

LEMMA IdleTyped == Idle \in Request /\ RequestOK(Idle) /\ Idle.event = 0 /\ Idle.at = "idle"
BY DEF Idle, Request, RequestOK, Labels

LEMMA BecomeTyped ==
  ASSUME LedgerInv, NEW p \in Clients, NEW r \in Request, RequestOK(r), Become(p, r)
  PROVE  RequestsOK
BY DEF LedgerInv, TypeOK, Become, RequestsOK

LEMMA EndTyped ==
  ASSUME LedgerInv, NEW p \in Clients, End(p)
  PROVE  RequestsOK
BY IdleTyped, BecomeTyped DEF End

LEMMA ChangeTyped ==
  ASSUME NEW r \in Request, NEW t \in Types, NEW op \in {"add", "reset", "spend"}, NEW n \in Nat
  PROVE  /\ Change(r, t, op, n) \in Request
         /\ Change(r, t, op, n).at = "read" /\ Change(r, t, op, n).event = r.event
         /\ Change(r, t, op, n).type = t /\ Change(r, t, op, n).op = op
         /\ Change(r, t, op, n).amount = n
<1>1. 0 \in 0..Retries /\ 0 \in 0..(Retries + 1)
  OBVIOUS
<1> QED BY <1>1 DEF Change, Request, Labels

(* A request that has done with one credit type goes on to the next stage. *)
LEMMA AfterStageTyped ==
  ASSUME LedgerInv, NEW r \in Request, RequestOK(r), r.at \in {"guard", "log"}
  PROVE  AfterStage(r) \in Request /\ RequestOK(AfterStage(r))
<1>1. CASE r.event = 0
  BY <1>1, IdleTyped DEF AfterStage
<1>2. CASE r.event # 0 /\ r.type = "free_hours"
  <2>1. r.event \in Events /\ events[r.event].kind \in {"invoice", "deleted"}
    BY <1>2 DEF Request, RequestOK
  <2>2. CASE events[r.event].kind = "deleted"
    <3> DEFINE c == Change(r, "equipment_credits", "reset", 0)
    <3>1. AfterStage(r) = c
      BY <1>2, <2>2 DEF AfterStage, Stage
    <3>2. c \in Request /\ c.at = "read" /\ c.op = "reset" /\ c.amount = 0 /\ c.event = r.event
      BY ChangeTyped
    <3>3. events[r.event].state # "unsent"
      BY <1>2 DEF RequestOK
    <3> HIDE DEF c
    <3>4. RequestOK(c)
      BY <1>2, <2>2, <3>2, <3>3 DEF RequestOK, AmountOK
    <3> QED BY <3>1, <3>2, <3>4
  <2>3. CASE events[r.event].kind = "invoice"
    <3> DEFINE c == [r EXCEPT !.at = "guard", !.type = "equipment_credits"]
    <3>1. AfterStage(r) = c
      BY <1>2, <2>3 DEF AfterStage, Stage
    <3>2. c \in Request /\ c.at = "guard" /\ c.event = r.event
      BY DEF Request, Labels
    <3>3. RequestOK(c)
      BY <1>2, <2>3, <3>2 DEF RequestOK
    <3> QED BY <3>1, <3>2, <3>3
  <2> QED BY <2>1, <2>2, <2>3
<1>3. CASE r.event # 0 /\ r.type = "equipment_credits"
  <2>1. CASE r.via = "sync"
    BY <1>3, <2>1, IdleTyped DEF AfterStage
  <2>2. CASE r.via # "sync"
    <3> DEFINE c == [r EXCEPT !.at = "save"]
    <3>1. AfterStage(r) = c
      BY <1>3, <2>2 DEF AfterStage
    <3>2. c \in Request /\ c.at = "save" /\ c.event = r.event
      BY DEF Request, Labels
    <3>3. RequestOK(c)
      BY <1>3, <3>2 DEF RequestOK
    <3> QED BY <3>1, <3>2, <3>3
  <2> QED BY <2>1, <2>2
<1> QED BY <1>1, <1>2, <1>3 DEF Request

(* A write that keeps its type's bounds keeps everybody's request typed.   *)
LEMMA WriteTyped ==
  ASSUME LedgerInv, NEW p \in Clients, NEW r \in Request, RequestOK(r), NEW n \in Nat,
         r.type = "equipment_credits" => n <= MaxBalance, Write(p, r, n)
  PROVE  /\ RequestsOK
         /\ balance' \in [Types -> Nat] /\ balance'["equipment_credits"] <= MaxBalance
<1>1. balance' \in [Types -> Nat] /\ balance'["equipment_credits"] <= MaxBalance
  BY DEF LedgerInv, TypeOK, Write, Request
<1>2. ASSUME NEW q \in Clients
      PROVE  req'[q] \in Request /\ RequestOK(req'[q])
  <2>1. req[q] \in Request /\ RequestOK(req[q])
    BY DEF LedgerInv, TypeOK
  <2>2. CASE q = p
    BY <2>2 DEF Write
  <2>3. CASE q # p /\ req'[q] = req[q]
    BY <2>1, <2>3
  <2>4. CASE q # p /\ req[q].overtaken <= Retries /\ req'[q] = [req[q] EXCEPT !.overtaken = @ + 1]
    <3>1. req'[q] \in Request
      BY <2>1, <2>4 DEF Request
    <3>2. RequestOK(req'[q])
      BY <2>1, <2>4 DEF RequestOK, AmountOK, Request
    <3> QED BY <3>1, <3>2
  <2> QED BY <2>2, <2>3, <2>4 DEF Write
<1>3. req' = [q \in Clients |-> req'[q]]
  BY DEF Write
<1> QED BY <1>1, <1>2, <1>3 DEF RequestsOK

BalanceOK == balance \in [Types -> Nat] /\ balance["equipment_credits"] <= MaxBalance
RestOK ==
  /\ posted \in [Types -> Int] /\ lost \in [Types -> Int]
  /\ tags \subseteq Events \X Types /\ grants \in [Events \X Types -> Nat]
  /\ subscription \in Levels \cup {0} /\ muddled \subseteq Events
  /\ calls \in 0..MaxCalls /\ crashes \in 0..MaxCrashes

(* The parts of the invariant put together, when Stripe's events stay.     *)
LEMMA Assemble ==
  ASSUME LedgerInv, RequestsOK, BalanceOK', RestOK', UNCHANGED events
  PROVE  LedgerInv'
<1>1. TypeOK'
  BY DEF LedgerInv, TypeOK, RequestsOK, BalanceOK, RestOK
<1>2. ASSUME NEW e \in Events PROVE EventOK(e)'
  BY DEF LedgerInv, EventOK
<1>3. ASSUME NEW p \in Clients PROVE RequestOK(req[p])'
  BY DEF RequestsOK, RequestOK, AmountOK
<1> QED BY <1>1, <1>2, <1>3 DEF LedgerInv

LEMMA Parts == LedgerInv => BalanceOK /\ RestOK
BY DEF LedgerInv, TypeOK, BalanceOK, RestOK

-----------------------------------------------------------------------------
(* One lemma per action. *)

LEMMA ReadStep ==
  ASSUME LedgerInv, NEW p \in Clients, Read(p)
  PROVE  LedgerInv'
<1> DEFINE r == [req[p] EXCEPT !.at = "swap", !.seen = balance[req[p].type]]
<1>1. req[p] \in Request /\ RequestOK(req[p]) /\ balance[req[p].type] \in Nat /\ req[p].at = "read"
  BY DEF LedgerInv, TypeOK, Request, Read, At
<1>2. r \in Request /\ r.at = "swap" /\ r.event = req[p].event /\ AmountOK(r)
  BY <1>1 DEF Request, Labels, RequestOK, AmountOK
<1>3. RequestOK(r)
  BY <1>1, <1>2 DEF RequestOK
<1>4. Become(p, r)
  BY DEF Read
<1> HIDE DEF r
<1>5. RequestsOK
  BY <1>2, <1>3, <1>4, BecomeTyped
<1> QED BY <1>5, Assemble, Parts DEF Read, db, ghosts, BalanceOK, RestOK

LEMMA CappedBound ==
  ASSUME NEW t \in Types, NEW n \in Nat
  PROVE  Capped(t, n) \in Nat /\ (t = "equipment_credits" => Capped(t, n) <= MaxBalance)
BY DEF Capped

LEMMA SwapStep ==
  ASSUME LedgerInv, NEW p \in Clients, Swap(p)
  PROVE  LedgerInv'
<1> DEFINE r == req[p]
           n == NextBalance(r)
           s == [r EXCEPT !.at = "log", !.delta = Delta(r)]
<1>1. r \in Request /\ RequestOK(r) /\ r.at = "swap" /\ AmountOK(r)
  BY DEF LedgerInv, TypeOK, Swap, At, RequestOK
<1>2. n \in Nat /\ (r.type = "equipment_credits" => n <= MaxBalance)
  <2>1. r.seen \in Nat /\ r.amount \in Nat /\ r.type \in Types
    BY <1>1 DEF Request
  <2>2. CASE r.op = "add"
    BY <2>1, <2>2, CappedBound DEF NextBalance
  <2>3. CASE r.op = "reset"
    BY <1>1, <2>1, <2>3 DEF NextBalance, AmountOK
  <2> QED BY <1>1, <2>2, <2>3 DEF AmountOK
<1>3. s \in Request /\ s.at = "log" /\ s.event = r.event /\ s.type = r.type
  <2>1. Delta(r) \in Int
    BY <1>1, <1>2 DEF Delta, Request
  <2> QED BY <1>1, <2>1 DEF Request, Labels
<1>4. RequestOK(s)
  BY <1>1, <1>3 DEF RequestOK
<1>5. Write(p, s, n)
  BY DEF Swap
<1>6. r.event \in Events \cup {0} /\ r.type \in Types
  BY <1>1 DEF Request
<1>7. grants' = IF r.event = 0 THEN grants ELSE [grants EXCEPT ![<<r.event, r.type>>] = @ + 1]
  BY DEF Swap
<1> HIDE DEF r, n, s
<1>8. grants' \in [Events \X Types -> Nat]
  <2>1. grants \in [Events \X Types -> Nat]
    BY DEF LedgerInv, TypeOK
  <2>2. CASE r.event = 0
    BY <1>7, <2>1, <2>2
  <2>3. CASE r.event # 0
    <3>1. <<r.event, r.type>> \in Events \X Types
      BY <1>6, <2>3
    <3>2. grants[<<r.event, r.type>>] + 1 \in Nat
      BY <2>1, <3>1
    <3>3. grants' = [grants EXCEPT ![<<r.event, r.type>>] = grants[<<r.event, r.type>>] + 1]
      BY <1>7, <2>3
    <3> QED BY <2>1, <3>1, <3>2, <3>3
  <2> QED BY <2>2, <2>3
<1>9. RequestsOK /\ BalanceOK'
  BY <1>2, <1>3, <1>4, <1>5, WriteTyped DEF BalanceOK
<1>10. RestOK'
  BY <1>8, Parts DEF Swap, RestOK
<1> QED BY <1>9, <1>10, Assemble DEF Swap

LEMMA SwapMissedStep ==
  ASSUME LedgerInv, NEW p \in Clients, SwapMissed(p)
  PROVE  LedgerInv'
<1> DEFINE r == [req[p] EXCEPT !.at = Again, !.tries = @ + 1]
<1>1. req[p] \in Request /\ RequestOK(req[p]) /\ req[p].at = "swap"
  BY DEF LedgerInv, TypeOK, SwapMissed, At
<1>2. RequestsOK
  <2>1. CASE req[p].tries < Retries /\ Become(p, r)
    <3>1. req[p].tries + 1 \in 0..Retries
      BY <1>1, <2>1 DEF Request
    <3>2. r \in Request /\ r.at = "read" /\ r.event = req[p].event /\ AmountOK(r)
      BY <1>1, <3>1 DEF Request, Labels, Again, RequestOK, AmountOK
    <3>3. RequestOK(r)
      BY <1>1, <3>2 DEF RequestOK
    <3> HIDE DEF r
    <3> QED BY <2>1, <3>2, <3>3, BecomeTyped
  <2>2. CASE End(p)
    BY <2>2, EndTyped
  <2> QED BY <2>1, <2>2 DEF SwapMissed
<1> QED BY <1>2, Assemble, Parts DEF SwapMissed, db, ghosts, BalanceOK, RestOK

LEMMA LogStep ==
  ASSUME LedgerInv, NEW p \in Clients, Log(p)
  PROVE  LedgerInv'
<1>1. req[p] \in Request /\ RequestOK(req[p]) /\ req[p].at = "log" /\ Become(p, AfterStage(req[p]))
  BY DEF LedgerInv, TypeOK, Log, At
<1>2. RequestsOK
  BY <1>1, AfterStageTyped, BecomeTyped
<1>3. posted' \in [Types -> Int] /\ tags' \subseteq Events \X Types
  <2>1. req[p].type \in Types /\ req[p].delta \in Int
    BY <1>1 DEF Request
  <2>2. posted' = [posted EXCEPT ![req[p].type] = @ + req[p].delta]
    BY DEF Log
  <2>3. posted' \in [Types -> Int]
    BY <2>1, <2>2 DEF LedgerInv, TypeOK
  <2>4. req[p].event # 0 => <<req[p].event, req[p].type>> \in Events \X Types
    BY <1>1 DEF Request
  <2> QED BY <2>3, <2>4 DEF LedgerInv, TypeOK, Log
<1>4. BalanceOK' /\ RestOK'
  BY <1>3, Parts DEF Log, ghosts, BalanceOK, RestOK
<1> QED BY <1>2, <1>4, Assemble DEF Log

LEMMA SpendStep ==
  ASSUME LedgerInv, NEW p \in Clients, NEW t \in Types, NEW n \in Amounts, Spend(p, t, n)
  PROVE  LedgerInv'
<1> DEFINE r == [Idle EXCEPT !.at = "log", !.type = t, !.amount = n, !.delta = -n]
           m == balance[t] - n
<1>1. n \in Nat /\ balance[t] \in Nat /\ balance[t] >= n
  BY DEF LedgerInv, TypeOK, Spend, Covered
<1>2. m \in Nat /\ (t = "equipment_credits" => m <= MaxBalance)
  BY <1>1 DEF LedgerInv, TypeOK
<1>3. r \in Request /\ r.at = "log" /\ r.event = 0 /\ r.type = t
  <2>1. -n \in Int /\ "log" \in Labels
    BY <1>1 DEF Labels
  <2>2. [[[Idle EXCEPT !.at = "log"] EXCEPT !.type = t] EXCEPT !.amount = n] \in Request
    BY <1>1, <2>1, IdleTyped DEF Request
  <2>3. r \in Request
    BY <2>1, <2>2 DEF Request
  <2> QED BY <2>3, IdleTyped DEF Request
<1>4. RequestOK(r)
  BY <1>3 DEF RequestOK
<1>5. Write(p, r, m)
  BY DEF Spend
<1> HIDE DEF r, m
<1>6. RequestsOK /\ BalanceOK'
  BY <1>2, <1>3, <1>4, <1>5, WriteTyped DEF BalanceOK
<1>7. RestOK'
  BY Parts DEF Spend, Ready, ghosts, RestOK
<1> QED BY <1>6, <1>7, Assemble DEF Spend

LEMMA AdjustStep ==
  ASSUME LedgerInv, NEW p \in Clients, NEW t \in Types, NEW n \in Amounts, Adjust(p, t, n)
  PROVE  LedgerInv'
<1> DEFINE r == Change(Idle, t, "add", n)
<1>1. /\ r \in Request /\ r.at = "read" /\ r.type = t /\ r.op = "add" /\ r.amount = n
      /\ r.event = Idle.event
  <2>1. n \in Nat /\ 0 \in 0..Retries /\ 0 \in 0..(Retries + 1)
    OBVIOUS
  <2> QED BY <2>1, IdleTyped DEF Change, Request, Labels
<1>2. r.event = 0 /\ Become(p, r)
  BY <1>1, IdleTyped DEF Adjust
<1> HIDE DEF r
<1>3. RequestOK(r)
  BY <1>1, <1>2 DEF RequestOK, AmountOK
<1>4. RequestsOK
  BY <1>1, <1>2, <1>3, BecomeTyped
<1>5. BalanceOK' /\ RestOK'
  BY Parts DEF Adjust, Ready, db, ghosts, BalanceOK, RestOK
<1> QED BY <1>4, <1>5, Assemble DEF Adjust

LEMMA RaiseStep ==
  ASSUME LedgerInv, NEW e \in Events, NEW kind \in {"invoice", "updated", "deleted"},
         NEW n \in Levels, Raise(e, kind, n)
  PROVE  LedgerInv'
<1>1. events[e].state = "unsent"
  BY DEF Raise, Raised
<1>2. events' \in [Events -> Event]
  BY DEF LedgerInv, TypeOK, Raise, Event
<1>3. TypeOK'
  BY <1>2 DEF LedgerInv, TypeOK, Raise, db, ghosts
<1>4. ASSUME NEW f \in Events PROVE EventOK(f)'
  BY DEF LedgerInv, TypeOK, Raise, EventOK
<1>5. ASSUME NEW p \in Clients PROVE RequestOK(req[p])'
  <2>1. RequestOK(req[p]) /\ req' = req
    BY DEF LedgerInv, Raise
  <2>2. req[p].event \in Events /\ req[p].event # e => events'[req[p].event] = events[req[p].event]
    BY DEF LedgerInv, TypeOK, Raise
  <2>3. req[p].event # e /\ req[p].event \in Events \cup {0}
    BY <1>1, <2>1 DEF LedgerInv, TypeOK, Request, RequestOK
  <2> QED BY <2>1, <2>2, <2>3 DEF RequestOK, AmountOK
<1> QED BY <1>3, <1>4, <1>5 DEF LedgerInv

(* An event's state moves on and the rest of it stays.                     *)
LEMMA AssembleEvents ==
  ASSUME LedgerInv, RequestsOK, BalanceOK', RestOK', NEW e \in Events, NEW st \in {"tried", "acked"},
         events[e].state # "unsent", events' = [events EXCEPT ![e].state = st]
  PROVE  LedgerInv'
<1>1. events' \in [Events -> Event]
  BY DEF LedgerInv, TypeOK, Event
<1>2. TypeOK'
  BY <1>1 DEF TypeOK, RequestsOK, BalanceOK, RestOK
<1>3. ASSUME NEW f \in Events
      PROVE  /\ events'[f].kind = events[f].kind /\ events'[f].level = events[f].level
             /\ events[f].state # "unsent" <=> events'[f].state # "unsent"
  BY DEF LedgerInv, TypeOK, Event
<1>4. ASSUME NEW f \in Events PROVE EventOK(f)'
  BY <1>3 DEF LedgerInv, EventOK
<1>5. ASSUME NEW p \in Clients PROVE RequestOK(req[p])'
  <2>1. RequestOK(req'[p]) /\ req'[p].event \in Events \cup {0}
    BY DEF RequestsOK, Request
  <2> QED BY <1>3, <2>1 DEF RequestOK, AmountOK
<1> QED BY <1>2, <1>4, <1>5 DEF LedgerInv

LEMMA DeliverStep ==
  ASSUME LedgerInv, NEW p \in Clients, NEW e \in Events, events[e].state # "unsent",
         Deliver(p, e), calls' \in 0..MaxCalls
  PROVE  LedgerInv'
<1> DEFINE r == [Idle EXCEPT !.event = e,
                             !.via = IF events[e].state = "due" THEN "webhook" ELSE "again"]
           s == IF events[e].kind = "updated" THEN [r EXCEPT !.at = "save"] ELSE Stage(r, e, "free_hours")
<1>1. r \in Request /\ r.event = e
  BY IdleTyped DEF Request, Labels
<1>2. events[e].kind \in {"invoice", "updated", "deleted"}
  BY DEF LedgerInv, TypeOK, Event
<1>3. s \in Request /\ RequestOK(s)
  <2>1. CASE events[e].kind = "updated"
    <3>1. s \in Request /\ s.at = "save" /\ s.event = e
      BY <1>1, <2>1 DEF Request, Labels
    <3> HIDE DEF s
    <3> QED BY <3>1 DEF RequestOK
  <2>2. CASE events[e].kind = "invoice"
    <3>1. s \in Request /\ s.at = "guard" /\ s.event = e
      BY <1>1, <2>2 DEF Stage, Request, Labels
    <3> HIDE DEF s
    <3> QED BY <2>2, <3>1 DEF RequestOK
  <2>3. CASE events[e].kind = "deleted"
    <3>1. s = Change(r, "free_hours", "reset", 0)
      BY <2>3 DEF Stage
    <3> HIDE DEF r, s
    <3>2. /\ s \in Request /\ s.at = "read" /\ s.type = "free_hours" /\ s.op = "reset"
          /\ s.amount = 0 /\ s.event = e
      <4>1. 0 \in 0..Retries /\ 0 \in 0..(Retries + 1)
        OBVIOUS
      <4> QED BY <1>1, <3>1, <4>1 DEF Change, Request, Labels
    <3> QED BY <2>3, <3>2 DEF RequestOK, AmountOK
  <2> QED BY <1>2, <2>1, <2>2, <2>3
<1>4. Become(p, s)
  BY DEF Deliver
<1> HIDE DEF r, s
<1>5. RequestsOK
  BY <1>3, <1>4, BecomeTyped
<1>6. BalanceOK' /\ RestOK'
  BY Parts DEF Deliver, Overlap, db, BalanceOK, RestOK
<1>7. CASE events' = [events EXCEPT ![e].state = "tried"]
  BY <1>5, <1>6, <1>7, AssembleEvents
<1>8. CASE events' = events
  BY <1>5, <1>6, <1>8, Assemble
<1> QED BY <1>7, <1>8 DEF Deliver

LEMMA WebhookStep ==
  ASSUME LedgerInv, NEW p \in Clients, NEW e \in Events, Webhook(p, e) \/ WebhookAgain(p, e)
  PROVE  LedgerInv'
<1>1. events[e].state # "unsent" /\ Deliver(p, e)
  BY DEF Webhook, WebhookAgain, Raised
<1>2. calls' \in 0..MaxCalls
  BY DEF Webhook, WebhookAgain, Ready, LedgerInv, TypeOK
<1> QED BY <1>1, <1>2, DeliverStep

LEMMA SyncStep ==
  ASSUME LedgerInv, NEW p \in Clients, Sync(p)
  PROVE  LedgerInv'
<1>1. BalanceOK' /\ RestOK'
  <2>1. subscription' \in Levels \cup {0}
    <3>1. PICK last \in Events : subscription' = events[last].level
      BY DEF Sync
    <3> QED BY <3>1 DEF LedgerInv, TypeOK, Event
  <2>2. muddled' \subseteq Events
    BY DEF Sync, Overlap, LedgerInv, TypeOK
  <2>3. calls' \in 0..MaxCalls
    <3>1. calls < MaxCalls /\ calls' = calls + 1
      BY DEF Sync, Ready
    <3> QED BY <3>1 DEF LedgerInv, TypeOK
  <2> QED BY <2>1, <2>2, <2>3, Parts DEF Sync, BalanceOK, RestOK
<1>2. CASE UNCHANGED req
  BY <1>1, <1>2, Assemble DEF Sync, RequestsOK, LedgerInv, TypeOK
<1>3. CASE Live
  <2>1. PICK e \in Events : /\ Last(e, Invoices)
                            /\ Become(p, [Idle EXCEPT !.at = "guard", !.event = e, !.via = "sync"])
    BY <1>3 DEF Sync
  <2> DEFINE r == [Idle EXCEPT !.at = "guard", !.event = e, !.via = "sync"]
  <2>2. r \in Request /\ r.at = "guard" /\ r.event = e
    BY IdleTyped DEF Request, Labels
  <2>3. events[e].kind = "invoice" /\ events[e].state # "unsent" /\ Become(p, r)
    BY <2>1 DEF Last, Invoices, Raised
  <2> HIDE DEF r
  <2>4. RequestOK(r)
    BY <2>2, <2>3 DEF RequestOK
  <2> QED BY <1>1, <2>2, <2>3, <2>4, BecomeTyped, Assemble DEF Sync
<1> QED BY <1>2, <1>3 DEF Sync

LEMMA GuardStep ==
  ASSUME LedgerInv, NEW p \in Clients, Guard(p)
  PROVE  LedgerInv'
<1> DEFINE r == req[p]
           n == events[r.event].level
           op == IF r.type = "free_hours" THEN "reset" ELSE "add"
           c == Change(r, r.type, op, n)
<1>1. r \in Request /\ RequestOK(r) /\ r.at = "guard"
  BY DEF LedgerInv, TypeOK, Guard, At
<1>2. r.event \in Events /\ events[r.event].kind = "invoice" /\ events[r.event].state # "unsent"
  BY <1>1 DEF Request, RequestOK
<1>3. n \in Levels
  BY <1>2 DEF LedgerInv, EventOK
<1>4. r.type \in Types /\ n \in Nat /\ op \in {"add", "reset", "spend"}
  BY <1>1, <1>3 DEF Request
<1>5. op = IF r.type = "free_hours" THEN "reset" ELSE "add"
  OBVIOUS
<1>6. Become(p, AfterStage(r)) \/ Become(p, c)
  BY DEF Guard
<1> HIDE DEF n, op, r
<1>7. 0 \in 0..Retries /\ 0 \in 0..(Retries + 1)
  OBVIOUS
<1>8. c \in Request /\ c.at = "read" /\ c.type = r.type /\ c.op = op /\ c.amount = n /\ c.event = r.event
  BY <1>1, <1>4, <1>7 DEF Change, Request, Labels
<1> HIDE DEF c
<1>9. RequestOK(c)
  BY <1>2, <1>3, <1>4, <1>5, <1>8 DEF RequestOK, AmountOK
<1>10. RequestsOK
  BY <1>1, <1>6, <1>8, <1>9, AfterStageTyped, BecomeTyped
<1> QED BY <1>10, Assemble, Parts DEF Guard, db, ghosts, BalanceOK, RestOK

LEMMA SaveStep ==
  ASSUME LedgerInv, NEW p \in Clients, Save(p)
  PROVE  LedgerInv'
<1>1. req[p].event \in Events /\ events[req[p].event].state # "unsent"
  BY DEF LedgerInv, TypeOK, Request, RequestOK, Save, At
<1>2. RequestsOK
  BY EndTyped DEF Save
<1>3. subscription' \in Levels \cup {0}
  BY <1>1 DEF Save, LedgerInv, TypeOK, Event
<1>4. BalanceOK' /\ RestOK'
  BY <1>3, Parts DEF Save, ghosts, BalanceOK, RestOK
<1> QED BY <1>1, <1>2, <1>4, AssembleEvents DEF Save

LEMMA CrashStep ==
  ASSUME LedgerInv, NEW p \in Clients, Crash(p)
  PROVE  LedgerInv'
<1>1. req[p] \in Request
  BY DEF LedgerInv, TypeOK
<1>2. req[p].type \in Types /\ req[p].delta \in Int /\ req[p].event \in Events \cup {0}
  BY <1>1 DEF Request
<1>3. RequestsOK
  BY EndTyped DEF Crash
<1>4. lost' \in [Types -> Int] /\ muddled' \subseteq Events
  <2>1. lost \in [Types -> Int] /\ muddled \subseteq Events
    BY DEF LedgerInv, TypeOK
  <2>2. CASE UNCHANGED <<lost, muddled>>
    BY <2>1, <2>2
  <2>3. CASE /\ lost' = [lost EXCEPT ![req[p].type] = @ + req[p].delta]
             /\ muddled' = muddled \cup ({req[p].event} \ {0})
    <3>1. lost' \in [Types -> Int]
      BY <1>2, <2>1, <2>3
    <3>2. muddled' \subseteq Events
      BY <1>2, <2>1, <2>3
    <3> QED BY <3>1, <3>2
  <2> QED BY <2>2, <2>3 DEF Crash
<1>5. crashes' \in 0..MaxCrashes
  <2>1. crashes \in 0..MaxCrashes
    BY DEF LedgerInv, TypeOK
  <2>2. crashes < MaxCrashes /\ crashes' = crashes + 1
    BY DEF Crash
  <2> QED BY <2>1, <2>2
<1>6. BalanceOK'
  BY Parts DEF Crash, db, BalanceOK
<1>7. RestOK'
  BY <1>4, <1>5, Parts DEF Crash, db, RestOK
<1> QED BY <1>3, <1>6, <1>7, Assemble DEF Crash

-----------------------------------------------------------------------------
(* The invariant holds at first and every step keeps it.                   *)
LEMMA InitOK == Init => LedgerInv
<1> SUFFICES ASSUME Init PROVE LedgerInv
  OBVIOUS
<1>1. TypeOK
  BY IdleTyped DEF Init, TypeOK, Event
<1>2. \A e \in Events : EventOK(e)
  BY DEF Init, EventOK
<1>3. \A p \in Clients : RequestOK(req[p])
  BY IdleTyped DEF Init
<1> QED BY <1>1, <1>2, <1>3 DEF LedgerInv

LEMMA StutterOK == LedgerInv /\ UNCHANGED vars => LedgerInv'
BY DEF LedgerInv, TypeOK, EventOK, RequestOK, AmountOK, vars, db, ghosts

LEMMA StepOK == LedgerInv /\ [Next]_vars => LedgerInv'
<1> SUFFICES ASSUME LedgerInv, [Next]_vars PROVE LedgerInv'
  OBVIOUS
<1>1. ASSUME NEW p \in Clients, Continue(p) PROVE LedgerInv'
  BY <1>1, ReadStep, SwapStep, SwapMissedStep, LogStep, GuardStep, SaveStep DEF Continue
<1>2. ASSUME NEW p \in Clients, Call(p) PROVE LedgerInv'
  BY <1>2, SpendStep, AdjustStep, WebhookStep, SyncStep DEF Call
<1>3. ASSUME NEW p \in Clients, Crash(p) PROVE LedgerInv'
  BY <1>3, CrashStep
<1>4. ASSUME NEW e \in Events, Redeliver(e) PROVE LedgerInv'
  BY <1>4, WebhookStep DEF Redeliver
<1>5. ASSUME NEW e \in Events, NEW kind \in {"invoice", "updated", "deleted"}, NEW n \in Levels,
             Raise(e, kind, n)
      PROVE  LedgerInv'
  BY <1>5, RaiseStep
<1> QED BY <1>1, <1>2, <1>3, <1>4, <1>5, StutterOK DEF Next

(* Types: no balance is ever negative, and the equipment balance never     *)
(* exceeds its cap, however many requests change it at once.               *)
THEOREM TypeCorrect == Spec => []TypeOK
<1>1. LedgerInv => TypeOK
  BY DEF LedgerInv
<1> QED BY <1>1, InitOK, StepOK, PTL DEF Spec

-----------------------------------------------------------------------------
(* The refinement: a swap is a deposit or a reset of the balance as it is  *)
(* at that moment, because it is the balance that was read.                *)

LEMMA SwapMaps ==
  ASSUME LedgerInv, NEW p \in Clients, Swap(p)
  PROVE  Accounts!Next
<1> DEFINE r == req[p]
<1>1. r \in Request /\ AmountOK(r)
  BY DEF LedgerInv, TypeOK, Swap, At, RequestOK
<1>2. r.type \in Types /\ r.seen = balance[r.type]
  BY <1>1 DEF Swap, Swappable, Request
<1>3. balance' = [balance EXCEPT ![r.type] = NextBalance(r)]
  BY DEF Swap, Write
<1>4. CASE r.op = "add" /\ r.amount \in Amounts
  <2>1. Accounts!Deposit(r.type, r.amount)
    BY <1>2, <1>3, <1>4 DEF NextBalance, Capped, Accounts!Deposit, Accounts!Capped, LedgerInv, TypeOK
  <2> QED BY <1>2, <1>4, <2>1 DEF Accounts!Next
<1>5. CASE r.op = "reset" /\ r.amount \in Levels \cup {0}
  <2>1. Accounts!Reset(r.type, r.amount)
    BY <1>3, <1>5 DEF NextBalance, Accounts!Reset
  <2> QED BY <1>2, <1>5, <2>1 DEF Accounts!Next
<1> QED BY <1>1, <1>4, <1>5 DEF AmountOK

LEMMA SpendMaps ==
  ASSUME LedgerInv, NEW p \in Clients, NEW t \in Types, NEW n \in Amounts, Spend(p, t, n)
  PROVE  Accounts!Next
<1>1. balance' = [balance EXCEPT ![t] = balance[t] - n] /\ balance[t] >= n
  BY DEF Spend, Write, Covered
<1>2. Accounts!Spend(t, n)
  BY <1>1 DEF Accounts!Spend, LedgerInv, TypeOK
<1> QED BY <1>2 DEF Accounts!Next

LEMMA StepMaps == LedgerInv /\ [Next]_vars => [Accounts!Next]_balance
<1> SUFFICES ASSUME LedgerInv, [Next]_vars PROVE Accounts!Next \/ UNCHANGED balance
  OBVIOUS
<1>1. ASSUME NEW p \in Clients, Continue(p) PROVE Accounts!Next \/ UNCHANGED balance
  BY <1>1, SwapMaps DEF Continue, Read, SwapMissed, Log, Guard, Save, db
<1>2. ASSUME NEW p \in Clients, Call(p) PROVE Accounts!Next \/ UNCHANGED balance
  <2>1. ASSUME NEW t \in Types, NEW n \in Amounts, Spend(p, t, n)
        PROVE  Accounts!Next
    BY <2>1, SpendMaps
  <2>2. ASSUME NEW t \in Types, NEW n \in Amounts, Adjust(p, t, n)
        PROVE  UNCHANGED balance
    BY <2>2 DEF Adjust, db
  <2>3. ASSUME NEW e \in Events, WebhookAgain(p, e)
        PROVE  UNCHANGED balance
    BY <2>3 DEF WebhookAgain, Deliver, db
  <2>4. Sync(p) => UNCHANGED balance
    BY DEF Sync
  <2> QED BY <1>2, <2>1, <2>2, <2>3, <2>4 DEF Call
<1>3. ASSUME NEW p \in Clients, Crash(p) PROVE UNCHANGED balance
  BY <1>3 DEF Crash, db
<1>4. ASSUME NEW e \in Events, Redeliver(e) PROVE UNCHANGED balance
  BY <1>4 DEF Redeliver, Webhook, Deliver, db
<1>5. ASSUME NEW e \in Events, NEW kind \in {"invoice", "updated", "deleted"}, NEW n \in Levels,
             Raise(e, kind, n)
      PROVE  UNCHANGED balance
  BY <1>5 DEF Raise, db
<1> QED BY <1>1, <1>2, <1>3, <1>4, <1>5 DEF Next, vars, db

(* The balances behave as atomic accounts: no deposit, purchase or         *)
(* allocation is lost under another, for every number of clients.          *)
THEOREM RefinesAccounts == Spec => ImplementsAccounts
<1>1. Init => Accounts!Init
  BY DEF Init, Accounts!Init
<1> QED BY <1>1, InitOK, StepOK, StepMaps, PTL DEF Spec, ImplementsAccounts, Accounts!Spec

-----------------------------------------------------------------------------
(* A change gives up only when others wrote the balance Retries + 1 times. *)
OvertakenOK(r) ==
  /\ r.at \in {"read", "swap"} => r.tries <= r.overtaken
  /\ r.at = "swap" /\ ~Swappable(r) => r.tries < r.overtaken

LEMMA OvertakenInit == Init => FailsOnlyWhenOvertaken
BY IdleTyped DEF Init, FailsOnlyWhenOvertaken

(* A step that writes no balance, and changes at most one request.         *)
LEMMA OvertakenBecome ==
  ASSUME LedgerInv, FailsOnlyWhenOvertaken, NEW p \in Clients, NEW r,
         Become(p, r), UNCHANGED balance, OvertakenOK(r)
  PROVE  FailsOnlyWhenOvertaken'
BY DEF LedgerInv, TypeOK, FailsOnlyWhenOvertaken, Become, OvertakenOK, Swappable

LEMMA OvertakenIdle == OvertakenOK(Idle)
BY DEF Idle, OvertakenOK

(* A request that starts on a change has not been overtaken yet.           *)
LEMMA OvertakenStage ==
  ASSUME NEW r \in Request, r.at \in {"guard", "log"}
  PROVE  OvertakenOK(AfterStage(r))
BY OvertakenIdle DEF AfterStage, Stage, Change, OvertakenOK, Request

(* A write overtakes whoever is changing the same balance.                 *)
LEMMA OvertakenWrite ==
  ASSUME LedgerInv, FailsOnlyWhenOvertaken, NEW p \in Clients, NEW r, NEW n,
         r.at = "log", Write(p, r, n)
  PROVE  FailsOnlyWhenOvertaken'
<1> SUFFICES ASSUME NEW q \in Clients PROVE OvertakenOK(req[q])'
  BY DEF FailsOnlyWhenOvertaken, OvertakenOK
<1>1. /\ req[q] \in Request
      /\ req[q].at \in {"read", "swap"} => req[q].tries <= req[q].overtaken
      /\ req[q].at = "swap" /\ ~Swappable(req[q]) => req[q].tries < req[q].overtaken
  BY DEF LedgerInv, TypeOK, FailsOnlyWhenOvertaken
<1>2. req[q].tries \in 0..Retries /\ req[q].overtaken \in 0..(Retries + 1)
  BY <1>1 DEF Request
<1>3. CASE q = p
  BY <1>3 DEF Write, OvertakenOK
<1>4. CASE /\ q # p /\ req[q].at \in {"read", "swap"} /\ req[q].type = r.type
           /\ req[q].overtaken <= Retries
  <2>1. req'[q] = [req[q] EXCEPT !.overtaken = @ + 1]
    BY <1>4 DEF Write
  <2>2. /\ req'[q].tries = req[q].tries
        /\ req'[q].overtaken = req[q].overtaken + 1
    BY <1>1, <2>1 DEF Request
  <2> QED BY <1>1, <1>2, <1>4, <2>2 DEF OvertakenOK
<1>5. CASE /\ q # p
           /\ ~(req[q].at \in {"read", "swap"} /\ req[q].type = r.type /\ req[q].overtaken <= Retries)
  <2>1. req'[q] = req[q]
    BY <1>5 DEF Write
  <2>2. req[q].type # r.type => balance'[req[q].type] = balance[req[q].type]
    BY <1>1 DEF Write, LedgerInv, TypeOK, Request
  <2> QED BY <1>1, <1>2, <1>5, <2>1, <2>2 DEF OvertakenOK, Swappable
<1> QED BY <1>3, <1>4, <1>5

LEMMA OvertakenStep ==
  LedgerInv /\ FailsOnlyWhenOvertaken /\ [Next]_vars => FailsOnlyWhenOvertaken'
<1> SUFFICES ASSUME LedgerInv, FailsOnlyWhenOvertaken, [Next]_vars PROVE FailsOnlyWhenOvertaken'
  OBVIOUS
<1>1. ASSUME NEW p \in Clients, Read(p) PROVE FailsOnlyWhenOvertaken'
  <2> DEFINE r == [req[p] EXCEPT !.at = "swap", !.seen = balance[req[p].type]]
  <2>1. req[p] \in Request /\ req[p].at = "read" /\ req[p].tries <= req[p].overtaken
    BY <1>1 DEF LedgerInv, TypeOK, Read, At, FailsOnlyWhenOvertaken
  <2>2. OvertakenOK(r)
    BY <2>1 DEF Request, OvertakenOK, Swappable
  <2> QED BY <1>1, <2>2, OvertakenBecome DEF Read, db
<1>2. ASSUME NEW p \in Clients, Swap(p) PROVE FailsOnlyWhenOvertaken'
  <2> DEFINE r == [req[p] EXCEPT !.at = "log", !.delta = Delta(req[p])]
  <2>1. req[p] \in Request
    BY DEF LedgerInv, TypeOK
  <2>2. r.at = "log" /\ r.type = req[p].type /\ Write(p, r, NextBalance(req[p]))
    BY <1>2, <2>1 DEF Swap, Request
  <2> HIDE DEF r
  <2> QED BY <2>2, OvertakenWrite
<1>3. ASSUME NEW p \in Clients, SwapMissed(p) PROVE FailsOnlyWhenOvertaken'
  <2> DEFINE r == [req[p] EXCEPT !.at = Again, !.tries = @ + 1]
  <2>1. req[p] \in Request /\ req[p].tries < req[p].overtaken /\ req[p].tries \in Nat /\ req[p].overtaken \in Nat
    <3>1. req[p] \in Request
      BY DEF LedgerInv, TypeOK
    <3>2. req[p].tries \in Nat /\ req[p].overtaken \in Nat
      BY <3>1 DEF Request
    <3>3. req[p].at = "swap" /\ ~Swappable(req[p])
      BY <1>3 DEF SwapMissed, At
    <3>4. req[p].tries < req[p].overtaken
      BY <3>3 DEF FailsOnlyWhenOvertaken
    <3> QED BY <3>1, <3>2, <3>4
  <2>2. OvertakenOK(r)
    BY <2>1 DEF Request, OvertakenOK, Again
  <2> QED BY <1>3, <2>2, OvertakenIdle, OvertakenBecome DEF SwapMissed, End, db
<1>4. ASSUME NEW p \in Clients, Log(p) PROVE FailsOnlyWhenOvertaken'
  <2>1. OvertakenOK(AfterStage(req[p]))
    BY <1>4, OvertakenStage DEF Log, At, LedgerInv, TypeOK
  <2> QED BY <1>4, <2>1, OvertakenBecome DEF Log
<1>5. ASSUME NEW p \in Clients, Guard(p) PROVE FailsOnlyWhenOvertaken'
  <2>1. OvertakenOK(AfterStage(req[p]))
    BY <1>5, OvertakenStage DEF Guard, At, LedgerInv, TypeOK
  <2>2. ASSUME NEW t, NEW op, NEW n PROVE OvertakenOK(Change(req[p], t, op, n))
    BY DEF LedgerInv, TypeOK, Request, Change, OvertakenOK
  <2>3. PICK r : Become(p, r) /\ OvertakenOK(r)
    BY <1>5, <2>1, <2>2 DEF Guard
  <2> QED BY <1>5, <2>3, OvertakenBecome DEF Guard, db
<1>6. ASSUME NEW p \in Clients, Save(p) \/ Crash(p) PROVE FailsOnlyWhenOvertaken'
  BY <1>6, OvertakenIdle, OvertakenBecome DEF Save, Crash, End, db
<1>7. ASSUME NEW p \in Clients, NEW t \in Types, NEW n \in Amounts, Spend(p, t, n)
      PROVE  FailsOnlyWhenOvertaken'
  <2> DEFINE r == [Idle EXCEPT !.at = "log", !.type = t, !.amount = n, !.delta = -n]
  <2>1. r.at = "log" /\ Write(p, r, balance[t] - n)
    BY <1>7 DEF Spend, Idle
  <2> HIDE DEF r
  <2> QED BY <2>1, OvertakenWrite
<1>8. ASSUME NEW p \in Clients, NEW t \in Types, NEW n \in Amounts, Adjust(p, t, n)
      PROVE  FailsOnlyWhenOvertaken'
  <2>1. OvertakenOK(Change(Idle, t, "add", n))
    BY DEF Idle, Change, OvertakenOK
  <2> QED BY <1>8, <2>1, OvertakenBecome DEF Adjust, db
<1>9. ASSUME NEW p \in Clients, NEW e \in Events, Webhook(p, e) \/ WebhookAgain(p, e)
      PROVE  FailsOnlyWhenOvertaken'
  <2> DEFINE r == [Idle EXCEPT !.event = e,
                               !.via = IF events[e].state = "due" THEN "webhook" ELSE "again"]
  <2>1. OvertakenOK([r EXCEPT !.at = "save"]) /\ OvertakenOK(Stage(r, e, "free_hours"))
    BY DEF Idle, Stage, Change, OvertakenOK
  <2>2. PICK s : Become(p, s) /\ OvertakenOK(s)
    BY <1>9, <2>1 DEF Webhook, WebhookAgain, Deliver
  <2> QED BY <1>9, <2>2, OvertakenBecome DEF Webhook, WebhookAgain, Deliver, db
<1>10. ASSUME NEW p \in Clients, Sync(p) PROVE FailsOnlyWhenOvertaken'
  <2>1. CASE UNCHANGED req
    BY <1>10, <2>1 DEF Sync, FailsOnlyWhenOvertaken, Swappable
  <2>2. CASE \E e \in Events : Become(p, [Idle EXCEPT !.at = "guard", !.event = e, !.via = "sync"])
    <3>1. PICK e \in Events : Become(p, [Idle EXCEPT !.at = "guard", !.event = e, !.via = "sync"])
      BY <2>2
    <3>2. OvertakenOK([Idle EXCEPT !.at = "guard", !.event = e, !.via = "sync"])
      BY DEF Idle, OvertakenOK
    <3> QED BY <1>10, <3>1, <3>2, OvertakenBecome DEF Sync
  <2> QED BY <1>10, <2>1, <2>2 DEF Sync
<1>11. ASSUME UNCHANGED <<balance, req>> PROVE FailsOnlyWhenOvertaken'
  BY <1>11 DEF FailsOnlyWhenOvertaken, Swappable
<1>12. ASSUME NEW e \in Events, NEW kind \in {"invoice", "updated", "deleted"}, NEW n \in Levels,
              Raise(e, kind, n)
       PROVE  FailsOnlyWhenOvertaken'
  BY <1>11, <1>12 DEF Raise, db
<1> QED
  BY <1>1, <1>2, <1>3, <1>4, <1>5, <1>6, <1>7, <1>8, <1>9, <1>10, <1>11, <1>12
  DEF Next, Continue, Call, Redeliver, vars, db

(* No balance change fails while the others leave it a chance: giving up   *)
(* takes Retries + 1 successful writes of others.                          *)
THEOREM FailsFairly == Spec => []FailsOnlyWhenOvertaken
BY InitOK, StepOK, OvertakenInit, OvertakenStep, PTL DEF Spec

-----------------------------------------------------------------------------
(* An invoice's credits are granted once, unless two of its deliveries     *)
(* overlapped or one died before the ledger: a grant is either in the      *)
(* ledger already, where the guard finds it, or on its way there in the    *)
(* only request that handles the invoice.                                  *)

SoleHandler(e) == \A p, q \in Clients : Handles(p, e) /\ Handles(q, e) => p = q

OnItsWay(e, t) == \E p \in Clients : Handles(p, e) /\ At(p, "log") /\ req[p].type = t

Changing(p, e, t) == Handles(p, e) /\ req[p].at \in {"read", "swap"} /\ req[p].type = t

GrantOK(e, t) ==
  /\ grants[<<e, t>>] <= 1
  /\ grants[<<e, t>>] # 0 => <<e, t>> \in tags \/ OnItsWay(e, t)
  /\ \A p \in Clients : Changing(p, e, t) => grants[<<e, t>>] = 0

AllocInv ==
  \A e \in Events :
    /\ e \notin muddled => SoleHandler(e)
    /\ e \notin muddled /\ events[e].kind = "invoice" => \A t \in Types : GrantOK(e, t)
    /\ events[e].state = "unsent" => \A t \in Types : grants[<<e, t>>] = 0

LEMMA AllocImplies == LedgerInv /\ AllocInv => AllocatedOnce
BY DEF AllocInv, GrantOK, AllocatedOnce

LEMMA AllocInit == Init => AllocInv
<1> SUFFICES ASSUME Init, NEW e \in Events
             PROVE  /\ SoleHandler(e)
                    /\ \A t \in Types : GrantOK(e, t) /\ grants[<<e, t>>] = 0
  BY DEF AllocInv
<1>1. \A p \in Clients : ~Handles(p, e)
  BY IdleTyped DEF Init, Handles
<1>2. \A t \in Types : grants[<<e, t>>] = 0
  BY DEF Init
<1> QED BY <1>1, <1>2 DEF SoleHandler, GrantOK, Changing

-----------------------------------------------------------------------------
Same(q) == req'[q].event = req[q].event /\ req'[q].at = req[q].at /\ req'[q].type = req[q].type

SameKinds == \A e \in Events : /\ events'[e].kind = events[e].kind
                               /\ events'[e].state = "unsent" => events[e].state = "unsent"

(* A step of p that grants nothing keeps the invariant when p does not     *)
(* take an invoice from another request, starts a change only of what was  *)
(* not granted, and leaves a grant that was on its way in the ledger.      *)
LEMMA QuietStep ==
  ASSUME LedgerInv, AllocInv, NEW p \in Clients,
         UNCHANGED grants, tags \subseteq tags', muddled \subseteq muddled', SameKinds,
         \A q \in Clients \ {p} : Same(q),
         \A e \in Events \ muddled' : req'[p].event = e
           => Handles(p, e) \/ \A q \in Clients : ~Handles(q, e),
         \A e \in Events \ muddled', t \in Types : events[e].kind = "invoice" /\ Changing(p, e, t)'
           => grants[<<e, t>>] = 0,
         \A e \in Events \ muddled', t \in Types : Handles(p, e) /\ At(p, "log") /\ req[p].type = t
           => <<e, t>> \in tags'
  PROVE  AllocInv'
<1> SUFFICES ASSUME NEW e \in Events
             PROVE  /\ e \notin muddled' => SoleHandler(e)'
                    /\ e \notin muddled' /\ events'[e].kind = "invoice" => \A t \in Types : GrantOK(e, t)'
                    /\ events'[e].state = "unsent" => \A t \in Types : grants'[<<e, t>>] = 0
  BY DEF AllocInv
<1>1. ASSUME e \notin muddled' PROVE SoleHandler(e)'
  <2>1. SoleHandler(e)
    BY <1>1 DEF AllocInv
  <2> QED BY <1>1, <2>1 DEF SoleHandler, Handles, Same
<1>2. ASSUME e \notin muddled', events'[e].kind = "invoice", NEW t \in Types PROVE GrantOK(e, t)'
  <2>1. GrantOK(e, t) /\ events[e].kind = "invoice"
    BY <1>2 DEF AllocInv, SameKinds
  <2>2. ASSUME OnItsWay(e, t) PROVE <<e, t>> \in tags' \/ OnItsWay(e, t)'
    <3>1. PICK q \in Clients : Handles(q, e) /\ At(q, "log") /\ req[q].type = t
      BY <2>2 DEF OnItsWay
    <3>2. CASE q = p
      BY <1>2, <3>1, <3>2
    <3>3. CASE q # p
      BY <3>1, <3>3 DEF OnItsWay, Same, Handles, At
    <3> QED BY <3>2, <3>3
  <2>3. ASSUME NEW q \in Clients, Changing(q, e, t)' PROVE grants[<<e, t>>] = 0
    <3>1. CASE q = p
      BY <1>2, <2>1, <2>3, <3>1
    <3>2. CASE q # p
      BY <2>1, <2>3, <3>2 DEF GrantOK, Changing, Same, Handles
    <3> QED BY <3>1, <3>2
  <2> QED BY <2>1, <2>2, <2>3 DEF GrantOK
<1>3. events'[e].state = "unsent" => \A t \in Types : grants'[<<e, t>>] = 0
  BY DEF AllocInv, SameKinds
<1> QED BY <1>1, <1>2, <1>3

(* The same for a step that only moves p on.                               *)
LEMMA QuietBecome ==
  ASSUME LedgerInv, AllocInv, NEW p \in Clients, NEW r, Become(p, r),
         UNCHANGED grants, tags \subseteq tags', muddled \subseteq muddled', SameKinds,
         \A e \in Events \ muddled' : r.event = e
           => Handles(p, e) \/ \A q \in Clients : ~Handles(q, e),
         \A e \in Events \ muddled' : events[e].kind = "invoice" /\ r.event = e /\ r.at \in {"read", "swap"}
           => grants[<<e, r.type>>] = 0,
         \A e \in Events \ muddled', t \in Types : Handles(p, e) /\ At(p, "log") /\ req[p].type = t
           => <<e, t>> \in tags'
  PROVE  AllocInv'
<1>1. req'[p] = r /\ \A q \in Clients \ {p} : req'[q] = req[q]
  BY DEF Become, LedgerInv, TypeOK
<1>2. \A q \in Clients \ {p} : Same(q)
  BY <1>1 DEF Same
<1>3. \A e \in Events \ muddled' : req'[p].event = e
        => Handles(p, e) \/ \A q \in Clients : ~Handles(q, e)
  BY <1>1
<1>4. \A e \in Events \ muddled', t \in Types : events[e].kind = "invoice" /\ Changing(p, e, t)'
        => grants[<<e, t>>] = 0
  BY <1>1 DEF Changing, Handles
<1> QED BY <1>2, <1>3, <1>4, QuietStep

(* The end of a request disturbs nothing but a grant on its way.           *)
LEMMA QuietEnd ==
  ASSUME LedgerInv, AllocInv, NEW p \in Clients, End(p),
         UNCHANGED <<grants, tags>>, muddled \subseteq muddled', SameKinds,
         At(p, "log") /\ req[p].event # 0 => req[p].event \in muddled'
  PROVE  AllocInv'
<1>1. Become(p, Idle)
  BY DEF End
<1>2. \A e \in Events : Idle.event # e
  BY IdleTyped
<1> QED BY <1>1, <1>2, QuietBecome DEF Handles

(* Past a stage of an invoice, a request is at a guard or done with it.    *)
LEMMA AfterStageQuiet ==
  ASSUME NEW r \in Request
  PROVE  /\ AfterStage(r).event \in {0, r.event}
         /\ r.event # 0 /\ events[r.event].kind = "invoice" /\ AfterStage(r).event # 0
              => AfterStage(r).at \notin {"read", "swap"}
<1>1. ASSUME r.event # 0, r.type = "free_hours", events[r.event].kind = "deleted"
      PROVE  AfterStage(r).event = r.event
  BY <1>1 DEF AfterStage, Stage, Change, Request
<1>2. ASSUME r.event # 0, r.type = "free_hours", events[r.event].kind # "deleted"
      PROVE  AfterStage(r).event = r.event /\ AfterStage(r).at = "guard"
  BY <1>2 DEF AfterStage, Stage, Request
<1>3. ASSUME r.event = 0 \/ (r.type # "free_hours" /\ r.via = "sync")
      PROVE  AfterStage(r).event = 0
  BY <1>3, IdleTyped DEF AfterStage
<1>4. ASSUME r.event # 0, r.type # "free_hours", r.via # "sync"
      PROVE  AfterStage(r).event = r.event /\ AfterStage(r).at = "save"
  BY <1>4 DEF AfterStage, Request
<1> QED BY <1>1, <1>2, <1>3, <1>4

-----------------------------------------------------------------------------
(* One lemma for each action that grants, logs or takes an event. *)

LEMMA AllocSwap ==
  ASSUME LedgerInv, AllocInv, NEW p \in Clients, Swap(p)
  PROVE  AllocInv'
<1> DEFINE r == req[p]
<1>1. r \in Request /\ RequestOK(r) /\ r.at = "swap" /\ r.type \in Types
  BY DEF LedgerInv, TypeOK, Swap, At, Request
<1>2. /\ req'[p].event = r.event /\ req'[p].type = r.type /\ req'[p].at = "log"
      /\ \A q \in Clients \ {p} : Same(q)
  BY <1>1 DEF Swap, Write, Same, LedgerInv, TypeOK, Request
<1>3. CASE r.event = 0
  <2>1. UNCHANGED <<grants, tags, muddled, events>>
    BY <1>3 DEF Swap
  <2>2. \A e \in Events, t \in Types : ~Changing(p, e, t)'
    BY <1>2, <1>3 DEF Changing, Handles
  <2>3. \A e \in Events : ~Handles(p, e) /\ req'[p].event # e
    BY <1>2, <1>3 DEF Handles
  <2> QED BY <1>2, <2>1, <2>2, <2>3, QuietStep DEF SameKinds
<1>4. CASE r.event # 0
  <2>1. PICK f \in Events : f = r.event
    BY <1>1, <1>4 DEF Request
  <2>2. grants' = [grants EXCEPT ![<<f, r.type>>] = @ + 1] /\ UNCHANGED <<tags, muddled, events>>
    BY <1>4, <2>1 DEF Swap
  <2>3. Changing(p, f, r.type) /\ Handles(p, f) /\ events[f].state # "unsent"
    BY <1>1, <1>4, <2>1 DEF Changing, Handles, RequestOK
  <2> SUFFICES ASSUME NEW e \in Events
               PROVE  /\ e \notin muddled' => SoleHandler(e)'
                      /\ e \notin muddled' /\ events'[e].kind = "invoice" => \A t \in Types : GrantOK(e, t)'
                      /\ events'[e].state = "unsent" => \A t \in Types : grants'[<<e, t>>] = 0
    BY DEF AllocInv
  <2>4. ASSUME e \notin muddled' PROVE SoleHandler(e)'
    <3>1. SoleHandler(e)
      BY <2>2, <2>4 DEF AllocInv
    <3> QED BY <1>2, <3>1 DEF SoleHandler, Handles, Same
  <2>5. ASSUME e \notin muddled', events'[e].kind = "invoice", NEW t \in Types PROVE GrantOK(e, t)'
    <3>1. GrantOK(e, t) /\ SoleHandler(e)
      BY <2>2, <2>5 DEF AllocInv
    <3>2. CASE e = f /\ t = r.type
      <4>1. grants[<<e, t>>] = 0
        BY <2>3, <3>1, <3>2 DEF GrantOK
      <4>2. grants'[<<e, t>>] = 1
        BY <2>2, <3>2, <4>1 DEF LedgerInv, TypeOK
      <4>3. OnItsWay(e, t)'
        BY <1>2, <2>1, <3>2 DEF OnItsWay, Handles, At
      <4>4. \A q \in Clients : ~Changing(q, e, t)'
        <5> SUFFICES ASSUME NEW q \in Clients, Changing(q, e, t)' PROVE FALSE
          OBVIOUS
        <5>1. q # p
          BY <1>2 DEF Changing
        <5>2. Handles(q, e)
          BY <1>2, <5>1 DEF Changing, Handles, Same
        <5> QED BY <2>3, <3>1, <3>2, <5>1, <5>2 DEF SoleHandler
      <4> QED BY <4>2, <4>3, <4>4 DEF GrantOK
    <3>3. CASE ~(e = f /\ t = r.type)
      <4>1. grants'[<<e, t>>] = grants[<<e, t>>]
        BY <2>2, <3>3 DEF LedgerInv, TypeOK
      <4>2. OnItsWay(e, t) => OnItsWay(e, t)'
        BY <1>1, <1>2 DEF OnItsWay, Handles, At, Same
      <4>3. \A q \in Clients : Changing(q, e, t)' => Changing(q, e, t)
        BY <1>2 DEF Changing, Handles, Same
      <4> QED BY <2>2, <3>1, <4>1, <4>2, <4>3 DEF GrantOK
    <3> QED BY <3>2, <3>3
  <2>6. ASSUME events'[e].state = "unsent", NEW t \in Types PROVE grants'[<<e, t>>] = 0
    BY <2>2, <2>3, <2>6 DEF AllocInv, LedgerInv, TypeOK
  <2> QED BY <2>4, <2>5, <2>6
<1> QED BY <1>3, <1>4

LEMMA AllocLog ==
  ASSUME LedgerInv, AllocInv, NEW p \in Clients, Log(p)
  PROVE  AllocInv'
<1>1. PICK r \in Request : r = req[p]
  BY DEF LedgerInv, TypeOK
<1>2. /\ Become(p, AfterStage(r)) /\ UNCHANGED <<grants, muddled, events>>
      /\ tags' = IF r.event = 0 THEN tags ELSE tags \cup {<<r.event, r.type>>}
  BY <1>1 DEF Log, ghosts
<1>3. \A e \in Events : AfterStage(r).event = e => Handles(p, e)
  BY <1>1, AfterStageQuiet DEF Handles
<1>4. \A e \in Events : ~(events[e].kind = "invoice" /\ AfterStage(r).event = e
                            /\ AfterStage(r).at \in {"read", "swap"})
  BY AfterStageQuiet
<1>5. \A e \in Events, t \in Types : Handles(p, e) /\ At(p, "log") /\ req[p].type = t => <<e, t>> \in tags'
  BY <1>1, <1>2 DEF Handles
<1> QED BY <1>2, <1>3, <1>4, <1>5, QuietBecome DEF SameKinds

LEMMA AllocGuard ==
  ASSUME LedgerInv, AllocInv, NEW p \in Clients, Guard(p)
  PROVE  AllocInv'
<1>1. PICK r \in Request : r = req[p]
  BY DEF LedgerInv, TypeOK
<1>2. r.at = "guard" /\ r.type \in Types /\ r.event \in Events /\ events[r.event].kind = "invoice"
  BY <1>1 DEF Guard, At, LedgerInv, RequestOK, Request
<1>3. UNCHANGED <<grants, tags, muddled, events>>
  BY DEF Guard, db, ghosts
<1>4. CASE Applied(r.event, r.type)
  <2>1. Become(p, AfterStage(r))
    BY <1>1, <1>4 DEF Guard
  <2>2. \A e \in Events : AfterStage(r).event = e => Handles(p, e)
    BY <1>1, AfterStageQuiet DEF Handles
  <2>3. \A e \in Events : ~(events[e].kind = "invoice" /\ AfterStage(r).event = e
                              /\ AfterStage(r).at \in {"read", "swap"})
    BY AfterStageQuiet
  <2> QED BY <1>1, <1>2, <1>3, <2>1, <2>2, <2>3, QuietBecome DEF SameKinds, At
<1>5. CASE ~Applied(r.event, r.type)
  <2>1. PICK c : /\ Become(p, c) /\ c.event = r.event /\ c.type = r.type
    <3> DEFINE c == Change(r, r.type, IF r.type = "free_hours" THEN "reset" ELSE "add", events[r.event].level)
    <3>1. Become(p, c)
      BY <1>1, <1>5 DEF Guard
    <3>2. c.event = r.event /\ c.type = r.type
      BY DEF Change, Request
    <3> QED BY <3>1, <3>2
  <2>2. <<r.event, r.type>> \notin tags
    BY <1>2, <1>5 DEF Applied
  <2>3. r.event \notin muddled => grants[<<r.event, r.type>>] = 0
    <3> SUFFICES ASSUME r.event \notin muddled, grants[<<r.event, r.type>>] # 0 PROVE FALSE
      OBVIOUS
    <3>1. GrantOK(r.event, r.type) /\ SoleHandler(r.event)
      BY <1>2 DEF AllocInv
    <3>2. PICK q \in Clients : Handles(q, r.event) /\ At(q, "log")
      BY <2>2, <3>1 DEF GrantOK, OnItsWay
    <3>3. q = p
      BY <1>1, <3>1, <3>2 DEF SoleHandler, Handles
    <3> QED BY <1>1, <1>2, <3>2, <3>3 DEF At
  <2>4. \A e \in Events : c.event = e => Handles(p, e)
    BY <1>1, <2>1 DEF Handles
  <2> QED BY <1>1, <1>2, <1>3, <2>1, <2>3, <2>4, QuietBecome DEF SameKinds, At
<1> QED BY <1>4, <1>5

LEMMA AllocStutter ==
  ASSUME AllocInv, UNCHANGED <<req, grants, tags, muddled, events>>
  PROVE  AllocInv'
<1>1. ASSUME NEW e \in Events, SoleHandler(e) PROVE SoleHandler(e)'
  BY <1>1 DEF SoleHandler, Handles
<1>2. ASSUME NEW e \in Events, NEW t \in Types, GrantOK(e, t) PROVE GrantOK(e, t)'
  <2>1. OnItsWay(e, t) => OnItsWay(e, t)'
    BY DEF OnItsWay, Handles, At
  <2>2. \A p \in Clients : Changing(p, e, t)' => Changing(p, e, t)
    BY DEF Changing, Handles
  <2> QED BY <1>2, <2>1, <2>2 DEF GrantOK
<1> QED BY <1>1, <1>2 DEF AllocInv

(* A request that takes an event overlaps with whoever handles it already. *)
LEMMA TakeQuiet ==
  ASSUME LedgerInv, AllocInv, NEW p \in Clients, req[p] = Idle, NEW e \in Events, NEW r,
         Become(p, r), r.event = e, events[e].kind = "invoice" => r.at \notin {"read", "swap"},
         UNCHANGED <<grants, tags>>, muddled' = Overlap(e), SameKinds
  PROVE  AllocInv'
<1>1. muddled \subseteq muddled' /\ (e \notin muddled' => \A q \in Clients : ~Handles(q, e))
  BY DEF Overlap
<1>2. \A f \in Events \ muddled' : r.event = f => Handles(p, f) \/ \A q \in Clients : ~Handles(q, f)
  BY <1>1
<1>3. \A f \in Events \ muddled' : ~(events[f].kind = "invoice" /\ r.event = f /\ r.at \in {"read", "swap"})
  OBVIOUS
<1>4. ~At(p, "log")
  BY IdleTyped DEF At
<1> QED BY <1>1, <1>2, <1>3, <1>4, QuietBecome

LEMMA AllocDeliver ==
  ASSUME LedgerInv, AllocInv, NEW p \in Clients, NEW e \in Events,
         Webhook(p, e) \/ WebhookAgain(p, e)
  PROVE  AllocInv'
<1>1. req[p] = Idle /\ Deliver(p, e)
  BY DEF Webhook, WebhookAgain, Ready
<1>2. SameKinds
  BY <1>1 DEF Deliver, SameKinds, LedgerInv, TypeOK, Event
<1>3. PICK r : Become(p, r) /\ r.event = e /\ (events[e].kind = "invoice" => r.at \notin {"read", "swap"})
  <2> DEFINE i == [Idle EXCEPT !.event = e,
                               !.via = IF events[e].state = "due" THEN "webhook" ELSE "again"]
             r == IF events[e].kind = "updated" THEN [i EXCEPT !.at = "save"] ELSE Stage(i, e, "free_hours")
  <2>1. Become(p, r)
    BY <1>1 DEF Deliver
  <2>2. i.event = e
    BY DEF Idle
  <2>3. r.event = e
    BY DEF Idle, Stage, Change
  <2>4. events[e].kind = "invoice" => r.at = "guard"
    BY DEF Idle, Stage
  <2> QED BY <2>1, <2>3, <2>4
<1>4. UNCHANGED <<grants, tags>> /\ muddled' = Overlap(e)
  BY <1>1 DEF Deliver, db
<1> QED BY <1>1, <1>2, <1>3, <1>4, TakeQuiet

LEMMA AllocSync ==
  ASSUME LedgerInv, AllocInv, NEW p \in Clients, Sync(p)
  PROVE  AllocInv'
<1>1. req[p] = Idle /\ UNCHANGED <<grants, tags, events>>
  BY DEF Sync, Ready
<1>2. CASE UNCHANGED <<req, muddled>>
  BY <1>1, <1>2, AllocStutter
<1>3. CASE Live
  <2>1. PICK e \in Events : /\ Become(p, [Idle EXCEPT !.at = "guard", !.event = e, !.via = "sync"])
                            /\ muddled' = Overlap(e)
    BY <1>3 DEF Sync
  <2> DEFINE r == [Idle EXCEPT !.at = "guard", !.event = e, !.via = "sync"]
  <2>2. r.event = e /\ r.at = "guard"
    BY DEF Idle
  <2>3. Become(p, r)
    BY <2>1
  <2> HIDE DEF r
  <2> QED BY <1>1, <2>1, <2>2, <2>3, TakeQuiet DEF SameKinds
<1> QED BY <1>2, <1>3 DEF Sync

LEMMA AllocRead ==
  ASSUME LedgerInv, AllocInv, NEW p \in Clients, Read(p) \/ SwapMissed(p)
  PROVE  AllocInv'
<1>1. /\ UNCHANGED <<grants, tags, muddled, events>>
      /\ req[p] \in Request /\ req[p].at \in {"read", "swap"}
  BY DEF Read, SwapMissed, db, ghosts, At, LedgerInv, TypeOK
<1>2. CASE End(p)
  BY <1>1, <1>2, QuietEnd DEF SameKinds, At
<1>3. CASE ~End(p)
  <2>1. PICK r : /\ Become(p, r) /\ r.event = req[p].event /\ r.type = req[p].type
    <3> DEFINE a == [req[p] EXCEPT !.at = "swap", !.seen = balance[req[p].type]]
               b == [req[p] EXCEPT !.at = Again, !.tries = @ + 1]
    <3>1. Become(p, a) \/ Become(p, b)
      BY <1>3 DEF Read, SwapMissed
    <3>2. a.event = req[p].event /\ a.type = req[p].type /\ b.event = req[p].event /\ b.type = req[p].type
      BY <1>1 DEF Request
    <3> QED BY <3>1, <3>2
  <2>2. \A e \in Events : r.event = e => Handles(p, e)
    BY <2>1 DEF Handles
  <2>3. \A e \in Events \ muddled' : events[e].kind = "invoice" /\ r.event = e => grants[<<e, r.type>>] = 0
    <3> SUFFICES ASSUME NEW e \in Events, e \notin muddled, events[e].kind = "invoice", r.event = e
                 PROVE  grants[<<e, r.type>>] = 0
      BY <1>1
    <3>1. r.type \in Types
      BY <1>1, <2>1 DEF Request
    <3>2. GrantOK(e, r.type)
      BY <3>1 DEF AllocInv
    <3>3. Changing(p, e, r.type)
      BY <1>1, <2>1 DEF Changing, Handles
    <3> QED BY <3>2, <3>3 DEF GrantOK
  <2> QED BY <1>1, <2>1, <2>2, <2>3, QuietBecome DEF SameKinds, At
<1> QED BY <1>2, <1>3

LEMMA AllocSpend ==
  ASSUME LedgerInv, AllocInv, NEW p \in Clients, NEW t \in Types, NEW n \in Amounts,
         Spend(p, t, n) \/ Adjust(p, t, n)
  PROVE  AllocInv'
<1>1. req[p] = Idle /\ UNCHANGED <<grants, tags, muddled, events>>
  BY DEF Spend, Adjust, Ready, db, ghosts
<1>2. req'[p].event = 0
  <2>1. CASE Spend(p, t, n)
    <3>1. req'[p] = [Idle EXCEPT !.at = "log", !.type = t, !.amount = n, !.delta = -n]
      BY <2>1 DEF Spend, Write
    <3> QED BY <3>1 DEF Idle
  <2>2. CASE Adjust(p, t, n)
    <3>1. req'[p] = Change(Idle, t, "add", n)
      BY <2>2 DEF Adjust, Become, LedgerInv, TypeOK
    <3> QED BY <3>1 DEF Change, Idle
  <2> QED BY <2>1, <2>2
<1>3. \A q \in Clients \ {p} : Same(q)
  <2>1. CASE Spend(p, t, n)
    BY <2>1 DEF Spend, Write, Same, LedgerInv, TypeOK, Request
  <2>2. CASE Adjust(p, t, n)
    BY <2>2 DEF Adjust, Become, Same, LedgerInv, TypeOK
  <2> QED BY <2>1, <2>2
<1>4. /\ \A e \in Events : req'[p].event # e
      /\ ~At(p, "log")
      /\ \A e \in Events, u \in Types : ~Changing(p, e, u)'
  BY <1>1, <1>2, IdleTyped DEF At, Changing, Handles
<1> QED BY <1>1, <1>3, <1>4, QuietStep DEF SameKinds

LEMMA AllocSave ==
  ASSUME LedgerInv, AllocInv, NEW p \in Clients, Save(p)
  PROVE  AllocInv'
<1>1. SameKinds
  BY DEF Save, SameKinds, LedgerInv, TypeOK, Event
<1> QED BY <1>1, QuietEnd DEF Save, ghosts, At

LEMMA AllocCrash ==
  ASSUME LedgerInv, AllocInv, NEW p \in Clients, Crash(p)
  PROVE  AllocInv'
<1>1. End(p) /\ UNCHANGED <<grants, tags, events>>
  BY DEF Crash, db
<1>2. muddled \subseteq muddled' /\ (At(p, "log") /\ req[p].event # 0 => req[p].event \in muddled')
  BY DEF Crash, At
<1> QED BY <1>1, <1>2, QuietEnd DEF SameKinds

LEMMA AllocRaise ==
  ASSUME LedgerInv, AllocInv, NEW e \in Events, NEW kind \in {"invoice", "updated", "deleted"},
         NEW n \in Levels, Raise(e, kind, n)
  PROVE  AllocInv'
<1>1. events[e].state = "unsent" /\ UNCHANGED <<grants, tags, muddled, req>>
  BY DEF Raise, Raised, db, ghosts
<1>2. /\ \A f \in Events \ {e} : events'[f] = events[f]
      /\ events'[e].state = "due"
  BY DEF Raise, LedgerInv, TypeOK
<1>3. \A p \in Clients : ~Handles(p, e)
  BY <1>1 DEF Handles, LedgerInv, RequestOK
<1>4. \A t \in Types : grants[<<e, t>>] = 0
  BY <1>1 DEF AllocInv
<1>5. SoleHandler(e)' /\ \A t \in Types : GrantOK(e, t)'
  BY <1>1, <1>3, <1>4 DEF SoleHandler, GrantOK, Changing, Handles
<1>6. ASSUME NEW f \in Events, f # e
      PROVE  /\ SoleHandler(f) => SoleHandler(f)'
             /\ \A t \in Types : GrantOK(f, t) => GrantOK(f, t)'
  BY <1>1 DEF SoleHandler, GrantOK, Changing, OnItsWay, Handles, At
<1> QED BY <1>1, <1>2, <1>5, <1>6 DEF AllocInv

LEMMA AllocStep == LedgerInv /\ AllocInv /\ [Next]_vars => AllocInv'
<1> SUFFICES ASSUME LedgerInv, AllocInv, [Next]_vars PROVE AllocInv'
  OBVIOUS
<1>1. ASSUME NEW p \in Clients, Continue(p) PROVE AllocInv'
  BY <1>1, AllocRead, AllocSwap, AllocLog, AllocGuard, AllocSave DEF Continue
<1>2. ASSUME NEW p \in Clients, Call(p) PROVE AllocInv'
  BY <1>2, AllocSpend, AllocDeliver, AllocSync DEF Call
<1>3. ASSUME NEW p \in Clients, Crash(p) PROVE AllocInv'
  BY <1>3, AllocCrash
<1>4. ASSUME NEW e \in Events, Redeliver(e) PROVE AllocInv'
  BY <1>4, AllocDeliver DEF Redeliver
<1>5. ASSUME NEW e \in Events, NEW kind \in {"invoice", "updated", "deleted"}, NEW n \in Levels,
             Raise(e, kind, n)
      PROVE  AllocInv'
  BY <1>5, AllocRaise
<1>6. ASSUME UNCHANGED vars PROVE AllocInv'
  BY <1>6, AllocStutter DEF vars, db, ghosts
<1> QED BY <1>1, <1>2, <1>3, <1>4, <1>5, <1>6 DEF Next

(* An invoice is allocated once however often it is delivered or synced,   *)
(* unless two of its deliveries overlapped or one died before the ledger.  *)
THEOREM GrantsOnce == Spec => []AllocatedOnce
BY InitOK, StepOK, AllocInit, AllocStep, AllocImplies, PTL DEF Spec

-----------------------------------------------------------------------------
(* The ledger explains the balance: whoever has changed a balance has yet  *)
(* to write the difference, and is the only one to add to or take from the *)
(* sum of what is yet to be written.                                       *)

Logging(r, t) == {p \in Clients : r[p].at = "log" /\ r[p].type = t}
Deltas(r, S) == MapThenSumSet(LAMBDA p : r[p].delta, S)
LEMMA DeltasAre ==
  ASSUME NEW S, IsFiniteSet(S), NEW r, \A p \in S : r[p].delta \in Int
  PROVE  Deltas(r, S) = Total(S, [p \in S |-> r[p].delta])
<1> DEFINE f == [p \in S |-> r[p].delta]
           Is(g) == g = [T \in SUBSET S |-> IF T = {} THEN 0
                           ELSE r[CHOOSE p \in T : TRUE].delta + g[T \ {CHOOSE p \in T : TRUE}]]
<1>1. Deltas(r, S) = (CHOOSE g : Is(g))[S]
  BY DEF Deltas, MapThenSumSet, MapThenFoldSet
<1>2. \A g : Is(g) <=> IsSum(g, S, f)
  <2>1. \A T \in SUBSET S : T # {} => f[Choice(T)] = r[CHOOSE p \in T : TRUE].delta
    BY DEF Choice
  <2> QED BY <2>1 DEF IsSum, Choice
<1> HIDE DEF Is, f
<1>3. \A x \in S : f[x] \in Int
  BY DEF f
<1>4. PICK g : IsSum(g, S, f) /\ Total(S, f) = g[S]
  BY <1>3, TotalIs
<1>5. IsSum(CHOOSE h : Is(h), S, f)
  BY <1>2, <1>4
<1>6. (CHOOSE h : Is(h))[S] = g[S]
  BY <1>4, <1>5, SumsAgree
<1> QED BY <1>1, <1>4, <1>6 DEF f

Owed(r, t) == Deltas(r, Logging(r, t))
OwedBy(p, r, t) == IF r[p].at = "log" /\ r[p].type = t THEN r[p].delta ELSE 0
OwedByRest(p, r, t) == Total(Logging(r, t) \ {p}, [q \in Logging(r, t) \ {p} |-> r[q].delta])

PostingInv == /\ \A t \in Types : IsFiniteSet(Logging(req, t))
              /\ LedgerBalances

LEMMA OwedParts ==
  ASSUME NEW r \in [Clients -> Request], NEW p \in Clients, NEW t \in Types, IsFiniteSet(Logging(r, t))
  PROVE  /\ IsFiniteSet(Logging(r, t) \ {p})
         /\ OwedByRest(p, r, t) \in Int /\ OwedBy(p, r, t) \in Int
         /\ Owed(r, t) = OwedBy(p, r, t) + OwedByRest(p, r, t)
<1> DEFINE S == Logging(r, t)
           R == S \ {p}
           f == [q \in S |-> r[q].delta]
           e == [q \in R |-> r[q].delta]
<1>1. /\ \A q \in S : r[q].delta \in Int /\ f[q] = r[q].delta
      /\ \A q \in R : r[q].delta \in Int /\ e[q] = f[q] /\ q \in S
      /\ r[p].delta \in Int
  BY DEF Request, Logging
<1>2. IsFiniteSet(R)
  BY FS_RemoveElement
<1>3. Owed(r, t) = Total(S, f)
  BY <1>1, DeltasAre DEF Owed
<1>4. Total(R, e) = Total(R, f) /\ Total(R, e) \in Int
  <2> HIDE DEF f, e, R
  <2> QED BY <1>1, <1>2, TotalSame, TotalTyped
<1>5. CASE p \in S
  <2> HIDE DEF f
  <2>1. Total(S, f) = f[p] + Total(R, f)
    BY <1>1, <1>5, TotalTakes
  <2>2. OwedBy(p, r, t) = f[p]
    BY <1>1, <1>5 DEF OwedBy, Logging
  <2> QED BY <1>1, <1>2, <1>3, <1>4, <1>5, <2>1, <2>2 DEF OwedByRest
<1>6. CASE p \notin S
  <2>1. R = S /\ OwedBy(p, r, t) = 0
    BY <1>6 DEF OwedBy, Logging
  <2>2. Total(R, f) = Total(S, f)
    BY <2>1
  <2> HIDE DEF f, S, R, e
  <2>3. OwedByRest(p, r, t) = Total(R, e)
    BY DEF OwedByRest, R, S, e
  <2> QED BY <1>2, <1>3, <1>4, <2>1, <2>2, <2>3 DEF R, S
<1> QED BY <1>5, <1>6

LEMMA OwedStep ==
  ASSUME NEW r \in [Clients -> Request], NEW s \in [Clients -> Request], NEW p \in Clients, NEW t \in Types,
         IsFiniteSet(Logging(r, t)),
         \A q \in Clients \ {p} : r[q].at = "log" \/ s[q].at = "log" =>
            s[q].at = r[q].at /\ s[q].type = r[q].type /\ s[q].delta = r[q].delta
  PROVE  /\ IsFiniteSet(Logging(s, t)) /\ Owed(r, t) \in Int /\ Owed(s, t) \in Int
         /\ Owed(s, t) = Owed(r, t) - OwedBy(p, r, t) + OwedBy(p, s, t)
<1> DEFINE R == Logging(r, t) \ {p}
<1>1. Logging(s, t) \ {p} = R
  BY DEF Logging
<1>2. IsFiniteSet(Logging(s, t))
  <2>1. IsFiniteSet(R)
    BY FS_RemoveElement
  <2>2. Logging(s, t) \subseteq R \cup {p}
    BY <1>1
  <2>3. IsFiniteSet(R \cup {p})
    BY <2>1, FS_AddElement
  <2> QED BY <2>2, <2>3, FS_Subset
<1>3. [q \in R |-> r[q].delta] = [q \in R |-> s[q].delta]
  BY DEF Logging
<1> HIDE DEF R
<1>4. OwedByRest(p, s, t) = OwedByRest(p, r, t)
  BY <1>1, <1>3, Zenon DEF OwedByRest, R
<1>5. OwedByRest(p, r, t) \in Int /\ OwedBy(p, r, t) \in Int
      /\ Owed(r, t) = OwedBy(p, r, t) + OwedByRest(p, r, t)
  BY OwedParts
<1>6. OwedBy(p, s, t) \in Int /\ Owed(s, t) = OwedBy(p, s, t) + OwedByRest(p, s, t)
  BY <1>2, OwedParts
<1> QED BY <1>2, <1>4, <1>5, <1>6

(* A step in which only p begins or ends to owe the ledger an entry.       *)
LEMMA Balanced ==
  ASSUME LedgerInv, LedgerInv', PostingInv, NEW p \in Clients,
         \A q \in Clients \ {p} : req[q].at = "log" \/ req'[q].at = "log" =>
            req'[q].at = req[q].at /\ req'[q].type = req[q].type /\ req'[q].delta = req[q].delta,
         \A t \in Types : balance'[t] - posted'[t] - lost'[t] - OwedBy(p, req', t)
                          = balance[t] - posted[t] - lost[t] - OwedBy(p, req, t)
  PROVE  PostingInv'
<1>1. req \in [Clients -> Request] /\ req' \in [Clients -> Request]
  BY DEF LedgerInv, TypeOK
<1> SUFFICES ASSUME NEW t \in Types
             PROVE  IsFiniteSet(Logging(req', t)) /\ balance'[t] = posted'[t] + Unposted(t)' + lost'[t]
  BY DEF PostingInv, LedgerBalances
<1>2. IsFiniteSet(Logging(req, t)) /\ balance[t] = posted[t] + Unposted(t) + lost[t]
  BY DEF PostingInv, LedgerBalances
<1>3. Unposted(t) = Owed(req, t) /\ Unposted(t)' = Owed(req', t)
  <2>1. Unposted(t) = Owed(req, t)
    BY DEF Unposted, Owed, Deltas, Logging, MapThenSumSet, MapThenFoldSet
  <2>2. Unposted(t)' = Owed(req', t)
    BY DEF Unposted, Owed, Deltas, Logging, MapThenSumSet, MapThenFoldSet
  <2> QED BY <2>1, <2>2
<1>4. /\ IsFiniteSet(Logging(req', t)) /\ Owed(req, t) \in Int /\ Owed(req', t) \in Int
      /\ Owed(req', t) = Owed(req, t) - OwedBy(p, req, t) + OwedBy(p, req', t)
  BY <1>1, <1>2, OwedStep
<1>5. OwedBy(p, req, t) \in Int /\ OwedBy(p, req', t) \in Int
  BY <1>1 DEF OwedBy, Request
<1>6. /\ balance[t] \in Int /\ posted[t] \in Int /\ lost[t] \in Int
      /\ balance'[t] \in Int /\ posted'[t] \in Int /\ lost'[t] \in Int
  <2>1. balance \in [Types -> Nat] /\ posted \in [Types -> Int] /\ lost \in [Types -> Int]
    BY DEF LedgerInv, TypeOK
  <2>2. balance' \in [Types -> Nat] /\ posted' \in [Types -> Int] /\ lost' \in [Types -> Int]
    BY DEF LedgerInv, TypeOK
  <2> QED BY <2>1, <2>2
<1>7. balance'[t] - posted'[t] - lost'[t] - OwedBy(p, req', t)
        = balance[t] - posted[t] - lost[t] - OwedBy(p, req, t)
  OBVIOUS
<1> QED BY <1>2, <1>3, <1>4, <1>5, <1>6, <1>7

LEMMA Numbers == LedgerInv => \A t \in Types : balance[t] \in Int /\ posted[t] \in Int /\ lost[t] \in Int
<1>1. LedgerInv => balance \in [Types -> Nat] /\ posted \in [Types -> Int] /\ lost \in [Types -> Int]
  BY DEF LedgerInv, TypeOK
<1> QED BY <1>1

LEMMA QuietOwed ==
  ASSUME LedgerInv, LedgerInv', PostingInv, NEW p \in Clients, NEW r, Become(p, r),
         UNCHANGED <<balance, posted, lost>>, r.at # "log", req[p].at # "log"
  PROVE  PostingInv'
<1>1. req'[p] = r /\ \A q \in Clients \ {p} : req'[q] = req[q]
  BY DEF Become, LedgerInv, TypeOK
<1>2. \A t \in Types : OwedBy(p, req', t) = 0 /\ OwedBy(p, req, t) = 0
  BY <1>1 DEF OwedBy
<1> QED BY <1>1, <1>2, Balanced

LEMMA StayOwed ==
  ASSUME LedgerInv, LedgerInv', PostingInv, UNCHANGED <<balance, posted, lost, req>>
  PROVE  PostingInv'
BY DEF PostingInv, LedgerBalances, Unposted, Logging, MapThenSumSet, MapThenFoldSet

(* No stage begins with an entry in the ledger.                            *)
LEMMA NewStage ==
  /\ Idle.at # "log"
  /\ \A r \in Request : AfterStage(r).at # "log"
  /\ \A r \in Request : \A t, op, n : Change(r, t, op, n).at # "log"
  /\ \A r \in Request : \A e, t : Stage(r, e, t).at # "log"
<1>1. \A r \in Request : \A t, op, n : Change(r, t, op, n).at = "read"
  BY DEF Change, Request
<1>2. \A r \in Request : \A t : [r EXCEPT !.at = "guard", !.type = t].at = "guard"
                         /\ [r EXCEPT !.at = "save"].at = "save"
  BY DEF Request
<1>3. \A r \in Request : \A e, t : Stage(r, e, t).at \in {"read", "guard"}
  BY <1>1, <1>2 DEF Stage
<1>4. \A r \in Request : AfterStage(r).at \in {"read", "guard", "save", "idle"}
  BY <1>2, <1>3, IdleTyped DEF AfterStage
<1> QED BY <1>1, <1>3, <1>4, IdleTyped

LEMMA OwedSwap ==
  ASSUME LedgerInv, LedgerInv', PostingInv, NEW p \in Clients, Swap(p)
  PROVE  PostingInv'
<1> DEFINE r == req[p]
           s == [r EXCEPT !.at = "log", !.delta = Delta(r)]
           n == NextBalance(r)
<1>1. /\ r \in Request /\ r.at = "swap" /\ balance[r.type] = r.seen /\ r.seen \in Nat /\ r.type \in Types
      /\ Write(p, s, n) /\ posted' = posted /\ lost' = lost
  BY DEF LedgerInv, TypeOK, Request, Swap, At, Swappable
<1>2. s.at = "log" /\ s.type = r.type /\ s.delta = n - r.seen
  BY <1>1 DEF Request, Delta
<1>3. n \in Int
  <2>1. balance' \in [Types -> Nat] /\ balance'[r.type] = n
    BY <1>1, <1>2 DEF Write, LedgerInv, TypeOK
  <2> QED BY <1>1, <2>1
<1>4. balance' = [balance EXCEPT ![r.type] = n] /\ req'[p] = s
  BY <1>1, <1>2 DEF Write
<1> HIDE DEF s, n
<1>5. ASSUME NEW q \in Clients \ {p}, req[q].at = "log" \/ req'[q].at = "log"
      PROVE  req'[q].at = req[q].at /\ req'[q].type = req[q].type /\ req'[q].delta = req[q].delta
  BY <1>1, <1>5 DEF Write, LedgerInv, TypeOK, Request
<1>6. ASSUME NEW t \in Types
      PROVE  balance'[t] - posted'[t] - lost'[t] - OwedBy(p, req', t)
               = balance[t] - posted[t] - lost[t] - OwedBy(p, req, t)
  <2>1. balance[t] \in Int /\ posted[t] \in Int /\ lost[t] \in Int
    BY Numbers
  <2>2. OwedBy(p, req, t) = 0
    BY <1>1 DEF OwedBy
  <2>3. CASE t = r.type
    <3>1. balance'[t] = n /\ OwedBy(p, req', t) = n - balance[t]
      BY <1>1, <1>2, <1>4, <2>3 DEF OwedBy, LedgerInv, TypeOK
    <3> QED BY <1>1, <1>3, <2>1, <2>2, <3>1
  <2>4. CASE t # r.type
    <3>1. balance'[t] = balance[t] /\ OwedBy(p, req', t) = 0
      BY <1>1, <1>2, <1>4, <2>4 DEF OwedBy, LedgerInv, TypeOK
    <3> QED BY <1>1, <2>1, <2>2, <3>1
  <2> QED BY <2>3, <2>4
<1> QED BY <1>5, <1>6, Balanced

LEMMA OwedSpend ==
  ASSUME LedgerInv, LedgerInv', PostingInv, NEW p \in Clients, NEW t \in Types, NEW n \in Amounts, Spend(p, t, n)
  PROVE  PostingInv'
<1> DEFINE s == [Idle EXCEPT !.at = "log", !.type = t, !.amount = n, !.delta = -n]
<1>1. /\ req[p] = Idle /\ n \in Nat /\ Write(p, s, balance[t] - n) /\ posted' = posted /\ lost' = lost
  BY DEF Spend, Ready, ghosts
<1>2. s.at = "log" /\ s.type = t /\ s.delta = -n
  BY DEF Idle
<1>3. balance' = [balance EXCEPT ![t] = balance[t] - n] /\ req'[p] = s
  BY <1>1, <1>2 DEF Write
<1> HIDE DEF s
<1>4. ASSUME NEW q \in Clients \ {p}, req[q].at = "log" \/ req'[q].at = "log"
      PROVE  req'[q].at = req[q].at /\ req'[q].type = req[q].type /\ req'[q].delta = req[q].delta
  BY <1>1, <1>4 DEF Write, LedgerInv, TypeOK, Request
<1>5. ASSUME NEW u \in Types
      PROVE  balance'[u] - posted'[u] - lost'[u] - OwedBy(p, req', u)
               = balance[u] - posted[u] - lost[u] - OwedBy(p, req, u)
  <2>1. balance[u] \in Int /\ posted[u] \in Int /\ lost[u] \in Int
    BY Numbers
  <2>2. OwedBy(p, req, u) = 0
    BY <1>1, IdleTyped DEF OwedBy
  <2>3. CASE u = t
    <3>1. balance'[u] = balance[u] - n /\ OwedBy(p, req', u) = -n
      BY <1>2, <1>3, <2>3 DEF OwedBy, LedgerInv, TypeOK
    <3> QED BY <1>1, <2>1, <2>2, <3>1
  <2>4. CASE u # t
    <3>1. balance'[u] = balance[u] /\ OwedBy(p, req', u) = 0
      BY <1>2, <1>3, <2>4 DEF OwedBy, LedgerInv, TypeOK
    <3> QED BY <1>1, <2>1, <2>2, <3>1
  <2> QED BY <2>3, <2>4
<1> QED BY <1>4, <1>5, Balanced

(* An entry is written, or lost with the request that was to write it.     *)
LEMMA OwedPaid ==
  ASSUME LedgerInv, LedgerInv', PostingInv, NEW p \in Clients, NEW r, Become(p, r), r.at # "log",
         req[p].at = "log", balance' = balance,
         \/ posted' = [posted EXCEPT ![req[p].type] = @ + req[p].delta] /\ lost' = lost
         \/ lost' = [lost EXCEPT ![req[p].type] = @ + req[p].delta] /\ posted' = posted
  PROVE  PostingInv'
<1>1. req'[p] = r /\ \A q \in Clients \ {p} : req'[q] = req[q]
  BY DEF Become, LedgerInv, TypeOK
<1>2. req[p].type \in Types /\ req[p].delta \in Int
  BY DEF LedgerInv, TypeOK, Request
<1>3. ASSUME NEW t \in Types
      PROVE  balance'[t] - posted'[t] - lost'[t] - OwedBy(p, req', t)
               = balance[t] - posted[t] - lost[t] - OwedBy(p, req, t)
  <2>1. balance[t] \in Int /\ posted[t] \in Int /\ lost[t] \in Int
    BY Numbers
  <2>2. OwedBy(p, req', t) = 0
    BY <1>1 DEF OwedBy
  <2>3. CASE t = req[p].type
    <3>1. OwedBy(p, req, t) = req[p].delta
      BY <2>3 DEF OwedBy
    <3>2. posted \in [Types -> Int] /\ lost \in [Types -> Int]
      BY DEF LedgerInv, TypeOK
    <3>3. \/ posted'[t] = posted[t] + req[p].delta /\ lost'[t] = lost[t]
          \/ lost'[t] = lost[t] + req[p].delta /\ posted'[t] = posted[t]
      BY <2>3, <3>2
    <3> QED BY <1>2, <2>1, <2>2, <3>1, <3>3
  <2>4. CASE t # req[p].type
    <3>1. OwedBy(p, req, t) = 0 /\ posted'[t] = posted[t] /\ lost'[t] = lost[t]
      BY <1>2, <2>1, <2>4 DEF OwedBy, LedgerInv, TypeOK
    <3> QED BY <2>1, <2>2, <3>1
  <2> QED BY <2>3, <2>4
<1> QED BY <1>1, <1>3, Balanced

LEMMA OwedDeliver ==
  ASSUME LedgerInv, LedgerInv', PostingInv, NEW p \in Clients, NEW e \in Events, req[p] = Idle, Deliver(p, e)
  PROVE  PostingInv'
<1> DEFINE r == [Idle EXCEPT !.event = e, !.via = IF events[e].state = "due" THEN "webhook" ELSE "again"]
           s == [r EXCEPT !.at = "save"]
<1>1. r \in Request
  BY IdleTyped DEF Request
<1>2. s.at = "save"
  BY <1>1 DEF Request
<1>3. (Become(p, s) \/ Become(p, Stage(r, e, "free_hours"))) /\ UNCHANGED <<balance, posted, lost>>
  BY DEF Deliver, db
<1> HIDE DEF r, s
<1>4. Stage(r, e, "free_hours").at # "log"
  BY <1>1, NewStage
<1>5. req[p].at # "log"
  BY NewStage
<1> QED BY <1>2, <1>3, <1>4, <1>5, QuietOwed

LEMMA OwedSync ==
  ASSUME LedgerInv, LedgerInv', PostingInv, NEW p \in Clients, Sync(p)
  PROVE  PostingInv'
<1>1. req[p] = Idle /\ req[p].at # "log" /\ UNCHANGED <<balance, posted, lost>>
  BY NewStage DEF Sync, Ready
<1>2. CASE UNCHANGED req
  BY <1>1, <1>2, StayOwed
<1>3. ASSUME NEW e \in Events, Become(p, [Idle EXCEPT !.at = "guard", !.event = e, !.via = "sync"])
      PROVE  PostingInv'
  <2>1. [Idle EXCEPT !.at = "guard", !.event = e, !.via = "sync"].at = "guard"
    BY DEF Idle
  <2> QED BY <1>1, <1>3, <2>1, QuietOwed
<1> QED BY <1>2, <1>3 DEF Sync

LEMMA OwedGo ==
  ASSUME LedgerInv, LedgerInv', PostingInv, NEW p \in Clients,
         Read(p) \/ SwapMissed(p) \/ Guard(p) \/ Save(p) \/ \E t \in Types, n \in Amounts : Adjust(p, t, n)
  PROVE  PostingInv'
<1>1. req[p] \in Request
  BY DEF LedgerInv, TypeOK
<1>2. UNCHANGED <<balance, posted, lost>> /\ req[p].at # "log"
  BY IdleTyped DEF Read, SwapMissed, Guard, Save, Adjust, Ready, db, ghosts, At
<1>3. CASE Read(p)
  <2>1. [req[p] EXCEPT !.at = "swap", !.seen = balance[req[p].type]].at = "swap"
    BY <1>1 DEF Request
  <2> QED BY <1>2, <1>3, <2>1, QuietOwed DEF Read
<1>4. CASE SwapMissed(p)
  <2>1. [req[p] EXCEPT !.at = Again, !.tries = @ + 1].at = "read"
    BY <1>1 DEF Request, Again
  <2> QED BY <1>2, <1>4, <2>1, NewStage, QuietOwed DEF SwapMissed, End
<1>5. CASE Guard(p)
  <2>1. \E r : Become(p, r) /\ r.at # "log"
    BY <1>1, <1>5, NewStage DEF Guard
  <2> QED BY <1>2, <2>1, QuietOwed
<1>6. CASE Save(p)
  BY <1>2, <1>6, NewStage, QuietOwed DEF Save, End
<1>7. ASSUME NEW t \in Types, NEW n \in Amounts, Adjust(p, t, n) PROVE PostingInv'
  <2>1. Become(p, Change(Idle, t, "add", n)) /\ Change(Idle, t, "add", n).at # "log"
    BY <1>7, IdleTyped, NewStage DEF Adjust
  <2> QED BY <1>2, <2>1, QuietOwed
<1> QED BY <1>3, <1>4, <1>5, <1>6, <1>7

LEMMA PostingStep == LedgerInv /\ PostingInv /\ [Next]_vars => PostingInv'
<1> SUFFICES ASSUME LedgerInv, PostingInv, [Next]_vars PROVE PostingInv'
  OBVIOUS
<1>1. LedgerInv'
  BY StepOK
<1>2. ASSUME NEW p \in Clients, Continue(p) PROVE PostingInv'
  <2>1. ASSUME Log(p) PROVE PostingInv'
    <3>1. req[p] \in Request
      BY DEF LedgerInv, TypeOK
    <3> QED BY <1>1, <2>1, <3>1, NewStage, OwedPaid DEF Log, At, ghosts
  <2> QED BY <1>1, <1>2, <2>1, OwedSwap, OwedGo DEF Continue
<1>3. ASSUME NEW p \in Clients, Call(p) PROVE PostingInv'
  <2>1. ASSUME NEW e \in Events, WebhookAgain(p, e) PROVE PostingInv'
    BY <1>1, <2>1, OwedDeliver DEF WebhookAgain, Ready
  <2> QED BY <1>1, <1>3, <2>1, OwedSpend, OwedGo, OwedSync DEF Call
<1>4. ASSUME NEW p \in Clients, Crash(p) PROVE PostingInv'
  <2>1. CASE req[p].at = "log"
    BY <1>1, <1>4, <2>1, NewStage, OwedPaid DEF Crash, End, db
  <2>2. CASE req[p].at # "log"
    BY <1>1, <1>4, <2>2, NewStage, QuietOwed DEF Crash, End, db
  <2> QED BY <2>1, <2>2
<1>5. ASSUME NEW e \in Events, Redeliver(e) PROVE PostingInv'
  BY <1>1, <1>5, OwedDeliver DEF Redeliver, Webhook
<1>6. ASSUME NEW e \in Events, NEW kind \in {"invoice", "updated", "deleted"}, NEW n \in Levels, Raise(e, kind, n)
      PROVE  PostingInv'
  BY <1>1, <1>6, StayOwed DEF Raise, db, ghosts
<1>7. CASE UNCHANGED vars
  BY <1>1, <1>7, StayOwed DEF vars, db, ghosts
<1> QED BY <1>2, <1>3, <1>4, <1>5, <1>6, <1>7 DEF Next

(* The ledger explains the balance: they differ by the entries still to be *)
(* written and by those that were lost with their requests                 *)
(* (applyBalanceMutation, deductCredits).                                  *)
THEOREM LedgerExplains == Spec => []LedgerBalances
<1>1. Init => PostingInv
  <2> SUFFICES ASSUME Init, NEW t \in Types
               PROVE  IsFiniteSet(Logging(req, t)) /\ balance[t] = posted[t] + Unposted(t) + lost[t]
    BY DEF PostingInv, LedgerBalances
  <2>1. Logging(req, t) = {}
    BY IdleTyped DEF Init, Logging
  <2>2. Unposted(t) = Owed(req, t)
    BY DEF Unposted, Owed, Deltas, Logging, MapThenSumSet, MapThenFoldSet
  <2>3. Owed(req, t) = 0
    <3>1. Owed(req, t) = Total({}, [q \in {} |-> req[q].delta])
      BY <2>1, DeltasAre, FS_EmptySet DEF Owed
    <3> QED BY <3>1, TotalNone
  <2>4. balance[t] = 0 /\ posted[t] = 0 /\ lost[t] = 0
    BY DEF Init
  <2> QED BY <2>1, <2>2, <2>3, <2>4, FS_EmptySet
<1>2. PostingInv => LedgerBalances
  BY DEF PostingInv
<1> QED BY <1>1, <1>2, InitOK, StepOK, PostingStep, PTL DEF Spec
=============================================================================
