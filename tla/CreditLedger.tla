---------------------------- MODULE CreditLedger ----------------------------
(***************************************************************************)
(* One member's credit balances, the ledger of their changes, and the      *)
(* requests that change both: spending, staff adjustments, and the Stripe  *)
(* events of the member's subscription, delivered at least once.           *)
(*                                                                         *)
(* A balance is a column of the user row and every change is followed by a *)
(* separate INSERT into the ledger. Additions and resets read the balance  *)
(* and write it with a compare-and-swap UPDATE, retrying a bounded number  *)
(* of times; spending is one guarded UPDATE. Amounts are in credits of     *)
(* half an hour and the 250 cents that buy one. Members do not interact:   *)
(* each statement names one user row.                                      *)
(***************************************************************************)
EXTENDS Integers, FiniteSetsExt

CONSTANTS Clients,     \* Worker invocations
          Levels,      \* what a contribution buys, in credits
          Amounts,     \* amounts added or spent at once
          MaxBalance,  \* cap of the equipment balance
          Retries,     \* MAX_BALANCE_RETRIES
          MaxEvents,   \* bound: events Stripe raises
          MaxCalls,    \* bound: purchases, adjustments, syncs, extra deliveries
          MaxCrashes   \* bound: Worker invocations lost half way

Types == {"free_hours", "equipment_credits"}
Uncapped == {"free_hours"}
Events == 1..MaxEvents

ASSUME LedgerAssumption ==
  /\ Levels \subseteq Nat \ {0} /\ Amounts \subseteq Nat \ {0}
  /\ Levels \subseteq Amounts
  /\ MaxBalance \in Nat /\ Retries \in Nat
  /\ MaxEvents \in Nat /\ MaxCalls \in Nat /\ MaxCrashes \in Nat

VARIABLES balance,       \* user.creditFreeHours, user.creditEquipment
          posted,        \* per type, the sum of the ledger's amounts
          tags,          \* the allocations in the ledger: <<event, type>>
          subscription,  \* user.subscription: its allowance, or 0 for null
          events,        \* what Stripe has raised, and what it got through
          req,           \* the request each client is serving
          calls, crashes,
          lost,          \* ghost: per type, changes whose ledger entry was never written
          grants,        \* ghost: how often each allocation was applied
          muddled        \* ghost: events handled twice at once, or cut off before the ledger

db == <<balance, posted, tags, subscription>>
ghosts == <<lost, grants, muddled>>
vars == <<db, events, req, calls, crashes, ghosts>>

-----------------------------------------------------------------------------
(* A request is at one statement of a balance change (read, swap, log), or *)
(* of the handler around it: the guard against a second allocation, and    *)
(* the write of the subscription that ends it. overtaken is a ghost: how   *)
(* often others wrote the balance during the change, up to Retries + 1.    *)
Labels == {"idle", "guard", "read", "swap", "log", "save"}
Request == [at : Labels, via : {"none", "webhook", "again", "sync"}, event : Events \cup {0},
            type : Types, op : {"add", "reset", "spend"}, amount : Nat, seen : Nat,
            tries : 0..Retries, delta : Int, overtaken : 0..(Retries + 1)]

Idle == [at |-> "idle", via |-> "none", event |-> 0, type |-> "free_hours", op |-> "spend",
         amount |-> 0, seen |-> 0, tries |-> 0, delta |-> 0, overtaken |-> 0]

Event == [kind : {"invoice", "updated", "deleted"}, level : Levels \cup {0},
          state : {"unsent", "due", "tried", "acked"}]

At(p, label) == req[p].at = label
Become(p, r) == req' = [req EXCEPT ![p] = r]
End(p) == Become(p, Idle)
Handles(p, e) == req[p].event = e

(* Entering a balance change: applyBalanceMutation().                      *)
Change(r, t, op, n) == [r EXCEPT !.at = "read", !.type = t, !.op = op, !.amount = n,
                                 !.tries = 0, !.overtaken = 0]

(* Entering the part of an event's handler that concerns one credit type.  *)
Stage(r, e, t) == IF events[e].kind = "deleted" THEN Change(r, t, "reset", 0)
                                               ELSE [r EXCEPT !.at = "guard", !.type = t]
AfterStage(r) ==
  IF r.event = 0 THEN Idle
  ELSE IF r.type = "free_hours" THEN Stage(r, r.event, "equipment_credits")
  ELSE IF r.via = "sync" THEN Idle ELSE [r EXCEPT !.at = "save"]

-----------------------------------------------------------------------------
(* Balance changes. *)
CappedMutant(t, n) == IF t \in Uncapped \/ n <= MaxBalance THEN n ELSE MaxBalance + 1
Capped(t, n) == IF t \in Uncapped \/ n <= MaxBalance THEN n ELSE MaxBalance

NextBalance(r) == IF r.op = "add" THEN Capped(r.type, r.seen + r.amount) ELSE r.amount

(* Mutant: the ledger books the amount asked for, not the amount applied.  *)
DeltaMutant(r) == IF r.op = "add" THEN r.amount ELSE r.amount - r.seen
Delta(r) == NextBalance(r) - r.seen

(* A write of the balance: p goes on with r, and whoever is changing the   *)
(* same balance has been overtaken.                                        *)
Write(p, r, n) ==
  /\ balance' = [balance EXCEPT ![r.type] = n]
  /\ req' = [q \in Clients |->
       IF q = p THEN r
       ELSE IF req[q].at \in {"read", "swap"} /\ req[q].type = r.type
                 /\ req[q].overtaken <= Retries
            THEN [req[q] EXCEPT !.overtaken = @ + 1] ELSE req[q]]

Read(p) ==
  /\ At(p, "read")
  /\ Become(p, [req[p] EXCEPT !.at = "swap", !.seen = balance[req[p].type]])
  /\ UNCHANGED <<db, events, calls, crashes, ghosts>>

(* Mutant of Swappable: the UPDATE forgets to compare.                     *)
SwappableMutant(r) == TRUE
Swappable(r) == balance[r.type] = r.seen

Swap(p) ==
  LET r == req[p] IN
  /\ At(p, "swap") /\ Swappable(r)
  /\ Write(p, [r EXCEPT !.at = "log", !.delta = Delta(r)], NextBalance(r))
  /\ grants' = IF r.event = 0 THEN grants ELSE [grants EXCEPT ![<<r.event, r.type>>] = @ + 1]
  /\ UNCHANGED <<posted, tags, subscription, events, calls, crashes, lost, muddled>>

(* Mutant of Again: the loop tries the stale value once more.              *)
AgainMutant == "swap"
Again == "read"

(* Somebody wrote first: read again, or give up and let the request fail.  *)
SwapMissed(p) ==
  LET r == req[p] IN
  /\ At(p, "swap") /\ ~Swappable(r)
  /\ IF r.tries < Retries THEN Become(p, [r EXCEPT !.at = Again, !.tries = @ + 1])
                          ELSE End(p)
  /\ UNCHANGED <<db, events, calls, crashes, ghosts>>

Covered(t, n) == balance[t] >= n

Log(p) ==
  LET r == req[p] IN
  /\ At(p, "log")
  /\ posted' = [posted EXCEPT ![r.type] = @ + r.delta]
  /\ tags' = IF r.event = 0 THEN tags ELSE tags \cup {<<r.event, r.type>>}
  /\ Become(p, AfterStage(r))
  /\ UNCHANGED <<balance, subscription, events, calls, crashes, ghosts>>

-----------------------------------------------------------------------------
(* deductCredits() and addCredits(), called by bookings, loans and staff.  *)
Ready(p) == req[p] = Idle /\ calls < MaxCalls /\ calls' = calls + 1

Spend(p, t, n) ==
  /\ Ready(p) /\ Covered(t, n)
  /\ Write(p, [Idle EXCEPT !.at = "log", !.type = t, !.amount = n, !.delta = -n],
           balance[t] - n)
  /\ UNCHANGED <<posted, tags, subscription, events, crashes, ghosts>>

Adjust(p, t, n) ==
  /\ Ready(p)
  /\ Become(p, Change(Idle, t, "add", n))
  /\ UNCHANGED <<db, events, crashes, ghosts>>

-----------------------------------------------------------------------------
(* Stripe's side: events in the order it raises them.                      *)
Raised == {e \in Events : events[e].state # "unsent"}
Last(e, S) == e \in S /\ \A f \in S : f <= e
Live == \E e \in Raised : Last(e, Raised) /\ events[e].kind # "deleted"
Invoices == {e \in Raised : events[e].kind = "invoice"}

Raise(e, kind, n) ==
  /\ e \notin Raised /\ Events \cap 1..(e - 1) \subseteq Raised
  /\ kind = "invoice" \/ Live
  /\ events' = [events EXCEPT ![e] = [kind |-> kind, state |-> "due",
                                     level |-> IF kind = "deleted" THEN 0 ELSE n]]
  /\ UNCHANGED <<db, req, calls, crashes, ghosts>>

Overlap(e) == IF \E q \in Clients : Handles(q, e) THEN muddled \cup {e} ELSE muddled

Deliver(p, e) ==
  LET r == [Idle EXCEPT !.event = e,
                        !.via = IF events[e].state = "due" THEN "webhook" ELSE "again"]
  IN /\ Become(p, IF events[e].kind = "updated" THEN [r EXCEPT !.at = "save"]
                                               ELSE Stage(r, e, "free_hours"))
     /\ events' = IF events[e].state = "due" THEN [events EXCEPT ![e].state = "tried"] ELSE events
     /\ muddled' = Overlap(e)
     /\ UNCHANGED <<db, crashes, lost, grants>>

(* Stripe delivers until it is answered, and may well deliver again.       *)
Webhook(p, e) ==
  /\ req[p] = Idle /\ events[e].state \in {"due", "tried"} /\ \A q \in Clients : ~Handles(q, e)
  /\ Deliver(p, e) /\ UNCHANGED calls
WebhookAgain(p, e) == Ready(p) /\ e \in Raised /\ Deliver(p, e)

(* The staff sync: the subscription as Stripe has it, then its last        *)
(* invoice once more; a subscription that has ended is only cleared.       *)
Sync(p) ==
  /\ Ready(p)
  /\ \E last \in Events : Last(last, Raised) /\ subscription' = events[last].level
  /\ IF Live THEN \E e \in Events :
                   /\ Last(e, Invoices)
                   /\ Become(p, [Idle EXCEPT !.at = "guard", !.event = e, !.via = "sync"])
                   /\ muddled' = Overlap(e)
             ELSE UNCHANGED <<req, muddled>>
  /\ UNCHANGED <<balance, posted, tags, events, crashes, lost, grants>>

(* allocateMonthlyCredits() takes any allocation of the invoice for its    *)
(* own; allocateEquipmentCredits() looks for one of its type.              *)
(* Mutants: no guard at all; the equipment guard forgets the type.         *)
UnguardedMutant(e, t) == FALSE
AppliedMutant(e, t) == \E any \in Types : <<e, any>> \in tags
Applied(e, t) == \E any \in Types : <<e, any>> \in tags /\ (t = any \/ t = "free_hours")

Guard(p) ==
  LET r == req[p]
      t == r.type
  IN /\ At(p, "guard")
     /\ Become(p, IF Applied(r.event, t) THEN AfterStage(r)
                  ELSE Change(r, t, IF t = "free_hours" THEN "reset" ELSE "add",
                              events[r.event].level))
     /\ UNCHANGED <<db, events, calls, crashes, ghosts>>

(* The end of a handler: user.subscription, then the answer to Stripe.     *)
Save(p) ==
  LET e == req[p].event IN
  /\ At(p, "save")
  /\ subscription' = events[e].level
  /\ events' = [events EXCEPT ![e].state = "acked"]
  /\ End(p)
  /\ UNCHANGED <<balance, posted, tags, calls, crashes, ghosts>>

Crash(p) ==
  LET r == req[p] IN
  /\ r # Idle /\ crashes < MaxCrashes
  /\ crashes' = crashes + 1
  /\ End(p)
  /\ IF r.at = "log"
     THEN /\ lost' = [lost EXCEPT ![r.type] = @ + r.delta]
          /\ muddled' = muddled \cup ({r.event} \ {0})
     ELSE UNCHANGED <<lost, muddled>>
  /\ UNCHANGED <<db, events, calls, grants>>

-----------------------------------------------------------------------------
Init ==
  /\ balance = [t \in Types |-> 0] /\ posted = [t \in Types |-> 0]
  /\ tags = {} /\ subscription = 0
  /\ events = [e \in Events |-> [kind |-> "invoice", level |-> 0, state |-> "unsent"]]
  /\ req = [p \in Clients |-> Idle]
  /\ calls = 0 /\ crashes = 0
  /\ lost = [t \in Types |-> 0]
  /\ grants = [a \in Events \X Types |-> 0] /\ muddled = {}

Continue(p) == Read(p) \/ Swap(p) \/ SwapMissed(p) \/ Log(p) \/ Guard(p) \/ Save(p)

Call(p) == \/ \E t \in Types, n \in Amounts : Spend(p, t, n) \/ Adjust(p, t, n)
           \/ \E e \in Events : WebhookAgain(p, e)
           \/ Sync(p)

Redeliver(e) == \E p \in Clients : Webhook(p, e)

Next == \/ \E p \in Clients : Continue(p) \/ Call(p) \/ Crash(p)
        \/ \E e \in Events : \/ Redeliver(e)
                             \/ \E kind \in {"invoice", "updated", "deleted"}, n \in Levels :
                                  Raise(e, kind, n)

Spec == Init /\ [][Next]_vars

(* A request goes on unless the Worker dies, and Stripe redelivers what    *)
(* was not answered.                                                       *)
Fairness == /\ \A p \in Clients : WF_vars(Continue(p))
            /\ \A e \in Events : WF_vars(Redeliver(e))
FairSpec == Spec /\ Fairness

-----------------------------------------------------------------------------
(* Balances stay numbers that can be spent: never below zero, whoever      *)
(* spends at the same time, and the equipment balance below its cap.       *)
TypeOK ==
  /\ balance \in [Types -> Nat] /\ balance["equipment_credits"] <= MaxBalance
  /\ posted \in [Types -> Int]
  /\ tags \subseteq Events \X Types
  /\ subscription \in Levels \cup {0}
  /\ events \in [Events -> Event]
  /\ req \in [Clients -> Request]
  /\ calls \in 0..MaxCalls /\ crashes \in 0..MaxCrashes
  /\ lost \in [Types -> Int]
  /\ grants \in [Events \X Types -> Nat]
  /\ muddled \subseteq Events

(* The credit service's statements implement atomic accounts: no deposit,  *)
(* purchase or allocation is lost under another (applyBalanceMutation).    *)
Accounts == INSTANCE CreditAccounts
ImplementsAccounts == Accounts!Spec

(* The ledger explains the balance: they differ by the entries that are    *)
(* still to be written and by those a lost request never wrote.            *)
Unposted(t) == MapThenSumSet(LAMBDA p : req[p].delta,
                             {p \in Clients : req[p].at = "log" /\ req[p].type = t})
LedgerBalances == \A t \in Types : balance[t] = posted[t] + Unposted(t) + lost[t]

(* A compare-and-swap fails only because another write succeeded: a        *)
(* request that gives up was overtaken Retries + 1 times.                  *)
FailsOnlyWhenOvertaken ==
  \A p \in Clients : LET r == req[p] IN
    /\ r.at \in {"read", "swap"} => r.tries <= r.overtaken
    /\ r.at = "swap" /\ ~Swappable(r) => r.tries < r.overtaken

(* An invoice is allocated once, unless two of its deliveries overlapped   *)
(* or one died between the balance and the ledger (allocateMonthlyCredits, *)
(* allocateEquipmentCredits).                                              *)
AllocatedOnce ==
  \A e \in Events, t \in Types :
    events[e].kind = "invoice" /\ e \notin muddled => grants[<<e, t>>] <= 1

(* Every invoice is allocated in full in the end, even if a delivery dies  *)
(* between the two credit types: Stripe redelivers, and the guards let the *)
(* missing half through (allocateCreditsFromInvoice).                      *)
InvoiceApplied ==
  \A e \in Events : events[e].state = "due" /\ events[e].kind = "invoice"
    ~> events[e].state = "acked" /\ \A t \in Types : <<e, t>> \in tags
=============================================================================
