---------------------------- MODULE Reservations ----------------------------
(***************************************************************************)
(* The practice room: reservation rows, the request handlers and cron      *)
(* sweeps that write them, and the waitlist.                               *)
(*                                                                         *)
(* D1 has no interactive transactions, so every SQL statement is one       *)
(* atomic step and a handler is a sequence of them: req[p] is the request  *)
(* that process p is serving, with the step it is at and what it read.     *)
(* Between two steps of a request any other request may run, and the       *)
(* Worker may die (Crash).                                                 *)
(***************************************************************************)
EXTENDS Integers

CONSTANTS Clients,     \* Worker invocations that serve users, staff and Stripe
          Slots,       \* time ranges of the room
          NoSlot,      \* the slot of a row that does not exist
          Clash,       \* pairs of overlapping slots
          MaxRows,     \* bound: rows ever inserted
          MaxCrashes,  \* bound: Worker invocations lost half way
          Horizon,     \* bound: slots whose time comes
          Traffic      \* bound: the endpoints and cron sweeps that are called

Ids == 1..MaxRows
Crons == {"expirer", "sweeper"}
Procs == Clients \cup Crons

ASSUME RoomAssumption ==
  /\ NoSlot \notin Slots
  /\ MaxRows \in Nat /\ MaxCrashes \in Nat
  /\ Clash \subseteq Slots \X Slots
  /\ \A s, t \in Slots : <<s, t>> \in Clash => <<t, s>> \in Clash
  /\ Clients \cap Crons = {} /\ Horizon \subseteq Slots

(* Mutant: a cancelled row counts as live.                                 *)
LiveMutant == {"scheduled", "confirmed", "cancelled"}
Live == {"scheduled", "confirmed"}
(* Mutant: a no-show may still be cancelled.                               *)
CancellableMutant == Live \cup {"waitlisted", "no_show"}
Cancellable == Live \cup {"waitlisted"}
Final == {"completed", "no_show", "cancelled"}
Statuses == Cancellable \cup Final \cup {"absent"}

(* pay = "open": neither a payment record nor a zero balance due;          *)
(* "waived": nothing due, no record; "record": a Stripe payment record.    *)
(* offer = "none" iff waitlistNotifiedAt is null; "expired" once           *)
(* waitlistExpiresAt has passed.                                           *)
Row == [status : Statuses, slot : Slots \cup {NoSlot}, kind : {"member", "event"},
        offer : {"none", "live", "expired"}, pay : {"open", "waived", "record"}]

NoRow == [status |-> "absent", slot |-> NoSlot, kind |-> "member",
          offer |-> "none", pay |-> "open"]

NewRow(s, status, kind) == [NoRow EXCEPT !.status = status, !.slot = s, !.kind = kind]

Labels == {"idle", "insert", "recheck", "backout", "queue", "settleNew",
           "offerCheck", "offerWrite", "offerRecheck", "offerBackout",
           "cancel", "listen", "pick", "verify", "offer",
           "checkout", "comp", "hold", "seriesInsert", "expire", "sweep"}

Request == [at : Labels, row : Ids \cup {0}, slot : Slots \cup {NoSlot},
            wait : BOOLEAN, todo : SUBSET Ids, loop : {"none", "expire", "sweep"}]

Idle == [at |-> "idle", row |-> 0, slot |-> NoSlot, wait |-> FALSE,
         todo |-> {}, loop |-> "none"]

VARIABLES rows,     \* the reservation table
          next,     \* the next row id; ids follow createdAt
          req,      \* the request each process is serving
          started,  \* slots whose start has passed
          ended,    \* slots whose end has passed
          crashes,  \* Worker invocations lost so far
          vetted,   \* ghost: rows placed by a write whose re-check found no rival
          loose     \* ghost: rows placed with no re-check to come

db == <<rows, next>>
clock == <<started, ended>>
marks == <<vetted, loose>>
vars == <<db, req, clock, crashes, marks>>

-----------------------------------------------------------------------------
(* What the queries ask. *)
Active(i) == rows[i].status \notin {"absent", "cancelled", "waitlisted"}
Overlap(s, t) == <<s, t>> \in Clash
(* Mutants of Blocked: only confirmed rows stand in the way; only those of *)
(* exactly the same times do.                                              *)
BlockedMutant(s, me) == \E j \in Ids \ {me} : /\ rows[j].status = "confirmed"
                                              /\ Overlap(rows[j].slot, s)
SameTimesMutant(s, me) == \E j \in Ids \ {me} : Active(j) /\ rows[j].slot = s
Blocked(s, me) == \E j \in Ids \ {me} : Active(j) /\ Overlap(rows[j].slot, s)
BlockedByEvent(s) == \E j \in Ids : /\ Active(j) /\ rows[j].kind = "event"
                                    /\ Overlap(rows[j].slot, s)
Waiting(s) == {i \in Ids : /\ rows[i].status = "waitlisted" /\ rows[i].offer = "none"
                           /\ Overlap(rows[i].slot, s)}

(* The ghost marks. *)
Vet(i) == vetted' = vetted \cup {i} /\ loose' = loose \ {i}
Loosen(i) == vetted' = vetted \ {i} /\ loose' = loose \cup {i}
Drop(i) == vetted' = vetted \ {i} /\ loose' = loose \ {i}

(* Statements. An UPDATE or DELETE by id changes nothing if the row is gone. *)
Insert(r) == /\ next \in Ids
             /\ rows' = [rows EXCEPT ![next] = r]
             /\ next' = next + 1
Update(i, r) == /\ rows' = IF rows[i].status = "absent" THEN rows
                                                        ELSE [rows EXCEPT ![i] = r]
                /\ UNCHANGED next
Delete(i) == rows' = [rows EXCEPT ![i] = NoRow] /\ UNCHANGED next

(* Control of a request. End(p) returns, or resumes the sweep it is part of. *)
At(p, label) == req[p].at = label
Ready(p, endpoint) == p \in Clients /\ req[p] = Idle /\ endpoint \in Traffic
Begin(p, label, i, s, w) ==
  req' = [req EXCEPT ![p] = [Idle EXCEPT !.at = label, !.row = i, !.slot = s, !.wait = w]]
Go(p, label) == req' = [req EXCEPT ![p].at = label]
Resumed(r, todo) == IF todo = {} THEN Idle
                    ELSE [Idle EXCEPT !.at = r.loop, !.loop = r.loop, !.todo = todo]
End(p) == req' = [req EXCEPT ![p] = Resumed(req[p], req[p].todo)]

-----------------------------------------------------------------------------
(* create(): SELECT overlaps, INSERT, SELECT again, DELETE if a rival shows. *)
(* A recurring booking that conflicts is queued by createWaitlisted().      *)
BookCheck(p, s, w) ==
  /\ Ready(p, "book") /\ next \in Ids
  /\ \/ Blocked(s, 0) /\ w /\ Begin(p, "queue", 0, s, w)
     \/ ~Blocked(s, 0) /\ Begin(p, "insert", 0, s, w)
  /\ UNCHANGED <<db, clock, crashes, marks>>

BookInsert(p) ==
  /\ At(p, "insert")
  /\ Insert(NewRow(req[p].slot, "scheduled", "member"))
  /\ req' = [req EXCEPT ![p].at = "recheck", ![p].row = next]
  /\ UNCHANGED <<clock, crashes, marks>>

(* A booking that asked to skip payment goes on to confirm itself. *)
BookRecheck(p) ==
  LET i == req[p].row IN
  /\ At(p, "recheck")
  /\ \/ Blocked(req[p].slot, i) /\ Go(p, "backout") /\ UNCHANGED marks
     \/ /\ ~Blocked(req[p].slot, i)
        /\ IF Active(i) THEN Vet(i) ELSE UNCHANGED marks
        /\ End(p) \/ Go(p, "settleNew")
  /\ UNCHANGED <<db, clock, crashes>>

BookBackout(p) ==
  /\ At(p, "backout")
  /\ Delete(req[p].row) /\ Drop(req[p].row)
  /\ IF req[p].wait THEN Go(p, "queue") ELSE End(p)
  /\ UNCHANGED <<clock, crashes>>

BookQueue(p) ==
  /\ At(p, "queue")
  /\ Insert(NewRow(req[p].slot, "waitlisted", "member"))
  /\ End(p)
  /\ UNCHANGED <<clock, crashes, marks>>

(* bookAndPayReservation's unconditional UPDATE to confirmed. *)
BookConfirm(p) ==
  LET i == req[p].row IN
  /\ At(p, "settleNew")
  /\ Update(i, [rows[i] EXCEPT !.status = "confirmed"])
  /\ IF Active(i) \/ rows[i].status = "absent" THEN UNCHANGED marks ELSE Loosen(i)
  /\ End(p)
  /\ UNCHANGED <<clock, crashes>>

-----------------------------------------------------------------------------
(* Writers that do not re-check: staff, event holds, the recurring series. *)
StaffBook(s) ==
  /\ "staff" \in Traffic
  /\ Insert(NewRow(s, "confirmed", "member")) /\ Loosen(next)
  /\ UNCHANGED <<req, clock, crashes>>

EventHold(p, s) ==
  /\ Ready(p, "event")
  /\ Insert(NewRow(s, "confirmed", "event")) /\ Loosen(next)
  /\ Begin(p, "hold", next, s, FALSE)
  /\ UNCHANGED <<clock, crashes>>

(* The event row is inserted next; if that fails the hold is deleted. *)
EventSave(p) ==
  /\ At(p, "hold")
  /\ \/ UNCHANGED <<db, marks>>
     \/ Delete(req[p].row) /\ Drop(req[p].row)
  /\ End(p)
  /\ UNCHANGED <<clock, crashes>>

SeriesCheck(p, s) ==
  /\ Ready(p, "series") /\ ~BlockedByEvent(s)
  /\ IF Blocked(s, 0) THEN Begin(p, "queue", 0, s, FALSE)
                      ELSE Begin(p, "seriesInsert", 0, s, FALSE)
  /\ UNCHANGED <<db, clock, crashes, marks>>

SeriesInsert(p) ==
  /\ At(p, "seriesInsert")
  /\ Insert(NewRow(req[p].slot, "scheduled", "member")) /\ Loosen(next)
  /\ End(p)
  /\ UNCHANGED <<clock, crashes>>

-----------------------------------------------------------------------------
(* confirmWaitlisted: the member takes the slot that was offered. *)
AcceptRead(p, i) ==
  /\ Ready(p, "accept")
  /\ rows[i].status = "waitlisted" /\ rows[i].offer = "live"
  /\ Begin(p, "offerCheck", i, rows[i].slot, FALSE)
  /\ UNCHANGED <<db, clock, crashes, marks>>

AcceptCheck(p) ==
  /\ At(p, "offerCheck")
  /\ IF Blocked(req[p].slot, req[p].row) THEN End(p) ELSE Go(p, "offerWrite")
  /\ UNCHANGED <<db, clock, crashes, marks>>

AcceptWrite(p) ==
  LET i == req[p].row IN
  /\ At(p, "offerWrite")
  /\ Update(i, [rows[i] EXCEPT !.status = "scheduled", !.offer = "none"])
  /\ Drop(i)
  /\ Go(p, "offerRecheck")
  /\ UNCHANGED <<clock, crashes>>

AcceptRecheck(p) ==
  LET i == req[p].row IN
  /\ At(p, "offerRecheck")
  /\ \/ Blocked(req[p].slot, i) /\ Go(p, "offerBackout") /\ UNCHANGED marks
     \/ /\ ~Blocked(req[p].slot, i)
        /\ IF Active(i) THEN Vet(i) ELSE UNCHANGED marks
        /\ End(p)
  /\ UNCHANGED <<db, clock, crashes>>

AcceptBackout(p) ==
  LET i == req[p].row IN
  /\ At(p, "offerBackout")
  /\ Update(i, [rows[i] EXCEPT !.status = "waitlisted"])
  /\ Drop(i)
  /\ End(p)
  /\ UNCHANGED <<clock, crashes>>

-----------------------------------------------------------------------------
(* cancel(): read and check, conditional UPDATE, then the cancelled event,  *)
(* whose listener offers the freed slot to the waitlist.                   *)
CancelRead(p, i, staff) ==
  /\ Ready(p, "cancel")
  /\ rows[i].status \in Cancellable
  /\ staff \/ rows[i].slot \notin started
  /\ Begin(p, "cancel", i, rows[i].slot, FALSE)
  /\ UNCHANGED <<db, clock, crashes, marks>>

CancelWrite(p) ==
  LET i == req[p].row IN
  /\ At(p, "cancel")
  /\ \/ /\ rows[i].status \in Cancellable
        /\ Update(i, [rows[i] EXCEPT !.status = "cancelled",
                        !.pay = IF @ = "record" THEN "record" ELSE "open"])
        /\ Drop(i)
        /\ Go(p, "listen")
     \/ /\ rows[i].status \notin Cancellable
        /\ End(p)
        /\ UNCHANGED <<db, marks>>
  /\ UNCHANGED <<clock, crashes>>

(* The listener looks the cancelled row up again for its time range. *)
Listen(p) ==
  /\ At(p, "listen")
  /\ req' = [req EXCEPT ![p].at = "pick", ![p].slot = rows[req[p].row].slot]
  /\ UNCHANGED <<db, clock, crashes, marks>>

(* promoteNextWaitlisted(): oldest waiting row, is its slot free, offer. *)
Pick(p) ==
  /\ At(p, "pick")
  /\ \/ Waiting(req[p].slot) = {} /\ End(p)
     \/ \E i \in Waiting(req[p].slot) :
          /\ \A j \in Waiting(req[p].slot) : i <= j
          /\ req' = [req EXCEPT ![p].at = "verify", ![p].row = i, ![p].slot = rows[i].slot]
  /\ UNCHANGED <<db, clock, crashes, marks>>

Verify(p) ==
  /\ At(p, "verify")
  /\ IF Blocked(req[p].slot, 0) THEN End(p) ELSE Go(p, "offer")
  /\ UNCHANGED <<db, clock, crashes, marks>>

Offer(p) ==
  LET i == req[p].row IN
  /\ At(p, "offer")
  /\ IF rows[i].status = "waitlisted" /\ rows[i].offer = "none"
     THEN Update(i, [rows[i] EXCEPT !.offer = "live"])
     ELSE UNCHANGED db
  /\ End(p)
  /\ UNCHANGED <<clock, crashes, marks>>

-----------------------------------------------------------------------------
(* expireWaitlisted() and cancelUnconfirmedReservations(): each selects its *)
(* rows once, then works through them one by one.                          *)
Lapsed == {i \in Ids : rows[i].status = "waitlisted" /\ rows[i].offer = "expired"}
Unconfirmed == {i \in Ids : /\ rows[i].status = "scheduled" /\ rows[i].slot \in started
                            /\ rows[i].kind # "event"}

StartSweep(p, label, found) ==
  /\ req[p] = Idle /\ label \in Traffic /\ found # {}
  /\ req' = [req EXCEPT ![p] = [Idle EXCEPT !.at = label, !.loop = label, !.todo = found]]
  /\ UNCHANGED <<db, clock, crashes, marks>>

(* Mutants: the wrong null test, and the inverted event test.              *)
ExpireSelectMutant ==
  StartSweep("expirer", "expire",
             {i \in Ids : rows[i].status = "waitlisted" /\ rows[i].offer = "none"})
SweepSelectMutant ==
  StartSweep("sweeper", "sweep",
             {i \in Ids : /\ rows[i].status = "scheduled" /\ rows[i].slot \in started
                          /\ rows[i].kind = "event"})
ExpireSelect == StartSweep("expirer", "expire", Lapsed)
SweepSelect == StartSweep("sweeper", "sweep", Unconfirmed)

(* Taking row i off the list, to work on it at the given step. *)
TakeUp(p, i, label) ==
  req' = [req EXCEPT ![p].at = label, ![p].row = i, ![p].slot = rows[i].slot,
                     ![p].todo = @ \ {i}]
Skip(p, i) == req' = [req EXCEPT ![p] = Resumed(req[p], req[p].todo \ {i})]

ExpireOne(p) ==
  /\ At(p, "expire")
  /\ \E i \in req[p].todo :
       \/ /\ rows[i].status = "waitlisted"
          /\ Update(i, [rows[i] EXCEPT !.status = "cancelled", !.offer = "none"])
          /\ TakeUp(p, i, "pick")
       \/ rows[i].status # "waitlisted" /\ Skip(p, i) /\ UNCHANGED db
  /\ UNCHANGED <<clock, crashes, marks>>

SweepOne(p) ==
  /\ At(p, "sweep")
  /\ \E i \in req[p].todo :
       IF rows[i].status \in Cancellable THEN TakeUp(p, i, "cancel") ELSE Skip(p, i)
  /\ UNCHANGED <<db, clock, crashes, marks>>

-----------------------------------------------------------------------------
(* handleReservationCheckout(): read the status, then UPDATE by id alone. *)
CheckoutRead(p, i) ==
  /\ Ready(p, "checkout")
  /\ rows[i].status \in Live
  /\ Begin(p, "checkout", i, NoSlot, FALSE)
  /\ UNCHANGED <<db, clock, crashes, marks>>

CheckoutWrite(p) ==
  LET i == req[p].row IN
  /\ At(p, "checkout")
  /\ Update(i, [rows[i] EXCEPT !.status = "confirmed", !.pay = "record"])
  /\ IF Active(i) \/ rows[i].status = "absent" THEN UNCHANGED marks ELSE Loosen(i)
  /\ End(p)
  /\ UNCHANGED <<clock, crashes>>

(* Conditional single-statement writes: staff resolution and settlement. *)
Resolve(i, endpoint, from, status, pay) ==
  /\ endpoint \in Traffic
  /\ rows[i].status \in from
  /\ Update(i, [rows[i] EXCEPT !.status = status, !.pay = pay])
  /\ UNCHANGED <<req, clock, crashes, marks>>

Confirm(i) == Resolve(i, "confirm", {"scheduled"}, "confirmed", rows[i].pay)
Settle(i) == \E pay \in {"waived", "record"} : Resolve(i, "confirm", Live, "confirmed", pay)
MarkComplete(i) == Resolve(i, "resolve", {"confirmed"}, "completed", rows[i].pay)
MarkNoShow(i) == Resolve(i, "resolve", Live, "no_show", rows[i].pay)
RecordCash(i) == Resolve(i, "resolve", Live, "completed", "record")

(* A comp confirms the row if it is scheduled, then zeroes what it owes. *)
CompConfirm(p, i) ==
  /\ Ready(p, "confirm")
  /\ \/ rows[i].status = "scheduled" /\ Update(i, [rows[i] EXCEPT !.status = "confirmed"])
     \/ rows[i].status = "confirmed" /\ UNCHANGED db
  /\ Begin(p, "comp", i, NoSlot, FALSE)
  /\ UNCHANGED <<clock, crashes, marks>>

CompWrite(p) ==
  LET i == req[p].row IN
  /\ At(p, "comp")
  /\ Update(i, [rows[i] EXCEPT !.pay = IF @ = "open" THEN "waived" ELSE @])
  /\ End(p)
  /\ UNCHANGED <<clock, crashes, marks>>

(* autoCompleteExpired(): one bulk UPDATE over what owes no cash. *)
Completable == {i \in Ids : /\ rows[i].status = "confirmed" /\ rows[i].slot \in ended
                            /\ rows[i].pay # "open"}
AutoComplete ==
  /\ Completable # {}
  /\ rows' = [i \in Ids |-> IF i \in Completable THEN [rows[i] EXCEPT !.status = "completed"]
                                                 ELSE rows[i]]
  /\ UNCHANGED <<next, req, clock, crashes, marks>>

-----------------------------------------------------------------------------
(* The environment. *)
SlotStarts(s) == /\ s \in Horizon \ started
                 /\ started' = started \cup {s}
                 /\ UNCHANGED <<db, req, ended, crashes, marks>>
SlotEnds(s) == /\ s \in started \ ended
               /\ ended' = ended \cup {s}
               /\ UNCHANGED <<db, req, started, crashes, marks>>
OfferLapses(i) == /\ rows[i].offer = "live" /\ "expire" \in Traffic
                  /\ Update(i, [rows[i] EXCEPT !.offer = "expired"])
                  /\ UNCHANGED <<req, clock, crashes, marks>>

(* A request between placing a row and the end of its re-check. *)
Placing == {"recheck", "backout", "offerRecheck", "offerBackout"}

Crash(p) ==
  LET i == req[p].row IN
  /\ req[p] # Idle /\ crashes < MaxCrashes
  /\ crashes' = crashes + 1
  /\ req' = [req EXCEPT ![p] = Idle]
  /\ IF req[p].at \in Placing /\ Active(i) /\ i \notin vetted THEN Loosen(i)
                                                            ELSE UNCHANGED marks
  /\ UNCHANGED <<db, clock>>

-----------------------------------------------------------------------------
Init ==
  /\ rows = [i \in Ids |-> NoRow]
  /\ next = 1
  /\ req = [p \in Procs |-> Idle]
  /\ started = {} /\ ended = {}
  /\ crashes = 0
  /\ vetted = {} /\ loose = {}

(* The next statement of a request under way. *)
Continue(p) ==
  \/ BookInsert(p) \/ BookRecheck(p) \/ BookBackout(p) \/ BookQueue(p) \/ BookConfirm(p)
  \/ EventSave(p) \/ SeriesInsert(p)
  \/ AcceptCheck(p) \/ AcceptWrite(p) \/ AcceptRecheck(p) \/ AcceptBackout(p)
  \/ CancelWrite(p) \/ Listen(p) \/ Pick(p) \/ Verify(p) \/ Offer(p)
  \/ ExpireOne(p) \/ SweepOne(p)
  \/ CheckoutWrite(p) \/ CompWrite(p)

(* A new call arrives. *)
Arrive(p) ==
  \/ \E s \in Slots : \/ \E w \in BOOLEAN : BookCheck(p, s, w)
                      \/ EventHold(p, s) \/ SeriesCheck(p, s)
  \/ \E i \in Ids : \/ AcceptRead(p, i) \/ CheckoutRead(p, i) \/ CompConfirm(p, i)
                    \/ \E staff \in BOOLEAN : CancelRead(p, i, staff)

(* Calls that are a single statement. *)
Single ==
  \/ \E s \in Slots : StaffBook(s)
  \/ \E i \in Ids : Confirm(i) \/ Settle(i) \/ MarkComplete(i) \/ MarkNoShow(i) \/ RecordCash(i)
  \/ AutoComplete

Tick == \/ \E s \in Slots : SlotStarts(s) \/ SlotEnds(s)
        \/ \E i \in Ids : OfferLapses(i)

Next == \/ \E p \in Procs : Continue(p) \/ Arrive(p) \/ Crash(p)
        \/ ExpireSelect \/ SweepSelect
        \/ Single \/ Tick

Spec == Init /\ [][Next]_vars

(* A statement under way completes unless the Worker dies; the cron        *)
(* triggers of wrangler.toml fire again and again. Nothing obliges a user. *)
Fairness == /\ \A p \in Procs : WF_vars(Continue(p))
            /\ WF_vars(ExpireSelect) /\ WF_vars(SweepSelect)

FairSpec == Spec /\ Fairness

-----------------------------------------------------------------------------
TypeOK ==
  /\ rows \in [Ids -> Row]
  /\ next \in 1..(MaxRows + 1)
  /\ req \in [Procs -> Request]
  /\ started \subseteq Slots /\ ended \subseteq Slots
  /\ crashes \in 0..MaxCrashes
  /\ vetted \subseteq Ids /\ loose \subseteq Ids

(* No double booking (create, confirmWaitlisted): of two rows in the room  *)
(* at clashing times, at least one was placed by a writer that never       *)
(* re-checks, or is still inside its own write / re-check / back-out.      *)
InFlight(i) == \E p \in Procs : req[p].row = i /\ req[p].at \in Placing

NoDoubleBooking ==
  \A i, j \in Ids :
    (i # j /\ Active(i) /\ Active(j) /\ Overlap(rows[i].slot, rows[j].slot))
      => \E k \in {i, j} : k \in loose \/ InFlight(k)

(* Once no request still holds a row read before it became final (by the   *)
(* cancel, no-show or completion), nothing ever changes its status again:  *)
(* every handler's read-time guard turns a final row away.                 *)
Holders == Placing \cup {"settleNew", "offerCheck", "offerWrite", "checkout", "hold"}
Held(i) == \E p \in Procs : req[p].row = i /\ req[p].at \in Holders
SettledIsFinal ==
  [][\A i \in Ids : rows[i].status \in Final /\ ~Held(i)
                      => rows'[i].status = rows[i].status /\ ~Held(i)']_vars

(* An offer whose window has passed does not linger (expire-waitlisted).   *)
LapsedOfferResolved ==
  \A i \in Ids : i \in Lapsed ~> i \notin Lapsed

(* A slot nobody confirmed by its start is released (cancel-unconfirmed).  *)
UnconfirmedReleased ==
  \A i \in Ids : i \in Unconfirmed ~> i \notin Unconfirmed

(* The rows whose re-check passed are the accepted bookings of the room    *)
(* calendar: create and confirmWaitlisted implement its atomic Accept.     *)
Accepted == [i \in Ids |-> IF i \in vetted THEN rows[i].slot ELSE NoSlot]
Calendar == INSTANCE RoomCalendar WITH Bookings <- Ids, held <- Accepted
ImplementsCalendar == Calendar!Spec
=============================================================================
