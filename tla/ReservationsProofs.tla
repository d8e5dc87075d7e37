------------------------- MODULE ReservationsProofs -------------------------
(***************************************************************************)
(* The practice room, for every set of clients and slots and every bound:  *)
(* type correctness, the exclusion of double bookings, the refinement of   *)
(* the room calendar, and that a final reservation stays final.            *)
(***************************************************************************)
EXTENDS Reservations, TLAPS

(* Steps at which the request's row is a row of the table.                 *)
RowLabels == Labels \ {"idle", "insert", "queue", "pick", "seriesInsert", "expire", "sweep"}
(* Steps at which the request still needs the slot it asked for.           *)
SlotLabels == {"insert", "recheck", "backout", "queue", "seriesInsert"}

RequestOK(r) ==
  /\ r.at \in RowLabels => r.row \in Ids
  /\ r.at \in SlotLabels => r.slot \in Slots
  /\ r.todo # {} => r.loop # "none"

TypeInv == TypeOK /\ \A p \in Procs : RequestOK(req[p])

USE RoomAssumption DEF Ids, Crons, Procs

-----------------------------------------------------------------------------
(* What the building blocks of a step do to the types. *)

LEMMA IdleTyped == Idle \in Request /\ RequestOK(Idle)
BY DEF Idle, Request, RequestOK, Labels, RowLabels, SlotLabels

LEMMA UpdateTyped ==
  ASSUME TypeOK, NEW i, NEW r \in Row, Update(i, r)
  PROVE  rows' \in [Ids -> Row] /\ next' \in 1..(MaxRows + 1)
BY DEF TypeOK, Update

LEMMA InsertTyped ==
  ASSUME TypeOK, NEW s \in Slots, NEW st \in Statuses, NEW k \in {"member", "event"},
         Insert(NewRow(s, st, k))
  PROVE  /\ rows' \in [Ids -> Row] /\ next' \in 1..(MaxRows + 1)
         /\ next \in Ids
<1>1. NewRow(s, st, k) \in Row
  BY DEF NewRow, NoRow, Row
<1>2. next \in Ids /\ next + 1 \in 1..(MaxRows + 1)
  BY DEF TypeOK, Insert
<1> QED BY <1>1, <1>2 DEF TypeOK, Insert

LEMMA DeleteTyped ==
  ASSUME TypeOK, NEW i, Delete(i)
  PROVE  rows' \in [Ids -> Row] /\ next' \in 1..(MaxRows + 1)
BY DEF TypeOK, Delete, NoRow, Row, Statuses

LEMMA ResumedTyped ==
  ASSUME NEW r \in Request, RequestOK(r), NEW todo \in SUBSET r.todo
  PROVE  Resumed(r, todo) \in Request /\ RequestOK(Resumed(r, todo))
BY IdleTyped DEF Resumed, Idle, Request, RequestOK, Labels, RowLabels, SlotLabels

LEMMA ReqTyped ==
  ASSUME TypeInv, NEW p \in Procs, NEW r \in Request, RequestOK(r),
         req' = [req EXCEPT ![p] = r]
  PROVE  req' \in [Procs -> Request] /\ \A q \in Procs : RequestOK(req'[q])
BY DEF TypeInv, TypeOK

LEMMA EndTyped ==
  ASSUME TypeInv, NEW p \in Procs, End(p)
  PROVE  req' \in [Procs -> Request] /\ \A q \in Procs : RequestOK(req'[q])
<1>1. req[p] \in Request /\ RequestOK(req[p]) /\ req[p].todo \in SUBSET req[p].todo
  BY DEF TypeInv, TypeOK
<1> QED BY <1>1, ResumedTyped, ReqTyped DEF End

LEMMA GoTyped ==
  ASSUME TypeInv, NEW p \in Procs, NEW l \in Labels, Go(p, l),
         l \in RowLabels => req[p].row \in Ids,
         l \in SlotLabels => req[p].slot \in Slots
  PROVE  req' \in [Procs -> Request] /\ \A q \in Procs : RequestOK(req'[q])
<1> DEFINE r == [req[p] EXCEPT !.at = l]
<1>1. req[p] \in Request /\ RequestOK(req[p])
  BY DEF TypeInv, TypeOK
<1>2. r \in Request /\ RequestOK(r)
  BY <1>1 DEF Request, RequestOK
<1>3. req' = [req EXCEPT ![p] = r]
  BY DEF Go
<1> QED BY <1>2, <1>3, ReqTyped

LEMMA BeginTyped ==
  ASSUME TypeInv, NEW p \in Procs, NEW l \in Labels, NEW i \in Ids \cup {0},
         NEW s \in Slots \cup {NoSlot}, NEW w \in BOOLEAN, Begin(p, l, i, s, w),
         l \in RowLabels => i \in Ids,
         l \in SlotLabels => s \in Slots
  PROVE  req' \in [Procs -> Request] /\ \A q \in Procs : RequestOK(req'[q])
<1> DEFINE r == [Idle EXCEPT !.at = l, !.row = i, !.slot = s, !.wait = w]
<1>1. r \in Request /\ RequestOK(r)
  BY DEF Request, RequestOK, Idle
<1> QED BY <1>1, ReqTyped DEF Begin

LEMMA TakeUpTyped ==
  ASSUME TypeInv, NEW p \in Procs, NEW j \in req[p].todo, NEW l \in Labels \ SlotLabels,
         TakeUp(p, j, l)
  PROVE  req' \in [Procs -> Request] /\ \A q \in Procs : RequestOK(req'[q])
<1> DEFINE r == [req[p] EXCEPT !.at = l, !.row = j, !.slot = rows[j].slot, !.todo = @ \ {j}]
<1>1. req[p] \in Request /\ RequestOK(req[p]) /\ j \in Ids /\ rows[j] \in Row
  BY DEF TypeInv, TypeOK, Request
<1>2. r \in Request /\ RequestOK(r)
  BY <1>1 DEF Request, RequestOK, Row
<1>3. req' = [req EXCEPT ![p] = r]
  BY DEF TakeUp, TypeInv, TypeOK
<1> QED BY <1>2, <1>3, ReqTyped

LEMMA SkipTyped ==
  ASSUME TypeInv, NEW p \in Procs, NEW j, Skip(p, j)
  PROVE  req' \in [Procs -> Request] /\ \A q \in Procs : RequestOK(req'[q])
<1>1. req[p] \in Request /\ RequestOK(req[p]) /\ req[p].todo \ {j} \in SUBSET req[p].todo
  BY DEF TypeInv, TypeOK
<1> QED BY <1>1, ResumedTyped, ReqTyped DEF Skip

LEMMA RowEdited ==
  ASSUME NEW r \in Row, NEW st \in Statuses, NEW o \in {"none", "live", "expired"},
         NEW pay \in {"open", "waived", "record"}
  PROVE  /\ [r EXCEPT !.status = st] \in Row
         /\ [r EXCEPT !.offer = o] \in Row
         /\ [r EXCEPT !.pay = pay] \in Row
         /\ [r EXCEPT !.status = st, !.offer = o] \in Row
         /\ [r EXCEPT !.status = st, !.pay = pay] \in Row
BY DEF Row

LEMMA MarksTyped ==
  ASSUME TypeInv, NEW i \in Ids, Vet(i) \/ Loosen(i) \/ Drop(i) \/ UNCHANGED marks
  PROVE  vetted' \subseteq Ids /\ loose' \subseteq Ids
BY DEF TypeInv, TypeOK, Vet, Loosen, Drop, marks

(* The row and the slot a request is entitled to at its step.              *)
LEMMA Entitled ==
  ASSUME TypeInv, NEW p \in Procs
  PROVE  /\ req[p] \in Request
         /\ req[p].at \in RowLabels => req[p].row \in Ids /\ rows[req[p].row] \in Row
         /\ req[p].at \in SlotLabels => req[p].slot \in Slots
BY DEF TypeInv, TypeOK, RequestOK, Request

-----------------------------------------------------------------------------
(* Every step keeps the types: first the statements of requests under way. *)
LEMMA ContinueTyped ==
  ASSUME TypeInv, NEW p \in Procs, Continue(p)
  PROVE  TypeInv'
<1> USE Entitled DEF At
<1> DEFINE i == req[p].row
<1>1. CASE BookInsert(p)
  <2>1. rows' \in [Ids -> Row] /\ next' \in 1..(MaxRows + 1) /\ next \in Ids
    BY <1>1, InsertTyped DEF BookInsert, RowLabels, SlotLabels, Labels, Live, Statuses, Cancellable, Final, TypeInv
  <2>2. [req[p] EXCEPT !.at = "recheck", !.row = next] \in Request /\ RequestOK([req[p] EXCEPT !.at = "recheck", !.row = next])
    BY <1>1, <2>1 DEF BookInsert, Request, RequestOK, RowLabels, SlotLabels, Labels, TypeInv
  <2>3. req' = [req EXCEPT ![p] = [req[p] EXCEPT !.at = "recheck", !.row = next]]
    BY <1>1, TRUE DEF BookInsert, TypeInv, TypeOK
  <2>4. req' \in [Procs -> Request] /\ \A q \in Procs : RequestOK(req'[q])
    BY <1>1, <2>2, <2>3, ReqTyped
  <2>5. vetted' \subseteq Ids /\ loose' \subseteq Ids
    BY <1>1, InsertTyped DEF BookInsert, marks, TypeInv, TypeOK
  <2> QED BY <1>1, <2>1, <2>2, <2>3, <2>4, <2>5 DEF BookInsert, TypeInv, TypeOK, db, clock, marks
<1>2. CASE BookRecheck(p)
  <2>1. vetted' \subseteq Ids /\ loose' \subseteq Ids
    BY <1>2, MarksTyped DEF BookRecheck, RowLabels, SlotLabels, Labels
  <2>2. req' \in [Procs -> Request] /\ \A q \in Procs : RequestOK(req'[q])
    BY <1>2, GoTyped, EndTyped DEF BookRecheck, RowLabels, SlotLabels, Labels
  <2> QED BY <1>2, <2>1, <2>2 DEF BookRecheck, TypeInv, TypeOK, db, clock, marks
<1>3. CASE BookBackout(p)
  <2>1. rows' \in [Ids -> Row] /\ next' \in 1..(MaxRows + 1)
    BY <1>3, DeleteTyped DEF BookBackout, TypeInv
  <2>2. vetted' \subseteq Ids /\ loose' \subseteq Ids
    BY <1>3, MarksTyped DEF BookBackout, RowLabels, SlotLabels, Labels
  <2>3. req' \in [Procs -> Request] /\ \A q \in Procs : RequestOK(req'[q])
    BY <1>3, GoTyped, EndTyped DEF BookBackout, RowLabels, SlotLabels, Labels
  <2> QED BY <1>3, <2>1, <2>2, <2>3 DEF BookBackout, TypeInv, TypeOK, db, clock, marks
<1>4. CASE BookQueue(p)
  <2>1. rows' \in [Ids -> Row] /\ next' \in 1..(MaxRows + 1)
    BY <1>4, InsertTyped DEF BookQueue, RowLabels, SlotLabels, Labels, Live, Statuses, Cancellable, Final, TypeInv
  <2>2. req' \in [Procs -> Request] /\ \A q \in Procs : RequestOK(req'[q])
    BY <1>4, EndTyped DEF BookQueue
  <2> QED BY <1>4, <2>1, <2>2 DEF BookQueue, TypeInv, TypeOK, db, clock, marks
<1>5. CASE BookConfirm(p)
  <2>1. rows' \in [Ids -> Row] /\ next' \in 1..(MaxRows + 1)
    BY <1>5, RowEdited, UpdateTyped DEF BookConfirm, RowLabels, SlotLabels, Labels, Live, Statuses, Cancellable, Final, TypeInv
  <2>2. vetted' \subseteq Ids /\ loose' \subseteq Ids
    BY <1>5, MarksTyped DEF BookConfirm, RowLabels, SlotLabels, Labels
  <2>3. req' \in [Procs -> Request] /\ \A q \in Procs : RequestOK(req'[q])
    BY <1>5, EndTyped DEF BookConfirm
  <2> QED BY <1>5, <2>1, <2>2, <2>3 DEF BookConfirm, TypeInv, TypeOK, db, clock, marks
<1>6. CASE EventSave(p)
  <2>1. rows' \in [Ids -> Row] /\ next' \in 1..(MaxRows + 1)
    BY <1>6, DeleteTyped DEF EventSave, TypeInv, TypeOK, db
  <2>2. vetted' \subseteq Ids /\ loose' \subseteq Ids
    BY <1>6, MarksTyped DEF EventSave, RowLabels, SlotLabels, Labels
  <2>3. req' \in [Procs -> Request] /\ \A q \in Procs : RequestOK(req'[q])
    BY <1>6, EndTyped DEF EventSave
  <2> QED BY <1>6, <2>1, <2>2, <2>3 DEF EventSave, TypeInv, TypeOK, db, clock, marks
<1>7. CASE SeriesInsert(p)
  <2>1. rows' \in [Ids -> Row] /\ next' \in 1..(MaxRows + 1) /\ next \in Ids
    BY <1>7, InsertTyped DEF SeriesInsert, RowLabels, SlotLabels, Labels, Live, Statuses, Cancellable, Final, TypeInv
  <2>2. vetted' \subseteq Ids /\ loose' \subseteq Ids
    BY <1>7, <2>1, MarksTyped DEF SeriesInsert
  <2>3. req' \in [Procs -> Request] /\ \A q \in Procs : RequestOK(req'[q])
    BY <1>7, EndTyped DEF SeriesInsert
  <2> QED BY <1>7, <2>1, <2>2, <2>3 DEF SeriesInsert, TypeInv, TypeOK, db, clock, marks
<1>8. CASE AcceptCheck(p)
  <2>1. req' \in [Procs -> Request] /\ \A q \in Procs : RequestOK(req'[q])
    BY <1>8, GoTyped, EndTyped DEF AcceptCheck, RowLabels, SlotLabels, Labels
  <2> QED BY <1>8, <2>1 DEF AcceptCheck, TypeInv, TypeOK, db, clock, marks
<1>9. CASE AcceptWrite(p)
  <2>1. rows' \in [Ids -> Row] /\ next' \in 1..(MaxRows + 1)
    BY <1>9, RowEdited, UpdateTyped DEF AcceptWrite, RowLabels, SlotLabels, Labels, Live, Statuses, Cancellable, Final, TypeInv
  <2>2. vetted' \subseteq Ids /\ loose' \subseteq Ids
    BY <1>9, MarksTyped DEF AcceptWrite, RowLabels, SlotLabels, Labels
  <2>3. req' \in [Procs -> Request] /\ \A q \in Procs : RequestOK(req'[q])
    BY <1>9, GoTyped, EndTyped DEF AcceptWrite, RowLabels, SlotLabels, Labels
  <2> QED BY <1>9, <2>1, <2>2, <2>3 DEF AcceptWrite, TypeInv, TypeOK, db, clock, marks
<1>10. CASE AcceptBackout(p)
  <2>1. rows' \in [Ids -> Row] /\ next' \in 1..(MaxRows + 1)
    BY <1>10, RowEdited, UpdateTyped DEF AcceptBackout, RowLabels, SlotLabels, Labels, Live, Statuses, Cancellable, Final, TypeInv
  <2>2. vetted' \subseteq Ids /\ loose' \subseteq Ids
    BY <1>10, MarksTyped DEF AcceptBackout, RowLabels, SlotLabels, Labels
  <2>3. req' \in [Procs -> Request] /\ \A q \in Procs : RequestOK(req'[q])
    BY <1>10, GoTyped, EndTyped DEF AcceptBackout, RowLabels, SlotLabels, Labels
  <2> QED BY <1>10, <2>1, <2>2, <2>3 DEF AcceptBackout, TypeInv, TypeOK, db, clock, marks
<1>11. CASE AcceptRecheck(p)
  <2>1. vetted' \subseteq Ids /\ loose' \subseteq Ids
    BY <1>11, MarksTyped DEF AcceptRecheck, RowLabels, SlotLabels, Labels
  <2>2. req' \in [Procs -> Request] /\ \A q \in Procs : RequestOK(req'[q])
    BY <1>11, GoTyped, EndTyped DEF AcceptRecheck, RowLabels, SlotLabels, Labels
  <2> QED BY <1>11, <2>1, <2>2 DEF AcceptRecheck, TypeInv, TypeOK, db, clock, marks
<1>12. CASE CancelWrite(p)
  <2>1. rows' \in [Ids -> Row] /\ next' \in 1..(MaxRows + 1)
    BY <1>12, RowEdited, UpdateTyped DEF CancelWrite, RowLabels, SlotLabels, Labels, Live, Statuses, Cancellable, Final, TypeInv, TypeOK, db
  <2>2. vetted' \subseteq Ids /\ loose' \subseteq Ids
    BY <1>12, MarksTyped DEF CancelWrite, RowLabels, SlotLabels, Labels
  <2>3. req' \in [Procs -> Request] /\ \A q \in Procs : RequestOK(req'[q])
    BY <1>12, GoTyped, EndTyped DEF CancelWrite, RowLabels, SlotLabels, Labels
  <2> QED BY <1>12, <2>1, <2>2, <2>3 DEF CancelWrite, TypeInv, TypeOK, db, clock, marks
<1>13. CASE Listen(p)
  <2>1. [req[p] EXCEPT !.at = "pick", !.slot = rows[i].slot] \in Request /\ RequestOK([req[p] EXCEPT !.at = "pick", !.slot = rows[i].slot])
    BY <1>13, TRUE DEF Listen, Request, RequestOK, RowLabels, SlotLabels, Labels, Row, TypeInv
  <2>2. req' = [req EXCEPT ![p] = [req[p] EXCEPT !.at = "pick", !.slot = rows[i].slot]]
    BY <1>13, TRUE DEF Listen, TypeInv, TypeOK
  <2>3. req' \in [Procs -> Request] /\ \A q \in Procs : RequestOK(req'[q])
    BY <1>13, <2>1, <2>2, ReqTyped
  <2> QED BY <1>13, <2>1, <2>2, <2>3 DEF Listen, TypeInv, TypeOK, db, clock, marks
<1>14. CASE Pick(p)
  <2>1. CASE End(p)
    BY <1>14, <2>1, EndTyped DEF Pick, TypeInv, TypeOK, db, clock, marks
  <2>2. CASE ~End(p)
    <3>1. PICK j \in Waiting(req[p].slot) :
            req' = [req EXCEPT ![p].at = "verify", ![p].row = j, ![p].slot = rows[j].slot]
      BY <1>14, <2>2 DEF Pick
    <3> DEFINE r == [req[p] EXCEPT !.at = "verify", !.row = j, !.slot = rows[j].slot]
    <3>2. j \in Ids /\ rows[j].slot \in Slots \cup {NoSlot}
      BY DEF Waiting, TypeInv, TypeOK, Row
    <3>3. r \in Request /\ RequestOK(r)
      <4>1. req[p] \in Request /\ RequestOK(req[p])
        BY DEF TypeInv
      <4>2. r \in Request
        BY <3>2, <4>1 DEF Request, Labels
      <4> QED BY <3>2, <4>1, <4>2 DEF RequestOK, RowLabels, SlotLabels, Request
    <3>4. req' = [req EXCEPT ![p] = r]
      BY <3>1 DEF TypeInv, TypeOK
    <3>5. req' \in [Procs -> Request] /\ \A q \in Procs : RequestOK(req'[q])
      BY <3>3, <3>4, ReqTyped
    <3> QED BY <1>14, <3>5 DEF Pick, TypeInv, TypeOK, db, clock, marks
  <2> QED BY <2>1, <2>2
<1>15. CASE Verify(p)
  <2>1. req' \in [Procs -> Request] /\ \A q \in Procs : RequestOK(req'[q])
    BY <1>15, GoTyped, EndTyped DEF Verify, RowLabels, SlotLabels, Labels
  <2> QED BY <1>15, <2>1 DEF Verify, TypeInv, TypeOK, db, clock, marks
<1>16. CASE Offer(p)
  <2>1. rows' \in [Ids -> Row] /\ next' \in 1..(MaxRows + 1)
    <3>1. i \in Ids /\ rows[i] \in Row
      BY <1>16 DEF Offer, RowLabels, Labels
    <3>2. [rows[i] EXCEPT !.offer = "live"] \in Row
      BY <3>1, RowEdited DEF Statuses, Final
    <3>3. Update(i, [rows[i] EXCEPT !.offer = "live"]) \/ UNCHANGED db
      BY <1>16 DEF Offer
    <3> QED BY <3>2, <3>3, UpdateTyped DEF TypeInv, TypeOK, db
  <2>2. req' \in [Procs -> Request] /\ \A q \in Procs : RequestOK(req'[q])
    BY <1>16, EndTyped DEF Offer
  <2> QED BY <1>16, <2>1, <2>2 DEF Offer, TypeInv, TypeOK, db, clock, marks
<1>17. CASE ExpireOne(p)
  <2>1. PICK j \in req[p].todo :
          \/ /\ rows[j].status = "waitlisted"
             /\ Update(j, [rows[j] EXCEPT !.status = "cancelled", !.offer = "none"])
             /\ TakeUp(p, j, "pick")
          \/ Skip(p, j) /\ UNCHANGED db
    BY <1>17 DEF ExpireOne
  <2>2. j \in Ids /\ rows[j] \in Row
    BY DEF Request, TypeInv, TypeOK
  <2>3. rows' \in [Ids -> Row] /\ next' \in 1..(MaxRows + 1)
    BY <2>1, <2>2, RowEdited, UpdateTyped
    DEF Statuses, Cancellable, Final, Live, TypeInv, TypeOK, db
  <2>4. req' \in [Procs -> Request] /\ \A q \in Procs : RequestOK(req'[q])
    BY <2>1, <2>2, TakeUpTyped, SkipTyped DEF RowLabels, SlotLabels, Labels
  <2> QED BY <1>17, <2>3, <2>4 DEF ExpireOne, TypeInv, TypeOK, db, clock, marks
<1>18. CASE SweepOne(p)
  <2>1. PICK j \in req[p].todo : TakeUp(p, j, "cancel") \/ Skip(p, j)
    BY <1>18 DEF SweepOne
  <2>2. req' \in [Procs -> Request] /\ \A q \in Procs : RequestOK(req'[q])
    BY <2>1, TakeUpTyped, SkipTyped DEF RowLabels, SlotLabels, Labels
  <2> QED BY <1>18, <2>2 DEF SweepOne, TypeInv, TypeOK, db, clock, marks
<1>19. CASE CheckoutWrite(p)
  <2>1. rows' \in [Ids -> Row] /\ next' \in 1..(MaxRows + 1)
    BY <1>19, RowEdited, UpdateTyped DEF CheckoutWrite, RowLabels, SlotLabels, Labels, Live, Statuses, Cancellable, Final, TypeInv
  <2>2. vetted' \subseteq Ids /\ loose' \subseteq Ids
    BY <1>19, MarksTyped DEF CheckoutWrite, RowLabels, SlotLabels, Labels
  <2>3. req' \in [Procs -> Request] /\ \A q \in Procs : RequestOK(req'[q])
    BY <1>19, EndTyped DEF CheckoutWrite
  <2> QED BY <1>19, <2>1, <2>2, <2>3 DEF CheckoutWrite, TypeInv, TypeOK, db, clock, marks
<1>20. CASE CompWrite(p)
  <2>1. rows' \in [Ids -> Row] /\ next' \in 1..(MaxRows + 1)
    <3> DEFINE pay == IF rows[i].pay = "open" THEN "waived" ELSE rows[i].pay
    <3>1. i \in Ids /\ rows[i] \in Row
      BY <1>20 DEF CompWrite, RowLabels, Labels
    <3>2. pay \in {"open", "waived", "record"}
      BY <3>1 DEF Row
    <3>3. [rows[i] EXCEPT !.pay = pay] \in Row
      BY <3>1, <3>2 DEF Row
    <3>4. Update(i, [rows[i] EXCEPT !.pay = pay])
      BY <1>20 DEF CompWrite
    <3> QED BY <3>3, <3>4, UpdateTyped DEF TypeInv
  <2>2. req' \in [Procs -> Request] /\ \A q \in Procs : RequestOK(req'[q])
    BY <1>20, EndTyped DEF CompWrite
  <2> QED BY <1>20, <2>1, <2>2 DEF CompWrite, TypeInv, TypeOK, db, clock, marks
<1> QED BY <1>1, <1>2, <1>3, <1>4, <1>5, <1>6, <1>7, <1>8, <1>9, <1>10, <1>11, <1>12, <1>13, <1>14, <1>15, <1>16, <1>17, <1>18, <1>19, <1>20 DEF Continue
(* Then the calls that arrive, the single statements and the environment.  *)
LEMMA ArriveTyped ==
  ASSUME TypeInv, NEW p \in Procs, Arrive(p)
  PROVE  TypeInv'
<1> USE DEF RowLabels, SlotLabels, Labels
<1>1. \A i \in Ids : rows[i] \in Row /\ rows[i].slot \in Slots \cup {NoSlot}
  BY DEF TypeInv, TypeOK, Row
<1>2. CASE \E s \in Slots, w \in BOOLEAN : BookCheck(p, s, w)
  <2>1. req' \in [Procs -> Request] /\ \A q \in Procs : RequestOK(req'[q])
    <3>1. PICK s \in Slots, w \in BOOLEAN :
            Begin(p, "queue", 0, s, w) \/ Begin(p, "insert", 0, s, w)
      BY <1>2 DEF BookCheck
    <3>2. PICK l \in {"queue", "insert"} : Begin(p, l, 0, s, w)
      BY <3>1
    <3> DEFINE r == [Idle EXCEPT !.at = l, !.row = 0, !.slot = s, !.wait = w]
    <3>3. r \in Request /\ RequestOK(r)
      BY DEF Idle, Request, RequestOK
    <3>4. req' = [req EXCEPT ![p] = r]
      BY <3>2 DEF Begin
    <3> QED BY <3>3, <3>4, ReqTyped
  <2> QED BY <1>2, <2>1 DEF BookCheck, TypeInv, TypeOK, db, clock, marks
<1>3. CASE \E s \in Slots : EventHold(p, s)
  <2>1. PICK s \in Slots : EventHold(p, s)
    BY <1>3
  <2>2. /\ rows' \in [Ids -> Row] /\ next' \in 1..(MaxRows + 1)
        /\ next \in Ids
    BY <2>1, InsertTyped DEF EventHold, Statuses, Cancellable, Live, TypeInv
  <2>3. req' \in [Procs -> Request] /\ \A q \in Procs : RequestOK(req'[q])
    BY <2>1, <2>2, BeginTyped DEF EventHold
  <2>4. vetted' \subseteq Ids /\ loose' \subseteq Ids
    BY <2>1, <2>2, MarksTyped DEF EventHold
  <2> QED BY <2>1, <2>2, <2>3, <2>4 DEF EventHold, TypeInv, TypeOK, clock
<1>4. CASE \E s \in Slots : SeriesCheck(p, s)
  <2>1. req' \in [Procs -> Request] /\ \A q \in Procs : RequestOK(req'[q])
    BY <1>4, BeginTyped DEF SeriesCheck
  <2> QED BY <1>4, <2>1 DEF SeriesCheck, TypeInv, TypeOK, db, clock, marks
<1>5. CASE \E i \in Ids : AcceptRead(p, i)
  <2>1. req' \in [Procs -> Request] /\ \A q \in Procs : RequestOK(req'[q])
    <3>1. PICK i \in Ids : Begin(p, "offerCheck", i, rows[i].slot, FALSE)
      BY <1>5 DEF AcceptRead
    <3> QED BY <1>1, <3>1, BeginTyped
  <2> QED BY <1>5, <2>1 DEF AcceptRead, TypeInv, TypeOK, db, clock, marks
<1>6. CASE \E i \in Ids : CheckoutRead(p, i)
  <2>1. req' \in [Procs -> Request] /\ \A q \in Procs : RequestOK(req'[q])
    BY <1>6, BeginTyped DEF CheckoutRead
  <2> QED BY <1>6, <2>1 DEF CheckoutRead, TypeInv, TypeOK, db, clock, marks
<1>7. CASE \E i \in Ids : CompConfirm(p, i)
  <2>1. PICK i \in Ids : CompConfirm(p, i)
    BY <1>7
  <2>2. [rows[i] EXCEPT !.status = "confirmed"] \in Row
    BY <1>1, RowEdited DEF Statuses, Cancellable, Live
  <2>3. rows' \in [Ids -> Row] /\ next' \in 1..(MaxRows + 1)
    BY <2>1, <2>2, UpdateTyped DEF CompConfirm, TypeInv, TypeOK, db
  <2>4. req' \in [Procs -> Request] /\ \A q \in Procs : RequestOK(req'[q])
    BY <2>1, BeginTyped DEF CompConfirm
  <2> QED BY <2>1, <2>3, <2>4 DEF CompConfirm, TypeInv, TypeOK, clock, marks
<1>8. CASE \E i \in Ids, staff \in BOOLEAN : CancelRead(p, i, staff)
  <2>1. req' \in [Procs -> Request] /\ \A q \in Procs : RequestOK(req'[q])
    BY <1>1, <1>8, BeginTyped DEF CancelRead
  <2> QED BY <1>8, <2>1 DEF CancelRead, TypeInv, TypeOK, db, clock, marks
<1> QED BY <1>2, <1>3, <1>4, <1>5, <1>6, <1>7, <1>8 DEF Arrive

LEMMA ResolveTyped ==
  ASSUME TypeInv, NEW i \in Ids, NEW e, NEW from, NEW st \in Statuses,
         NEW pay \in {"open", "waived", "record"}, Resolve(i, e, from, st, pay)
  PROVE  TypeInv'
<1>1. [rows[i] EXCEPT !.status = st, !.pay = pay] \in Row
  BY RowEdited DEF TypeInv, TypeOK
<1>2. rows' \in [Ids -> Row] /\ next' \in 1..(MaxRows + 1)
  BY <1>1, UpdateTyped DEF Resolve, TypeInv
<1> QED BY <1>2 DEF Resolve, TypeInv, TypeOK, clock, marks

LEMMA SingleTyped ==
  ASSUME TypeInv, Single
  PROVE  TypeInv'
<1>1. CASE \E s \in Slots : StaffBook(s)
  <2>1. /\ rows' \in [Ids -> Row] /\ next' \in 1..(MaxRows + 1)
        /\ next \in Ids
    BY <1>1, InsertTyped DEF StaffBook, Statuses, Cancellable, Live, TypeInv
  <2>2. vetted' \subseteq Ids /\ loose' \subseteq Ids
    BY <1>1, <2>1, MarksTyped DEF StaffBook
  <2> QED BY <1>1, <2>1, <2>2 DEF StaffBook, TypeInv, TypeOK, clock
<1>2. CASE \E i \in Ids : Confirm(i) \/ Settle(i) \/ MarkComplete(i) \/ MarkNoShow(i) \/ RecordCash(i)
  <2>1. PICK i \in Ids : Confirm(i) \/ Settle(i) \/ MarkComplete(i) \/ MarkNoShow(i) \/ RecordCash(i)
    BY <1>2
  <2>2. rows[i].pay \in {"open", "waived", "record"}
    BY DEF TypeInv, TypeOK, Row
  <2> QED BY <2>1, <2>2, ResolveTyped
          DEF Confirm, Settle, MarkComplete, MarkNoShow, RecordCash, Statuses, Cancellable, Live, Final
<1>3. CASE AutoComplete
  <2>1. \A i \in Ids : rows[i] \in Row /\ [rows[i] EXCEPT !.status = "completed"] \in Row
    BY RowEdited DEF TypeInv, TypeOK, Statuses, Final
  <2>2. rows' \in [Ids -> Row]
    BY <1>3, <2>1 DEF AutoComplete
  <2> QED BY <1>3, <2>2 DEF AutoComplete, TypeInv, TypeOK, clock, marks
<1> QED BY <1>1, <1>2, <1>3 DEF Single

LEMMA TickTyped ==
  ASSUME TypeInv, Tick
  PROVE  TypeInv'
<1>1. CASE \E s \in Slots : SlotStarts(s) \/ SlotEnds(s)
  BY <1>1 DEF SlotStarts, SlotEnds, TypeInv, TypeOK, db, marks
<1>2. CASE \E i \in Ids : OfferLapses(i)
  <2>1. PICK i \in Ids : OfferLapses(i)
    BY <1>2
  <2>2. [rows[i] EXCEPT !.offer = "expired"] \in Row
    BY DEF TypeInv, TypeOK, Row
  <2>3. rows' \in [Ids -> Row] /\ next' \in 1..(MaxRows + 1)
    BY <2>1, <2>2, UpdateTyped DEF OfferLapses, TypeInv
  <2> QED BY <2>1, <2>3 DEF OfferLapses, TypeInv, TypeOK, clock, marks
<1> QED BY <1>1, <1>2 DEF Tick

LEMMA CrashTyped ==
  ASSUME TypeInv, NEW p \in Procs, Crash(p)
  PROVE  TypeInv'
<1>1. req' \in [Procs -> Request] /\ \A q \in Procs : RequestOK(req'[q])
  BY IdleTyped, ReqTyped DEF Crash
<1>2. vetted' \subseteq Ids /\ loose' \subseteq Ids
  <2> DEFINE i == req[p].row
  <2>1. CASE req[p].at \in Placing
    <3>1. i \in Ids
      BY <2>1, Entitled DEF Placing, RowLabels, Labels
    <3> QED BY <3>1, MarksTyped DEF Crash
  <2>2. CASE req[p].at \notin Placing
    BY <2>2 DEF Crash, marks, TypeInv, TypeOK
  <2> QED BY <2>1, <2>2
<1>3. crashes' \in 0..MaxCrashes
  BY DEF Crash, TypeInv, TypeOK
<1> QED BY <1>1, <1>2, <1>3 DEF Crash, TypeInv, TypeOK, db, clock

LEMMA SweepTyped ==
  ASSUME TypeInv, NEW p \in Procs, NEW l \in {"expire", "sweep"}, NEW found \in SUBSET Ids,
         StartSweep(p, l, found)
  PROVE  TypeInv'
<1> DEFINE r == [Idle EXCEPT !.at = l, !.loop = l, !.todo = found]
<1>1. r \in Request /\ RequestOK(r)
  BY DEF Idle, Request, RequestOK, Labels, RowLabels, SlotLabels
<1>2. req' \in [Procs -> Request] /\ \A q \in Procs : RequestOK(req'[q])
  BY <1>1, ReqTyped DEF StartSweep
<1> QED BY <1>2 DEF StartSweep, TypeInv, TypeOK, db, clock, marks

LEMMA StepTyped == TypeInv /\ [Next]_vars => TypeInv'
<1> SUFFICES ASSUME TypeInv, [Next]_vars PROVE TypeInv'
  OBVIOUS
<1>1. ASSUME NEW p \in Procs, Continue(p) \/ Arrive(p) \/ Crash(p) PROVE TypeInv'
  BY <1>1, ContinueTyped, ArriveTyped, CrashTyped
<1>2. CASE ExpireSelect
  BY <1>2, SweepTyped DEF ExpireSelect, Lapsed
<1>3. CASE SweepSelect
  BY <1>3, SweepTyped DEF SweepSelect, Unconfirmed
<1>4. CASE UNCHANGED vars
  BY <1>4 DEF vars, db, clock, marks, TypeInv, TypeOK
<1> QED BY <1>1, <1>2, <1>3, <1>4, SingleTyped, TickTyped DEF Next

LEMMA InitTyped == Init => TypeInv
BY IdleTyped DEF Init, TypeInv, TypeOK, NoRow, Row, Statuses

(* The tables and the requests under way keep their types: in particular a *)
(* handler that goes on after an await still refers to a row of the table. *)
THEOREM TypeCorrect == Spec => []TypeOK
<1>1. TypeInv => TypeOK
  BY DEF TypeInv
<1> QED BY <1>1, InitTyped, StepTyped, PTL DEF Spec

-----------------------------------------------------------------------------
(* The table and what requests remember of it.                             *)
(*                                                                         *)
(* Rows are inserted at the next id and never change their slot; a request *)
(* refers to rows that were inserted, and the slot it works with is that   *)
(* of its row for as long as the row exists.                               *)
KeptLabels == {"recheck", "offerCheck", "offerWrite", "offerRecheck"}

Present(i) == rows[i].status # "absent"

RemembersRight(p) ==
  /\ req[p].row < next
  /\ \A j \in req[p].todo : j < next
  /\ req[p].at \in KeptLabels /\ Present(req[p].row)
       => rows[req[p].row].slot = req[p].slot

TableInv ==
  /\ \A i \in Ids : Present(i) => i < next /\ rows[i].slot \in Slots
  /\ \A p \in Procs : RemembersRight(p)

(* Marks are on active rows, accepted rows do not clash, and every active  *)
(* row is accepted, loose, or still in the hands of the request that wrote *)
(* it.                                                                     *)
MarkInv ==
  /\ \A i \in vetted \cup loose : Active(i)
  /\ \A i, j \in vetted : i # j => ~Overlap(rows[i].slot, rows[j].slot)
  /\ \A i \in Ids : Active(i) => i \in vetted \cup loose \/ InFlight(i)

RoomInv == TypeInv /\ TableInv /\ MarkInv

(* What a step may do to the table.                                        *)
RowsStep ==
  /\ next' \in {next, next + 1}
  /\ \A i \in Ids : Present(i) /\ Present(i)' => rows'[i].slot = rows[i].slot
  /\ \A i \in Ids : ~Present(i) /\ Present(i)'
                      => i = next /\ next' = next + 1 /\ rows'[i].slot \in Slots

LEMMA InsertStep ==
  ASSUME TypeInv, TableInv, NEW s \in Slots, NEW st \in Statuses, NEW k \in {"member", "event"},
         Insert(NewRow(s, st, k))
  PROVE  RowsStep
<1>1. NewRow(s, st, k).slot = s
  BY DEF NewRow, NoRow
<1>2. PICK r : r.slot = s /\ rows' = [rows EXCEPT ![next] = r] /\ next' = next + 1
  BY <1>1 DEF Insert
<1>3. next \in Ids => ~Present(next)
  BY DEF TableInv
<1> QED BY <1>2, <1>3 DEF TypeInv, TypeOK, RowsStep, Present

LEMMA UpdateStep ==
  ASSUME TypeInv, NEW i \in Ids, NEW r \in Row, Update(i, r), r.slot = rows[i].slot
  PROVE  RowsStep
BY DEF TypeInv, TypeOK, Update, RowsStep, Present

LEMMA DeleteStep ==
  ASSUME TypeInv, NEW i \in Ids, Delete(i)
  PROVE  RowsStep
BY DEF TypeInv, TypeOK, Delete, NoRow, RowsStep, Present

LEMMA NoDbStep ==
  ASSUME TypeInv, UNCHANGED db
  PROVE  RowsStep
BY DEF TypeInv, TypeOK, db, RowsStep, Present

(* A step that changes one request keeps the table invariant if that       *)
(* request still remembers right.                                          *)
LEMMA TableStep ==
  ASSUME TypeInv, TypeInv', TableInv, RowsStep, NEW p \in Procs,
         \A q \in Procs \ {p} : req'[q] = req[q], RemembersRight(p)'
  PROVE  TableInv'
<1>1. \A i \in Ids : Present(i)' => i < next' /\ rows'[i].slot \in Slots
  BY DEF TableInv, RowsStep, Present, TypeInv, TypeOK
<1>2. ASSUME NEW q \in Procs \ {p} PROVE RemembersRight(q)'
  <2>1. RemembersRight(q) /\ req'[q] = req[q] /\ req[q] \in Request
    BY DEF TableInv, TypeInv, TypeOK
  <2>2. next' >= next /\ next \in Nat
    BY DEF RowsStep, TypeInv, TypeOK
  <2>3. req[q].at \in KeptLabels => req[q].row \in Ids /\ req[q].row # next
    BY <2>1 DEF KeptLabels, TypeInv, RequestOK, RowLabels, Labels, RemembersRight
  <2>4. \A j \in req[q].todo : j \in Ids
    BY <2>1 DEF Request
  <2>5. req[q].row \in Nat
    BY <2>1 DEF Request
  <2> QED BY <2>1, <2>2, <2>3, <2>4, <2>5 DEF RemembersRight, RowsStep, Present
<1> QED BY <1>1, <1>2 DEF TableInv

(* A step that leaves every request alone.                                 *)
LEMMA QuietTableStep ==
  ASSUME TypeInv, TypeInv', TableInv, RowsStep, UNCHANGED req
  PROVE  TableInv'
<1>1. \A i \in Ids : Present(i)' => i < next' /\ rows'[i].slot \in Slots
  BY DEF TableInv, RowsStep, Present, TypeInv, TypeOK
<1>2. ASSUME NEW q \in Procs PROVE RemembersRight(q)'
  <2>1. RemembersRight(q) /\ req'[q] = req[q] /\ req[q] \in Request
    BY DEF TableInv, TypeInv, TypeOK
  <2>2. next' >= next /\ next \in Nat
    BY DEF RowsStep, TypeInv, TypeOK
  <2>3. req[q].at \in KeptLabels => req[q].row \in Ids /\ req[q].row # next
    BY <2>1 DEF KeptLabels, TypeInv, RequestOK, RowLabels, Labels, RemembersRight
  <2>4. (\A j \in req[q].todo : j \in Ids) /\ req[q].row \in Nat
    BY <2>1 DEF Request
  <2> QED BY <2>1, <2>2, <2>3, <2>4 DEF RemembersRight, RowsStep, Present
<1> QED BY <1>1, <1>2 DEF TableInv

-----------------------------------------------------------------------------
(* Steps on the marks. A local step concerns one row: the others keep their *)
(* marks, their slots and the requests that hold them. It is either nothing *)
(* to the calendar, or the acceptance or the release of that row.          *)
Same(j) ==
  /\ Active(j)' <=> Active(j)
  /\ Active(j) => rows'[j].slot = rows[j].slot
  /\ j \in vetted' <=> j \in vetted
  /\ j \in loose' <=> j \in loose
  /\ Active(j) /\ InFlight(j) => InFlight(j)'

CalendarStep == [Calendar!Next]_Accepted

LEMMA CalendarLocal ==
  ASSUME TypeInv, TypeInv', TableInv, TableInv', MarkInv, MarkInv', NEW i \in Ids,
         \A j \in Ids \ {i} : Same(j),
         i \in vetted /\ i \in vetted' => rows'[i].slot = rows[i].slot
  PROVE  CalendarStep
<1> DEFINE new == IF i \in vetted' THEN rows'[i].slot ELSE NoSlot
<1>1. Accepted' = [Accepted EXCEPT ![i] = new]
  BY DEF Accepted, Same, MarkInv
<1>2. CASE i \in vetted /\ i \in vetted'
  BY <1>1, <1>2 DEF Accepted, CalendarStep
<1>3. CASE i \notin vetted /\ i \notin vetted'
  BY <1>1, <1>3 DEF Accepted, CalendarStep
<1>4. CASE i \in vetted /\ i \notin vetted'
  <2>1. Accepted[i] # NoSlot
    BY <1>4 DEF Accepted, MarkInv, Active, TableInv, Present
  <2>2. Calendar!Release(i)
    BY <1>1, <1>4, <2>1 DEF Calendar!Release
  <2> QED BY <2>2 DEF CalendarStep, Calendar!Next
<1>5. CASE i \notin vetted /\ i \in vetted'
  <2> DEFINE s == rows'[i].slot
  <2>1. s \in Slots /\ Accepted[i] = NoSlot
    BY <1>5 DEF Accepted, MarkInv, Active, TableInv, Present
  <2>2. ASSUME NEW k \in Ids \ {i} PROVE <<Accepted[k], s>> \notin Clash
    <3>1. CASE k \in vetted
      BY <1>5, <3>1 DEF Accepted, MarkInv, Same, Overlap
    <3>2. CASE k \notin vetted
      BY <3>2 DEF Accepted
    <3> QED BY <3>1, <3>2
  <2>3. Calendar!Accept(i, s)
    BY <1>1, <1>5, <2>1, <2>2 DEF Calendar!Accept, Calendar!Free
  <2> QED BY <2>1, <2>3 DEF CalendarStep, Calendar!Next
<1> QED BY <1>2, <1>3, <1>4, <1>5

LEMMA LocalStep ==
  ASSUME TypeInv, TypeInv', MarkInv, NEW i \in Ids,
         \A j \in Ids \ {i} : Same(j),
         i \in vetted' \cup loose' => Active(i)',
         Active(i)' => i \in vetted' \cup loose' \/ InFlight(i)',
         i \in vetted' => \A j \in vetted \ {i} : ~Overlap(rows'[i].slot, rows[j].slot)
  PROVE  MarkInv'
<1>1. \A j \in vetted' \cup loose' : Active(j)'
  BY DEF MarkInv, Same, TypeInv, TypeOK
<1>2. \A j \in vetted' \ {i} : j \in vetted /\ rows'[j].slot = rows[j].slot
  BY DEF MarkInv, Same, TypeInv, TypeOK
<1>3. \A j, k \in vetted' : j # k => ~Overlap(rows'[j].slot, rows'[k].slot)
  BY <1>2 DEF MarkInv, Overlap
<1>4. \A j \in Ids : Active(j)' => j \in vetted' \cup loose' \/ InFlight(j)'
  BY DEF MarkInv, Same
<1> QED BY <1>1, <1>3, <1>4 DEF MarkInv

(* A step that is the same for every row.                                  *)
LEMMA QuietStep ==
  ASSUME TypeInv, MarkInv, UNCHANGED marks, \A j \in Ids : Same(j)
  PROVE  MarkInv' /\ CalendarStep
<1>1. MarkInv'
  BY DEF MarkInv, Same, marks, TypeInv, TypeOK, Overlap
<1>2. Accepted' = Accepted
  BY DEF Accepted, Same, marks, MarkInv
<1> QED BY <1>1, <1>2 DEF CalendarStep

-----------------------------------------------------------------------------
(* The two forms every action takes.                                       *)
Safe == RoomInv' /\ CalendarStep

OthersWait(p) == \A q \in Procs \ {p} : req'[q] = req[q]

LEMMA FlightKept ==
  ASSUME TypeInv, NEW p \in Procs, OthersWait(p), NEW j \in Ids, InFlight(j),
         req[p].at \in Placing /\ req[p].row = j => req'[p].at \in Placing /\ req'[p].row = j
  PROVE  InFlight(j)'
BY DEF InFlight, OthersWait

LEMMA SlotKept ==
  ASSUME RowsStep, NEW j \in Ids, Active(j), Active(j)'
  PROVE  rows'[j].slot = rows[j].slot
BY DEF RowsStep, Present, Active

(* No row enters or leaves the room, no mark moves, and a request that is  *)
(* placing a row goes on placing it.                                       *)
LEMMA QuietAction ==
  ASSUME RoomInv, TypeInv', NEW p \in Procs, RowsStep, OthersWait(p), RemembersRight(p)',
         UNCHANGED marks, \A j \in Ids : Active(j)' <=> Active(j),
         req[p].at \in Placing => req'[p].at \in Placing /\ req'[p].row = req[p].row
  PROVE  Safe
<1>1. TableInv'
  BY TableStep DEF RoomInv, OthersWait
<1>2. \A j \in Ids : Same(j)
  BY FlightKept, SlotKept DEF Same, marks, RoomInv
<1> QED BY <1>1, <1>2, QuietStep DEF Safe, RoomInv

(* Only row i enters or leaves the room or changes its marks.              *)
LEMMA LocalRow ==
  ASSUME RoomInv, TypeInv', TableInv', RowsStep, NEW i \in Ids,
         \A j \in Ids \ {i} : /\ (Active(j)' <=> Active(j))
                             /\ (j \in vetted' <=> j \in vetted)
                             /\ (j \in loose' <=> j \in loose)
                             /\ (InFlight(j) => InFlight(j)'),
         i \in vetted' \cup loose' => Active(i)',
         Active(i)' => i \in vetted' \cup loose' \/ InFlight(i)',
         i \in vetted' => \A j \in vetted \ {i} : ~Overlap(rows'[i].slot, rows[j].slot)
  PROVE  Safe
<1>1. ASSUME NEW j \in Ids \ {i} PROVE Same(j)
  BY SlotKept DEF Same
<1>2. MarkInv'
  BY <1>1, LocalStep DEF RoomInv
<1>3. i \in vetted /\ i \in vetted' => rows'[i].slot = rows[i].slot
  BY SlotKept DEF RoomInv, MarkInv
<1> QED BY <1>1, <1>2, <1>3, CalendarLocal DEF Safe, RoomInv

LEMMA LocalAction ==
  ASSUME RoomInv, TypeInv', NEW p \in Procs, RowsStep, OthersWait(p), RemembersRight(p)',
         NEW i \in Ids,
         \A j \in Ids \ {i} : /\ (Active(j)' <=> Active(j))
                             /\ (j \in vetted' <=> j \in vetted)
                             /\ (j \in loose' <=> j \in loose),
         req[p].at \in Placing => req[p].row = i,
         i \in vetted' \cup loose' => Active(i)',
         Active(i)' => i \in vetted' \cup loose' \/ InFlight(i)',
         i \in vetted' => \A j \in vetted \ {i} : ~Overlap(rows'[i].slot, rows[j].slot)
  PROVE  Safe
<1>1. TableInv'
  BY TableStep DEF RoomInv, OthersWait
<1>2. \A j \in Ids \ {i} : InFlight(j) => InFlight(j)'
  BY FlightKept DEF RoomInv
<1> QED BY <1>1, <1>2, LocalRow

-----------------------------------------------------------------------------
(* What the control operators leave behind.                                *)
LEMMA EndLeaves ==
  ASSUME RoomInv, NEW p \in Procs, End(p), next' \in {next, next + 1}
  PROVE  OthersWait(p) /\ RemembersRight(p)' /\ req'[p].at \notin Placing
<1>1. req[p] \in Request /\ RemembersRight(p) /\ next \in Nat /\ next > 0
  BY DEF RoomInv, TypeInv, TypeOK, TableInv
<1>2. OthersWait(p) /\ req'[p] = Resumed(req[p], req[p].todo)
  BY DEF End, OthersWait, RoomInv, TypeInv, TypeOK
<1>3. /\ req'[p].row = 0
      /\ req'[p].todo = req[p].todo
      /\ req'[p].at \in {"idle", "none", "expire", "sweep"}
  <2>1. CASE req[p].todo = {}
    BY <1>2, <2>1 DEF Resumed, Idle
  <2>2. CASE req[p].todo # {}
    <3>1. req'[p] = [Idle EXCEPT !.at = req[p].loop, !.loop = req[p].loop, !.todo = req[p].todo]
      BY <1>2, <2>2 DEF Resumed
    <3>2. req[p].loop \in {"none", "expire", "sweep"}
      BY <1>1 DEF Request
    <3> QED BY <3>1, <3>2 DEF Idle
  <2> QED BY <2>1, <2>2
<1>4. RemembersRight(p)'
  BY <1>1, <1>3 DEF RemembersRight, KeptLabels, Request
<1> QED BY <1>2, <1>3, <1>4 DEF Placing

LEMMA GoLeaves ==
  ASSUME RoomInv, NEW p \in Procs, NEW l \in Labels, Go(p, l), RowsStep,
         l \in KeptLabels => req[p].at \in KeptLabels
  PROVE  OthersWait(p) /\ RemembersRight(p)' /\ req'[p].at = l /\ req'[p].row = req[p].row
<1>1. req[p] \in Request /\ RemembersRight(p) /\ next \in Nat
  BY DEF RoomInv, TypeInv, TypeOK, TableInv
<1>2. OthersWait(p) /\ req'[p] = [req[p] EXCEPT !.at = l]
  BY DEF Go, OthersWait, RoomInv, TypeInv, TypeOK
<1>3. /\ req'[p].at = l /\ req'[p].row = req[p].row
      /\ req'[p].slot = req[p].slot /\ req'[p].todo = req[p].todo
  BY <1>1, <1>2 DEF Request
<1>4. req[p].at \in KeptLabels => req[p].row \in Ids
  BY <1>1 DEF RoomInv, TypeInv, RequestOK, RowLabels, KeptLabels, Labels
<1>5. RemembersRight(p)'
  BY <1>1, <1>3, <1>4 DEF RemembersRight, RowsStep, Present, Request
<1> QED BY <1>2, <1>3, <1>5

LEMMA BeginLeaves ==
  ASSUME RoomInv, TypeInv', NEW p \in Procs, NEW l \in Labels, NEW i \in Ids \cup {0},
         NEW s, NEW w, Begin(p, l, i, s, w),
         i < next',
         l \in KeptLabels => (Present(i)' => rows'[i].slot = s)
  PROVE  OthersWait(p) /\ RemembersRight(p)' /\ req'[p].at = l /\ req'[p].row = i
<1>1. OthersWait(p) /\ req'[p] = [Idle EXCEPT !.at = l, !.row = i, !.slot = s, !.wait = w]
  BY DEF Begin, OthersWait, RoomInv, TypeInv, TypeOK
<1>2. /\ req'[p].at = l /\ req'[p].row = i
      /\ req'[p].slot = s /\ req'[p].todo = {}
  BY <1>1 DEF Idle
<1> QED BY <1>1, <1>2 DEF RemembersRight, Present

LEMMA AtRow ==
  ASSUME RoomInv, NEW p \in Procs, req[p].at \in RowLabels
  PROVE  req[p].row \in Ids /\ rows[req[p].row] \in Row
BY DEF RoomInv, TypeInv, TypeOK, RequestOK

LEMMA UpdateLeaves ==
  ASSUME RoomInv, NEW i \in Ids, NEW r \in Row, Update(i, r), r.slot = rows[i].slot
  PROVE  /\ RowsStep
         /\ \A j \in Ids \ {i} : Active(j)' <=> Active(j)
         /\ Present(i) => rows'[i] = r
         /\ ~Present(i) => ~Active(i) /\ ~Active(i)'
BY UpdateStep DEF RoomInv, TypeInv, TypeOK, Update, Active, Present

LEMMA SameRows ==
  ASSUME RoomInv, UNCHANGED db
  PROVE  /\ RowsStep
         /\ rows' = rows
         /\ \A j \in Ids : Active(j)' <=> Active(j)
BY NoDbStep DEF RoomInv, Active, db

LEMMA MarksOfOthers ==
  ASSUME NEW i, Vet(i) \/ Loosen(i) \/ Drop(i) \/ UNCHANGED marks
  PROVE  \A j \in Ids \ {i} : (j \in vetted' <=> j \in vetted) /\ (j \in loose' <=> j \in loose)
BY DEF Vet, Loosen, Drop, marks

LEMMA InsertLeaves ==
  ASSUME RoomInv, NEW s \in Slots, NEW st \in Statuses, NEW k \in {"member", "event"},
         Insert(NewRow(s, st, k))
  PROVE  /\ RowsStep
         /\ next \in Ids /\ ~Active(next) /\ next \notin vetted \cup loose
         /\ rows'[next].status = st /\ rows'[next].slot = s
         /\ \A j \in Ids \ {next} : Active(j)' <=> Active(j)
         /\ next' = next + 1
<1>1. NewRow(s, st, k).slot = s /\ NewRow(s, st, k).status = st
  BY DEF NewRow, NoRow
<1>2. next \in Ids /\ ~Present(next)
  BY DEF Insert, RoomInv, TableInv
<1>3. PICK r : r.slot = s /\ r.status = st /\ rows' = [rows EXCEPT ![next] = r] /\ next' = next + 1
  BY <1>1 DEF Insert
<1>4. RowsStep
  BY InsertStep DEF RoomInv
<1>5. rows'[next] = r /\ \A j \in Ids \ {next} : rows'[j] = rows[j]
  BY <1>2, <1>3 DEF RoomInv, TypeInv, TypeOK
<1> QED BY <1>2, <1>3, <1>4, <1>5 DEF RoomInv, MarkInv, Active, Present

(* A statement that inserts a row: one for the waitlist, one of a writer   *)
(* that will not look again, or one that its own request goes on placing.  *)
LEMMA InsertAction ==
  ASSUME RoomInv, TypeInv', NEW p \in Procs, OthersWait(p), RemembersRight(p)',
         NEW s \in Slots, NEW st \in Statuses, NEW k \in {"member", "event"},
         Insert(NewRow(s, st, k)), req[p].at \notin Placing,
         \/ st = "waitlisted" /\ UNCHANGED marks
         \/ st \in Live /\ Loosen(next)
         \/ st \in Live /\ UNCHANGED marks /\ req'[p].at \in Placing /\ req'[p].row = next
  PROVE  Safe
<1>1. PICK i \in Ids : i = next
  BY DEF Insert
<1>2. /\ RowsStep
      /\ ~Active(i) /\ i \notin vetted \cup loose
      /\ rows'[i].status = st /\ rows'[i].slot = s
      /\ \A j \in Ids \ {i} : Active(j)' <=> Active(j)
  BY <1>1, InsertLeaves
<1>3. CASE st = "waitlisted" /\ UNCHANGED marks
  <2>1. \A j \in Ids : Active(j)' <=> Active(j)
    BY <1>2, <1>3 DEF Active
  <2> QED BY <1>2, <1>3, <2>1, QuietAction
<1>4. Active(i)' <=> st # "waitlisted"
  BY <1>2, <1>3 DEF Active, Live
<1>5. CASE st \in Live /\ Loosen(i)
  <2>1. i \in loose' /\ i \notin vetted'
    BY <1>5 DEF Loosen
  <2>2. Active(i)'
    BY <1>2, <1>5 DEF Active, Live
  <2> QED BY <1>2, <1>5, <2>1, <2>2, LocalAction, MarksOfOthers
<1>6. CASE st \in Live /\ UNCHANGED marks /\ req'[p].at \in Placing /\ req'[p].row = i
  <2>1. InFlight(i)'
    BY <1>6 DEF InFlight
  <2>2. i \notin vetted' \cup loose'
    BY <1>2, <1>6 DEF marks
  <2> QED BY <1>2, <1>6, <2>1, <2>2, LocalAction, MarksOfOthers
<1> QED BY <1>1, <1>3, <1>5, <1>6

(* A statement that rewrites a row: the room does not see it, or it takes  *)
(* the marks away, or it lets a row back in without a re-check.            *)
LEMMA UpdateAction ==
  ASSUME RoomInv, TypeInv', NEW p \in Procs, OthersWait(p), RemembersRight(p)',
         NEW i \in Ids, NEW r \in Row, Update(i, r), r.slot = rows[i].slot,
         req[p].at \in Placing => req[p].row = i,
         \/ /\ Present(i) => (Active(i) <=> r.status \notin {"absent", "cancelled", "waitlisted"})
            /\ UNCHANGED marks
            /\ req[p].at \in Placing => req'[p].at \in Placing /\ req'[p].row = i
         \/ /\ Drop(i)
            /\ r.status \in {"cancelled", "waitlisted"} \/ (req'[p].at \in Placing /\ req'[p].row = i)
         \/ /\ Present(i) /\ r.status \in Live
            /\ Loosen(i)
  PROVE  Safe
<1>1. /\ RowsStep
      /\ \A j \in Ids \ {i} : Active(j)' <=> Active(j)
      /\ Present(i) => rows'[i] = r
      /\ ~Present(i) => ~Active(i) /\ ~Active(i)'
  BY UpdateLeaves
<1>2. Present(i) => (Active(i)' <=> r.status \notin {"absent", "cancelled", "waitlisted"})
  BY <1>1 DEF Active
<1>3. CASE /\ Present(i) => (Active(i) <=> r.status \notin {"absent", "cancelled", "waitlisted"})
           /\ UNCHANGED marks
           /\ req[p].at \in Placing => req'[p].at \in Placing /\ req'[p].row = i
  <2>1. \A j \in Ids : Active(j)' <=> Active(j)
    BY <1>1, <1>2, <1>3
  <2> QED BY <1>1, <1>3, <2>1, QuietAction
<1>4. CASE /\ Drop(i)
           /\ r.status \in {"cancelled", "waitlisted"} \/ (req'[p].at \in Placing /\ req'[p].row = i)
  <2>1. i \notin vetted' \cup loose'
    BY <1>4 DEF Drop
  <2>2. Active(i)' => InFlight(i)'
    BY <1>1, <1>2, <1>4 DEF InFlight
  <2> QED BY <1>1, <1>4, <2>1, <2>2, LocalAction, MarksOfOthers
<1>5. CASE Present(i) /\ r.status \in Live /\ Loosen(i)
  <2>1. i \in loose' /\ i \notin vetted'
    BY <1>5 DEF Loosen
  <2>2. Active(i)'
    BY <1>2, <1>5 DEF Live
  <2> QED BY <1>1, <1>5, <2>1, <2>2, LocalAction, MarksOfOthers
<1> QED BY <1>3, <1>4, <1>5

(* A DELETE by id.                                                         *)
LEMMA DeleteAction ==
  ASSUME RoomInv, TypeInv', NEW p \in Procs, OthersWait(p), RemembersRight(p)',
         NEW i \in Ids, Delete(i), Drop(i), req[p].at \in Placing => req[p].row = i
  PROVE  Safe
<1>1. RowsStep
  BY DeleteStep DEF RoomInv
<1>2. ~Active(i)' /\ \A j \in Ids \ {i} : Active(j)' <=> Active(j)
  BY DEF Delete, NoRow, Active, RoomInv, TypeInv, TypeOK
<1>3. i \notin vetted' \cup loose'
  BY DEF Drop
<1> QED BY <1>1, <1>2, <1>3, LocalAction, MarksOfOthers

(* A step of a request that writes nothing.                                *)
LEMMA ReadAction ==
  ASSUME RoomInv, TypeInv', NEW p \in Procs, OthersWait(p), RemembersRight(p)',
         UNCHANGED <<db, marks>>,
         req[p].at \in Placing => req'[p].at \in Placing /\ req'[p].row = req[p].row
  PROVE  Safe
BY SameRows, QuietAction

(* A re-check that finds no rival: the row, if it is still there, is now   *)
(* an accepted booking, and it clashes with none of the others.            *)
LEMMA RecheckPassed ==
  ASSUME RoomInv, TypeInv', NEW p \in Procs, OthersWait(p), RemembersRight(p)',
         NEW i \in Ids, i = req[p].row, req[p].at \in {"recheck", "offerRecheck"},
         ~Blocked(req[p].slot, i),
         IF Active(i) THEN Vet(i) ELSE UNCHANGED marks,
         UNCHANGED db
  PROVE  Safe
<1>1. RowsStep /\ rows' = rows /\ \A j \in Ids : Active(j)' <=> Active(j)
  BY SameRows
<1>2. \A j \in Ids \ {i} : (j \in vetted' <=> j \in vetted) /\ (j \in loose' <=> j \in loose)
  BY MarksOfOthers
<1>3. CASE Active(i)
  <2>1. rows[i].slot = req[p].slot
    BY <1>3 DEF RoomInv, TableInv, RemembersRight, KeptLabels, Present, Active
  <2>2. \A j \in vetted \ {i} : Active(j) /\ j \in Ids /\ rows[j].slot \in Slots
    BY DEF RoomInv, MarkInv, TypeInv, TypeOK, TableInv, Present, Active
  <2>3. rows[i].slot \in Slots
    BY <1>3 DEF RoomInv, TableInv, Present, Active
  <2>4. \A j \in vetted \ {i} : ~Overlap(rows'[i].slot, rows[j].slot)
    BY <1>1, <2>1, <2>2, <2>3 DEF Blocked, Overlap
  <2>5. i \in vetted' /\ Active(i)'
    BY <1>1, <1>3 DEF Vet
  <2> QED BY <1>1, <1>2, <2>4, <2>5, LocalAction
<1>4. CASE ~Active(i)
  <2>1. i \notin vetted' \cup loose' /\ ~Active(i)'
    BY <1>1, <1>4 DEF RoomInv, MarkInv, marks
  <2> QED BY <1>1, <1>2, <2>1, LocalAction
<1> QED BY <1>3, <1>4

-----------------------------------------------------------------------------
(* Bookings, and the writers that never look again.                        *)
LEMMA BookingSafe ==
  ASSUME RoomInv, TypeInv', NEW p \in Procs,
         BookInsert(p) \/ BookRecheck(p) \/ BookBackout(p) \/ BookQueue(p) \/ BookConfirm(p)
  PROVE  Safe
<1> USE Entitled DEF At, RowLabels, SlotLabels, Labels, Placing, KeptLabels, Statuses, Cancellable, Live
<1>0. TypeInv /\ req[p] \in Request
  BY DEF RoomInv
<1>1. CASE BookInsert(p)
  <2>1. req[p].slot \in Slots
    BY <1>0, <1>1 DEF BookInsert
  <2>2. RowsStep /\ rows'[next].slot = req[p].slot /\ next' = next + 1 /\ next \in Ids
    BY <1>1, <2>1, InsertLeaves DEF BookInsert
  <2>3. OthersWait(p) /\ req'[p] = [req[p] EXCEPT !.at = "recheck", !.row = next]
    BY <1>0, <1>1 DEF BookInsert, OthersWait, TypeInv, TypeOK
  <2>4. /\ req'[p].at = "recheck" /\ req'[p].row = next
        /\ req'[p].slot = req[p].slot /\ req'[p].todo = req[p].todo
    BY <1>0, <2>3 DEF Request
  <2>5. \A j \in req[p].todo : j < next /\ j \in Ids
    BY <1>0 DEF RoomInv, TableInv, RemembersRight, Request
  <2>6. RemembersRight(p)'
    BY <2>2, <2>4, <2>5 DEF RemembersRight, Present
  <2> QED BY <1>1, <2>1, <2>3, <2>4, <2>6, InsertAction DEF BookInsert
<1>2. CASE BookRecheck(p)
  <2>1. PICK i \in Ids : i = req[p].row
    BY <1>0, <1>2 DEF BookRecheck
  <2>2. RowsStep /\ next' = next
    BY <1>2, SameRows DEF BookRecheck, db
  <2>3. OthersWait(p) /\ RemembersRight(p)'
    BY <1>2, <2>2, EndLeaves, GoLeaves DEF BookRecheck
  <2>4. CASE Blocked(req[p].slot, i) /\ Go(p, "backout") /\ UNCHANGED marks
    <3>1. req'[p].at = "backout" /\ req'[p].row = req[p].row
      BY <2>2, <2>4, GoLeaves
    <3> QED BY <1>2, <2>3, <2>4, <3>1, ReadAction DEF BookRecheck
  <2>5. CASE ~Blocked(req[p].slot, i)
    BY <1>2, <2>1, <2>3, <2>5, RecheckPassed DEF BookRecheck
  <2> QED BY <1>2, <2>1, <2>4, <2>5 DEF BookRecheck
<1>3. CASE BookBackout(p)
  <2>1. PICK i \in Ids : i = req[p].row
    BY <1>0, <1>3 DEF BookBackout
  <2>2. RowsStep /\ next' = next
    BY <1>3, <2>1, DeleteStep DEF BookBackout, RoomInv, Delete
  <2>3. OthersWait(p) /\ RemembersRight(p)'
    BY <1>3, <2>2, EndLeaves, GoLeaves DEF BookBackout
  <2> QED BY <1>3, <2>1, <2>3, DeleteAction DEF BookBackout
<1>4. CASE BookQueue(p)
  <2>1. req[p].slot \in Slots
    BY <1>0, <1>4 DEF BookQueue
  <2>2. OthersWait(p) /\ RemembersRight(p)'
    BY <1>4, EndLeaves DEF BookQueue, Insert
  <2> QED BY <1>4, <2>1, <2>2, InsertAction DEF BookQueue
<1>5. CASE BookConfirm(p)
  <2>1. PICK i \in Ids : i = req[p].row /\ rows[i] \in Row
    BY <1>0, <1>5 DEF BookConfirm
  <2>2. PICK r \in Row : r = [rows[i] EXCEPT !.status = "confirmed"]
    BY <2>1 DEF Row
  <2>3. r.slot = rows[i].slot /\ r.status = "confirmed" /\ Update(i, r)
    BY <1>5, <2>1, <2>2 DEF BookConfirm, Row
  <2>4. OthersWait(p) /\ RemembersRight(p)'
    BY <1>5, EndLeaves DEF BookConfirm, Update
  <2>5. req[p].at = "settleNew"
    BY <1>5 DEF BookConfirm
  <2>6. CASE Active(i) \/ ~Present(i)
    BY <1>5, <2>1, <2>3, <2>4, <2>5, <2>6, UpdateAction DEF BookConfirm, Present
  <2>7. CASE ~Active(i) /\ Present(i)
    BY <1>5, <2>1, <2>3, <2>4, <2>5, <2>7, UpdateAction DEF BookConfirm, Present
  <2> QED BY <2>6, <2>7
<1> QED BY <1>1, <1>2, <1>3, <1>4, <1>5

LEMMA CheckSafe ==
  ASSUME RoomInv, TypeInv', NEW p \in Procs, NEW s \in Slots,
         SeriesCheck(p, s) \/ \E w \in BOOLEAN : BookCheck(p, s, w)
  PROVE  Safe
<1>1. UNCHANGED <<db, marks>> /\ req[p].at = "idle"
  <2>1. UNCHANGED <<db, marks>> /\ req[p] = Idle
    BY DEF SeriesCheck, BookCheck, Ready
  <2> QED BY <2>1 DEF Idle
<1>2. PICK l \in {"queue", "insert", "seriesInsert"}, w \in BOOLEAN : Begin(p, l, 0, s, w)
  <2>1. CASE SeriesCheck(p, s)
    BY <2>1 DEF SeriesCheck
  <2>2. CASE \E w \in BOOLEAN : BookCheck(p, s, w)
    BY <2>2 DEF BookCheck
  <2> QED BY <2>1, <2>2
<1>3. 0 < next'
  BY <1>1 DEF RoomInv, TypeInv, TypeOK, db
<1>4. OthersWait(p) /\ RemembersRight(p)'
  BY <1>2, <1>3, BeginLeaves DEF Labels, KeptLabels
<1> QED BY <1>1, <1>4, ReadAction DEF Placing

LEMMA UncheckedSafe ==
  ASSUME RoomInv, TypeInv', NEW p \in Procs,
         EventSave(p) \/ SeriesInsert(p) \/ \E s \in Slots : EventHold(p, s)
  PROVE  Safe
<1> USE Entitled DEF At, RowLabels, SlotLabels, Labels, Placing, KeptLabels, Statuses, Cancellable, Live
<1>0. TypeInv /\ req[p] \in Request
  BY DEF RoomInv
<1>1. CASE EventSave(p)
  <2>1. PICK i \in Ids : i = req[p].row
    BY <1>0, <1>1 DEF EventSave
  <2>2. OthersWait(p) /\ RemembersRight(p)'
    BY <1>1, EndLeaves DEF EventSave, Delete, db
  <2>3. req[p].at = "hold"
    BY <1>1 DEF EventSave
  <2>4. CASE UNCHANGED <<db, marks>>
    BY <2>2, <2>3, <2>4, ReadAction
  <2>5. CASE Delete(i) /\ Drop(i)
    BY <2>1, <2>2, <2>3, <2>5, DeleteAction
  <2> QED BY <1>1, <2>1, <2>4, <2>5 DEF EventSave
<1>2. CASE SeriesInsert(p)
  <2>1. req[p].slot \in Slots
    BY <1>0, <1>2 DEF SeriesInsert
  <2>2. OthersWait(p) /\ RemembersRight(p)'
    BY <1>2, EndLeaves DEF SeriesInsert, Insert
  <2> QED BY <1>2, <2>1, <2>2, InsertAction DEF SeriesInsert
<1>3. CASE \E s \in Slots : EventHold(p, s)
  <2>1. PICK s \in Slots : EventHold(p, s)
    BY <1>3
  <2>2. PICK i \in Ids : i = next
    BY <2>1 DEF EventHold, Insert
  <2>3. next' = i + 1 /\ Begin(p, "hold", i, s, FALSE)
    BY <2>1, <2>2 DEF EventHold, Insert
  <2>5. i < next'
    BY <2>3
  <2>6. OthersWait(p) /\ RemembersRight(p)'
    BY <2>3, <2>5, BeginLeaves
  <2>4. req[p].at = "idle"
    BY <2>1 DEF EventHold, Ready, Idle
  <2> QED BY <2>1, <2>4, <2>6, InsertAction DEF EventHold
<1> QED BY <1>1, <1>2, <1>3

-----------------------------------------------------------------------------
(* Taking an offer.                                                        *)
LEMMA AcceptSafe ==
  ASSUME RoomInv, TypeInv', NEW p \in Procs,
         \/ AcceptCheck(p) \/ AcceptWrite(p) \/ AcceptRecheck(p) \/ AcceptBackout(p)
         \/ \E i \in Ids : AcceptRead(p, i)
  PROVE  Safe
<1> USE Entitled DEF At, RowLabels, SlotLabels, Labels, Placing, KeptLabels, Statuses, Cancellable, Live
<1>0. TypeInv /\ req[p] \in Request
  BY DEF RoomInv
<1>1. CASE \E i \in Ids : AcceptRead(p, i)
  <2>1. PICK i \in Ids : AcceptRead(p, i)
    BY <1>1
  <2>2. PICK s : s = rows[i].slot
    OBVIOUS
  <2>3. RowsStep /\ rows' = rows /\ next' = next
    BY <2>1, SameRows DEF AcceptRead, db
  <2>4. i < next'
    <3>1. Present(i)
      BY <2>1 DEF AcceptRead, Present
    <3> QED BY <2>3, <3>1 DEF RoomInv, TableInv
  <2>5. Begin(p, "offerCheck", i, s, FALSE) /\ req[p].at = "idle" /\ UNCHANGED <<db, marks>>
    <3>1. Begin(p, "offerCheck", i, rows[i].slot, FALSE)
      BY <2>1 DEF AcceptRead
    <3>2. Begin(p, "offerCheck", i, s, FALSE)
      BY <2>2, <3>1
    <3>3. req[p].at = "idle" /\ UNCHANGED <<db, marks>>
      BY <2>1 DEF AcceptRead, Ready, Idle
    <3> QED BY <3>2, <3>3
  <2>6. OthersWait(p) /\ RemembersRight(p)'
    BY <2>2, <2>3, <2>4, <2>5, BeginLeaves
  <2> QED BY <2>5, <2>6, ReadAction
<1>2. CASE AcceptCheck(p)
  <2>1. RowsStep /\ next' = next
    BY <1>2, SameRows DEF AcceptCheck, db
  <2>2. OthersWait(p) /\ RemembersRight(p)'
    BY <1>2, <2>1, EndLeaves, GoLeaves DEF AcceptCheck
  <2> QED BY <1>2, <2>2, ReadAction DEF AcceptCheck
<1>3. CASE AcceptWrite(p)
  <2>1. PICK i \in Ids : i = req[p].row /\ rows[i] \in Row
    BY <1>0, <1>3 DEF AcceptWrite
  <2>2. PICK r \in Row : r = [rows[i] EXCEPT !.status = "scheduled", !.offer = "none"]
    BY <2>1 DEF Row
  <2>3. r.slot = rows[i].slot /\ Update(i, r)
    BY <1>3, <2>1, <2>2 DEF AcceptWrite, Row
  <2>4. RowsStep
    BY <2>3, UpdateLeaves
  <2>5. OthersWait(p) /\ RemembersRight(p)' /\ req'[p].at = "offerRecheck" /\ req'[p].row = i
    BY <1>3, <2>1, <2>4, GoLeaves DEF AcceptWrite
  <2>6. Drop(i) /\ req[p].at = "offerWrite"
    BY <1>3, <2>1 DEF AcceptWrite
  <2> QED BY <2>3, <2>5, <2>6, UpdateAction
<1>4. CASE AcceptRecheck(p)
  <2>1. PICK i \in Ids : i = req[p].row
    BY <1>0, <1>4 DEF AcceptRecheck
  <2>2. RowsStep /\ next' = next
    BY <1>4, SameRows DEF AcceptRecheck, db
  <2>3. OthersWait(p) /\ RemembersRight(p)'
    BY <1>4, <2>2, EndLeaves, GoLeaves DEF AcceptRecheck
  <2>4. CASE Blocked(req[p].slot, i) /\ Go(p, "offerBackout") /\ UNCHANGED marks
    <3>1. req'[p].at = "offerBackout" /\ req'[p].row = req[p].row
      BY <2>2, <2>4, GoLeaves
    <3> QED BY <1>4, <2>3, <2>4, <3>1, ReadAction DEF AcceptRecheck
  <2>5. CASE ~Blocked(req[p].slot, i)
    BY <1>4, <2>1, <2>3, <2>5, RecheckPassed DEF AcceptRecheck
  <2> QED BY <1>4, <2>1, <2>4, <2>5 DEF AcceptRecheck
<1>5. CASE AcceptBackout(p)
  <2>1. PICK i \in Ids : i = req[p].row /\ rows[i] \in Row
    BY <1>0, <1>5 DEF AcceptBackout
  <2>2. PICK r \in Row : r = [rows[i] EXCEPT !.status = "waitlisted"]
    BY <2>1 DEF Row
  <2>3. r.slot = rows[i].slot /\ Update(i, r) /\ r.status = "waitlisted"
    BY <1>5, <2>1, <2>2 DEF AcceptBackout, Row
  <2>4. OthersWait(p) /\ RemembersRight(p)'
    BY <1>5, EndLeaves DEF AcceptBackout, Update
  <2>5. Drop(i) /\ req[p].row = i
    BY <1>5, <2>1 DEF AcceptBackout
  <2> QED BY <2>3, <2>4, <2>5, UpdateAction
<1> QED BY <1>1, <1>2, <1>3, <1>4, <1>5

-----------------------------------------------------------------------------
(* Cancelling, and the offer to the next in line.                          *)
LEMMA CancelSafe ==
  ASSUME RoomInv, TypeInv', NEW p \in Procs,
         \/ CancelWrite(p) \/ Listen(p) \/ Pick(p) \/ Verify(p) \/ Offer(p)
         \/ \E i \in Ids, staff \in BOOLEAN : CancelRead(p, i, staff)
  PROVE  Safe
<1> USE Entitled DEF At, RowLabels, SlotLabels, Labels, Placing, KeptLabels, Statuses, Cancellable, Live
<1>0. TypeInv /\ req[p] \in Request
  BY DEF RoomInv
<1>1. CASE \E i \in Ids, staff \in BOOLEAN : CancelRead(p, i, staff)
  <2>1. PICK i \in Ids, staff \in BOOLEAN : CancelRead(p, i, staff)
    BY <1>1
  <2>2. PICK s : s = rows[i].slot
    OBVIOUS
  <2>3. i < next' /\ UNCHANGED <<db, marks>>
    <3>1. Present(i) /\ UNCHANGED <<db, marks>>
      BY <2>1 DEF CancelRead, Present
    <3> QED BY <3>1 DEF RoomInv, TableInv, db
  <2>4. Begin(p, "cancel", i, s, FALSE) /\ req[p].at = "idle"
    <3>1. Begin(p, "cancel", i, rows[i].slot, FALSE)
      BY <2>1 DEF CancelRead
    <3>2. Begin(p, "cancel", i, s, FALSE)
      BY <2>2, <3>1
    <3>3. req[p].at = "idle"
      BY <2>1 DEF CancelRead, Ready, Idle
    <3> QED BY <3>2, <3>3
  <2>5. OthersWait(p) /\ RemembersRight(p)'
    BY <2>3, <2>4, BeginLeaves
  <2> QED BY <2>3, <2>4, <2>5, ReadAction
<1>2. CASE CancelWrite(p)
  <2>1. PICK i \in Ids : i = req[p].row /\ rows[i] \in Row
    BY <1>0, <1>2 DEF CancelWrite
  <2>2. CASE rows[i].status \notin Cancellable
    <3>1. End(p) /\ UNCHANGED <<db, marks>>
      BY <1>2, <2>1, <2>2 DEF CancelWrite
    <3>2. OthersWait(p) /\ RemembersRight(p)'
      BY <3>1, EndLeaves DEF db
    <3> QED BY <1>2, <3>1, <3>2, ReadAction DEF CancelWrite
  <2>3. CASE rows[i].status \in Cancellable
    <3>1. PICK pay \in {"open", "record"} :
            Update(i, [rows[i] EXCEPT !.status = "cancelled", !.pay = pay])
      <4>1. Update(i, [rows[i] EXCEPT !.status = "cancelled",
                        !.pay = IF rows[i].pay = "record" THEN "record" ELSE "open"])
        BY <1>2, <2>1, <2>3 DEF CancelWrite
      <4> QED BY <4>1
    <3>2. PICK r \in Row : r = [rows[i] EXCEPT !.status = "cancelled", !.pay = pay]
      BY <2>1, RowEdited DEF Final
    <3>3. r.slot = rows[i].slot /\ Update(i, r) /\ r.status = "cancelled"
      BY <2>1, <3>1, <3>2 DEF Row
    <3>4. RowsStep
      BY <3>3, UpdateLeaves
    <3>5. Drop(i) /\ Go(p, "listen") /\ req[p].at = "cancel"
      BY <1>2, <2>1, <2>3 DEF CancelWrite
    <3>6. OthersWait(p) /\ RemembersRight(p)'
      BY <3>4, <3>5, GoLeaves
    <3> QED BY <3>3, <3>5, <3>6, UpdateAction
  <2> QED BY <2>2, <2>3
<1>3. CASE Listen(p)
  <2>1. req'[p] = [req[p] EXCEPT !.at = "pick", !.slot = rows[req[p].row].slot] /\ OthersWait(p)
    BY <1>0, <1>3 DEF Listen, OthersWait, TypeInv, TypeOK
  <2>2. req'[p].at = "pick" /\ req'[p].row = req[p].row /\ req'[p].todo = req[p].todo
    BY <1>0, <2>1 DEF Request
  <2>3. RemembersRight(p)'
    BY <1>3, <2>2 DEF Listen, RemembersRight, RoomInv, TableInv, db
  <2> QED BY <1>3, <2>1, <2>3, ReadAction DEF Listen
<1>4. CASE Pick(p)
  <2>1. CASE End(p)
    <3>1. OthersWait(p) /\ RemembersRight(p)'
      BY <1>4, <2>1, EndLeaves DEF Pick, db
    <3> QED BY <1>4, <3>1, ReadAction DEF Pick
  <2>2. CASE ~End(p)
    <3>1. PICK i \in Waiting(req[p].slot) :
            req' = [req EXCEPT ![p].at = "verify", ![p].row = i, ![p].slot = rows[i].slot]
      BY <1>4, <2>2 DEF Pick
    <3>2. i < next
      BY <1>0, <3>1 DEF Waiting, RoomInv, TableInv, Present
    <3>3. req'[p] = [req[p] EXCEPT !.at = "verify", !.row = i, !.slot = rows[i].slot] /\ OthersWait(p)
      BY <1>0, <3>1 DEF OthersWait, TypeInv, TypeOK
    <3>4. req'[p].at = "verify" /\ req'[p].row = i /\ req'[p].todo = req[p].todo
      BY <1>0, <3>3 DEF Request
    <3>5. RemembersRight(p)'
      BY <1>4, <3>2, <3>4 DEF Pick, RemembersRight, RoomInv, TableInv, db
    <3> QED BY <1>4, <3>3, <3>5, ReadAction DEF Pick
  <2> QED BY <2>1, <2>2
<1>5. CASE Verify(p)
  <2>1. RowsStep /\ next' = next
    BY <1>5, SameRows DEF Verify, db
  <2>2. OthersWait(p) /\ RemembersRight(p)'
    BY <1>5, <2>1, EndLeaves, GoLeaves DEF Verify
  <2> QED BY <1>5, <2>2, ReadAction DEF Verify
<1>6. CASE Offer(p)
  <2>1. PICK i \in Ids : i = req[p].row /\ rows[i] \in Row
    BY <1>0, <1>6 DEF Offer
  <2>2. PICK r \in Row : r = [rows[i] EXCEPT !.offer = "live"]
    BY <2>1 DEF Row
  <2>3. r.slot = rows[i].slot /\ r.status = rows[i].status
    BY <2>1, <2>2 DEF Row
  <2>4. (Update(i, r) \/ UNCHANGED db) /\ UNCHANGED marks /\ req[p].at = "offer"
    BY <1>6, <2>1, <2>2 DEF Offer
  <2>5. OthersWait(p) /\ RemembersRight(p)'
    BY <1>6, <2>4, EndLeaves DEF Offer, Update, db
  <2>6. CASE Update(i, r)
    BY <2>3, <2>4, <2>5, <2>6, UpdateAction DEF Active
  <2>7. CASE UNCHANGED db
    BY <2>4, <2>5, <2>7, ReadAction
  <2> QED BY <2>4, <2>6, <2>7
<1> QED BY <1>1, <1>2, <1>3, <1>4, <1>5, <1>6

-----------------------------------------------------------------------------
(* The cron sweeps.                                                        *)
LEMMA TakeUpLeaves ==
  ASSUME RoomInv, NEW p \in Procs, NEW i \in req[p].todo, NEW l \in Labels \ KeptLabels,
         TakeUp(p, i, l), next' = next
  PROVE  OthersWait(p) /\ RemembersRight(p)'
<1>1. req[p] \in Request /\ RemembersRight(p)
  BY DEF RoomInv, TypeInv, TypeOK, TableInv
<1>2. /\ req'[p] = [req[p] EXCEPT !.at = l, !.row = i, !.slot = rows[i].slot, !.todo = @ \ {i}]
      /\ OthersWait(p)
  BY DEF TakeUp, OthersWait, RoomInv, TypeInv, TypeOK
<1>3. req'[p].at = l /\ req'[p].row = i /\ req'[p].todo = req[p].todo \ {i}
  BY <1>1, <1>2 DEF Request
<1> QED BY <1>1, <1>2, <1>3 DEF RemembersRight

LEMMA SkipLeaves ==
  ASSUME RoomInv, NEW p \in Procs, NEW i, Skip(p, i), next' = next
  PROVE  OthersWait(p) /\ RemembersRight(p)'
<1>1. req[p] \in Request /\ RemembersRight(p) /\ next \in Nat /\ next > 0
  BY DEF RoomInv, TypeInv, TypeOK, TableInv
<1> DEFINE todo == req[p].todo \ {i}
<1>2. OthersWait(p) /\ req'[p] = Resumed(req[p], todo)
  BY DEF Skip, OthersWait, RoomInv, TypeInv, TypeOK
<1>3. /\ req'[p].row = 0 /\ req'[p].todo = todo
      /\ req'[p].at \in {"idle", "none", "expire", "sweep"}
  BY <1>1, <1>2 DEF Resumed, Idle, Request
<1> QED BY <1>1, <1>2, <1>3 DEF RemembersRight, KeptLabels

LEMMA SweepSafe ==
  ASSUME RoomInv, TypeInv', NEW p \in Procs,
         \/ ExpireOne(p) \/ SweepOne(p)
         \/ \E l \in {"expire", "sweep"}, found \in SUBSET Ids :
              StartSweep(p, l, found) /\ \A i \in found : Present(i)
  PROVE  Safe
<1> USE DEF At, Labels, Placing, KeptLabels, Cancellable, Live
<1>0. req[p] \in Request
  BY DEF RoomInv, TypeInv, TypeOK
<1>1. CASE ExpireOne(p)
  <2>1. PICK i \in req[p].todo :
          \/ /\ rows[i].status = "waitlisted"
             /\ Update(i, [rows[i] EXCEPT !.status = "cancelled", !.offer = "none"])
             /\ TakeUp(p, i, "pick")
          \/ rows[i].status # "waitlisted" /\ Skip(p, i) /\ UNCHANGED db
    BY <1>1 DEF ExpireOne
  <2>2. i \in Ids /\ rows[i] \in Row
    BY <1>0 DEF RoomInv, TypeInv, TypeOK, Request
  <2>3. next' = next
    BY <2>1 DEF Update, db
  <2>4. OthersWait(p) /\ RemembersRight(p)'
    BY <2>1, <2>3, TakeUpLeaves, SkipLeaves
  <2>5. UNCHANGED marks /\ req[p].at = "expire"
    BY <1>1 DEF ExpireOne
  <2>6. CASE UNCHANGED db
    BY <2>4, <2>5, <2>6, ReadAction
  <2>7. CASE rows[i].status = "waitlisted" /\ ~UNCHANGED db
    <3>1. PICK r \in Row : r = [rows[i] EXCEPT !.status = "cancelled", !.offer = "none"]
      BY <2>2, RowEdited DEF Statuses, Final
    <3>2. r.slot = rows[i].slot /\ Update(i, r) /\ r.status = "cancelled"
      BY <2>1, <2>2, <2>7, <3>1 DEF Row
    <3>3. ~Active(i)
      BY <2>7 DEF Active
    <3> QED BY <2>2, <2>4, <2>5, <3>2, <3>3, UpdateAction
  <2> QED BY <2>1, <2>6, <2>7
<1>2. CASE SweepOne(p)
  <2>1. PICK i \in req[p].todo : TakeUp(p, i, "cancel") \/ Skip(p, i)
    BY <1>2 DEF SweepOne
  <2>2. next' = next
    BY <1>2 DEF SweepOne, db
  <2>3. OthersWait(p) /\ RemembersRight(p)'
    BY <2>1, <2>2, TakeUpLeaves, SkipLeaves
  <2> QED BY <1>2, <2>3, ReadAction DEF SweepOne
<1>3. CASE \E l \in {"expire", "sweep"}, found \in SUBSET Ids :
              StartSweep(p, l, found) /\ \A i \in found : Present(i)
  <2>1. PICK l \in {"expire", "sweep"}, found \in SUBSET Ids :
              StartSweep(p, l, found) /\ \A i \in found : Present(i)
    BY <1>3
  <2>2. /\ req'[p] = [Idle EXCEPT !.at = l, !.loop = l, !.todo = found]
        /\ OthersWait(p) /\ next' = next
    BY <2>1 DEF StartSweep, OthersWait, RoomInv, TypeInv, TypeOK, db
  <2>3. req'[p].at = l /\ req'[p].row = 0 /\ req'[p].todo = found
    BY <2>2 DEF Idle
  <2>4. RemembersRight(p)'
    BY <2>1, <2>2, <2>3 DEF RemembersRight, RoomInv, TypeInv, TypeOK, TableInv
  <2>5. req[p].at = "idle"
    <3>1. req[p] = Idle
      BY <2>1 DEF StartSweep
    <3> QED BY <3>1 DEF Idle
  <2> QED BY <2>1, <2>2, <2>4, <2>5, ReadAction DEF StartSweep
<1> QED BY <1>1, <1>2, <1>3

-----------------------------------------------------------------------------
(* Settlement by Stripe and by staff.                                      *)
LEMMA SettlementSafe ==
  ASSUME RoomInv, TypeInv', NEW p \in Procs,
         \/ CheckoutWrite(p) \/ CompWrite(p)
         \/ \E i \in Ids : CheckoutRead(p, i) \/ CompConfirm(p, i)
  PROVE  Safe
<1> USE Entitled DEF At, RowLabels, SlotLabels, Labels, Placing, KeptLabels, Cancellable, Live
<1>0. TypeInv /\ req[p] \in Request
  BY DEF RoomInv
<1>1. CASE CheckoutWrite(p)
  <2>1. PICK i \in Ids : i = req[p].row /\ rows[i] \in Row
    BY <1>0, <1>1 DEF CheckoutWrite
  <2>2. PICK r \in Row : r = [rows[i] EXCEPT !.status = "confirmed", !.pay = "record"]
    BY <2>1, RowEdited DEF Statuses
  <2>3. r.slot = rows[i].slot /\ r.status = "confirmed" /\ Update(i, r)
    BY <1>1, <2>1, <2>2 DEF CheckoutWrite, Row
  <2>4. OthersWait(p) /\ RemembersRight(p)'
    BY <1>1, EndLeaves DEF CheckoutWrite, Update
  <2>5. req[p].at = "checkout"
    BY <1>1 DEF CheckoutWrite
  <2>6. CASE Active(i) \/ ~Present(i)
    BY <1>1, <2>1, <2>3, <2>4, <2>5, <2>6, UpdateAction DEF CheckoutWrite, Present
  <2>7. CASE ~Active(i) /\ Present(i)
    BY <1>1, <2>1, <2>3, <2>4, <2>5, <2>7, UpdateAction DEF CheckoutWrite, Present
  <2> QED BY <2>6, <2>7
<1>2. CASE CompWrite(p)
  <2>1. PICK i \in Ids : i = req[p].row /\ rows[i] \in Row
    BY <1>0, <1>2 DEF CompWrite
  <2>2. PICK pay \in {"open", "waived", "record"} : Update(i, [rows[i] EXCEPT !.pay = pay])
    <3>1. Update(i, [rows[i] EXCEPT !.pay = IF rows[i].pay = "open" THEN "waived" ELSE rows[i].pay])
      BY <1>2, <2>1 DEF CompWrite
    <3>2. rows[i].pay \in {"open", "waived", "record"}
      BY <2>1 DEF Row
    <3> QED BY <3>1, <3>2
  <2>3. PICK r \in Row : r = [rows[i] EXCEPT !.pay = pay]
    BY <2>1 DEF Row
  <2>4. r.slot = rows[i].slot /\ r.status = rows[i].status /\ Update(i, r)
    BY <2>1, <2>2, <2>3 DEF Row
  <2>5. OthersWait(p) /\ RemembersRight(p)'
    BY <1>2, EndLeaves DEF CompWrite, Update
  <2>6. req[p].at = "comp" /\ UNCHANGED marks
    BY <1>2 DEF CompWrite
  <2> QED BY <2>4, <2>5, <2>6, UpdateAction DEF Active
<1>3. CASE \E i \in Ids : CheckoutRead(p, i)
  <2>1. PICK i \in Ids : CheckoutRead(p, i)
    BY <1>3
  <2>2. Present(i) /\ UNCHANGED <<db, marks>> /\ req[p].at = "idle"
    BY <2>1 DEF CheckoutRead, Present, Ready, Idle
  <2>3. i < next'
    BY <2>2 DEF RoomInv, TableInv, db
  <2>4. OthersWait(p) /\ RemembersRight(p)'
    BY <2>1, <2>3, BeginLeaves DEF CheckoutRead
  <2> QED BY <2>2, <2>4, ReadAction
<1>4. CASE \E i \in Ids : CompConfirm(p, i)
  <2>1. PICK i \in Ids : CompConfirm(p, i)
    BY <1>4
  <2>2. Active(i) /\ Present(i) /\ UNCHANGED marks /\ req[p].at = "idle" /\ next' = next
    <3>1. Active(i) /\ Present(i)
      BY <2>1 DEF CompConfirm, Active, Present
    <3>2. next' = next
      BY <2>1 DEF CompConfirm, Update, db
    <3> QED BY <2>1, <3>1, <3>2 DEF CompConfirm, Ready, Idle
  <2>3. i < next'
    BY <2>2 DEF RoomInv, TableInv
  <2>4. OthersWait(p) /\ RemembersRight(p)'
    BY <2>1, <2>3, BeginLeaves DEF CompConfirm
  <2>5. CASE UNCHANGED db
    BY <2>2, <2>4, <2>5, ReadAction
  <2>6. CASE Update(i, [rows[i] EXCEPT !.status = "confirmed"])
    <3>1. rows[i] \in Row
      BY <1>0 DEF TypeInv, TypeOK
    <3>2. PICK r \in Row : r = [rows[i] EXCEPT !.status = "confirmed"]
      BY <3>1, RowEdited DEF Statuses
    <3>3. r.slot = rows[i].slot /\ r.status = "confirmed" /\ Update(i, r)
      BY <2>6, <3>1, <3>2 DEF Row
    <3> QED BY <2>2, <2>4, <3>3, UpdateAction
  <2> QED BY <2>1, <2>5, <2>6 DEF CompConfirm
<1> QED BY <1>1, <1>2, <1>3, <1>4

-----------------------------------------------------------------------------
(* Steps outside any request.                                              *)
LEMMA QuietSingle ==
  ASSUME RoomInv, TypeInv', RowsStep, UNCHANGED <<req, marks>>,
         \A j \in Ids : Active(j)' <=> Active(j)
  PROVE  Safe
<1>1. TableInv'
  BY QuietTableStep DEF RoomInv
<1>2. "expirer" \in Procs /\ OthersWait("expirer") /\ RemembersRight("expirer")'
  BY <1>1 DEF OthersWait, TableInv
<1> QED BY <1>2, QuietAction

LEMMA ResolveSafe ==
  ASSUME RoomInv, TypeInv', NEW i \in Ids, NEW e, NEW from \in SUBSET Live,
         NEW st \in {"confirmed", "completed", "no_show"},
         NEW pay \in {"open", "waived", "record"}, Resolve(i, e, from, st, pay)
  PROVE  Safe
<1>1. rows[i] \in Row /\ Active(i)
  BY DEF RoomInv, TypeInv, TypeOK, Resolve, Live, Active
<1>2. PICK r \in Row : r = [rows[i] EXCEPT !.status = st, !.pay = pay]
  BY <1>1, RowEdited DEF Statuses, Cancellable, Live, Final
<1>3. r.slot = rows[i].slot /\ r.status = st /\ Update(i, r) /\ UNCHANGED <<req, marks>>
  BY <1>1, <1>2 DEF Row, Resolve
<1>4. RowsStep /\ \A j \in Ids : Active(j)' <=> Active(j)
  BY <1>1, <1>3, UpdateLeaves DEF Active
<1> QED BY <1>3, <1>4, QuietSingle

LEMMA SingleSafe ==
  ASSUME RoomInv, TypeInv', Single
  PROVE  Safe
<1>1. CASE \E s \in Slots : StaffBook(s)
  <2>1. PICK s \in Slots : StaffBook(s)
    BY <1>1
  <2>2. PICK i \in Ids : i = next
    BY <2>1 DEF StaffBook, Insert
  <2>3. /\ RowsStep /\ rows'[i].status = "confirmed"
        /\ \A j \in Ids \ {i} : Active(j)' <=> Active(j)
    BY <2>1, <2>2, InsertLeaves DEF StaffBook, Statuses, Cancellable, Live
  <2>4. UNCHANGED req /\ Loosen(i)
    BY <2>1, <2>2 DEF StaffBook
  <2>5. TableInv'
    BY <2>3, <2>4, QuietTableStep DEF RoomInv
  <2>6. \A j \in Ids : InFlight(j) => InFlight(j)'
    BY <2>4 DEF InFlight
  <2>7. i \in loose' /\ i \notin vetted' /\ Active(i)'
    BY <2>3, <2>4 DEF Loosen, Active
  <2> QED BY <2>3, <2>4, <2>5, <2>6, <2>7, LocalRow, MarksOfOthers
<1>2. CASE \E i \in Ids : Confirm(i) \/ Settle(i) \/ MarkComplete(i) \/ MarkNoShow(i) \/ RecordCash(i)
  <2>1. PICK i \in Ids : Confirm(i) \/ Settle(i) \/ MarkComplete(i) \/ MarkNoShow(i) \/ RecordCash(i)
    BY <1>2
  <2>2. PICK pay \in {"open", "waived", "record"} : pay = rows[i].pay
    BY DEF RoomInv, TypeInv, TypeOK, Row
  <2>3. CASE Confirm(i)
    BY <2>2, <2>3, ResolveSafe DEF Confirm, Live
  <2>4. CASE Settle(i)
    BY <2>4, ResolveSafe DEF Settle
  <2>5. CASE MarkComplete(i)
    BY <2>2, <2>5, ResolveSafe DEF MarkComplete, Live
  <2>6. CASE MarkNoShow(i)
    BY <2>2, <2>6, ResolveSafe DEF MarkNoShow
  <2>7. CASE RecordCash(i)
    BY <2>7, ResolveSafe DEF RecordCash
  <2> QED BY <2>1, <2>3, <2>4, <2>5, <2>6, <2>7
<1>3. CASE AutoComplete
  <2>1. \A i \in Ids : rows[i] \in Row
    BY DEF RoomInv, TypeInv, TypeOK
  <2>2. \A i \in Ids : /\ rows'[i].slot = rows[i].slot
                       /\ \/ rows'[i].status = rows[i].status
                          \/ rows'[i].status = "completed" /\ rows[i].status = "confirmed"
    BY <1>3, <2>1 DEF AutoComplete, Completable, Row
  <2>3. RowsStep /\ \A j \in Ids : Active(j)' <=> Active(j)
    BY <1>3, <2>2 DEF AutoComplete, RowsStep, Present, Active
  <2> QED BY <1>3, <2>3, QuietSingle DEF AutoComplete
<1> QED BY <1>1, <1>2, <1>3 DEF Single

LEMMA TickSafe ==
  ASSUME RoomInv, TypeInv', Tick
  PROVE  Safe
<1>1. CASE \E s \in Slots : SlotStarts(s) \/ SlotEnds(s)
  <2>1. UNCHANGED <<db, req, marks>>
    BY <1>1 DEF SlotStarts, SlotEnds
  <2> QED BY <2>1, SameRows, QuietSingle
<1>2. CASE \E i \in Ids : OfferLapses(i)
  <2>1. PICK i \in Ids : OfferLapses(i)
    BY <1>2
  <2>2. PICK r \in Row : r = [rows[i] EXCEPT !.offer = "expired"]
    BY DEF RoomInv, TypeInv, TypeOK, Row
  <2>3. rows[i] \in Row
    BY DEF RoomInv, TypeInv, TypeOK
  <2>4. r.slot = rows[i].slot /\ r.status = rows[i].status /\ Update(i, r)
    BY <2>1, <2>2, <2>3 DEF OfferLapses, Row
  <2>5. RowsStep /\ \A j \in Ids : Active(j)' <=> Active(j)
    BY <2>4, UpdateLeaves DEF Active
  <2> QED BY <2>1, <2>5, QuietSingle DEF OfferLapses
<1> QED BY <1>1, <1>2 DEF Tick

(* A request lost while it was placing a row leaves that row unchecked.    *)
LEMMA CrashSafe ==
  ASSUME RoomInv, TypeInv', NEW p \in Procs, Crash(p)
  PROVE  Safe
<1>1. UNCHANGED db /\ req'[p] = Idle /\ OthersWait(p) /\ next \in Nat /\ next > 0
  BY DEF Crash, OthersWait, RoomInv, TypeInv, TypeOK
<1>2. RemembersRight(p)'
  BY <1>1 DEF RemembersRight, Idle, db, KeptLabels
<1>3. CASE req[p].at \notin Placing
  BY <1>1, <1>2, <1>3, ReadAction DEF Crash
<1>4. CASE req[p].at \in Placing
  <2>1. PICK i \in Ids : i = req[p].row
    BY <1>4, Entitled DEF RoomInv, Placing, RowLabels, Labels
  <2>2. RowsStep /\ rows' = rows /\ \A j \in Ids : Active(j)' <=> Active(j)
    BY <1>1, SameRows
  <2>3. IF Active(i) /\ i \notin vetted THEN Loosen(i) ELSE UNCHANGED marks
    BY <1>4, <2>1 DEF Crash
  <2>4. i \in vetted' \cup loose' => Active(i)'
    BY <2>2, <2>3 DEF Loosen, marks, RoomInv, MarkInv
  <2>5. Active(i)' => i \in vetted' \cup loose'
    BY <2>2, <2>3 DEF Loosen, marks
  <2>6. i \in vetted' => \A j \in vetted \ {i} : ~Overlap(rows'[i].slot, rows[j].slot)
    BY <2>2, <2>3 DEF Loosen, marks, RoomInv, MarkInv
  <2> QED BY <1>1, <1>2, <2>1, <2>2, <2>3, <2>4, <2>5, <2>6, LocalAction, MarksOfOthers
<1> QED BY <1>3, <1>4

-----------------------------------------------------------------------------
LEMMA InitSafe == Init => RoomInv /\ Calendar!Init
<1> SUFFICES ASSUME Init PROVE RoomInv /\ Calendar!Init
  OBVIOUS
<1>1. \A i \in Ids : rows[i].status = "absent" /\ ~Active(i) /\ ~Present(i)
  BY DEF Init, NoRow, Active, Present
<1>2. MarkInv
  BY <1>1 DEF Init, MarkInv
<1>3. TableInv
  BY <1>1 DEF Init, TableInv, RemembersRight, Idle, KeptLabels
<1>4. Calendar!Init
  BY DEF Init, Calendar!Init, Accepted
<1> QED BY <1>2, <1>3, <1>4, InitTyped DEF RoomInv

LEMMA StepSafe == RoomInv /\ [Next]_vars => RoomInv' /\ CalendarStep
<1> SUFFICES ASSUME RoomInv, [Next]_vars PROVE Safe
  BY DEF Safe
<1>1. TypeInv'
  BY StepTyped DEF RoomInv
<1>2. ASSUME NEW p \in Procs, Continue(p) PROVE Safe
  BY <1>1, <1>2, BookingSafe, UncheckedSafe, AcceptSafe, CancelSafe, SweepSafe, SettlementSafe
  DEF Continue
<1>3. ASSUME NEW p \in Procs, Arrive(p) PROVE Safe
  <2>1. CASE \E s \in Slots : SeriesCheck(p, s) \/ \E w \in BOOLEAN : BookCheck(p, s, w)
    BY <1>1, <2>1, CheckSafe
  <2> QED BY <1>1, <1>3, <2>1, UncheckedSafe, AcceptSafe, CancelSafe, SettlementSafe DEF Arrive
<1>4. ASSUME NEW p \in Procs, Crash(p) PROVE Safe
  BY <1>1, <1>4, CrashSafe
<1>5. CASE ExpireSelect
  <2>1. \A i \in Lapsed : Present(i)
    BY DEF Lapsed, Present
  <2> QED BY <1>1, <1>5, <2>1, SweepSafe DEF ExpireSelect, Lapsed
<1>6. CASE SweepSelect
  <2>1. \A i \in Unconfirmed : Present(i)
    BY DEF Unconfirmed, Present
  <2> QED BY <1>1, <1>6, <2>1, SweepSafe DEF SweepSelect, Unconfirmed
<1>7. CASE UNCHANGED vars
  <2>1. UNCHANGED <<db, req, marks>>
    BY <1>7 DEF vars
  <2> QED BY <1>1, <2>1, SameRows, QuietSingle
<1> QED BY <1>1, <1>2, <1>3, <1>4, <1>5, <1>6, <1>7, SingleSafe, TickSafe DEF Next

(* Of two rows in the room at clashing times, one was placed by a writer   *)
(* that never re-checks or is still in the hands of its request: two       *)
(* bookings that create() or confirmWaitlisted() reported to their members *)
(* as made never share the room, whatever runs between their statements.   *)
THEOREM RoomNotDoubleBooked == Spec => []NoDoubleBooking
<1>1. RoomInv => NoDoubleBooking
  BY DEF RoomInv, MarkInv, NoDoubleBooking
<1> QED BY <1>1, InitSafe, StepSafe, PTL DEF Spec

(* create() and confirmWaitlisted(), statement by statement and with every *)
(* other handler in between, implement the atomic Accept of the calendar;  *)
(* every other step releases a booking or does not touch the calendar.     *)
THEOREM RefinesCalendar == Spec => ImplementsCalendar
<1> QED BY InitSafe, StepSafe, PTL DEF Spec, ImplementsCalendar, Calendar!Spec, CalendarStep

-----------------------------------------------------------------------------
(* What is settled stays so: whoever writes a row by id alone still holds  *)
(* it, and nobody gets hold of a final one.                                *)

Settled(i) == rows[i].status \in Final /\ ~Held(i)
StaysSettled(i) == rows'[i].status = rows[i].status /\ ~Held(i)'

LEMMA NotHeld ==
  ASSUME NEW i \in Ids, ~Held(i), NEW p \in Procs, OthersWait(p),
         req'[p].at \in Holders /\ req'[p].row = i => req[p].at \in Holders /\ req[p].row = i
  PROVE  ~Held(i)'
BY DEF Held, OthersWait

LEMMA InsertSettled ==
  ASSUME RoomInv, NEW i \in Ids, Settled(i), NEW r, Insert(r)
  PROVE  rows'[i].status = rows[i].status /\ i # next
<1>1. i < next /\ next \in Nat
  BY DEF Settled, Final, RoomInv, TableInv, Present, TypeInv, TypeOK
<1> QED BY <1>1 DEF Insert, RoomInv, TypeInv, TypeOK

LEMMA UpdateSettled ==
  ASSUME RoomInv, NEW i \in Ids, NEW j \in Ids, NEW r, Update(j, r),
         j = i => r.status = rows[i].status
  PROVE  rows'[i].status = rows[i].status
BY DEF Update, RoomInv, TypeInv, TypeOK

LEMMA DeleteSettled ==
  ASSUME RoomInv, NEW i \in Ids, NEW j \in Ids \ {i}, Delete(j)
  PROVE  rows'[i].status = rows[i].status
BY DEF Delete, RoomInv, TypeInv, TypeOK

LEMMA EndFrees ==
  ASSUME RoomInv, NEW p \in Procs, End(p)
  PROVE  OthersWait(p) /\ req'[p].at \notin Holders
<1>1. OthersWait(p) /\ req'[p] = Resumed(req[p], req[p].todo) /\ req[p] \in Request
  BY DEF End, OthersWait, RoomInv, TypeInv, TypeOK
<1>2. Resumed(req[p], req[p].todo).at \in {"idle", "none", "expire", "sweep"}
  BY <1>1 DEF Resumed, Idle, Request
<1> QED BY <1>1, <1>2 DEF Holders, Placing

LEMMA GoKeeps ==
  ASSUME RoomInv, NEW p \in Procs, NEW l, Go(p, l)
  PROVE  OthersWait(p) /\ req'[p].at = l /\ req'[p].row = req[p].row
<1>1. req[p] \in Request
  BY DEF RoomInv, TypeInv, TypeOK
<1> QED BY <1>1 DEF Go, OthersWait, RoomInv, TypeInv, TypeOK, Request

LEMMA BeginKeeps ==
  ASSUME RoomInv, NEW p \in Procs, NEW l, NEW i, NEW s, NEW w, Begin(p, l, i, s, w)
  PROVE  OthersWait(p) /\ req'[p].at = l /\ req'[p].row = i
<1> DEFINE r == [Idle EXCEPT !.at = l, !.row = i, !.slot = s, !.wait = w]
<1>1. r.at = l /\ r.row = i
  BY DEF Idle
<1>2. OthersWait(p) /\ req'[p] = r
  BY DEF Begin, OthersWait, RoomInv, TypeInv, TypeOK
<1> HIDE DEF r
<1> QED BY <1>1, <1>2

(* The row a handler holds is not the settled one.                         *)
LEMMA OtherRow ==
  ASSUME RoomInv, NEW i \in Ids, Settled(i), NEW p \in Procs, req[p].at \in Holders
  PROVE  req[p].row \in Ids \ {i}
BY DEF Settled, Held, Holders, Placing, RoomInv, TypeInv, RequestOK, RowLabels, Labels

LEMMA ContinueSettled ==
  ASSUME RoomInv, NEW i \in Ids, Settled(i), NEW p \in Procs, Continue(p)
  PROVE  StaysSettled(i)
<1> USE DEF At
<1>0. ~Held(i) /\ req[p] \in Request /\ \A j \in Ids : rows[j] \in Row
  BY DEF Settled, RoomInv, TypeInv, TypeOK
<1>1. ASSUME OthersWait(p), rows'[i].status = rows[i].status, req'[p].at \notin Holders
      PROVE  StaysSettled(i)
  BY <1>0, <1>1, NotHeld DEF StaysSettled
<1>2. ASSUME NEW l, Go(p, l), rows'[i].status = rows[i].status, req[p].at \in Holders
      PROVE  StaysSettled(i)
  BY <1>0, <1>2, GoKeeps, NotHeld DEF StaysSettled
<1>3. ASSUME UNCHANGED db PROVE rows'[i].status = rows[i].status
  BY <1>3 DEF db
<1>4. CASE BookInsert(p)
  <2>1. rows'[i].status = rows[i].status /\ i # next
    BY <1>4, InsertSettled DEF BookInsert
  <2>2. OthersWait(p) /\ req'[p].row = next
    BY <1>0, <1>4 DEF BookInsert, OthersWait, Request, RoomInv, TypeInv, TypeOK
  <2> QED BY <1>0, <2>1, <2>2, NotHeld DEF StaysSettled
<1>5. CASE BookRecheck(p) \/ AcceptCheck(p) \/ AcceptRecheck(p)
  <2>1. req[p].at \in Holders /\ UNCHANGED db
    BY <1>5 DEF BookRecheck, AcceptCheck, AcceptRecheck, Holders, Placing
  <2>2. End(p) \/ \E l \in Labels : Go(p, l)
    BY <1>5 DEF BookRecheck, AcceptCheck, AcceptRecheck, Labels
  <2> QED BY <1>1, <1>2, <1>3, <2>1, <2>2, EndFrees
<1>6. CASE BookBackout(p) \/ EventSave(p)
  <2>1. req[p].at \in Holders
    BY <1>6 DEF BookBackout, EventSave, Holders, Placing
  <2>2. rows'[i].status = rows[i].status
    BY <1>3, <1>6, <2>1, OtherRow, DeleteSettled DEF BookBackout, EventSave
  <2>3. End(p) \/ \E l \in Labels : Go(p, l)
    BY <1>6 DEF BookBackout, EventSave, Labels
  <2> QED BY <1>1, <1>2, <2>1, <2>2, <2>3, EndFrees
<1>7. CASE BookQueue(p) \/ SeriesInsert(p)
  <2>1. rows'[i].status = rows[i].status
    BY <1>7, InsertSettled DEF BookQueue, SeriesInsert
  <2> QED BY <1>1, <1>7, <2>1, EndFrees DEF BookQueue, SeriesInsert
<1>8. CASE BookConfirm(p) \/ AcceptWrite(p) \/ AcceptBackout(p) \/ CheckoutWrite(p)
  <2>1. req[p].at \in Holders
    BY <1>8 DEF BookConfirm, AcceptWrite, AcceptBackout, CheckoutWrite, Holders, Placing
  <2>2. \E r : Update(req[p].row, r)
    BY <1>8 DEF BookConfirm, AcceptWrite, AcceptBackout, CheckoutWrite
  <2>3. rows'[i].status = rows[i].status
    BY <2>1, <2>2, OtherRow, UpdateSettled
  <2>4. End(p) \/ \E l \in Labels : Go(p, l)
    BY <1>8 DEF BookConfirm, AcceptWrite, AcceptBackout, CheckoutWrite, Labels
  <2> QED BY <1>1, <1>2, <2>1, <2>3, <2>4, EndFrees
<1>9. CASE CancelWrite(p)
  <2>1. req[p].row \in Ids
    BY <1>9 DEF CancelWrite, RoomInv, TypeInv, RequestOK, RowLabels, Labels
  <2>2. CASE rows[req[p].row].status \in Cancellable
    <3>1. req[p].row # i /\ Go(p, "listen") /\ \E r : Update(req[p].row, r)
      BY <1>9, <2>2 DEF CancelWrite, Settled, Final, Cancellable, Live
    <3>2. rows'[i].status = rows[i].status
      BY <2>1, <3>1, UpdateSettled
    <3> QED BY <1>1, <3>1, <3>2, GoKeeps DEF Holders, Placing
  <2>3. CASE rows[req[p].row].status \notin Cancellable
    BY <1>1, <1>3, <1>9, <2>3, EndFrees DEF CancelWrite
  <2> QED BY <2>2, <2>3
<1>10. CASE Listen(p) \/ Pick(p) \/ Verify(p)
  <2>1. UNCHANGED db
    BY <1>10 DEF Listen, Pick, Verify
  <2>2. CASE End(p) \/ Go(p, "offer")
    BY <1>1, <1>3, <2>1, <2>2, EndFrees, GoKeeps DEF Holders, Placing
  <2>3. ASSUME NEW l \in {"pick", "verify"}, NEW j, NEW s,
               \/ req' = [req EXCEPT ![p].at = l, ![p].slot = s]
               \/ req' = [req EXCEPT ![p].at = l, ![p].row = j, ![p].slot = s]
        PROVE  StaysSettled(i)
    <3>1. OthersWait(p) /\ req'[p].at = l
      BY <1>0, <2>3 DEF OthersWait, Request, RoomInv, TypeInv, TypeOK
    <3> QED BY <1>1, <1>3, <2>1, <3>1 DEF Holders, Placing
  <2> QED BY <1>10, <2>2, <2>3 DEF Listen, Pick, Verify
<1>11. CASE Offer(p)
  <2>1. req[p].row \in Ids
    BY <1>11 DEF Offer, RoomInv, TypeInv, RequestOK, RowLabels, Labels
  <2>2. rows'[i].status = rows[i].status
    BY <1>3, <1>11, <2>1, UpdateSettled DEF Offer, Settled, Final
  <2> QED BY <1>1, <1>11, <2>2, EndFrees DEF Offer
<1>12. ASSUME NEW j \in Ids, NEW l \in {"pick", "cancel", "listen"},
              TakeUp(p, j, l) \/ Skip(p, j)
       PROVE  OthersWait(p) /\ req'[p].at \notin Holders
  <2>1. CASE TakeUp(p, j, l)
    <3>1. OthersWait(p) /\ req'[p].at = l
      BY <1>0, <2>1 DEF TakeUp, OthersWait, Request, RoomInv, TypeInv, TypeOK
    <3> QED BY <3>1 DEF Holders, Placing
  <2>2. CASE Skip(p, j)
    <3>1. OthersWait(p) /\ req'[p] = Resumed(req[p], req[p].todo \ {j})
      BY <2>2 DEF Skip, OthersWait, RoomInv, TypeInv, TypeOK
    <3>2. Resumed(req[p], req[p].todo \ {j}).at \in {"idle", "none", "expire", "sweep"}
      BY <1>0 DEF Resumed, Idle, Request
    <3> QED BY <3>1, <3>2 DEF Holders, Placing
  <2> QED BY <1>12, <2>1, <2>2
<1>13. CASE ExpireOne(p)
  <2>1. PICK j \in req[p].todo :
          \/ /\ rows[j].status = "waitlisted" /\ TakeUp(p, j, "pick")
             /\ Update(j, [rows[j] EXCEPT !.status = "cancelled", !.offer = "none"])
          \/ Skip(p, j) /\ UNCHANGED db
    BY <1>13 DEF ExpireOne
  <2>2. j \in Ids
    BY <1>0 DEF Request
  <2>3. rows'[i].status = rows[i].status
    BY <1>3, <2>1, <2>2, UpdateSettled DEF Settled, Final
  <2> QED BY <1>1, <1>12, <2>1, <2>2, <2>3
<1>14. CASE SweepOne(p)
  <2>1. PICK j \in req[p].todo : TakeUp(p, j, "cancel") \/ Skip(p, j)
    BY <1>14 DEF SweepOne
  <2>2. j \in Ids /\ rows'[i].status = rows[i].status
    BY <1>0, <1>3, <1>14 DEF Request, SweepOne
  <2> QED BY <1>1, <1>12, <2>1, <2>2
<1>15. CASE CompWrite(p)
  <2>1. PICK pay : Update(req[p].row, [rows[req[p].row] EXCEPT !.pay = pay])
    BY <1>15 DEF CompWrite
  <2>2. req[p].row \in Ids
    BY <1>15 DEF CompWrite, RoomInv, TypeInv, RequestOK, RowLabels, Labels
  <2>3. [rows[req[p].row] EXCEPT !.pay = pay].status = rows[req[p].row].status
    BY <1>0, <2>2 DEF Row
  <2>4. rows'[i].status = rows[i].status
    BY <2>1, <2>2, <2>3, UpdateSettled
  <2> QED BY <1>1, <1>15, <2>4, EndFrees DEF CompWrite
<1> QED
  BY <1>4, <1>5, <1>6, <1>7, <1>8, <1>9, <1>10, <1>11, <1>13, <1>14, <1>15 DEF Continue

LEMMA ArriveSettled ==
  ASSUME RoomInv, NEW i \in Ids, Settled(i), NEW p \in Procs, Arrive(p)
  PROVE  StaysSettled(i)
<1>0. ~Held(i) /\ rows[i].status \in Final /\ \A j \in Ids : rows[j] \in Row
  BY DEF Settled, RoomInv, TypeInv, TypeOK
<1>1. ASSUME NEW l, NEW j, NEW s, NEW w, Begin(p, l, j, s, w), j # i \/ l \notin Holders,
             rows'[i].status = rows[i].status
      PROVE  StaysSettled(i)
  BY <1>0, <1>1, BeginKeeps, NotHeld DEF StaysSettled
<1>2. ASSUME UNCHANGED db PROVE rows'[i].status = rows[i].status
  BY <1>2 DEF db
<1>3. CASE \E s \in Slots : SeriesCheck(p, s) \/ \E w \in BOOLEAN : BookCheck(p, s, w)
  BY <1>1, <1>2, <1>3 DEF SeriesCheck, BookCheck, Holders, Placing
<1>4. CASE \E s \in Slots : EventHold(p, s)
  BY <1>1, <1>4, InsertSettled DEF EventHold
<1>5. CASE \E j \in Ids : AcceptRead(p, j) \/ CheckoutRead(p, j)
  BY <1>0, <1>1, <1>2, <1>5 DEF AcceptRead, CheckoutRead, Final, Live
<1>6. CASE \E j \in Ids : CompConfirm(p, j)
  <2>1. PICK j \in Ids : CompConfirm(p, j)
    BY <1>6
  <2>2. rows'[i].status = rows[i].status
    BY <1>0, <1>2, <2>1, UpdateSettled DEF CompConfirm, Final
  <2> QED BY <1>1, <2>1, <2>2 DEF CompConfirm, Holders, Placing
<1>7. CASE \E j \in Ids, staff \in BOOLEAN : CancelRead(p, j, staff)
  BY <1>1, <1>2, <1>7 DEF CancelRead, Holders, Placing
<1> QED BY <1>3, <1>4, <1>5, <1>6, <1>7 DEF Arrive

LEMMA SettledStep ==
  ASSUME RoomInv, [Next]_vars, NEW i \in Ids, Settled(i)
  PROVE  StaysSettled(i)
<1>0. ~Held(i) /\ rows[i].status \in Final /\ \A j \in Ids : rows[j] \in Row
  BY DEF Settled, RoomInv, TypeInv, TypeOK
<1>1. ASSUME UNCHANGED req, rows'[i].status = rows[i].status PROVE StaysSettled(i)
  BY <1>0, <1>1 DEF StaysSettled, Held
<1>2. ASSUME NEW p \in Procs, Crash(p) PROVE StaysSettled(i)
  <2>1. OthersWait(p) /\ req'[p] = Idle /\ rows' = rows
    BY <1>2 DEF Crash, OthersWait, RoomInv, TypeInv, TypeOK, db
  <2> QED BY <1>0, <2>1, NotHeld DEF StaysSettled, Idle, Holders, Placing
<1>3. ASSUME NEW p \in Procs, NEW l \in {"expire", "sweep"}, NEW found, StartSweep(p, l, found)
      PROVE  StaysSettled(i)
  <2>1. OthersWait(p) /\ req'[p].at = l /\ rows' = rows
    BY <1>3 DEF StartSweep, Idle, OthersWait, RoomInv, TypeInv, TypeOK, db
  <2>2. req'[p].at \notin Holders
    BY <2>1 DEF Holders, Placing
  <2> QED BY <1>0, <2>1, <2>2, NotHeld DEF StaysSettled
<1>4. CASE Single
  <2>1. CASE \E s \in Slots : StaffBook(s)
    BY <1>1, <2>1, InsertSettled DEF StaffBook
  <2>2. ASSUME NEW j \in Ids, NEW e, NEW from \in SUBSET Live, NEW st, NEW pay,
               Resolve(j, e, from, st, pay)
        PROVE  StaysSettled(i)
    <3>1. j # i
      BY <1>0, <2>2 DEF Resolve, Live, Final
    <3> QED BY <1>1, <2>2, <3>1, UpdateSettled DEF Resolve
  <2>3. CASE \E j \in Ids : Confirm(j) \/ Settle(j) \/ MarkComplete(j) \/ MarkNoShow(j) \/ RecordCash(j)
    BY <2>2, <2>3 DEF Confirm, Settle, MarkComplete, MarkNoShow, RecordCash, Live
  <2>4. CASE AutoComplete
    <3>1. i \notin Completable
      BY <1>0 DEF Completable, Final
    <3> QED BY <1>1, <2>4, <3>1 DEF AutoComplete
  <2> QED BY <1>4, <2>1, <2>3, <2>4 DEF Single
<1>5. CASE Tick
  <2>1. CASE \E s \in Slots : SlotStarts(s) \/ SlotEnds(s)
    BY <1>1, <2>1 DEF SlotStarts, SlotEnds, db
  <2>2. CASE \E j \in Ids : OfferLapses(j)
    <3>1. PICK j \in Ids : OfferLapses(j)
      BY <2>2
    <3>2. [rows[j] EXCEPT !.offer = "expired"].status = rows[j].status
      BY <1>0 DEF Row
    <3>3. rows'[i].status = rows[i].status
      BY <3>1, <3>2, UpdateSettled DEF OfferLapses
    <3> QED BY <1>1, <3>1, <3>3 DEF OfferLapses
  <2> QED BY <1>5, <2>1, <2>2 DEF Tick
<1>6. CASE UNCHANGED vars
  BY <1>1, <1>6 DEF vars, db
<1>7. CASE ExpireSelect \/ SweepSelect
  BY <1>3, <1>7 DEF ExpireSelect, SweepSelect
<1> QED
  BY <1>2, <1>4, <1>5, <1>6, <1>7, ContinueSettled, ArriveSettled DEF Next

(* A cancelled, completed or missed reservation stays so, once no request  *)
(* holds the row as it was before (cancel, markNoShow, markComplete,       *)
(* autoCompleteExpired).                                                   *)
THEOREM SettledStays == Spec => SettledIsFinal
<1>1. RoomInv /\ [Next]_vars =>
        [\A i \in Ids : rows[i].status \in Final /\ ~Held(i)
                          => rows'[i].status = rows[i].status /\ ~Held(i)']_vars
  BY SettledStep DEF Settled, StaysSettled
<1> QED BY <1>1, InitSafe, StepSafe, PTL DEF Spec, SettledIsFinal
=============================================================================
