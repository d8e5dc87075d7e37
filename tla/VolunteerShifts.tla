--------------------------- MODULE VolunteerShifts ---------------------------
(***************************************************************************)
(* One volunteer shift and its signups: claiming and dropping a place,     *)
(* staff's confirmation, no-shows and edits of the shift, and the cron job *)
(* that completes what was worked.                                         *)
(*                                                                         *)
(* Whether there is room is part of the statement that takes the place,    *)
(* but compares with a capacity read before; an edit of the shift counts   *)
(* the claims first and then writes; the cron job selects signups, then    *)
(* completes them by id. A shift is to end at a moment, and the clock may  *)
(* have passed it. Members here are volunteers who may act as such and     *)
(* hold what the role requires; a refusal of others changes nothing.       *)
(***************************************************************************)
EXTENDS Integers, FiniteSets

CONSTANTS Clients,    \* Worker invocations
          Members,
          None,       \* nobody; or what an edit leaves alone
          Capacities, \* bound: places a shift may have
          Moments,    \* bound: when a shift may end
          MaxCalls,   \* bound: calls of members and staff
          MaxCrashes  \* bound: cron jobs lost half way

ASSUME ShiftsAssumption ==
  /\ None \notin Members \cup Capacities \cup Moments
  /\ Capacities \subseteq Nat \ {0} /\ Moments \subseteq Nat \ {0}
  /\ IsFiniteSet(Members)
  /\ MaxCalls \in Nat /\ MaxCrashes \in Nat

Places == {"claimed", "confirmed", "completed"}
Settled == {"cancelled", "no_show", "completed"}
Statuses == Places \cup Settled

VARIABLES shift,   \* the volunteer_shift row
          signup,  \* the volunteer_signup rows, by member; "none" where there is no row
          now,
          req,     \* the request each client is serving
          due,     \* the signups completeFinishedShifts() has selected
          calls, crashes

bounds == <<calls, crashes>>
vars == <<shift, signup, now, req, due, bounds>>

Shift == [capacity : Capacities, ends : Moments, cancelled : BOOLEAN]
Ended == shift.ends < now
Claimed == Cardinality({m \in Members : signup[m] \in Places})

(* A request has the shift it read. A claim has its member. An edit has    *)
(* the capacity and the end it asks for, and the claims it counted.        *)
Labels == {"idle", "existing", "revive", "insert", "count", "update"}
Request == [at : Labels, shift : Shift \cup {None}, member : Members \cup {None},
            capacity : Capacities \cup {None}, ends : Moments \cup {None}, counted : Nat]
Idle == [at |-> "idle", shift |-> None, member |-> None,
         capacity |-> None, ends |-> None, counted |-> 0]

At(p, label) == req[p].at = label
Become(p, r) == req' = [req EXCEPT ![p] = r]
End(p) == Become(p, Idle)
Set(m, status) == signup' = [signup EXCEPT ![m] = status]
Call == calls < MaxCalls /\ calls' = calls + 1

-----------------------------------------------------------------------------
(* claimShift(): the shift, the member's row if there is one, the place.   *)
Claim(p, m) ==
  /\ req[p] = Idle /\ Call
  /\ ~shift.cancelled /\ ~Ended
  /\ Become(p, [Idle EXCEPT !.at = "existing", !.shift = shift, !.member = m])
  /\ UNCHANGED <<shift, signup, now, due, crashes>>

Existing(p) ==
  LET r == req[p] IN
  /\ At(p, "existing")
  /\ CASE signup[r.member] = "none" -> Become(p, [r EXCEPT !.at = "insert"])
       [] signup[r.member] = "cancelled" -> Become(p, [r EXCEPT !.at = "revive"])
       [] OTHER -> End(p)
  /\ UNCHANGED <<shift, signup, now, due, bounds>>

(* Mutant of HasRoom: one place too many.                                  *)
HasRoomMutant(capacity) == Claimed <= capacity
HasRoom(capacity) == Claimed < capacity

Revive(p) ==
  LET r == req[p] IN
  /\ At(p, "revive")
  /\ IF HasRoom(r.shift.capacity) THEN Set(r.member, "claimed") ELSE UNCHANGED signup
  /\ End(p)
  /\ UNCHANGED <<shift, now, due, bounds>>

(* The unique index on shift and member refuses a second row.              *)
Insert(p) ==
  LET r == req[p] IN
  /\ At(p, "insert")
  /\ IF HasRoom(r.shift.capacity) /\ signup[r.member] = "none"
     THEN Set(r.member, "claimed") ELSE UNCHANGED signup
  /\ End(p)
  /\ UNCHANGED <<shift, now, due, bounds>>

-----------------------------------------------------------------------------
(* One conditional UPDATE each. *)
(* Mutant of Droppable: whatever the status.                               *)
DroppableMutant(m) == signup[m] # "none"
Droppable(m) == signup[m] \in {"claimed", "confirmed"}

Change(m, status) == Call /\ Set(m, status) /\ UNCHANGED <<shift, now, req, due, crashes>>
CancelSignup(m) == Droppable(m) /\ Change(m, "cancelled")
ConfirmSignup(m) == signup[m] = "claimed" /\ Change(m, "confirmed")
MarkNoShow(m) == signup[m] \in Places /\ Change(m, "no_show")
CancelShift == /\ ~shift.cancelled /\ Call
               /\ shift' = [shift EXCEPT !.cancelled = TRUE]
               /\ UNCHANGED <<signup, now, req, due, crashes>>

(* updateShift(): the row, the claims when the capacity is to change, and  *)
(* a write of all times, those nobody asked to change as they were read.   *)
UpdateShift(p, capacity, ends) ==
  /\ req[p] = Idle /\ Call /\ {capacity, ends} # {None}
  /\ Become(p, [Idle EXCEPT !.at = IF capacity = None THEN "update" ELSE "count",
                            !.shift = shift, !.capacity = capacity, !.ends = ends])
  /\ UNCHANGED <<shift, signup, now, due, crashes>>

(* Mutant of Fits: the claims are not counted.                             *)
FitsMutant(capacity) == TRUE
Fits(capacity) == Claimed <= capacity

CountClaims(p) ==
  LET r == req[p] IN
  /\ At(p, "count")
  /\ IF Fits(r.capacity) THEN Become(p, [r EXCEPT !.at = "update", !.counted = Claimed])
                         ELSE End(p)
  /\ UNCHANGED <<shift, signup, now, due, bounds>>

WriteShift(p) ==
  LET r == req[p] IN
  /\ At(p, "update")
  /\ shift' = [shift EXCEPT !.capacity = IF r.capacity = None THEN @ ELSE r.capacity,
                            !.ends = IF r.ends = None THEN r.shift.ends ELSE r.ends]
  /\ End(p)
  /\ UNCHANGED <<signup, now, due, bounds>>

-----------------------------------------------------------------------------
(* completeFinishedShifts(), every quarter of an hour. *)
(* Mutant of Due: claims that staff never confirmed.                       *)
DueMutant == {m \in Members : signup[m] = "claimed" /\ Ended /\ ~shift.cancelled}
Due == {m \in Members : signup[m] = "confirmed" /\ Ended /\ ~shift.cancelled}

SelectDue ==
  /\ due = {} /\ Due # {} /\ due' = Due
  /\ UNCHANGED <<shift, signup, now, req, bounds>>

Complete ==
  /\ due # {} /\ due' = {}
  /\ signup' = [m \in Members |-> IF m \in due THEN "completed" ELSE signup[m]]
  /\ UNCHANGED <<shift, now, req, bounds>>

Tick ==
  /\ \E t \in Moments : t >= now
  /\ now' = now + 1
  /\ UNCHANGED <<shift, signup, req, due, bounds>>

(* The cron job's Worker is lost. A lost request is one that never goes on. *)
Crash ==
  /\ crashes < MaxCrashes /\ crashes' = crashes + 1
  /\ due # {} /\ due' = {}
  /\ UNCHANGED <<shift, signup, now, req, calls>>

-----------------------------------------------------------------------------
Init ==
  /\ shift \in [capacity : Capacities, ends : Moments, cancelled : {FALSE}]
  /\ signup = [m \in Members |-> "none"]
  /\ now = 1 /\ due = {}
  /\ req = [p \in Clients |-> Idle]
  /\ calls = 0 /\ crashes = 0

Continue(p) == Existing(p) \/ Revive(p) \/ Insert(p) \/ CountClaims(p) \/ WriteShift(p)

Next ==
  \/ \E p \in Clients :
       \/ Continue(p)
       \/ \E m \in Members : Claim(p, m)
       \/ \E c \in Capacities \cup {None}, t \in Moments \cup {None} : UpdateShift(p, c, t)
  \/ \E m \in Members : CancelSignup(m) \/ ConfirmSignup(m) \/ MarkNoShow(m)
  \/ CancelShift \/ SelectDue \/ Complete \/ Tick \/ Crash

Spec == Init /\ [][Next]_vars

(* The cron job comes round and gets through unless its Worker is lost.    *)
Fairness == WF_vars(SelectDue) /\ WF_vars(Complete)
FairSpec == Spec /\ Fairness

-----------------------------------------------------------------------------
(* Variables have their types, and rows stay: a member whose row a claim   *)
(* revives, or whom the cron job has selected, has one.                    *)
TypeOK ==
  /\ shift \in Shift
  /\ signup \in [Members -> Statuses \cup {"none"}]
  /\ now \in Nat
  /\ req \in [Clients -> Request]
  /\ \A p \in Clients : At(p, "revive") => signup[req[p].member] # "none"
  /\ due \subseteq {m \in Members : signup[m] # "none"}
  /\ calls \in 0..MaxCalls /\ crashes \in 0..MaxCrashes

(* A shift has more claims than places only if the step that got it there  *)
(* was overtaken: a claim by a smaller capacity, an edit by a claim since  *)
(* it counted, the cron job by a withdrawal or no-show since it selected   *)
(* (hasRoomSql, updateShift, completeFinishedShifts).                      *)
OvertakenClaim(p) == req[p].at \in {"revive", "insert"} /\ req[p].shift.capacity # shift.capacity
OvertakenEdit(p) == At(p, "update") /\ req[p].capacity # None /\ req[p].counted # Claimed
OverfullOnlyWhenOvertaken ==
  [][Claimed' > shift'.capacity /\ (Claimed' > Claimed \/ shift'.capacity < shift.capacity)
       => \/ \E p \in Clients : req'[p] = Idle /\ (OvertakenClaim(p) \/ OvertakenEdit(p))
          \/ \E m \in due : signup[m] # "confirmed"]_vars

(* What became of a signup stands: a completed one may turn out a no-show, *)
(* a withdrawn one be claimed again, and nothing else is rewritten, except *)
(* by a claim or a cron job that had read the row before it was settled.   *)
SettledUnlessOvertaken ==
  [][\A m \in Members :
       signup[m] \in Settled /\ signup'[m] # signup[m]
         => \/ <<signup[m], signup'[m]>> \in {<<"completed", "no_show">>, <<"cancelled", "claimed">>}
            \/ m \in due
            \/ \E p \in Clients : At(p, "revive") /\ req[p].member = m]_vars

(* Work that staff confirmed is recorded: once the shift is over, a        *)
(* confirmed signup is completed, unless it or the shift is changed.       *)
Worked(m) == signup[m] = "confirmed" /\ Ended /\ ~shift.cancelled
WorkIsCompleted == \A m \in Members : Worked(m) ~> ~Worked(m)
=============================================================================
