-------------------------- MODULE VolunteeringProofs --------------------------
(***************************************************************************)
(* Volunteer shifts, hour logs, edits of suggestions and the premium tier  *)
(* of a band, for every number of members, requests, rows and calls. Each  *)
(* component has its inductive invariant and its theorems, and the last    *)
(* part states them of the instance that is model-checked.                 *)
(***************************************************************************)
EXTENDS MCVolunteering, FiniteSetTheorems, WellFoundedInduction, TLAPS

-----------------------------------------------------------------------------
(* VolunteerShifts: the types, that a shift has more claims than places    *)
(* only when a step was overtaken, and that what became of a signup        *)
(* stands.                                                                 *)
(* A claim has its member and the shift it read; an edit that lowers the   *)
(* places does so to no fewer than the claims it counted.                  *)
RequestOK(r) ==
  /\ r.at \in {"existing", "revive", "insert"} => r.member \in Members /\ r.shift \in Shift
  /\ r.at \in {"count", "update"} => r.shift \in Shift
  /\ r.at = "count" => r.capacity # None
  /\ r.at = "update" /\ r.capacity # None => r.counted <= r.capacity
ShiftInv == TypeOK /\ \A p \in Clients : RequestOK(req[p])

RequestsOK ==
  /\ req' \in [Clients -> Request]
  /\ \A p \in Clients : RequestOK(req'[p]) /\ (At(p, "revive") => signup[req[p].member] # "none")'
SignupsOK ==
  /\ signup' \in [Members -> Statuses \cup {"none"}]
  /\ \A m \in Members : signup[m] # "none" => signup'[m] # "none"

-----------------------------------------------------------------------------
(* The claims are counted among finitely many members. *)

Claims == {m \in Members : signup[m] \in Places}

LEMMA ClaimsFinite == IsFiniteSet(Claims) /\ IsFiniteSet(Claims)' /\ Claimed \in Nat /\ Claimed' \in Nat
<1>1. \A S : S \subseteq Members => IsFiniteSet(S) /\ Cardinality(S) \in Nat
  BY ShiftsAssumption, FS_Subset, FS_CardinalityType
<1> QED BY <1>1 DEF Claims, Claimed

LEMMA FewerClaims == Claims' \subseteq Claims => Claimed' <= Claimed
BY ClaimsFinite, FS_Subset DEF Claims, Claimed

LEMMA OneMoreClaim ==
  ASSUME NEW m \in Members, Claims' \subseteq Claims \cup {m}
  PROVE  Claimed' <= Claimed + 1
<1>1. IsFiniteSet(Claims) /\ Claimed = Cardinality(Claims) /\ Claimed' = Cardinality(Claims')
  BY ClaimsFinite DEF Claims, Claimed
<1>2. IsFiniteSet(Claims \cup {m})
      /\ Cardinality(Claims \cup {m}) = IF m \in Claims THEN Claimed ELSE Claimed + 1
  BY <1>1, FS_AddElement
<1>3. Cardinality(Claims') <= Cardinality(Claims \cup {m})
  BY <1>2, FS_Subset
<1> QED BY <1>1, <1>2, <1>3, ClaimsFinite

-----------------------------------------------------------------------------
(* What the building blocks of a step do to the types. *)

LEMMA BecomeOK ==
  ASSUME ShiftInv, NEW p \in Clients, NEW r \in Request, RequestOK(r), Become(p, r),
         r.at = "revive" => signup[r.member] # "none", SignupsOK
  PROVE  RequestsOK
BY DEF ShiftInv, TypeOK, Become, RequestsOK, SignupsOK, At, RequestOK

LEMMA IdleOK == Idle \in Request /\ RequestOK(Idle) /\ Idle.at = "idle"
BY DEF Idle, Request, Labels, RequestOK

LEMMA EndOK ==
  ASSUME ShiftInv, NEW p \in Clients, End(p), SignupsOK
  PROVE  RequestsOK
BY IdleOK, BecomeOK DEF End

LEMMA KeepRequests ==
  ASSUME ShiftInv, UNCHANGED req, SignupsOK
  PROVE  RequestsOK
BY DEF ShiftInv, TypeOK, RequestsOK, SignupsOK, At, RequestOK

LEMMA SetOK ==
  ASSUME ShiftInv, NEW m \in Members, NEW status \in Statuses, Set(m, status)
  PROVE  SignupsOK
BY DEF ShiftInv, TypeOK, Set, SignupsOK, Statuses, Places, Settled

LEMMA KeepSignups ==
  ASSUME ShiftInv, UNCHANGED signup
  PROVE  SignupsOK
BY DEF ShiftInv, TypeOK, SignupsOK

LEMMA KeepDue ==
  ASSUME ShiftInv, UNCHANGED due, SignupsOK
  PROVE  due' \subseteq {m \in Members : signup'[m] # "none"}
BY DEF ShiftInv, TypeOK, SignupsOK

LEMMA Combine ==
  ASSUME RequestsOK, SignupsOK, shift' \in Shift, now' \in Nat,
         due' \subseteq {m \in Members : signup'[m] # "none"},
         calls' \in 0..MaxCalls, crashes' \in 0..MaxCrashes
  PROVE  ShiftInv'
BY DEF RequestsOK, SignupsOK, ShiftInv, TypeOK

LEMMA CallOK == ShiftInv /\ Call => calls' \in 0..MaxCalls
BY ShiftsAssumption DEF ShiftInv, TypeOK, Call

-----------------------------------------------------------------------------
(* Type correctness. *)

LEMMA InitOK == Init => ShiftInv
<1> SUFFICES ASSUME Init PROVE ShiftInv
  OBVIOUS
<1>1. 0 \in 0..MaxCalls /\ 0 \in 0..MaxCrashes
  BY ShiftsAssumption
<1>2. shift \in Shift /\ signup \in [Members -> Statuses \cup {"none"}]
  BY DEF Init, Shift
<1> QED BY <1>1, <1>2, IdleOK DEF Init, ShiftInv, TypeOK, At

(* A request runs on. *)
LEMMA ContinueOK ==
  ASSUME ShiftInv, NEW p \in Clients, Continue(p)
  PROVE  ShiftInv'
<1> DEFINE r == req[p]
<1>1. /\ r \in Request /\ RequestOK(r) /\ shift \in Shift /\ now \in Nat
      /\ calls \in 0..MaxCalls /\ crashes \in 0..MaxCrashes
  BY DEF ShiftInv, TypeOK
<1>2. UNCHANGED <<shift, now, due, bounds>> /\ SignupsOK /\ RequestsOK => ShiftInv'
  BY <1>1, KeepDue, Combine DEF bounds
<1>3. CASE Existing(p)
  <2>1. SignupsOK /\ r.member \in Members /\ r.shift \in Shift
    BY <1>1, <1>3, KeepSignups DEF Existing, At, RequestOK
  <2>2. CASE End(p)
    BY <1>2, <1>3, <2>1, <2>2, EndOK DEF Existing
  <2>3. CASE Become(p, [r EXCEPT !.at = "insert"])
    <3>1. [r EXCEPT !.at = "insert"] \in Request /\ RequestOK([r EXCEPT !.at = "insert"])
      BY <1>1, <2>1 DEF Request, Labels, RequestOK
    <3>2. [r EXCEPT !.at = "insert"].at # "revive"
      BY <1>1 DEF Request
    <3> QED BY <1>2, <1>3, <2>1, <2>3, <3>1, <3>2, BecomeOK DEF Existing
  <2>4. CASE Become(p, [r EXCEPT !.at = "revive"]) /\ signup[r.member] = "cancelled"
    <3>1. [r EXCEPT !.at = "revive"] \in Request /\ RequestOK([r EXCEPT !.at = "revive"])
          /\ [r EXCEPT !.at = "revive"].member = r.member
      BY <1>1, <2>1 DEF Request, Labels, RequestOK
    <3> QED BY <1>2, <1>3, <2>1, <2>4, <3>1, BecomeOK DEF Existing
  <2> QED BY <1>3, <2>2, <2>3, <2>4 DEF Existing
<1>4. CASE Revive(p) \/ Insert(p)
  <2>1. r.member \in Members
    BY <1>1, <1>4 DEF Revive, Insert, At, RequestOK
  <2>2. SignupsOK
    BY <1>4, <2>1, SetOK, KeepSignups DEF Revive, Insert, Statuses, Places
  <2> QED BY <1>2, <1>4, <2>2, EndOK DEF Revive, Insert
<1>5. CASE CountClaims(p)
  <2>1. SignupsOK
    BY <1>5, KeepSignups DEF CountClaims
  <2>2. CASE End(p)
    BY <1>2, <1>5, <2>1, <2>2, EndOK DEF CountClaims
  <2>3. CASE Fits(r.capacity) /\ Become(p, [r EXCEPT !.at = "update", !.counted = Claimed])
    <3> DEFINE n == Claimed
    <3>1. n \in Nat /\ n <= r.capacity
      BY <2>3, ClaimsFinite DEF Fits
    <3> DEFINE s == [r EXCEPT !.at = "update", !.counted = n]
    <3> HIDE DEF n
    <3>2. s \in Request /\ RequestOK(s) /\ s.at = "update"
      BY <1>1, <1>5, <3>1 DEF CountClaims, At, Request, Labels, RequestOK
    <3>3. Become(p, s)
      BY <2>3 DEF n
    <3> QED BY <1>2, <1>5, <2>1, <3>2, <3>3, BecomeOK DEF CountClaims
  <2> QED BY <1>5, <2>2, <2>3 DEF CountClaims
<1>6. CASE WriteShift(p)
  <2>1. shift' \in Shift
    BY <1>1, <1>6 DEF WriteShift, Shift, At, Request, RequestOK
  <2> QED BY <1>1, <1>6, <2>1, KeepSignups, KeepDue, EndOK, Combine DEF WriteShift, bounds
<1> QED BY <1>3, <1>4, <1>5, <1>6 DEF Continue

LEMMA StepOK == ShiftInv /\ [Next]_vars => ShiftInv'
<1> SUFFICES ASSUME ShiftInv, [Next]_vars PROVE ShiftInv'
  OBVIOUS
<1>1. shift \in Shift /\ now \in Nat /\ calls \in 0..MaxCalls /\ crashes \in 0..MaxCrashes
  BY DEF ShiftInv, TypeOK
<1>2. ASSUME NEW p \in Clients, NEW m \in Members, Claim(p, m) PROVE ShiftInv'
  <2> DEFINE s == [Idle EXCEPT !.at = "existing", !.shift = shift, !.member = m]
  <2>1. s \in Request /\ RequestOK(s) /\ s.at = "existing"
    BY <1>1 DEF Idle, Request, Labels, RequestOK
  <2> QED BY <1>1, <1>2, <2>1, CallOK, KeepSignups, KeepDue, BecomeOK, Combine DEF Claim
<1>3. ASSUME NEW p \in Clients, NEW c \in Capacities \cup {None}, NEW t \in Moments \cup {None},
             UpdateShift(p, c, t)
      PROVE  ShiftInv'
  <2> DEFINE s == [Idle EXCEPT !.at = IF c = None THEN "update" ELSE "count",
                               !.shift = shift, !.capacity = c, !.ends = t]
  <2>1. s \in Request /\ RequestOK(s) /\ s.at # "revive"
    BY <1>1 DEF Idle, Request, Labels, RequestOK
  <2> QED BY <1>1, <1>3, <2>1, CallOK, KeepSignups, KeepDue, BecomeOK, Combine DEF UpdateShift
<1>4. ASSUME NEW m \in Members, CancelSignup(m) \/ ConfirmSignup(m) \/ MarkNoShow(m)
      PROVE  ShiftInv'
  <2>1. SignupsOK
    BY <1>4, SetOK DEF CancelSignup, ConfirmSignup, MarkNoShow, Change, Statuses, Places, Settled
  <2> QED
    BY <1>1, <1>4, <2>1, CallOK, KeepRequests, KeepDue, Combine
    DEF CancelSignup, ConfirmSignup, MarkNoShow, Change
<1>5. CASE CancelShift
  <2>1. shift' \in Shift
    BY <1>1, <1>5 DEF CancelShift, Shift
  <2> QED BY <1>1, <1>5, <2>1, CallOK, KeepSignups, KeepRequests, KeepDue, Combine DEF CancelShift
<1>6. CASE SelectDue
  BY <1>1, <1>6, KeepSignups, KeepRequests, Combine DEF SelectDue, Due, bounds
<1>7. CASE Complete
  <2>1. SignupsOK
    BY <1>7 DEF Complete, SignupsOK, ShiftInv, TypeOK, Statuses, Settled
  <2> QED BY <1>1, <1>7, <2>1, KeepRequests, Combine DEF Complete, bounds
<1>8. CASE Tick
  BY <1>1, <1>8, KeepSignups, KeepRequests, KeepDue, Combine DEF Tick, bounds
<1>9. CASE Crash
  <2>1. crashes' \in 0..MaxCrashes
    BY <1>1, <1>9, ShiftsAssumption DEF Crash
  <2> QED BY <1>1, <1>9, <2>1, KeepSignups, KeepRequests, Combine DEF Crash
<1>10. CASE UNCHANGED vars
  BY <1>1, <1>10, KeepSignups, KeepRequests, KeepDue, Combine DEF vars, bounds
<1> QED
  BY <1>2, <1>3, <1>4, <1>5, <1>6, <1>7, <1>8, <1>9, <1>10, ContinueOK DEF Next

(* The shift, the signups and the requests about them keep their types; a  *)
(* row that a claim revives, or that the cron job selected, exists.        *)
THEOREM TypeCorrect == Spec => []TypeOK
<1>1. ShiftInv => TypeOK
  BY DEF ShiftInv
<1> QED BY <1>1, InitOK, StepOK, PTL DEF Spec

-----------------------------------------------------------------------------
(* A shift has no more claims than places, and the exceptions. *)

Overtaking == \/ \E p \in Clients : req'[p] = Idle /\ (OvertakenClaim(p) \/ OvertakenEdit(p))
              \/ \E m \in due : signup[m] # "confirmed"
Grows == Claimed' > shift'.capacity /\ (Claimed' > Claimed \/ shift'.capacity < shift.capacity)

LEMMA ClaimsKept == UNCHANGED signup => Claimed' = Claimed
BY DEF Claimed

LEMMA NothingGrows == ShiftInv /\ Claimed' <= Claimed /\ UNCHANGED shift => ~Grows
<1>1. Claimed \in Nat /\ Claimed' \in Nat /\ (ShiftInv => shift.capacity \in Nat)
  BY ClaimsFinite, ShiftsAssumption DEF ShiftInv, TypeOK, Shift
<1> QED BY <1>1 DEF Grows

LEMMA OverfullStep == ShiftInv /\ [Next]_vars => (Grows => Overtaking)
<1> SUFFICES ASSUME ShiftInv, [Next]_vars, ~Overtaking PROVE ~Grows
  OBVIOUS
<1>1. shift \in Shift /\ shift.capacity \in Nat /\ Claimed \in Nat /\ Claimed' \in Nat
  BY ShiftsAssumption, ClaimsFinite DEF ShiftInv, TypeOK, Shift
<1>2. \A p \in Clients : End(p) => ~OvertakenClaim(p) /\ ~OvertakenEdit(p)
  BY DEF ShiftInv, TypeOK, End, Become, Overtaking
<1>3. UNCHANGED <<shift, signup>> => ~Grows
  BY <1>1, ClaimsKept, NothingGrows
<1>4. ASSUME NEW p \in Clients, Revive(p) \/ Insert(p) PROVE ~Grows
  <2>1. req[p].member \in Members /\ req[p].shift.capacity = shift.capacity
    BY <1>2, <1>4 DEF Revive, Insert, At, ShiftInv, RequestOK, OvertakenClaim
  <2>2. CASE UNCHANGED signup
    BY <1>3, <1>4, <2>2 DEF Revive, Insert
  <2>3. CASE Set(req[p].member, "claimed") /\ HasRoom(shift.capacity)
    <3>1. Claimed' <= Claimed + 1
      BY <2>1, <2>3, OneMoreClaim DEF Set, Claims, ShiftInv, TypeOK
    <3>2. Claimed < shift.capacity /\ UNCHANGED shift
      BY <1>4, <2>3 DEF HasRoom, Revive, Insert
    <3> QED BY <1>1, <3>1, <3>2 DEF Grows
  <2> QED BY <1>4, <2>1, <2>2, <2>3 DEF Revive, Insert
<1>5. ASSUME NEW p \in Clients, WriteShift(p) PROVE ~Grows
  <2>1. Claimed' = Claimed
    BY <1>5, ClaimsKept DEF WriteShift
  <2>2. CASE req[p].capacity = None
    <3>1. shift'.capacity = shift.capacity
      BY <1>1, <1>5, <2>2 DEF WriteShift, Shift
    <3> QED BY <1>1, <2>1, <3>1 DEF Grows
  <2>3. CASE req[p].capacity # None
    <3>1. shift'.capacity = req[p].capacity
      BY <1>1, <1>5, <2>3 DEF WriteShift, Shift
    <3>2. req[p].counted <= req[p].capacity /\ req[p].counted = Claimed /\ req[p].capacity \in Nat
      BY <1>2, <1>5, <2>3, ShiftsAssumption
      DEF WriteShift, At, ShiftInv, TypeOK, Request, RequestOK, OvertakenEdit
    <3> QED BY <1>1, <2>1, <3>1, <3>2 DEF Grows
  <2> QED BY <2>2, <2>3
<1>6. ASSUME NEW m \in Members, CancelSignup(m) \/ ConfirmSignup(m) \/ MarkNoShow(m) PROVE ~Grows
  <2>1. Claims' \subseteq Claims
    BY <1>6
    DEF CancelSignup, ConfirmSignup, MarkNoShow, Change, Set, Claims, Places, ShiftInv, TypeOK
  <2> QED
    BY <1>6, <2>1, FewerClaims, NothingGrows DEF CancelSignup, ConfirmSignup, MarkNoShow, Change
<1>7. CASE Complete
  <2>1. \A m \in due : signup[m] = "confirmed"
    BY DEF Overtaking
  <2>2. Claims' \subseteq Claims
    BY <1>7, <2>1 DEF Complete, Claims, Places, ShiftInv, TypeOK
  <2> QED BY <1>7, <2>2, FewerClaims, NothingGrows DEF Complete
<1>8. CASE CancelShift
  <2>1. Claimed' = Claimed /\ shift'.capacity = shift.capacity
    BY <1>1, <1>8, ClaimsKept DEF CancelShift, Shift
  <2> QED BY <1>1, <2>1 DEF Grows
<1> QED
  BY <1>3, <1>4, <1>5, <1>6, <1>7, <1>8
  DEF Next, Continue, Claim, Existing, UpdateShift, CountClaims, SelectDue, Tick, Crash, vars

(* A shift gets more claims than places only by a claim or an edit that    *)
(* was overtaken, or by the cron job when it completes a signup that was   *)
(* changed since (claimShift, updateShift, completeFinishedShifts).        *)
THEOREM FullShiftsStayFull == Spec => OverfullOnlyWhenOvertaken
<1>1. ShiftInv /\ [Next]_vars
        => [Claimed' > shift'.capacity /\ (Claimed' > Claimed \/ shift'.capacity < shift.capacity)
              => \/ \E p \in Clients : req'[p] = Idle /\ (OvertakenClaim(p) \/ OvertakenEdit(p))
                 \/ \E m \in due : signup[m] # "confirmed"]_vars
  BY OverfullStep DEF Grows, Overtaking
<1> QED BY <1>1, InitOK, StepOK, PTL DEF Spec, OverfullOnlyWhenOvertaken

-----------------------------------------------------------------------------
(* What became of a signup. *)

Rewritten(m) == signup[m] \in Settled /\ signup'[m] # signup[m]
Late(m) == m \in due \/ \E p \in Clients : At(p, "revive") /\ req[p].member = m
Corrected(m) == <<signup[m], signup'[m]>> \in {<<"completed", "no_show">>, <<"cancelled", "claimed">>}

LEMMA SettledStep ==
  ASSUME ShiftInv, [Next]_vars, NEW m \in Members, Rewritten(m)
  PROVE  Corrected(m) \/ Late(m)
<1>1. signup # signup'
  BY DEF Rewritten
<1>2. ASSUME NEW n \in Members, NEW status, Set(n, status) PROVE n = m
  BY <1>2 DEF Set, Rewritten, ShiftInv, TypeOK
<1>3. ASSUME NEW p \in Clients, Revive(p) PROVE Late(m)
  BY <1>1, <1>2, <1>3 DEF Revive, At, ShiftInv, RequestOK, Late
<1>4. ASSUME NEW p \in Clients PROVE ~Insert(p)
  BY <1>1, <1>2 DEF Insert, At, ShiftInv, RequestOK, Rewritten, Settled
<1>5. ASSUME NEW n \in Members, CancelSignup(n) \/ ConfirmSignup(n) PROVE FALSE
  BY <1>2, <1>5 DEF CancelSignup, ConfirmSignup, Droppable, Change, Rewritten, Settled
<1>6. ASSUME NEW n \in Members, MarkNoShow(n) PROVE Corrected(m)
  <2>1. n = m /\ signup'[m] = "no_show"
    BY <1>2, <1>6 DEF MarkNoShow, Change, Set, ShiftInv, TypeOK
  <2> QED BY <1>6, <2>1 DEF MarkNoShow, Corrected, Rewritten, Places, Settled
<1>7. CASE Complete
  BY <1>7 DEF Complete, Late, Rewritten
<1> QED
  BY <1>1, <1>3, <1>4, <1>5, <1>6, <1>7
  DEF Next, Continue, Claim, Existing, UpdateShift, CountClaims, WriteShift, CancelShift,
      SelectDue, Tick, Crash, vars

(* A settled signup is rewritten only as staff may correct it, or by a     *)
(* claim or cron job that had read it before (cancelSignup, markNoShow).   *)
THEOREM SettledStands == Spec => SettledUnlessOvertaken
<1>1. ShiftInv /\ [Next]_vars
        => [\A m \in Members :
              signup[m] \in Settled /\ signup'[m] # signup[m]
                => \/ <<signup[m], signup'[m]>> \in {<<"completed", "no_show">>, <<"cancelled", "claimed">>}
                   \/ m \in due
                   \/ \E p \in Clients : At(p, "revive") /\ req[p].member = m]_vars
  BY SettledStep DEF Rewritten, Late, Corrected
<1> QED BY <1>1, InitOK, StepOK, PTL DEF Spec, SettledUnlessOvertaken

-----------------------------------------------------------------------------
(* HourLogs: the types, and that the verdict a member is told stands.      *)
HourTypes ==
  /\ log \in [Logs -> Hours!Log]
  /\ desk \in [Clients -> Hours!Request \cup {None}]
  /\ told \in [Logs -> SUBSET Hours!Log]

(* What was told, and what is about to be, is the row as it stands.        *)
ToldOK(id) == told[id] # {} => log[id].status \in Hours!Verdicts /\ told[id] = {log[id]}
TellOK(p) == Hours!Serves(p, "tell") => /\ desk[p].row.status \in Hours!Verdicts
                                  /\ log[desk[p].id] = desk[p].row
HourInv == HourTypes /\ (\A id \in Logs : ToldOK(id)) /\ (\A p \in Clients : TellOK(p))

LEMMA HourInitOK == Hours!Init => HourInv
BY DEF Hours!Init, HourInv, HourTypes, ToldOK, TellOK, Hours!Serves, Hours!Log

(* A row with a verdict is final: no statement but a review writes one.    *)
VerdictsStay ==
  /\ log' \in [Logs -> Hours!Log]
  /\ \A id \in Logs : log[id].status \in Hours!Verdicts => log'[id] = log[id]

(* A step of p that gives it nothing to tell.                              *)
LEMMA NothingToTell ==
  ASSUME HourInv, VerdictsStay, NEW p \in Clients, NEW r \in Hours!Request \cup {None}, Hours!Go(p, r),
         r = None \/ r.at # "tell", UNCHANGED told
  PROVE  HourInv'
<1>1. HourTypes'
  BY DEF HourInv, HourTypes, VerdictsStay, Hours!Go
<1>2. \A id \in Logs : ToldOK(id)'
  BY DEF HourInv, ToldOK, VerdictsStay
<1>3. ~Hours!Serves(p, "tell")' /\ \A q \in Clients \ {p} : desk'[q] = desk[q]
  BY DEF HourInv, HourTypes, Hours!Go, Hours!Serves
<1>4. ASSUME NEW q \in Clients \ {p} PROVE TellOK(q)'
  <2>1. desk'[q] = desk[q] /\ TellOK(q) /\ (desk[q] # None => desk[q].id \in Logs)
    BY <1>3 DEF HourInv, HourTypes, Hours!Request
  <2> QED BY <2>1 DEF TellOK, Hours!Serves, VerdictsStay
<1> QED BY <1>1, <1>2, <1>3, <1>4 DEF HourInv, TellOK

LEMMA ReviewOK ==
  ASSUME HourInv, NEW p \in Clients, NEW verdict \in Hours!Verdicts, Hours!Review(p, verdict)
  PROVE  HourInv'
<1> DEFINE r == desk[p]
           row == [log[r.id] EXCEPT !.status = verdict]
           new == [r EXCEPT !.at = "tell", !.row = row]
<1>1. r \in Hours!Request /\ r.id \in Logs /\ log[r.id] \in Hours!Log
  BY DEF Hours!Review, Hours!Serves, HourInv, HourTypes, Hours!Request
<1>2. row \in Hours!Log /\ row.status = verdict
  BY <1>1 DEF Hours!Log
<1>3. CASE Hours!StillPending(r.id)
  <2>1. log' = [log EXCEPT ![r.id] = row] /\ desk' = [desk EXCEPT ![p] = new] /\ told' = told
    BY <1>3 DEF Hours!Review, Hours!Put, Hours!Go
  <2> HIDE DEF row
  <2>2. new \in Hours!Request /\ new.row = row /\ new.id = r.id
    BY <1>1, <1>2 DEF Hours!Request, Hours!Labels
  <2>3. log[r.id].status \notin Hours!Verdicts
    BY <1>3 DEF Hours!StillPending, Hours!Verdicts
  <2> HIDE DEF new
  <2>4. HourTypes'
    BY <1>1, <1>2, <2>1, <2>2 DEF HourInv, HourTypes
  <2>5. log'[r.id] = row /\ \A id \in Logs \ {r.id} : log'[id] = log[id]
    BY <1>1, <2>1 DEF HourInv, HourTypes
  <2>6. \A id \in Logs : ToldOK(id)'
    BY <2>1, <2>3, <2>5 DEF HourInv, ToldOK
  <2>7. ASSUME NEW q \in Clients PROVE TellOK(q)'
    <3>1. CASE q = p
      BY <1>2, <2>1, <2>2, <2>5, <3>1 DEF TellOK, Hours!Serves, HourInv, HourTypes
    <3>2. CASE q # p
      <4>1. desk'[q] = desk[q] /\ TellOK(q) /\ (desk[q] # None => desk[q].id \in Logs)
        BY <2>1, <3>2 DEF HourInv, HourTypes, Hours!Request
      <4>2. Hours!Serves(q, "tell") => desk[q].id # r.id
        BY <2>3, <4>1 DEF TellOK
      <4> QED BY <2>5, <4>1, <4>2 DEF TellOK, Hours!Serves
    <3> QED BY <3>1, <3>2
  <2> QED BY <2>4, <2>6, <2>7 DEF HourInv
<1>4. CASE ~Hours!StillPending(r.id)
  BY <1>4, NothingToTell DEF Hours!Review, Hours!Finish, VerdictsStay, HourInv, HourTypes
<1> QED BY <1>3, <1>4

LEMMA HourStep == HourInv /\ [Hours!Next]_(Hours!hourVars) => HourInv'
<1> SUFFICES ASSUME HourInv, [Hours!Next]_(Hours!hourVars) PROVE HourInv'
  OBVIOUS
<1>1. ASSUME NEW id \in Logs, NEW n \in Minutes, Hours!SubmitHours(id, n) PROVE HourInv'
  <2> DEFINE row == [status |-> "pending", minutes |-> n]
  <2>1. row \in Hours!Log /\ log[id].status \notin Hours!Verdicts
    BY <1>1 DEF Hours!SubmitHours, Hours!Log, Hours!Verdicts
  <2>2. log' = [log EXCEPT ![id] = row] /\ UNCHANGED <<desk, told>>
    BY <1>1 DEF Hours!SubmitHours, Hours!Put
  <2> HIDE DEF row
  <2>3. HourTypes' /\ \A i \in Logs : log[i].status \in Hours!Verdicts => log'[i] = log[i]
    BY <2>1, <2>2 DEF HourInv, HourTypes
  <2>4. \A i \in Logs : ToldOK(i)'
    BY <2>2, <2>3 DEF HourInv, ToldOK
  <2>5. ASSUME NEW q \in Clients PROVE TellOK(q)'
    <3>1. TellOK(q) /\ (desk[q] # None => desk[q].id \in Logs)
      BY DEF HourInv, HourTypes, Hours!Request
    <3> QED BY <2>2, <2>3, <3>1 DEF TellOK, Hours!Serves
  <2> QED BY <2>3, <2>4, <2>5 DEF HourInv
<1>2. ASSUME NEW p \in Clients, NEW id \in Logs, NEW label \in {"edit", "withdraw"} \cup Hours!Verdicts,
             NEW n \in Minutes, Hours!Read(p, id, label, n)
      PROVE  HourInv'
  <2> DEFINE row == [log[id] EXCEPT !.minutes = n]
             r == [at |-> label, id |-> id, row |-> row]
  <2>1. row \in Hours!Log /\ label \in Hours!Labels \ {"tell"}
    BY DEF HourInv, HourTypes, Hours!Log, Hours!Labels, Hours!Verdicts
  <2>2. Hours!Go(p, r) /\ UNCHANGED <<log, told>>
    BY <1>2 DEF Hours!Read
  <2> HIDE DEF row
  <2>3. r \in Hours!Request /\ r.at # "tell"
    BY <2>1 DEF Hours!Request
  <2> QED BY <2>2, <2>3, NothingToTell DEF VerdictsStay, HourInv, HourTypes
<1>3. ASSUME NEW p \in Clients, Hours!UpdateHourLog(p) \/ Hours!WithdrawHourLog(p) PROVE HourInv'
  <2> DEFINE r == desk[p]
  <2>1. r \in Hours!Request /\ r.id \in Logs /\ r.row.minutes \in Minutes /\ log[r.id] \in Hours!Log
    BY <1>3 DEF Hours!UpdateHourLog, Hours!WithdrawHourLog, Hours!Serves, HourInv, HourTypes, Hours!Request, Hours!Log
  <2>2. VerdictsStay
    <3>1. CASE Hours!StillPending(r.id)
      <4>1. log[r.id].status \notin Hours!Verdicts
        BY <3>1 DEF Hours!StillPending, Hours!Verdicts
      <4>2. PICK row \in Hours!Log : log' = [log EXCEPT ![r.id] = row]
        <5>1. [log[r.id] EXCEPT !.minutes = r.row.minutes] \in Hours!Log
          BY <2>1 DEF Hours!Log
        <5>2. [log[r.id] EXCEPT !.status = "deleted"] \in Hours!Log
          BY <2>1 DEF Hours!Log
        <5> QED BY <1>3, <3>1, <5>1, <5>2 DEF Hours!UpdateHourLog, Hours!WithdrawHourLog
      <4> QED BY <2>1, <4>1, <4>2 DEF VerdictsStay, HourInv, HourTypes
    <3>2. CASE ~Hours!StillPending(r.id)
      BY <1>3, <3>2 DEF Hours!UpdateHourLog, Hours!WithdrawHourLog, VerdictsStay, HourInv, HourTypes
    <3> QED BY <3>1, <3>2
  <2> QED BY <1>3, <2>2, NothingToTell DEF Hours!UpdateHourLog, Hours!WithdrawHourLog, Hours!Finish
<1>4. ASSUME NEW p \in Clients, Hours!Tell(p) PROVE HourInv'
  <2> DEFINE r == desk[p]
  <2>1. /\ r \in Hours!Request /\ r.id \in Logs /\ r.row \in Hours!Log
        /\ r.row.status \in Hours!Verdicts /\ log[r.id] = r.row
    BY <1>4 DEF Hours!Tell, Hours!Serves, HourInv, HourTypes, TellOK, Hours!Request
  <2>2. told' = [told EXCEPT ![r.id] = @ \cup {r.row}] /\ desk' = [desk EXCEPT ![p] = None] /\ log' = log
    BY <1>4 DEF Hours!Tell, Hours!Finish, Hours!Go
  <2>3. HourTypes'
    BY <2>1, <2>2 DEF HourInv, HourTypes
  <2>4. ASSUME NEW id \in Logs PROVE ToldOK(id)'
    <3>1. told[id] \in SUBSET Hours!Log /\ ToldOK(id)
      BY DEF HourInv, HourTypes
    <3>2. CASE id = r.id
      <4>1. told'[id] = told[id] \cup {r.row}
        BY <2>2, <3>2 DEF HourInv, HourTypes
      <4>2. told[id] = {} \/ told[id] = {r.row}
        BY <2>1, <3>1, <3>2 DEF ToldOK
      <4>3. told'[id] = {r.row}
        BY <4>1, <4>2
      <4> QED BY <2>1, <2>2, <3>2, <4>3 DEF ToldOK
    <3>3. CASE id # r.id
      BY <2>2, <3>1, <3>3 DEF ToldOK, HourInv, HourTypes
    <3> QED BY <3>2, <3>3
  <2>5. ASSUME NEW q \in Clients PROVE TellOK(q)'
    BY <2>2 DEF TellOK, Hours!Serves, HourInv, HourTypes
  <2> QED BY <2>3, <2>4, <2>5 DEF HourInv
<1>5. ASSUME NEW p \in Clients, Hours!Crash(p) PROVE HourInv'
  BY <1>5, NothingToTell DEF Hours!Crash, Hours!Finish, VerdictsStay, HourInv, HourTypes
<1>6. CASE UNCHANGED Hours!hourVars
  BY <1>6 DEF Hours!hourVars, HourInv, HourTypes, ToldOK, TellOK, Hours!Serves
<1>7. \A id \in Logs : log[id].minutes \in Minutes
  BY DEF HourInv, HourTypes, Hours!Log
<1> QED BY <1>1, <1>2, <1>3, <1>4, <1>5, <1>6, <1>7, ReviewOK DEF Hours!Next

(* The verdict a member is told is the one that stands, for the hours it   *)
(* was given for (review, updateHourLog, withdrawHourLog).                 *)
THEOREM VerdictsStandTold == Hours!Spec => []Hours!VerdictStands
<1>1. HourInv => Hours!VerdictStands
  BY DEF HourInv, ToldOK, Hours!VerdictStands
<1> QED BY <1>1, HourInitOK, HourStep, PTL DEF Hours!Spec

-----------------------------------------------------------------------------
(* SuggestionEdits: what the requests of an author and of staff know, and  *)
(* how that makes a verdict true to the text.                              *)

Texts == Edits \cup {0, -1}
Turn == [at : {"pending", "count", "write", "read"}]
        \cup [at : {"insert"}, original : Texts]
        \cup [at : {"apply", "decide"}, id : Edits, decision : {"approved", "rejected"}]
        \cup [at : {"delete"}, id : Edits, decision : {"cancel"}]

Reviews(p, i) == turn[p] # None /\ turn[p].at \in {"apply", "decide"} /\ turn[p].id = i
Approves(p, i) == Reviews(p, i) /\ turn[p].decision = "approved"

EditTypes ==
  /\ voters \in SUBSET Others
  /\ edit \in [Edits -> Editing!Statuses]
  /\ turn \in [Clients -> Turn \cup {None}]

(* A request that applies an edit approves it, and has written it when it  *)
(* comes to the verdict.                                                   *)
TurnOK(p) ==
  /\ Editing!At(p, "apply") => turn[p].decision = "approved"
  /\ Editing!At(p, "decide") /\ turn[p].decision = "approved" => turn[p].id \in applied
  /\ \A i \in Edits : Reviews(p, i) => edit[i] # "none"

(* Two reviews of an edit contest it. One that was written and is pending  *)
(* yet has a review that approves it, or lost one; one that was rejected   *)
(* has no review that would write it still.                                *)
EditOK(i) ==
  /\ \A p, q \in Clients : Reviews(p, i) /\ Reviews(q, i) /\ p # q => i \in contested
  /\ edit[i] = "approved" => i \in applied
  /\ i \in applied => edit[i] # "none"
  /\ i \in applied /\ edit[i] = "pending" =>
       i \in contested \/ \E p \in Clients : Editing!At(p, "decide") /\ Approves(p, i)
  /\ edit[i] = "rejected" /\ (i \in applied \/ \E p \in Clients : Approves(p, i)) => i \in contested

EditInv == EditTypes /\ (\A p \in Clients : TurnOK(p)) /\ (\A i \in Edits : EditOK(i))

(* While an edit that none overlapped waits, it is the only one, nobody is *)
(* to write the text or to file another, and an approval is of it.         *)
TextTypes == text \in Texts /\ original \in [Edits -> Texts]
Undisturbed(i) ==
  /\ \A j \in Edits : edit[j] = "pending" => j = i
  /\ \A q \in Clients : turn[q] # None =>
       turn[q].at \notin {"count", "write", "read", "insert"} /\ (turn[q].at = "apply" => turn[q].id = i)
  /\ text = IF i \in applied THEN i ELSE original[i]
Current == \A i \in Edits : edit[i] = "pending" /\ i \notin overlapped => Undisturbed(i)

LEMMA EditInitOK == Editing!Init => EditInv /\ TextTypes /\ Current
BY EditsAssumption DEF Editing!Init, EditInv, EditTypes, TextTypes, Texts, Current, TurnOK, EditOK,
   Editing!At, Reviews, Approves, Editing!Statuses

(* The least of some natural numbers. *)
LEMMA LeastOne ==
  ASSUME NEW S \in SUBSET Nat, S # {}
  PROVE  Editing!Min(S) \in S
<1>1. PICK x \in S : \A y \in S : ~(<<y, x>> \in OpToRel(<, Nat))
  <2>1. \A R, U : IsWellFoundedOn(R, U) =>
                    \A T : T \subseteq U /\ T # {} => \E x \in T : \A y \in T : ~(<<y, x>> \in R)
    BY WFMin
  <2> HIDE DEF OpToRel
  <2> QED BY <2>1, NatLessThanWellFounded, Zenon
<1>2. \A y \in S : ~(y < x)
  BY <1>1 DEF OpToRel
<1>3. \E z \in S : \A y \in S : z <= y
  BY <1>2
<1> QED BY <1>3 DEF Editing!Min

LEMMA OneTurn ==
  ASSUME EditTypes, NEW p \in Clients, NEW t \in Turn \cup {None}, Editing!Do(p, t)
  PROVE  /\ turn' \in [Clients -> Turn \cup {None}]
         /\ turn'[p] = t /\ \A q \in Clients \ {p} : turn'[q] = turn[q]
BY DEF EditTypes, Editing!Do

(* A step after which p is at work on no review, and that no review of p   *)
(* is lost by, unless it counts as contested.                              *)
LEMMA NoReview ==
  ASSUME EditInv, NEW p \in Clients, NEW t \in Turn \cup {None}, Editing!Do(p, t),
         t = None \/ t.at \notin {"apply", "decide"},
         voters' \in SUBSET Others, edit' = edit, applied' = applied,
         contested \subseteq contested',
         Editing!At(p, "decide") => turn[p].id \in contested'
  PROVE  EditInv'
<1>1. /\ turn' \in [Clients -> Turn \cup {None}]
      /\ turn'[p] = t /\ \A q \in Clients \ {p} : turn'[q] = turn[q]
  BY OneTurn DEF EditInv
<1>2. EditTypes'
  BY <1>1 DEF EditInv, EditTypes
<1>3. ASSUME NEW q \in Clients PROVE TurnOK(q)'
  <2>1. CASE q = p
    BY <1>1, <2>1 DEF TurnOK, Editing!At, Reviews
  <2>2. CASE q # p
    BY <1>1, <2>2 DEF EditInv, TurnOK, Editing!At, Reviews
  <2> QED BY <2>1, <2>2
<1>4. ASSUME NEW i \in Edits PROVE EditOK(i)'
  <2>1. \A q \in Clients : /\ Reviews(q, i)' => q # p /\ Reviews(q, i)
                           /\ Approves(q, i)' => q # p /\ Approves(q, i)
    BY <1>1 DEF Reviews, Approves
  <2>2. \A q \in Clients \ {p} : Editing!At(q, "decide") /\ Approves(q, i)
                                   => (Editing!At(q, "decide") /\ Approves(q, i))'
    BY <1>1 DEF Reviews, Approves, Editing!At
  <2>3. Editing!At(p, "decide") /\ Approves(p, i) => i \in contested'
    BY DEF Approves, Reviews
  <2>4. EditOK(i)
    BY DEF EditInv
  <2> QED BY <2>1, <2>2, <2>3, <2>4 DEF EditOK
<1> QED BY <1>2, <1>3, <1>4 DEF EditInv

(* A row that no review is of, or that was read as pending, and its new    *)
(* status.                                                                 *)
LEMMA NewStatus ==
  ASSUME EditInv, NEW p \in Clients, NEW j \in Edits, NEW status \in {"pending", "deleted"},
         Editing!Do(p, None), ~Editing!At(p, "apply"), ~Editing!At(p, "decide"),
         edit' = [edit EXCEPT ![j] = status], status = "pending" => edit[j] = "none",
         UNCHANGED <<voters, applied, contested>>
  PROVE  EditInv'
<1>1. /\ turn' \in [Clients -> Turn \cup {None}]
      /\ turn'[p] = None /\ \A q \in Clients \ {p} : turn'[q] = turn[q]
  BY OneTurn DEF EditInv
<1>2. edit' \in [Edits -> Editing!Statuses] /\ edit'[j] = status /\ \A i \in Edits \ {j} : edit'[i] = edit[i]
  BY DEF EditInv, EditTypes, Editing!Statuses
<1>3. EditTypes'
  BY <1>1, <1>2 DEF EditInv, EditTypes
<1>4. ASSUME NEW i \in Edits
      PROVE  \A q \in Clients : /\ Reviews(q, i)' <=> Reviews(q, i)
                                /\ Approves(q, i)' <=> Approves(q, i)
                                /\ (Editing!At(q, "decide") /\ Approves(q, i))'
                                     <=> Editing!At(q, "decide") /\ Approves(q, i)
  BY <1>1 DEF Reviews, Approves, Editing!At
<1>5. ASSUME NEW q \in Clients PROVE TurnOK(q)'
  <2>1. CASE q = p
    BY <1>1, <2>1 DEF TurnOK, Editing!At, Reviews
  <2>2. CASE q # p
    <3>1. TurnOK(q) /\ turn'[q] = turn[q]
      BY <1>1, <2>2 DEF EditInv
    <3>2. \A i \in Edits : edit[i] # "none" => edit'[i] # "none"
      BY <1>2
    <3> QED BY <3>1, <3>2 DEF TurnOK, Editing!At, Reviews
  <2> QED BY <2>1, <2>2
<1>6. ASSUME NEW i \in Edits PROVE EditOK(i)'
  <2>1. EditOK(i) /\ \A q \in Clients : TurnOK(q)
    BY DEF EditInv
  <2>2. CASE i = j /\ status = "pending"
    <3>1. edit[i] = "none" /\ i \notin applied /\ \A q \in Clients : ~Reviews(q, i)
      BY <2>1, <2>2 DEF EditOK, TurnOK
    <3> QED BY <1>2, <1>4, <2>2, <3>1 DEF EditOK
  <2>3. CASE i = j /\ status = "deleted"
    BY <1>2, <1>4, <2>1, <2>3 DEF EditOK
  <2>4. CASE i # j
    BY <1>2, <1>4, <2>1, <2>4 DEF EditOK
  <2> QED BY <2>2, <2>3, <2>4
<1> QED BY <1>3, <1>5, <1>6 DEF EditInv

LEMMA TakeOK ==
  ASSUME EditInv, NEW p \in Clients, NEW j \in Edits, NEW d \in {"approved", "rejected", "cancel"},
         Editing!Take(p, j, d)
  PROVE  EditInv'
<1> DEFINE t == [at |-> Editing!First(d), id |-> j, decision |-> d]
<1>1. turn[p] = None /\ edit[j] = "pending" /\ Editing!Do(p, t) /\ UNCHANGED <<voters, edit, applied>>
  BY DEF Editing!Take, Editing!rows
<1>2. t \in Turn /\ t.id = j /\ t.decision = d /\ (d = "approved" => t.at = "apply")
      /\ (d = "rejected" => t.at = "decide") /\ (d = "cancel" => t.at = "delete")
  BY DEF Turn, Editing!First
<1>3. contested \subseteq contested' /\ \A i \in contested' \ contested : i = j
  BY DEF Editing!Take
<1>4. ASSUME d # "cancel", NEW q \in Clients, Reviews(q, j) PROVE j \in contested'
  BY <1>4 DEF Editing!Take, Editing!Reviewing, Reviews
<1> HIDE DEF t
<1>5. CASE d = "cancel"
  BY <1>1, <1>2, <1>3, <1>5, NoReview DEF EditInv, EditTypes, Editing!At
<1>6. CASE d # "cancel"
  <2>1. /\ turn' \in [Clients -> Turn \cup {None}]
        /\ turn'[p] = t /\ \A q \in Clients \ {p} : turn'[q] = turn[q]
    BY <1>1, <1>2, OneTurn DEF EditInv
  <2>2. EditTypes'
    BY <1>1, <2>1 DEF EditInv, EditTypes
  <2>3. ASSUME NEW q \in Clients PROVE TurnOK(q)'
    <3>1. CASE q = p
      BY <1>1, <1>2, <1>6, <2>1, <3>1 DEF TurnOK, Editing!At, Reviews
    <3>2. CASE q # p
      BY <1>1, <2>1, <3>2 DEF EditInv, TurnOK, Editing!At, Reviews
    <3> QED BY <3>1, <3>2
  <2>4. ASSUME NEW i \in Edits PROVE EditOK(i)'
    <3>1. EditOK(i)
      BY DEF EditInv
    <3>2. \A q \in Clients \ {p} : /\ Reviews(q, i)' <=> Reviews(q, i)
                                   /\ Approves(q, i)' <=> Approves(q, i)
                                   /\ (Editing!At(q, "decide") /\ Approves(q, i))'
                                        <=> Editing!At(q, "decide") /\ Approves(q, i)
      BY <2>1 DEF Reviews, Approves, Editing!At
    <3>3. ~Reviews(p, i) /\ ~Approves(p, i) /\ (i # j => ~Reviews(p, i)' /\ ~Approves(p, i)')
      BY <1>1, <1>2, <2>1 DEF Reviews, Approves
    <3>4. CASE i # j
      BY <1>1, <1>3, <3>1, <3>2, <3>3, <3>4 DEF EditOK
    <3>5. CASE i = j
      <4>1. \A x, y \in Clients : Reviews(x, i)' /\ Reviews(y, i)' /\ x # y => i \in contested'
        BY <1>3, <1>4, <1>6, <3>1, <3>2, <3>5 DEF EditOK
      <4> QED BY <1>1, <1>3, <3>1, <3>2, <3>3, <3>5, <4>1 DEF EditOK
    <3> QED BY <3>4, <3>5
  <2> QED BY <2>2, <2>3, <2>4 DEF EditInv
<1> QED BY <1>5, <1>6

LEMMA ApplyEditOK ==
  ASSUME EditInv, NEW p \in Clients, Editing!Apply(p)
  PROVE  EditInv'
<1> DEFINE j == turn[p].id
           t == [turn[p] EXCEPT !.at = "decide"]
<1>1. /\ turn[p] # None /\ turn[p].at = "apply" /\ turn[p] \in Turn
      /\ Editing!Do(p, t) /\ applied' = applied \cup {j} /\ UNCHANGED <<voters, edit, contested>>
  BY DEF Editing!Apply, Editing!At, Editing!rows, EditInv, EditTypes
<1>2. turn[p].decision = "approved" /\ j \in Edits /\ Reviews(p, j) /\ Approves(p, j) /\ edit[j] # "none"
  BY <1>1 DEF EditInv, TurnOK, Editing!At, Turn, Reviews, Approves
<1>3. t \in Turn /\ t.at = "decide" /\ t.id = j /\ t.decision = "approved" /\ t # None
  <2>1. t \in [at : {"decide"}, id : Edits, decision : {"approved"}]
    BY <1>1, <1>2 DEF Turn
  <2> QED BY <2>1, EditsAssumption DEF Turn
<1> HIDE DEF t
<1>4. /\ turn' \in [Clients -> Turn \cup {None}]
      /\ turn'[p] = t /\ \A q \in Clients \ {p} : turn'[q] = turn[q]
  BY <1>1, <1>3, OneTurn DEF EditInv
<1>5. EditTypes'
  BY <1>1, <1>4 DEF EditInv, EditTypes
<1>6. ASSUME NEW q \in Clients PROVE TurnOK(q)'
  <2>1. CASE q = p
    BY <1>1, <1>2, <1>3, <1>4, <2>1 DEF TurnOK, Editing!At, Reviews
  <2>2. CASE q # p
    BY <1>1, <1>4, <2>2 DEF EditInv, TurnOK, Editing!At, Reviews
  <2> QED BY <2>1, <2>2
<1>7. ASSUME NEW i \in Edits PROVE EditOK(i)'
  <2>1. EditOK(i)
    BY DEF EditInv
  <2>2. \A q \in Clients : /\ Reviews(q, i)' => Reviews(q, i)
                           /\ Approves(q, i)' => Approves(q, i)
                           /\ Editing!At(q, "decide") /\ Approves(q, i)
                                => (Editing!At(q, "decide") /\ Approves(q, i))'
    <3>1. ASSUME NEW q \in Clients, q = p
          PROVE  /\ Reviews(q, i)' => Reviews(q, i)
                 /\ Approves(q, i)' => Approves(q, i)
                 /\ ~Editing!At(q, "decide")
      BY <1>1, <1>2, <1>3, <1>4, <3>1 DEF Reviews, Approves, Editing!At
    <3> QED BY <1>4, <3>1 DEF Reviews, Approves, Editing!At
  <2>3. CASE i # j
    BY <1>1, <2>1, <2>2, <2>3 DEF EditOK
  <2>4. CASE i = j
    <3>1. (Editing!At(p, "decide") /\ Approves(p, i))'
      BY <1>2, <1>3, <1>4, <2>4 DEF Reviews, Approves, Editing!At
    <3> QED BY <1>1, <1>2, <2>1, <2>2, <2>4, <3>1 DEF EditOK
  <2> QED BY <2>3, <2>4
<1> QED BY <1>5, <1>6, <1>7 DEF EditInv

LEMMA DecideOK ==
  ASSUME EditInv, NEW p \in Clients, Editing!Decide(p)
  PROVE  EditInv'
<1> DEFINE j == turn[p].id
           d == turn[p].decision
<1>1. /\ turn[p] # None /\ turn[p].at = "decide" /\ turn[p] \in Turn
      /\ Editing!Do(p, None) /\ UNCHANGED <<voters, applied, contested>>
      /\ edit' = IF edit[j] = "pending" THEN [edit EXCEPT ![j] = d] ELSE edit
  BY DEF Editing!Decide, Editing!Finish, Editing!At, Editing!ghosts, EditInv, EditTypes
<1>2. j \in Edits /\ d \in {"approved", "rejected"} /\ Reviews(p, j) /\ (d = "approved" => j \in applied)
  BY <1>1 DEF EditInv, TurnOK, Editing!At, Turn, Reviews
<1>3. /\ turn' \in [Clients -> Turn \cup {None}]
      /\ turn'[p] = None /\ \A q \in Clients \ {p} : turn'[q] = turn[q]
  BY <1>1, OneTurn DEF EditInv
<1>4. /\ edit' \in [Edits -> Editing!Statuses] /\ \A i \in Edits \ {j} : edit'[i] = edit[i]
      /\ IF edit[j] = "pending" THEN edit'[j] = d ELSE edit'[j] = edit[j]
  BY <1>1, <1>2 DEF EditInv, EditTypes, Editing!Statuses
<1>5. EditTypes'
  BY <1>1, <1>3, <1>4 DEF EditInv, EditTypes
<1>6. ASSUME NEW q \in Clients PROVE TurnOK(q)'
  <2>1. CASE q = p
    BY <1>3, <2>1 DEF TurnOK, Editing!At, Reviews
  <2>2. CASE q # p
    <3>1. TurnOK(q) /\ turn'[q] = turn[q]
      BY <1>3, <2>2 DEF EditInv
    <3>2. \A i \in Edits : edit[i] # "none" => edit'[i] # "none"
      BY <1>2, <1>4
    <3> QED BY <1>1, <3>1, <3>2 DEF TurnOK, Editing!At, Reviews
  <2> QED BY <2>1, <2>2
<1>7. ASSUME NEW i \in Edits PROVE EditOK(i)'
  <2>1. EditOK(i)
    BY DEF EditInv
  <2>2. \A q \in Clients : /\ Reviews(q, i)' => q # p /\ Reviews(q, i)
                           /\ Approves(q, i)' => q # p /\ Approves(q, i)
    BY <1>3 DEF Reviews, Approves
  <2>3. \A q \in Clients \ {p} : Editing!At(q, "decide") /\ Approves(q, i)
                                   => (Editing!At(q, "decide") /\ Approves(q, i))'
    BY <1>3 DEF Reviews, Approves, Editing!At
  <2>4. CASE i # j
    <3>1. ~Approves(p, i)
      BY <2>4 DEF Approves, Reviews
    <3> QED BY <1>1, <1>4, <2>1, <2>2, <2>3, <2>4, <3>1 DEF EditOK
  <2>5. CASE i = j /\ edit[j] # "pending"
    BY <1>1, <1>4, <2>1, <2>2, <2>5 DEF EditOK
  <2>6. CASE i = j /\ edit[j] = "pending" /\ d = "approved"
    BY <1>1, <1>2, <1>4, <2>1, <2>2, <2>6 DEF EditOK
  <2>7. CASE i = j /\ edit[j] = "pending" /\ d = "rejected"
    <3>1. \A q \in Clients : Approves(q, i) => q # p /\ Reviews(q, i)
      BY <2>7 DEF Approves
    <3>2. i \in applied \/ (\E q \in Clients : Approves(q, i)) => i \in contested
      BY <1>2, <2>1, <2>7, <3>1 DEF EditOK
    <3> QED BY <1>1, <1>4, <2>1, <2>2, <2>7, <3>2 DEF EditOK
  <2> QED BY <1>2, <2>4, <2>5, <2>6, <2>7
<1> QED BY <1>5, <1>6, <1>7 DEF EditInv

LEMMA EditStep == EditInv /\ text \in Texts /\ [Editing!Next]_(Editing!editVars) => EditInv'
<1> SUFFICES ASSUME EditInv, text \in Texts, [Editing!Next]_(Editing!editVars) PROVE EditInv'
  OBVIOUS
<1>1. ASSUME NEW p \in Clients,
             \/ Editing!EditSuggestion(p) \/ Editing!ReadPending(p)
             \/ Editing!CountVotes(p) \/ Editing!WriteText(p)
      PROVE  EditInv'
  <2>1. \A label \in {"pending", "count", "write", "read"} : [at |-> label] \in Turn
    BY DEF Turn
  <2>2. /\ UNCHANGED <<voters, edit, applied, contested>> /\ ~Editing!At(p, "decide")
        /\ \/ Editing!Do(p, None)
           \/ \E label \in {"pending", "count", "write", "read"} : Editing!Do(p, [at |-> label])
    BY <1>1 DEF Editing!EditSuggestion, Editing!ReadPending, Editing!CountVotes, Editing!WriteText,
                Editing!Finish, Editing!At, Editing!rows, Editing!ghosts
  <2> QED BY <2>1, <2>2, NoReview DEF EditInv, EditTypes
<1>2. ASSUME NEW p \in Clients, Editing!ReadText(p) PROVE EditInv'
  <2> DEFINE t == [at |-> "insert", original |-> text]
  <2>1. t \in Turn /\ t.at = "insert"
    BY DEF Turn
  <2>2. Editing!Do(p, t) /\ UNCHANGED <<voters, edit, applied, contested>> /\ ~Editing!At(p, "decide")
    BY <1>2 DEF Editing!ReadText, Editing!At, Editing!rows, Editing!ghosts
  <2> HIDE DEF t
  <2> QED BY <2>1, <2>2, NoReview DEF EditInv, EditTypes
<1>3. ASSUME NEW p \in Clients, Editing!InsertEdit(p) PROVE EditInv'
  <2> DEFINE j == Editing!Min(Editing!Unused)
  <2>1. j \in Edits /\ edit[j] = "none"
    <3>1. Editing!Unused # {} /\ Editing!Unused \in SUBSET Nat
      BY <1>3, EditsAssumption DEF Editing!InsertEdit, Editing!Unused
    <3> QED BY <3>1, LeastOne DEF Editing!Unused
  <2>2. edit' = [edit EXCEPT ![j] = "pending"] /\ Editing!Do(p, None) /\ UNCHANGED <<voters, applied, contested>>
        /\ ~Editing!At(p, "apply") /\ ~Editing!At(p, "decide")
    BY <1>3 DEF Editing!InsertEdit, Editing!Finish, Editing!At, Editing!ghosts
  <2> HIDE DEF j
  <2> QED BY <2>1, <2>2, NewStatus
<1>4. ASSUME NEW p \in Clients, Editing!Cancel(p) PROVE EditInv'
  <2>1. turn[p].id \in Edits
    BY <1>4 DEF Editing!Cancel, Editing!At, EditInv, EditTypes, Turn
  <2> QED BY <1>4, <2>1, NewStatus DEF Editing!Cancel, Editing!Finish, Editing!At, Editing!ghosts
<1>5. ASSUME NEW p \in Clients, Editing!Crash(p) PROVE EditInv'
  BY <1>5, NoReview DEF Editing!Crash, Editing!Finish, Editing!rows, EditInv, EditTypes
<1>6. ASSUME UNCHANGED <<edit, turn, applied, contested>>, voters' \in SUBSET Others PROVE EditInv'
  BY <1>6 DEF EditInv, EditTypes, TurnOK, EditOK, Editing!At, Reviews, Approves
<1>7. CASE Editing!Moderate
  BY <1>6, <1>7 DEF Editing!Moderate, Editing!rows, Editing!ghosts, EditInv, EditTypes
<1>8. ASSUME NEW v \in Others, Editing!ToggleVote(v) PROVE EditInv'
  BY <1>6, <1>8 DEF Editing!ToggleVote, Editing!rows, Editing!ghosts, EditInv, EditTypes
<1>9. CASE UNCHANGED Editing!editVars
  BY <1>6, <1>9 DEF Editing!editVars, EditInv, EditTypes
<1> QED BY <1>1, <1>2, <1>3, <1>4, <1>5, <1>7, <1>8, <1>9, TakeOK, ApplyEditOK, DecideOK DEF Editing!Next

(* The step of one request keeps what waits undisturbed.                   *)
LEMMA CurrentStep ==
  EditInv /\ TextTypes /\ Current /\ [Editing!Next]_(Editing!editVars) => TextTypes' /\ Current'
<1> SUFFICES ASSUME EditInv, TextTypes, Current, [Editing!Next]_(Editing!editVars)
             PROVE  TextTypes' /\ Current'
  OBVIOUS
<1> USE DEF TextTypes
<1>1. ASSUME NEW p \in Clients, NEW t \in Turn \cup {None}, Editing!Do(p, t)
      PROVE  turn'[p] = t /\ \A q \in Clients \ {p} : turn'[q] = turn[q]
  BY <1>1, OneTurn DEF EditInv
<1>2. ASSUME UNCHANGED <<text, edit, original, applied, overlapped>>,
             NEW p \in Clients, NEW t \in Turn \cup {None}, Editing!Do(p, t),
             \/ t = None \/ t.at \in {"pending", "decide", "delete"}
             \/ t.at \in {"count", "write", "read", "insert"}
                /\ (~Editing!Waiting \/ (turn[p] # None /\ turn[p].at \in {"count", "read"}))
             \/ t.at = "apply" /\ t.id \in Edits /\ edit[t.id] = "pending"
      PROVE  TextTypes' /\ Current'
  BY <1>1, <1>2 DEF Current, Undisturbed, Editing!Waiting, Editing!PendingEdits
<1>3. ASSUME NEW p \in Clients,
             \/ Editing!EditSuggestion(p) \/ Editing!ReadPending(p) \/ Editing!CountVotes(p)
             \/ Editing!ReadText(p)
      PROVE  TextTypes' /\ Current'
  <2>1. \A label \in {"pending", "count", "write", "read"} : [at |-> label] \in Turn
    BY DEF Turn
  <2>2. [at |-> "insert", original |-> text] \in Turn
    BY DEF Turn
  <2>3. UNCHANGED <<text, edit, original, applied, overlapped>>
    BY <1>3 DEF Editing!EditSuggestion, Editing!ReadPending, Editing!CountVotes, Editing!ReadText,
                Editing!rows, Editing!ghosts
  <2>4. CASE Editing!EditSuggestion(p)
    BY <1>2, <2>1, <2>3, <2>4 DEF Editing!EditSuggestion
  <2>5. CASE Editing!ReadPending(p)
    <3>1. CASE Editing!Waiting
      BY <1>2, <2>3, <2>5, <3>1 DEF Editing!ReadPending, Editing!Finish
    <3>2. CASE ~Editing!Waiting
      <4>1. Editing!Do(p, [at |-> "count"])
        BY <2>5, <3>2 DEF Editing!ReadPending
      <4> QED BY <1>2, <2>1, <2>3, <3>2, <4>1
    <3> QED BY <3>1, <3>2
  <2>6. CASE Editing!CountVotes(p)
    BY <1>2, <2>1, <2>3, <2>6 DEF Editing!CountVotes, Editing!At
  <2>7. CASE Editing!ReadText(p)
    BY <1>2, <2>2, <2>3, <2>7 DEF Editing!ReadText, Editing!At
  <2> QED BY <1>3, <2>4, <2>5, <2>6, <2>7
<1>4. ASSUME NEW p \in Clients, Editing!WriteText(p) PROVE TextTypes' /\ Current'
  <2>1. /\ turn[p] # None /\ turn[p].at = "write" /\ text' \in Texts
        /\ UNCHANGED <<edit, original, applied, overlapped>>
    BY <1>4 DEF Editing!WriteText, Editing!At, Editing!rows, Editing!ghosts, Texts
  <2> QED BY <2>1 DEF Current, Undisturbed
<1>5. ASSUME NEW p \in Clients, Editing!InsertEdit(p) PROVE TextTypes' /\ Current'
  <2>1. PICK j : j = Editing!Min(Editing!Unused)
    OBVIOUS
  <2>2. j \in Edits /\ edit[j] = "none"
    <3>1. Editing!Unused # {} /\ Editing!Unused \in SUBSET Nat
      BY <1>5, EditsAssumption DEF Editing!InsertEdit, Editing!Unused
    <3> QED BY <2>1, <3>1, LeastOne DEF Editing!Unused
  <2>3. /\ turn[p] # None /\ turn[p].at = "insert" /\ turn[p] \in Turn
        /\ Editing!Do(p, None)
        /\ edit' = [edit EXCEPT ![j] = "pending"]
        /\ original' = [original EXCEPT ![j] = turn[p].original]
        /\ overlapped' = IF Editing!Overlapped(p) THEN overlapped \cup {j} ELSE overlapped
        /\ UNCHANGED <<text, applied>>
    BY <1>5, <2>1 DEF Editing!InsertEdit, Editing!Finish, Editing!At, Editing!ghosts, EditInv, EditTypes
  <2>4. turn[p].original \in Texts
    BY <2>3 DEF Turn
  <2>5. edit'[j] = "pending" /\ \A i \in Edits \ {j} : edit'[i] = edit[i] /\ original'[i] = original[i]
    BY <2>2, <2>3 DEF EditInv, EditTypes, Editing!Statuses
  <2>6. TextTypes'
    BY <2>2, <2>3, <2>4
  <2>7. ASSUME NEW i \in Edits, edit'[i] = "pending", i \notin overlapped' PROVE Undisturbed(i)'
    <3>1. CASE i # j
      BY <2>3, <2>5, <2>7, <3>1 DEF Current, Undisturbed
    <3>2. CASE i = j
      <4>1. ~Editing!Overlapped(p)
        BY <2>3, <2>7, <3>2
      <4>2. /\ \A k \in Edits : edit[k] # "pending"
            /\ turn[p].original = text
            /\ \A q \in Clients \ {p} : turn[q] = None \/ turn[q].at \notin Editing!Writing
        BY <4>1 DEF Editing!Overlapped, Editing!PendingEdits
      <4>3. turn'[p] = None /\ \A q \in Clients \ {p} : turn'[q] = turn[q]
        BY <1>1, <2>3
      <4>4. j \notin applied /\ original'[j] = text
        BY <2>2, <2>3, <4>2 DEF EditInv, EditOK
      <4> QED BY <2>3, <2>5, <3>2, <4>2, <4>3, <4>4 DEF Undisturbed, Editing!Writing
    <3> QED BY <3>1, <3>2
  <2> QED BY <2>6, <2>7 DEF Current
<1>6. ASSUME NEW p \in Clients, NEW j \in Edits, NEW d \in {"approved", "rejected", "cancel"},
             Editing!Take(p, j, d)
      PROVE  TextTypes' /\ Current'
  <2> DEFINE t == [at |-> Editing!First(d), id |-> j, decision |-> d]
  <2>1. /\ edit[j] = "pending" /\ Editing!Do(p, t)
        /\ UNCHANGED <<text, edit, original, applied, overlapped>>
    BY <1>6 DEF Editing!Take, Editing!rows
  <2>2. t \in Turn /\ t.id = j /\ t.at \in {"apply", "decide", "delete"}
    BY DEF Turn, Editing!First
  <2> HIDE DEF t
  <2> QED BY <1>2, <2>1, <2>2
<1>7. ASSUME NEW p \in Clients, NEW j \in Edits, Editing!Do(p, None), Editing!Forget(j),
             NEW status \in Editing!Statuses \ {"pending"},
             UNCHANGED <<text, applied>>,
             edit' = IF edit[j] = "pending" \/ status = "deleted" THEN [edit EXCEPT ![j] = status] ELSE edit
      PROVE  TextTypes' /\ Current'
  <2>1. turn'[p] = None /\ \A q \in Clients \ {p} : turn'[q] = turn[q]
    BY <1>1, <1>7
  <2>2. TextTypes' /\ \A i \in Edits \ {j} : original'[i] = original[i]
    BY <1>7 DEF Editing!Forget, Texts
  <2>3. edit'[j] # "pending" /\ \A i \in Edits \ {j} : edit'[i] = edit[i]
    BY <1>7 DEF EditInv, EditTypes
  <2>4. \A i \in Edits \ {j} : i \notin overlapped' => i \notin overlapped
    BY <1>7 DEF Editing!Forget
  <2> QED BY <1>7, <2>1, <2>2, <2>3, <2>4 DEF Current, Undisturbed
<1>8. ASSUME NEW p \in Clients, Editing!Cancel(p) PROVE TextTypes' /\ Current'
  <2>1. turn[p].id \in Edits
    BY <1>8 DEF Editing!Cancel, Editing!At, EditInv, EditTypes, Turn
  <2> QED BY <1>7, <1>8, <2>1 DEF Editing!Cancel, Editing!Finish, Editing!ghosts, Editing!Statuses
<1>9. ASSUME NEW p \in Clients, Editing!Decide(p) PROVE TextTypes' /\ Current'
  <2>1. turn[p].id \in Edits /\ turn[p].decision \in {"approved", "rejected"}
    BY <1>9 DEF Editing!Decide, Editing!At, EditInv, EditTypes, Turn
  <2> QED BY <1>7, <1>9, <2>1 DEF Editing!Decide, Editing!Finish, Editing!ghosts, Editing!Statuses
<1>10. ASSUME NEW p \in Clients, Editing!Apply(p) PROVE TextTypes' /\ Current'
  <2> DEFINE j == turn[p].id
             t == [turn[p] EXCEPT !.at = "decide"]
  <2>1. /\ turn[p] # None /\ turn[p].at = "apply" /\ turn[p] \in Turn
        /\ Editing!Do(p, t) /\ text' = j /\ applied' = applied \cup {j}
        /\ UNCHANGED <<edit, original, overlapped>>
    BY <1>10 DEF Editing!Apply, Editing!At, Editing!rows, EditInv, EditTypes
  <2>2. j \in Edits /\ t \in Turn /\ t.at = "decide"
    BY <2>1 DEF Turn
  <2>3. turn'[p] = t /\ \A q \in Clients \ {p} : turn'[q] = turn[q]
    BY <1>1, <2>1, <2>2
  <2> HIDE DEF t
  <2> QED BY <2>1, <2>2, <2>3 DEF Current, Undisturbed, Texts
<1>11. ASSUME NEW p \in Clients, Editing!Crash(p) PROVE TextTypes' /\ Current'
  BY <1>2, <1>11 DEF Editing!Crash, Editing!Finish, Editing!rows
<1>12. ASSUME UNCHANGED <<text, edit, original, turn, applied, overlapped>> PROVE TextTypes' /\ Current'
  BY <1>12 DEF Current, Undisturbed
<1>13. CASE Editing!Moderate \/ (\E v \in Others : Editing!ToggleVote(v)) \/ UNCHANGED Editing!editVars
  BY <1>12, <1>13 DEF Editing!Moderate, Editing!ToggleVote, Editing!editVars, Editing!rows, Editing!ghosts
<1> QED BY <1>3, <1>4, <1>5, <1>6, <1>8, <1>9, <1>10, <1>11, <1>13 DEF Editing!Next

LEMMA EditAlways == Editing!Spec => [](EditInv /\ TextTypes /\ Current)
<1>1. EditInv /\ TextTypes /\ Current /\ [Editing!Next]_(Editing!editVars) => (EditInv /\ TextTypes /\ Current)'
  BY EditStep, CurrentStep DEF TextTypes
<1> QED BY <1>1, EditInitOK, PTL DEF Editing!Spec

(* A verdict on an edit is true to the text: one that is approved has been *)
(* written, one that is rejected has not, unless its reviews overlapped or *)
(* one was lost half way (reviewEdit).                                     *)
THEOREM VerdictsMatchText == Editing!Spec => []Editing!VerdictMatchesText
<1>1. EditInv => Editing!VerdictMatchesText
  BY DEF EditInv, EditOK, Editing!VerdictMatchesText
<1> QED BY <1>1, EditAlways, PTL

(* While an edit waits for staff, the text is the one that its author      *)
(* asked to replace, or its own, unless it was filed while other requests  *)
(* were under way (getEditableState, editSuggestion, reviewEdit).          *)
THEOREM PendingEditsAreCurrent == Editing!Spec => []Editing!PendingEditIsCurrent
<1>1. Current => Editing!PendingEditIsCurrent
  BY DEF Current, Undisturbed, Editing!PendingEditIsCurrent, Editing!PendingEdits
<1> QED BY <1>1, EditAlways, PTL

-----------------------------------------------------------------------------
(* BandPremium: what the requests carry, and where a sweep that nothing    *)
(* has come between stands.                                                *)

Job == [at : {"retrieve"}, sub : Subs, copy : {None}]
       \cup [at : {"tag", "sync"}, sub : Subs, copy : Premium!Sub]
       \cup [at : {"ask", "write"}, sub : Subs, ending : BOOLEAN]
       \cup [at : {"tier"}, read : Subs \cup {None}, tier : {"free", "premium"}]
Mail == [kind : {"updated"}, sub : Subs, copy : Premium!Sub]
        \cup [kind : {"checkout"}, sub : Subs, copy : {None}]
Sweep == [list : [Subs -> Premium!Sub], left : SUBSET Subs,
          seen : BOOLEAN, stale : BOOLEAN, quiet : BOOLEAN]

PremiumTypes ==
  /\ band \in Premium!Band
  /\ stripe \in [Subs -> Premium!Sub]
  /\ mail \subseteq Mail
  /\ job \in [Workers -> Job \cup {None}]
  /\ sweep \in Sweep \cup {None}

(* Staff set the tier of a band that they read as having no subscription.  *)
JobOK(p) == Premium!At(p, "tier") => job[p].read = None

(* The list is as Stripe has it, what was done is what is not left, and    *)
(* the band follows a subscription that lives, if one was done.            *)
Of(s) == sweep.list[s].tagged /\ sweep.list[s].status \in Premium!Existing
Done(s) == s \notin sweep.left /\ Of(s)
Follows(s) == /\ Done(s) /\ sweep.list[s].status \in Premium!WriteStatuses
              /\ band = Premium!Synced(s, sweep.list[s])
SweepOK ==
  sweep # None /\ sweep.quiet =>
    /\ \A s \in Subs : stripe[s].status \in Premium!Existing \/ sweep.list[s].status \in Premium!Existing
                         => sweep.list[s] = stripe[s]
    /\ \A s \in sweep.left : Of(s)
    /\ sweep.seen <=> \E s \in Subs : Done(s) /\ sweep.list[s].status \notin Premium!Terminal
    /\ (\E s \in Subs : Done(s) /\ sweep.list[s].status \in Premium!WriteStatuses) =>
         \E s \in Subs : Follows(s)
    /\ sweep.stale => sweep.left = {} /\ ~sweep.seen

PremiumInv == PremiumTypes /\ (\A p \in Workers : JobOK(p)) /\ SweepOK

LEMMA PremiumInitOK == Premium!Init => PremiumInv
BY DEF Premium!Init, PremiumInv, PremiumTypes, JobOK, SweepOK, Premium!At, Premium!Band, Premium!Sub

(* A step that says so ends the quiet of the sweep.                        *)
LEMMA DisturbOK ==
  ASSUME PremiumInv, Premium!Disturb
  PROVE  sweep' \in Sweep \cup {None} /\ SweepOK'
<1>1. CASE sweep = None
  BY <1>1 DEF Premium!Disturb, SweepOK
<1>2. CASE sweep # None
  <2>1. sweep \in Sweep /\ sweep' = [sweep EXCEPT !.quiet = FALSE]
    BY <1>2 DEF Premium!Disturb, PremiumInv, PremiumTypes
  <2>2. sweep' \in Sweep /\ sweep'.quiet = FALSE
    BY <2>1 DEF Sweep
  <2> QED BY <2>2 DEF SweepOK
<1> QED BY <1>1, <1>2

LEMMA SyncedOK ==
  ASSUME PremiumTypes, NEW s \in Subs, NEW row \in Premium!Sub
  PROVE  Premium!Synced(s, row) \in Premium!Band
BY DEF PremiumTypes, Premium!Synced, Premium!Band, Premium!Sub

LEMMA AlterOK ==
  ASSUME PremiumTypes, NEW s \in Subs, NEW row \in Premium!Sub, Premium!Alter(s, row)
  PROVE  stripe' \in [Subs -> Premium!Sub] /\ mail' \subseteq Mail
<1>1. [kind |-> "updated", sub |-> s, copy |-> row] \in Mail
  BY DEF Mail
<1> QED BY <1>1 DEF PremiumTypes, Premium!Alter, Premium!Updated

(* What a step of p leaves of the requests.                                *)
LEMMA OneJob ==
  ASSUME PremiumInv, NEW p \in Workers, NEW j \in Job \cup {None}, Premium!Do(p, j),
         j # None /\ j.at = "tier" => j.read = None
  PROVE  job' \in [Workers -> Job \cup {None}] /\ \A q \in Workers : JobOK(q)'
<1>1. job' \in [Workers -> Job \cup {None}] /\ job'[p] = j /\ \A q \in Workers \ {p} : job'[q] = job[q]
  BY DEF Premium!Do, PremiumInv, PremiumTypes
<1> QED BY <1>1 DEF PremiumInv, JobOK, Premium!At

LEMMA SameJobs == PremiumInv /\ UNCHANGED job => \A q \in Workers : JobOK(q)'
BY DEF PremiumInv, JobOK, Premium!At

(* The sweep's own steps. *)
LEMMA ListOK == ASSUME PremiumInv, Premium!List PROVE PremiumInv'
<1> DEFINE left == {s \in Premium!Listed : stripe[s].tagged}
           new == [list |-> stripe, left |-> left, seen |-> FALSE, stale |-> FALSE, quiet |-> TRUE]
<1>1. sweep' = new /\ UNCHANGED <<band, stripe, mail, job>>
  BY DEF Premium!List
<1>2. left \in SUBSET Subs /\ \A s \in Subs : s \in left <=> stripe[s].tagged /\ stripe[s].status \in Premium!Existing
  BY DEF Premium!Listed
<1> HIDE DEF left
<1>3. new \in Sweep /\ new.list = stripe /\ new.left = left /\ new.seen = FALSE /\ new.stale = FALSE
  BY <1>2 DEF Sweep, PremiumInv, PremiumTypes
<1> HIDE DEF new
<1>4. PremiumTypes'
  BY <1>1, <1>3 DEF PremiumInv, PremiumTypes
<1>5. \A s \in Subs : (Of(s)' <=> s \in left) /\ ~Done(s)'
  BY <1>1, <1>2, <1>3 DEF Of, Done
<1>6. SweepOK'
  BY <1>1, <1>2, <1>3, <1>5 DEF SweepOK
<1> QED BY <1>1, <1>4, <1>6, SameJobs DEF PremiumInv

LEMMA ApplyOK == ASSUME PremiumInv, NEW s \in Subs, Premium!Apply(s) PROVE PremiumInv'
<1> DEFINE row == sweep.list[s]
           seen == sweep.seen \/ row.status \notin Premium!Terminal
           new == [sweep EXCEPT !.left = @ \ {s}, !.seen = seen]
<1>1. /\ sweep # None /\ s \in sweep.left /\ sweep \in Sweep /\ row \in Premium!Sub
      /\ sweep' = new /\ band' = Premium!Applied(s, row) /\ UNCHANGED <<stripe, mail, job>>
  BY DEF Premium!Apply, PremiumInv, PremiumTypes, Sweep
<1>2. /\ new \in Sweep /\ new.list = sweep.list /\ new.left = sweep.left \ {s} /\ new.seen = seen
      /\ new.stale = sweep.stale /\ new.quiet = sweep.quiet
  BY <1>1 DEF Sweep
<1> HIDE DEF new
<1>3. PremiumTypes'
  BY <1>1, <1>2, SyncedOK DEF PremiumInv, PremiumTypes, Premium!Applied
<1>4. SweepOK'
  <2> SUFFICES ASSUME sweep.quiet PROVE SweepOK'
    BY <1>1, <1>2 DEF SweepOK
  <2>1. /\ \A t \in Subs : stripe[t].status \in Premium!Existing \/ sweep.list[t].status \in Premium!Existing
                             => sweep.list[t] = stripe[t]
        /\ \A t \in sweep.left : Of(t)
        /\ sweep.seen <=> \E t \in Subs : Done(t) /\ sweep.list[t].status \notin Premium!Terminal
        /\ (\E t \in Subs : Done(t) /\ sweep.list[t].status \in Premium!WriteStatuses) =>
             \E t \in Subs : Follows(t)
        /\ ~sweep.stale
    BY <1>1 DEF PremiumInv, SweepOK
  <2>2. \A t : (Of(t)' <=> Of(t)) /\ (Done(t)' <=> Done(t) \/ t = s)
    BY <1>1, <1>2, <2>1 DEF Of, Done
  <2>3. sweep'.seen <=> \E t \in Subs : Done(t)' /\ sweep'.list[t].status \notin Premium!Terminal
    BY <1>1, <1>2, <2>1, <2>2
  <2>4. (\E t \in Subs : Done(t)' /\ sweep'.list[t].status \in Premium!WriteStatuses) =>
          \E t \in Subs : Follows(t)'
    <3>1. CASE row.status \in Premium!WriteStatuses
      <4>1. Follows(s)'
        BY <1>1, <1>2, <2>2, <3>1 DEF Follows, Premium!Applied, Premium!Synced
      <4> QED BY <4>1
    <3>2. CASE row.status \notin Premium!WriteStatuses
      <4>1. band' = band
        BY <1>1, <3>2 DEF Premium!Applied
      <4>2. \A t \in Subs : Follows(t) => Follows(t)'
        BY <1>1, <1>2, <2>2, <4>1 DEF Follows, Premium!Synced
      <4> QED BY <1>1, <1>2, <2>1, <2>2, <3>2, <4>2
    <3> QED BY <3>1, <3>2
  <2> QED BY <1>1, <1>2, <2>1, <2>2, <2>3, <2>4 DEF SweepOK
<1> QED BY <1>1, <1>3, <1>4, SameJobs DEF PremiumInv

LEMMA SelectOK == ASSUME PremiumInv, Premium!SelectStale PROVE PremiumInv'
<1> DEFINE new == [sweep EXCEPT !.stale = TRUE]
<1>1. /\ sweep # None /\ sweep \in Sweep /\ sweep.left = {} /\ UNCHANGED <<band, stripe, mail, job>>
      /\ sweep' = IF band.sub # None /\ ~sweep.seen THEN new ELSE None
  BY DEF Premium!SelectStale, PremiumInv, PremiumTypes
<1>2. /\ new \in Sweep /\ new.list = sweep.list /\ new.left = sweep.left /\ new.seen = sweep.seen
      /\ new.quiet = sweep.quiet
  BY <1>1 DEF Sweep
<1> HIDE DEF new
<1>3. PremiumTypes'
  BY <1>1, <1>2 DEF PremiumInv, PremiumTypes
<1>4. SweepOK'
  <2>1. CASE sweep' = None
    BY <2>1 DEF SweepOK
  <2>2. CASE sweep' # None /\ sweep' = new /\ ~sweep.seen
    <3>1. \A s \in Subs : (Of(s)' <=> Of(s)) /\ (Done(s)' <=> Done(s))
      BY <1>2, <2>2 DEF Of, Done
    <3>2. \A s \in Subs : Follows(s)' <=> Follows(s)
      BY <1>1, <1>2, <2>2, <3>1 DEF Follows, Premium!Synced
    <3> QED BY <1>1, <1>2, <2>2, <3>1, <3>2 DEF PremiumInv, SweepOK
  <2> QED BY <1>1, <2>1, <2>2
<1> QED BY <1>1, <1>3, <1>4, SameJobs DEF PremiumInv

LEMMA ClearOK == ASSUME PremiumInv, Premium!ClearStale \/ Premium!AbortSweep PROVE PremiumInv'
<1>1. [tier |-> "free", sub |-> None, ending |-> FALSE] \in Premium!Band
  BY DEF Premium!Band
<1>2. sweep' = None /\ band' \in Premium!Band /\ UNCHANGED <<stripe, mail, job>>
  BY <1>1 DEF Premium!ClearStale, Premium!AbortSweep, PremiumInv, PremiumTypes
<1> QED BY <1>2, SameJobs DEF PremiumInv, PremiumTypes, SweepOK

LEMMA FailApplyOK == ASSUME PremiumInv, NEW s \in Subs, Premium!FailApply(s) PROVE PremiumInv'
<1> DEFINE new == [sweep EXCEPT !.left = @ \ {s}, !.quiet = FALSE]
<1>1. sweep' = new /\ sweep \in Sweep /\ UNCHANGED <<band, stripe, mail, job>>
  BY DEF Premium!FailApply, PremiumInv, PremiumTypes
<1>2. new \in Sweep /\ new.quiet = FALSE
  BY <1>1 DEF Sweep
<1> HIDE DEF new
<1> QED BY <1>1, <1>2, SameJobs DEF PremiumInv, PremiumTypes, SweepOK

(* A checkout that is opened is not listed, before or after.               *)
LEMMA UpgradeOK == ASSUME PremiumInv, NEW s \in Subs, Premium!Upgrade(s) PROVE PremiumInv'
<1> DEFINE row == [stripe[s] EXCEPT !.status = "open"]
<1>1. stripe[s].status = "none" /\ stripe[s] \in Premium!Sub /\ stripe' = [stripe EXCEPT ![s] = row]
      /\ UNCHANGED <<band, mail, job, sweep>>
  BY DEF Premium!Upgrade, PremiumInv, PremiumTypes
<1>2. row \in Premium!Sub /\ row.status \notin Premium!Existing /\ stripe[s].status \notin Premium!Existing
  BY <1>1 DEF Premium!Sub, Premium!Existing, Premium!WriteStatuses, Premium!Terminal
<1> HIDE DEF row
<1>3. stripe' \in [Subs -> Premium!Sub] /\ stripe'[s] = row /\ \A t \in Subs \ {s} : stripe'[t] = stripe[t]
  BY <1>1, <1>2 DEF PremiumInv, PremiumTypes
<1>4. PremiumTypes'
  BY <1>1, <1>3 DEF PremiumInv, PremiumTypes
<1>5. SweepOK'
  <2>1. ASSUME sweep # None, sweep.quiet, NEW t \in Subs,
               stripe'[t].status \in Premium!Existing \/ sweep.list[t].status \in Premium!Existing
        PROVE  sweep.list[t] = stripe'[t]
    <3>1. stripe[t].status \in Premium!Existing \/ sweep.list[t].status \in Premium!Existing
          => sweep.list[t] = stripe[t]
      BY <2>1 DEF PremiumInv, SweepOK
    <3>2. t # s
      BY <1>2, <1>3, <2>1, <3>1
    <3> QED BY <1>3, <2>1, <3>1, <3>2
  <2>2. \A t : (Of(t)' <=> Of(t)) /\ (Done(t)' <=> Done(t)) /\ (Follows(t)' <=> Follows(t))
    BY <1>1 DEF Of, Done, Follows, Premium!Synced
  <2> QED BY <1>1, <2>1, <2>2 DEF PremiumInv, SweepOK
<1> QED BY <1>1, <1>4, <1>5, SameJobs DEF PremiumInv

(* A step that the sweep does not see: it changes neither the band nor     *)
(* what Stripe has.                                                        *)
LEMMA RequestOnly ==
  ASSUME PremiumInv, UNCHANGED <<band, stripe, mail, sweep>>,
         job' \in [Workers -> Job \cup {None}], \A q \in Workers : JobOK(q)'
  PROVE  PremiumInv'
<1>1. \A t : (Of(t)' <=> Of(t)) /\ (Done(t)' <=> Done(t)) /\ (Follows(t)' <=> Follows(t))
  BY DEF Of, Done, Follows, Premium!Synced
<1>2. SweepOK'
  BY <1>1 DEF PremiumInv, SweepOK
<1> QED BY <1>2 DEF PremiumInv, PremiumTypes

LEMMA PremiumStep == PremiumInv /\ [Premium!Next]_(Premium!premiumVars) => PremiumInv'
<1> SUFFICES ASSUME PremiumInv, [Premium!Next]_(Premium!premiumVars) PROVE PremiumInv'
  OBVIOUS
<1>1. ASSUME NEW s \in Subs, Premium!CompleteCheckout(s) PROVE PremiumInv'
  <2> DEFINE row == [stripe[s] EXCEPT !.status = "active"]
  <2>1. stripe' = [stripe EXCEPT ![s] = row] /\ mail' = mail \cup {[kind |-> "checkout", sub |-> s, copy |-> None]}
        /\ Premium!Disturb /\ UNCHANGED <<band, job>> /\ stripe[s] \in Premium!Sub
    BY <1>1 DEF Premium!CompleteCheckout, PremiumInv, PremiumTypes
  <2>2. row \in Premium!Sub /\ [kind |-> "checkout", sub |-> s, copy |-> None] \in Mail
    BY <2>1 DEF Premium!Sub, Premium!Existing, Premium!WriteStatuses, Mail
  <2> HIDE DEF row
  <2> QED BY <2>1, <2>2, DisturbOK, SameJobs DEF PremiumInv, PremiumTypes
<1>2. ASSUME NEW s \in Subs, NEW status \in Premium!Existing, Premium!StripeChange(s, status) PROVE PremiumInv'
  <2> DEFINE row == [stripe[s] EXCEPT !.status = status]
  <2>1. row \in Premium!Sub
    BY DEF PremiumInv, PremiumTypes, Premium!Sub
  <2>2. Premium!Alter(s, row) /\ Premium!Disturb /\ UNCHANGED <<band, job>>
    BY <1>2 DEF Premium!StripeChange
  <2> HIDE DEF row
  <2> QED BY <2>1, <2>2, AlterOK, DisturbOK, SameJobs DEF PremiumInv, PremiumTypes
<1>3. ASSUME NEW m \in mail, Premium!Deliver(m) PROVE PremiumInv'
  <2>1. m.sub \in Subs /\ m.copy \in Premium!Sub
    BY <1>3 DEF Premium!Deliver, PremiumInv, PremiumTypes, Mail
  <2> QED BY <1>3, <2>1, SyncedOK, DisturbOK, SameJobs DEF Premium!Deliver, PremiumInv, PremiumTypes
<1>4. ASSUME NEW m \in mail, NEW p \in Workers, Premium!DeliverCheckout(p, m) PROVE PremiumInv'
  <2> DEFINE j == [at |-> "retrieve", sub |-> m.sub, copy |-> None]
  <2>1. j \in Job /\ j.at = "retrieve"
    BY DEF Job, PremiumInv, PremiumTypes, Mail
  <2>2. Premium!Do(p, j) /\ UNCHANGED <<band, stripe, mail, sweep>>
    BY <1>4 DEF Premium!DeliverCheckout
  <2> HIDE DEF j
  <2> QED BY <2>1, <2>2, OneJob, RequestOnly
<1>5. ASSUME NEW p \in Workers, Premium!Retrieve(p) PROVE PremiumInv'
  <2> DEFINE row == stripe[job[p].sub]
             j == [job[p] EXCEPT !.at = IF row.tagged THEN "sync" ELSE "tag", !.copy = row]
  <2>1. job[p] \in [at : {"retrieve"}, sub : Subs, copy : {None}]
    BY <1>5 DEF Premium!Retrieve, Premium!At, PremiumInv, PremiumTypes, Job
  <2>2. row \in Premium!Sub
    BY <2>1 DEF PremiumInv, PremiumTypes
  <2>3. j \in Job /\ j.copy = row /\ j.at # "tier"
    BY <2>1, <2>2 DEF Job
  <2>4. Premium!Do(p, j) /\ UNCHANGED <<band, stripe, mail, sweep>>
    BY <1>5 DEF Premium!Retrieve
  <2> HIDE DEF row, j
  <2> QED BY <2>2, <2>3, <2>4, OneJob, RequestOnly
<1>6. ASSUME NEW p \in Workers, Premium!Tag(p) PROVE PremiumInv'
  <2> DEFINE s == job[p].sub
             row == [stripe[s] EXCEPT !.tagged = TRUE]
             j == [job[p] EXCEPT !.at = "sync"]
  <2>1. job[p] \in [at : {"tag"}, sub : Subs, copy : Premium!Sub]
    BY <1>6 DEF Premium!Tag, Premium!At, PremiumInv, PremiumTypes, Job
  <2>2. row \in Premium!Sub /\ j \in Job /\ j.at = "sync" /\ j.copy = job[p].copy
    BY <2>1 DEF PremiumInv, PremiumTypes, Premium!Sub, Job
  <2>3. Premium!Do(p, j) /\ Premium!Alter(s, row) /\ Premium!Disturb /\ UNCHANGED band
    BY <1>6 DEF Premium!Tag
  <2> HIDE DEF row, j
  <2> QED BY <2>1, <2>2, <2>3, AlterOK, DisturbOK, OneJob DEF PremiumInv, PremiumTypes
<1>7. ASSUME NEW p \in Workers, Premium!Sync(p) PROVE PremiumInv'
  <2>1. job[p].sub \in Subs /\ job[p].copy \in Premium!Sub
    BY <1>7 DEF Premium!Sync, Premium!At, PremiumInv, PremiumTypes, Job
  <2>2. Premium!Do(p, None) /\ band' = Premium!Synced(job[p].sub, job[p].copy)
        /\ Premium!Disturb /\ UNCHANGED <<stripe, mail>>
    BY <1>7 DEF Premium!Sync, Premium!Finish
  <2> QED BY <2>1, <2>2, SyncedOK, DisturbOK, OneJob DEF PremiumInv, PremiumTypes
<1>8. ASSUME NEW p \in Workers, NEW ending \in BOOLEAN, Premium!CancelOrResume(p, ending) PROVE PremiumInv'
  <2> DEFINE j == [at |-> "ask", sub |-> band.sub, ending |-> ending]
  <2>1. j \in Job /\ j.at = "ask"
    BY <1>8 DEF Premium!CancelOrResume, PremiumInv, PremiumTypes, Premium!Band, Job
  <2>2. Premium!Do(p, j) /\ UNCHANGED <<band, stripe, mail, sweep>>
    BY <1>8 DEF Premium!CancelOrResume
  <2> HIDE DEF j
  <2> QED BY <2>1, <2>2, OneJob, RequestOnly
<1>9. ASSUME NEW p \in Workers, Premium!Ask(p) PROVE PremiumInv'
  <2> DEFINE s == job[p].sub
             row == [stripe[s] EXCEPT !.ending = job[p].ending]
             j == [job[p] EXCEPT !.at = "write"]
  <2>1. job[p] \in [at : {"ask"}, sub : Subs, ending : BOOLEAN]
    BY <1>9 DEF Premium!Ask, Premium!At, PremiumInv, PremiumTypes, Job
  <2>2. row \in Premium!Sub /\ j \in Job /\ j.at = "write"
    BY <2>1 DEF PremiumInv, PremiumTypes, Premium!Sub, Job
  <2> HIDE DEF row, j
  <2>3. CASE stripe[s].status = "canceled"
    <3>1. Premium!Do(p, None) /\ UNCHANGED <<band, stripe, mail, sweep>>
      BY <1>9, <2>3 DEF Premium!Ask, Premium!Finish
    <3> QED BY <3>1, OneJob, RequestOnly
  <2>4. CASE stripe[s].status # "canceled"
    <3>1. Premium!Do(p, j) /\ Premium!Alter(s, row) /\ Premium!Disturb /\ UNCHANGED band
      BY <1>9, <2>4 DEF Premium!Ask, j, row
    <3> QED BY <2>1, <2>2, <3>1, AlterOK, DisturbOK, OneJob DEF PremiumInv, PremiumTypes
  <2> QED BY <2>3, <2>4
<1>10. ASSUME NEW p \in Workers, Premium!Write(p) PROVE PremiumInv'
  <2>1. job[p].sub \in Subs /\ job[p].ending \in BOOLEAN
    BY <1>10 DEF Premium!Write, Premium!At, PremiumInv, PremiumTypes, Job
  <2>2. [band EXCEPT !.sub = job[p].sub, !.ending = job[p].ending] \in Premium!Band
    BY <2>1 DEF PremiumInv, PremiumTypes, Premium!Band
  <2>3. Premium!Do(p, None) /\ Premium!Disturb /\ UNCHANGED <<stripe, mail>> /\ band' \in Premium!Band
    BY <1>10, <2>2 DEF Premium!Write, Premium!Finish
  <2> QED BY <2>3, DisturbOK, OneJob DEF PremiumInv, PremiumTypes
<1>11. ASSUME NEW p \in Workers, NEW tier \in {"free", "premium"}, Premium!SetTier(p, tier) PROVE PremiumInv'
  <2> DEFINE j == [at |-> "tier", read |-> band.sub, tier |-> tier]
  <2>1. j \in Job /\ j.at = "tier" /\ j.read = None
    BY <1>11 DEF Premium!SetTier, Premium!Comped, Job
  <2>2. Premium!Do(p, j) /\ UNCHANGED <<band, stripe, mail, sweep>>
    BY <1>11 DEF Premium!SetTier
  <2> HIDE DEF j
  <2> QED BY <2>1, <2>2, OneJob, RequestOnly
<1>12. ASSUME NEW p \in Workers, Premium!WriteTier(p) PROVE PremiumInv'
  <2>1. job[p].tier \in {"free", "premium"}
    BY <1>12 DEF Premium!WriteTier, Premium!At, PremiumInv, PremiumTypes, Job
  <2>2. [band EXCEPT !.tier = job[p].tier] \in Premium!Band
    BY <2>1 DEF PremiumInv, PremiumTypes, Premium!Band
  <2>3. Premium!Do(p, None) /\ Premium!Disturb /\ UNCHANGED <<stripe, mail>> /\ band' \in Premium!Band
    BY <1>12, <2>2 DEF Premium!WriteTier, Premium!Finish
  <2> QED BY <2>3, DisturbOK, OneJob DEF PremiumInv, PremiumTypes
<1>13. ASSUME NEW p \in Workers, Premium!Crash(p) PROVE PremiumInv'
  BY <1>13, OneJob, RequestOnly DEF Premium!Crash, Premium!Finish
<1>14. CASE UNCHANGED Premium!premiumVars
  BY <1>14, SameJobs, RequestOnly DEF Premium!premiumVars, PremiumInv, PremiumTypes
<1> QED BY <1>1, <1>2, <1>3, <1>4, <1>5, <1>6, <1>7, <1>8, <1>9, <1>10, <1>11, <1>12, <1>13, <1>14,
           UpgradeOK, ApplyOK, FailApplyOK, ListOK, SelectOK, ClearOK DEF Premium!Next

(* A band that has a subscription is premium, unless staff's change or the *)
(* owner's was overtaken (setTier, cancelBandSubscription).                *)
THEOREM PremiumUnlessOvertook == Premium!Spec => Premium!PremiumUnlessOvertaken
<1> DEFINE Overtaken == \E p \in Workers : /\ job[p] # None /\ job'[p] = None
                                           /\ \/ job[p].at = "tier" /\ job[p].read # band.sub
                                              \/ job[p].at = "write" /\ job[p].sub # band.sub
           Promise == ~Premium!Mismatch /\ Premium!Mismatch' => Overtaken
<1>1. ASSUME PremiumInv, Premium!Next PROVE Promise
  <2> SUFFICES ASSUME ~Premium!Mismatch, Premium!Mismatch' PROVE Overtaken
    OBVIOUS
  <2>1. band' # band /\ band'.sub # None /\ band'.tier = "free" /\ (band.tier = "free" => band.sub = None)
    BY DEF Premium!Mismatch
  <2>2. ASSUME NEW s, NEW row, band' = Premium!Synced(s, row) PROVE FALSE
    BY <2>1, <2>2 DEF Premium!Synced
  <2>3. ASSUME NEW p \in Workers, NEW label, Premium!At(p, label), Premium!Finish(p)
        PROVE  job[p] # None /\ job'[p] = None /\ job[p].at = label
    BY <1>1, <2>3 DEF Premium!At, Premium!Finish, Premium!Do, PremiumInv, PremiumTypes
  <2>4. ASSUME NEW p \in Workers, Premium!Write(p) PROVE Overtaken
    <3>1. band' = [band EXCEPT !.sub = job[p].sub, !.ending = job[p].ending]
      BY <2>4 DEF Premium!Write
    <3>2. job[p].sub # band.sub
      BY <1>1, <2>1, <3>1 DEF PremiumInv, PremiumTypes, Premium!Band
    <3> QED BY <2>3, <2>4, <3>2 DEF Premium!Write
  <2>5. ASSUME NEW p \in Workers, Premium!WriteTier(p) PROVE Overtaken
    <3>1. band' = [band EXCEPT !.tier = job[p].tier] /\ job[p].read = None
      BY <1>1, <2>5 DEF Premium!WriteTier, PremiumInv, JobOK
    <3>2. job[p].read # band.sub
      BY <1>1, <2>1, <3>1 DEF PremiumInv, PremiumTypes, Premium!Band
    <3> QED BY <2>3, <2>5, <3>2 DEF Premium!WriteTier
  <2>6. ASSUME NEW s \in Subs, Premium!Apply(s) PROVE FALSE
    BY <2>1, <2>2, <2>6 DEF Premium!Apply, Premium!Applied
  <2>7. ASSUME NEW m \in mail, Premium!Deliver(m) PROVE FALSE
    BY <2>2, <2>7 DEF Premium!Deliver
  <2>8. ASSUME NEW p \in Workers, Premium!Sync(p) PROVE FALSE
    BY <2>2, <2>8 DEF Premium!Sync
  <2>9. ~Premium!ClearStale
    BY <2>1 DEF Premium!ClearStale
  <2> QED BY <1>1, <2>1, <2>4, <2>6, <2>7, <2>8, <2>9, <2>5
          DEF Premium!Next, Premium!Upgrade, Premium!CompleteCheckout, Premium!FailApply, Premium!StripeChange,
              Premium!DeliverCheckout, Premium!Retrieve, Premium!Tag, Premium!Ask, Premium!Crash,
              Premium!CancelOrResume, Premium!SetTier, Premium!List, Premium!SelectStale, Premium!AbortSweep
<1>2. ASSUME UNCHANGED Premium!premiumVars PROVE Promise
  BY <1>2 DEF Premium!premiumVars, Premium!Mismatch
<1>3. PremiumInv /\ [Premium!Next]_(Premium!premiumVars) => [Promise]_(Premium!premiumVars)
  BY <1>1, <1>2
<1> QED BY <1>3, PremiumInitOK, PremiumStep, PTL
        DEF Premium!Spec, Premium!PremiumUnlessOvertaken

(* A run of the sync that nothing comes between, and whose writes succeed, *)
(* leaves the band as Stripe has it (syncAllSubscriptions, applyBand,      *)
(* clearStaleBands).                                                       *)
THEOREM QuietSweepAgrees == Premium!Spec => Premium!SweepAgrees
<1> DEFINE Promise == (Premium!SelectStale \/ Premium!ClearStale) /\ sweep.quiet /\ sweep' = None => Premium!Agrees'
<1>1. ASSUME PremiumInv, Premium!SelectStale \/ Premium!ClearStale, sweep.quiet, sweep' = None
      PROVE  Premium!Agrees'
  <2>1. sweep # None /\ sweep \in Sweep /\ stripe' = stripe
    BY <1>1 DEF Premium!SelectStale, Premium!ClearStale, PremiumInv, PremiumTypes
  <2>2. /\ \A s \in Subs : stripe[s].status \in Premium!Existing \/ sweep.list[s].status \in Premium!Existing
                             => sweep.list[s] = stripe[s]
        /\ sweep.seen <=> \E s \in Subs : Done(s) /\ sweep.list[s].status \notin Premium!Terminal
        /\ (\E s \in Subs : Done(s) /\ sweep.list[s].status \in Premium!WriteStatuses) =>
             \E s \in Subs : Follows(s)
        /\ sweep.stale => sweep.left = {} /\ ~sweep.seen
    BY <1>1, <2>1 DEF PremiumInv, SweepOK
  <2>3. sweep.left = {}
    BY <1>1, <2>2 DEF Premium!SelectStale, Premium!ClearStale
  <2>4. \A s \in Subs : Done(s) <=> stripe[s].tagged /\ stripe[s].status \in Premium!Existing
    BY <2>2, <2>3 DEF Done, Of
  <2>5. \A s \in Subs : s \in Premium!Living <=> Done(s) /\ sweep.list[s].status \in Premium!WriteStatuses
    BY <2>2, <2>4 DEF Premium!Living, Premium!Status, Premium!Existing, Premium!WriteStatuses, Premium!Terminal
  <2>6. \A s \in Subs : /\ Premium!Status(s)' = Premium!Status(s)
                        /\ s \in Premium!Living' <=> s \in Premium!Living
    BY <2>1 DEF Premium!Living, Premium!Status
  <2>7. Premium!Living' \subseteq Subs
    BY DEF Premium!Living
  <2>8. CASE Premium!ClearStale
    <3>1. ~sweep.seen /\ band'.sub = None
      BY <1>1, <2>2, <2>8 DEF Premium!ClearStale
    <3>2. \A s \in Subs : s \notin Premium!Living
      BY <2>2, <2>5, <3>1 DEF Premium!WriteStatuses, Premium!Terminal
    <3>3. Premium!Living' = {}
      BY <2>6, <2>7, <3>2
    <3> QED BY <3>1, <3>3 DEF Premium!Agrees
  <2>9. CASE Premium!SelectStale
    <3>1. band' = band /\ (band.sub = None \/ sweep.seen)
      <4> DEFINE new == [sweep EXCEPT !.stale = TRUE]
      <4>1. new \in Sweep
        BY <2>1 DEF Sweep
      <4>2. new # None
        BY <4>1, SweepAssumption DEF Sweep
      <4> QED BY <1>1, <2>9, <4>2 DEF Premium!SelectStale
    <3>2. CASE \E s \in Subs : s \in Premium!Living
      <4>1. PICK s \in Subs : Follows(s)
        BY <2>2, <2>5, <3>2
      <4>2. s \in Premium!Living /\ sweep.list[s] = stripe[s]
        BY <2>2, <2>4, <2>5, <4>1 DEF Follows
      <4>3. band' = Premium!Synced(s, stripe[s])'
        BY <2>1, <3>1, <4>1, <4>2 DEF Follows, Premium!Synced
      <4> QED BY <2>6, <4>2, <4>3 DEF Premium!Agrees, Premium!Living
    <3>3. CASE \A s \in Subs : s \notin Premium!Living
      <4>1. ASSUME sweep.seen PROVE \E s \in Subs : Premium!Status(s) = "paused"
        <5>1. PICK s \in Subs : Done(s) /\ sweep.list[s].status \notin Premium!Terminal
          BY <2>2, <4>1
        <5>2. stripe[s].tagged /\ stripe[s].status \in Premium!Existing /\ sweep.list[s] = stripe[s]
          BY <2>2, <2>4, <5>1
        <5>3. stripe[s].status = "paused"
          BY <2>5, <3>3, <5>1, <5>2 DEF Premium!Existing, Premium!WriteStatuses, Premium!Terminal
        <5> QED BY <5>2, <5>3 DEF Premium!Status
      <4>2. Premium!Living' = {}
        BY <2>6, <2>7, <3>3
      <4> QED BY <2>6, <3>1, <4>1, <4>2 DEF Premium!Agrees
    <3> QED BY <3>2, <3>3
  <2> QED BY <1>1, <2>8, <2>9
<1>2. PremiumInv => Promise
  BY <1>1
<1> QED BY <1>2, PremiumInitOK, PremiumStep, PTL DEF Premium!Spec, Premium!SweepAgrees

-----------------------------------------------------------------------------
(* The instance that is model-checked: a behaviour of it is one of each    *)
(* component, and has what was proved of that component.                   *)

LEMMA HoursRun == MCSpec => Hours!Spec
<1>1. MCInit => Hours!Init
  BY DEF MCInit
<1>2. [MCNext]_allVars => [Hours!Next]_(Hours!hourVars)
  BY DEF MCNext, allVars, hourVars, Hours!hourVars
<1> QED BY <1>1, <1>2, PTL DEF MCSpec, Hours!Spec

LEMMA EditsRun == MCSpec => Editing!Spec
<1>1. MCInit => Editing!Init
  BY DEF MCInit
<1>2. [MCNext]_allVars => [Editing!Next]_(Editing!editVars)
  BY DEF MCNext, allVars, editingVars, Editing!editVars
<1> QED BY <1>1, <1>2, PTL DEF MCSpec, Editing!Spec

LEMMA PremiumRun == MCSpec => Premium!Spec
<1>1. MCInit => Premium!Init
  BY DEF MCInit
<1>2. [MCNext]_allVars => [Premium!Next]_(Premium!premiumVars)
  BY DEF MCNext, allVars, premiumVars, Premium!premiumVars
<1> QED BY <1>1, <1>2, PTL DEF MCSpec, Premium!Spec

(* The verdict a member is told is the one that stands (review).           *)
THEOREM VerdictsStand == MCSpec => []VerdictStands
BY HoursRun, VerdictsStandTold DEF VerdictStands

(* A verdict on an edit is true to the text (reviewEdit).                  *)
THEOREM VerdictsMatch == MCSpec => []VerdictMatchesText
BY EditsRun, VerdictsMatchText DEF VerdictMatchesText

(* Staff decide on the text as it stands (getEditableState, reviewEdit).   *)
THEOREM PendingIsCurrent == MCSpec => []PendingEditIsCurrent
BY EditsRun, PendingEditsAreCurrent, PTL DEF PendingEditIsCurrent

(* A subscription goes with the premium tier (setTier).                    *)
THEOREM SubscribedIsPremium == MCSpec => PremiumUnlessOvertaken
BY PremiumRun, PremiumUnlessOvertook DEF PremiumUnlessOvertaken

(* A quiet run of the sync leaves the band as Stripe has it                *)
(* (syncAllSubscriptions).                                                 *)
THEOREM SweepsAgree == MCSpec => SweepAgrees
BY PremiumRun, QuietSweepAgrees DEF SweepAgrees
=============================================================================
