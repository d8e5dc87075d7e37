------------------------------- MODULE HourLogs -------------------------------
(***************************************************************************)
(* The hour logs of volunteers: a member submits one, may edit or withdraw *)
(* it while it is pending, and staff approve or return it. Every handler   *)
(* reads the row, and its statement asks for "pending" once more. The      *)
(* verdict is announced from the row that the review's UPDATE returned.    *)
(***************************************************************************)
CONSTANTS Clients,  \* Worker invocations
          Logs,     \* ids of volunteer_hour_log rows
          Minutes,  \* what a log may claim
          None      \* no request

VARIABLES log,   \* per id, the row; "none" before there is one, "deleted" after
          desk,  \* the request each client is serving
          told   \* ghost: per id, the verdicts the member was told, with their minutes

hourVars == <<log, desk, told>>

Verdicts == {"approved", "rejected"}
Log == [status : {"none", "pending", "deleted"} \cup Verdicts, minutes : Minutes]
Labels == {"edit", "withdraw", "tell"} \cup Verdicts
Request == [at : Labels, id : Logs, row : Log]

Go(p, r) == desk' = [desk EXCEPT ![p] = r]
Finish(p) == Go(p, None)
Serves(p, label) == desk[p] # None /\ desk[p].at = label
Put(id, row) == log' = [log EXCEPT ![id] = row]

SubmitHours(id, n) ==
  /\ log[id].status = "none"
  /\ Put(id, [status |-> "pending", minutes |-> n])
  /\ UNCHANGED <<desk, told>>

(* The read of the row, which must be pending. An edit comes with the      *)
(* minutes it is to have.                                                  *)
Read(p, id, label, n) ==
  /\ desk[p] = None /\ log[id].status = "pending"
  /\ Go(p, [at |-> label, id |-> id, row |-> [log[id] EXCEPT !.minutes = n]])
  /\ UNCHANGED <<log, told>>

(* Mutant of StillPending: the statement goes by the id alone.             *)
StillPendingMutant(id) == log[id].status # "deleted"
StillPending(id) == log[id].status = "pending"

UpdateHourLog(p) ==
  LET r == desk[p] IN
  /\ Serves(p, "edit") /\ Finish(p)
  /\ IF StillPending(r.id)
     THEN log' = [log EXCEPT ![r.id].minutes = r.row.minutes] ELSE UNCHANGED log
  /\ UNCHANGED told

WithdrawHourLog(p) ==
  LET r == desk[p] IN
  /\ Serves(p, "withdraw") /\ Finish(p)
  /\ IF StillPending(r.id) THEN log' = [log EXCEPT ![r.id].status = "deleted"] ELSE UNCHANGED log
  /\ UNCHANGED told

(* review(): the row as the UPDATE returns it goes into the announcement.  *)
Review(p, verdict) ==
  LET r == desk[p]
      row == [log[r.id] EXCEPT !.status = verdict]
  IN /\ Serves(p, verdict)
     /\ IF StillPending(r.id)
        THEN Put(r.id, row) /\ Go(p, [r EXCEPT !.at = "tell", !.row = row])
        ELSE Finish(p) /\ UNCHANGED log
     /\ UNCHANGED told

Tell(p) ==
  /\ Serves(p, "tell") /\ Finish(p)
  /\ told' = [told EXCEPT ![desk[p].id] = @ \cup {desk[p].row}]
  /\ UNCHANGED log

Crash(p) == desk[p] # None /\ Finish(p) /\ UNCHANGED <<log, told>>

Init ==
  /\ log \in [Logs -> [status : {"none"}, minutes : Minutes]]
  /\ desk = [p \in Clients |-> None]
  /\ told = [id \in Logs |-> {}]

Next ==
  \/ \E id \in Logs, n \in Minutes : SubmitHours(id, n)
  \/ \E p \in Clients :
       \/ \E id \in Logs, n \in Minutes : Read(p, id, "edit", n)
       \/ \E id \in Logs, label \in {"withdraw"} \cup Verdicts : Read(p, id, label, log[id].minutes)
       \/ \E verdict \in Verdicts : Review(p, verdict)
       \/ UpdateHourLog(p) \/ WithdrawHourLog(p) \/ Tell(p) \/ Crash(p)

Spec == Init /\ [][Next]_hourVars

(* The verdict a member is told is the one that stands, with the hours it  *)
(* was given for, whoever reviewed, edited or withdrew the log at the same *)
(* time (review, updateHourLog, withdrawHourLog).                          *)
VerdictStands == \A id \in Logs : told[id] # {} => told[id] = {log[id]}
=============================================================================
