------------------------------ MODULE Campaigns ------------------------------
(***************************************************************************)
(* One e-mail campaign: its draft, its schedule, and its sending by staff  *)
(* or by the cron job. The audiences of a campaign are rows of their own,  *)
(* which an edit deletes and inserts again. A run reads the campaign, then *)
(* who is to get it, posts it batch by batch, and then marks it as sent.   *)
(***************************************************************************)
EXTENDS Integers, FiniteSets

CONSTANTS Clients,    \* Worker invocations of staff
          Cron,       \* the cron job's
          Batches,    \* the audience, by the batches it is posted in
          None,       \* no request
          MaxEdits,   \* bound: requests of staff
          MaxFaults   \* bound: runs and edits lost, posts refused

VARIABLES row,      \* the campaign row: whether there is one, its schedule, sent or not
          targets,  \* the batches that campaign_audience names
          work,     \* the request each client is serving
          edits, faults,
          reached,  \* ghost: the batches posted so far
          broken,   \* ghost: a run ended after it had posted and before it marked
          torn      \* ghost: an edit ended without audiences

campaignVars == <<row, targets, work, edits, faults, reached, broken, torn>>

Row == [exists : BOOLEAN, schedule : {"none", "later", "due"}, sent : BOOLEAN]
Servers == Clients \cup {Cron}
Status(r) == IF r.sent THEN "sent" ELSE IF r.schedule = "none" THEN "draft"
             ELSE IF r.schedule = "later" THEN "scheduled" ELSE "sending"

At(p, label) == work[p] # None /\ work[p].at = label
Do(p, w) == work' = [work EXCEPT ![p] = w]
Finish(p) == Do(p, None)
Step(p, label) == Do(p, [work[p] EXCEPT !.at = label])
Put(r) == row' = IF row.exists THEN r ELSE row
counts == <<edits, faults>>
ghosts == <<reached, broken, torn>>

-----------------------------------------------------------------------------
(* The calls of staff read the row and ask for a status; what they write   *)
(* goes by the id.                                                         *)
Edits == {"save", "delete", "schedule", "unschedule", "sendNow"}
Asked(call) == IF call = "unschedule" THEN "scheduled" ELSE "draft"

Call(p, call, whom) ==
  /\ edits < MaxEdits /\ edits' = edits + 1
  /\ work[p] = None /\ row.exists /\ Status(row) = Asked(call)
  /\ Do(p, [at |-> call, whom |-> whom])
  /\ UNCHANGED <<row, targets, faults, ghosts>>

(* updateCampaign(), with or without a change of the audiences.            *)
(* Mutant of Retargets: a save without audiences deletes them as well.     *)
RetargetsMutant(whom) == TRUE
Retargets(whom) == whom # None

Save(p) ==
  /\ At(p, "save")
  /\ IF row.exists /\ Retargets(work[p].whom) THEN Step(p, "clear") ELSE Finish(p)
  /\ UNCHANGED <<row, targets, counts, ghosts>>

ClearTargets(p) ==
  /\ At(p, "clear") /\ targets' = {}
  /\ IF work[p].whom = None THEN Finish(p) ELSE Step(p, "target")
  /\ UNCHANGED <<row, counts, ghosts>>

InsertTargets(p) ==
  /\ At(p, "target") /\ Finish(p)
  /\ targets' = IF row.exists THEN targets \cup work[p].whom ELSE targets
  /\ UNCHANGED <<row, counts, ghosts>>

DeleteCampaign(p) ==
  /\ At(p, "delete") /\ Finish(p)
  /\ row' = [row EXCEPT !.exists = FALSE] /\ targets' = {}
  /\ UNCHANGED <<counts, ghosts>>

ScheduleCampaign(p) ==
  /\ At(p, "schedule") /\ Finish(p) /\ Put([row EXCEPT !.schedule = "later"])
  /\ UNCHANGED <<targets, counts, ghosts>>

UnscheduleCampaign(p) ==
  /\ At(p, "unschedule") /\ Finish(p) /\ Put([row EXCEPT !.schedule = "none"])
  /\ UNCHANGED <<targets, counts, ghosts>>

SendNow(p) ==
  /\ At(p, "sendNow") /\ Step(p, "read") /\ Put([row EXCEPT !.schedule = "due"])
  /\ UNCHANGED <<targets, counts, ghosts>>

-----------------------------------------------------------------------------
(* processDueCampaigns() selects the campaign, executeSend() reads it once *)
(* more, unless it was sent.                                               *)
Due == row.exists /\ row.schedule = "due" /\ ~row.sent

ProcessDue ==
  /\ work[Cron] = None /\ Due
  /\ Do(Cron, [at |-> "read", whom |-> None])
  /\ UNCHANGED <<row, targets, counts, ghosts>>

(* Mutant of Sendable: whether or not it was sent.                         *)
SendableMutant == row.exists
Sendable == row.exists /\ ~row.sent

ReadCampaign(p) ==
  /\ At(p, "read")
  /\ IF Sendable THEN Do(p, [at |-> "recipients", row |-> row]) ELSE Finish(p)
  /\ UNCHANGED <<row, targets, counts, ghosts>>

Torn == torn \/ \E q \in Servers : At(q, "target")
Recipients(p) ==
  /\ At(p, "recipients")
  /\ Do(p, [at |-> "post", row |-> work[p].row, left |-> targets, posted |-> FALSE,
            nobody |-> targets = {}, torn |-> Torn])
  /\ UNCHANGED <<row, targets, counts, ghosts>>

PostBatch(p) ==
  /\ At(p, "post")
  /\ \E b \in work[p].left :
       /\ reached' = reached \cup {b}
       /\ Do(p, [work[p] EXCEPT !.left = @ \ {b}, !.posted = TRUE])
  /\ UNCHANGED <<row, targets, counts, broken, torn>>

(* The mark, also when there was nobody to send it to.                     *)
(* Mutant of Marked: it does not say so.                                   *)
MarkedMutant == row
Marked == [row EXCEPT !.sent = TRUE]

MarkSent(p) ==
  /\ At(p, "post") /\ work[p].left = {}
  /\ Put(Marked) /\ Finish(p)
  /\ UNCHANGED <<targets, counts, ghosts>>

(* Postmark refuses a batch, a statement fails or the Worker is lost.      *)
Fault(p) ==
  /\ faults < MaxFaults /\ faults' = faults + 1
  /\ work[p] # None /\ Finish(p)
  /\ broken' = (broken \/ (At(p, "post") /\ work[p].posted))
  /\ torn' = (torn \/ At(p, "target"))
  /\ UNCHANGED <<row, targets, edits, reached>>

ComesDue ==
  /\ row.schedule = "later" /\ row' = [row EXCEPT !.schedule = "due"]
  /\ UNCHANGED <<targets, work, counts, ghosts>>

-----------------------------------------------------------------------------
Init ==
  /\ row = [exists |-> TRUE, schedule |-> "none", sent |-> FALSE]
  /\ targets = Batches
  /\ work = [p \in Servers |-> None]
  /\ edits = 0 /\ faults = 0
  /\ reached = {} /\ broken = FALSE /\ torn = FALSE

Sending(p) == ReadCampaign(p) \/ Recipients(p) \/ PostBatch(p) \/ MarkSent(p)

Next ==
  \/ \E p \in Clients :
       \/ \E call \in Edits \ {"save"} : Call(p, call, None)
       \/ \E whom \in {None, Batches} : Call(p, "save", whom)
       \/ Save(p) \/ ClearTargets(p) \/ InsertTargets(p) \/ DeleteCampaign(p)
       \/ ScheduleCampaign(p) \/ UnscheduleCampaign(p) \/ SendNow(p)
  \/ \E p \in Servers : Sending(p) \/ Fault(p)
  \/ ProcessDue \/ ComesDue

Spec == Init /\ [][Next]_campaignVars

(* The cron job runs every five minutes, and goes on unless it is lost.    *)
Fairness == WF_campaignVars(ProcessDue) /\ WF_campaignVars(Sending(Cron))

-----------------------------------------------------------------------------
(* Nobody gets a campaign twice, unless a run was lost after it had begun  *)
(* to post, or two runs had both read it as not sent, whatever became of   *)
(* it since (executeSend, processDueCampaigns, sendNow).                   *)
Posts(p, b) == At(p, "post") /\ b \in work[p].left /\ At(p, "post")' /\ b \notin work'[p].left
TwiceOnlyWhenOvertaken ==
  [][\A p \in Servers, b \in Batches :
       b \in reached /\ Posts(p, b) => \/ broken \/ work[p].row # row
                                       \/ \E q \in Servers \ {p} : At(q, "post") /\ work[q].posted]_campaignVars

(* A campaign is marked as sent to nobody only if it was read while an     *)
(* edit had its audiences deleted and not yet inserted, or after one that  *)
(* was lost just there (updateCampaign, executeSend).                      *)
SentToSomebodyUnlessTorn ==
  [][\A p \in Servers : At(p, "post") /\ work[p].nobody /\ row'.sent /\ ~row.sent
       => work[p].torn \/ work'[p] = work[p]]_campaignVars

(* A campaign that is due is sent, unless staff withdraw it.               *)
DueIsSent == Due ~> ~Due
=============================================================================
