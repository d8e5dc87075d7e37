--------------------------- MODULE SuggestionEdits ---------------------------
(***************************************************************************)
(* The text of one suggestion and who may change it: its author at once    *)
(* while nobody else has voted for it, and after that by a request that    *)
(* staff approve. An approval writes the text first and then the verdict.  *)
(***************************************************************************)
EXTENDS Integers, FiniteSetsExt

CONSTANTS Clients,  \* Worker invocations
          Others,   \* members other than the author
          Edits,    \* bound: ids of suggestion_edit rows, in the order they are used
          None      \* no request

VARIABLES text,       \* the edit that the text is of; 0 and -1 by turns for the author's own writing
          voters,     \* the others who vote for the suggestion
          editable,   \* neither merged nor taken down
          edit,       \* per id the status of the row
          original,   \* and, while it waits, the text that it was asked for in place of
          turn,       \* the request each client is serving
          applied,    \* ghost: the edits whose text was written
          contested,  \* ghost: those with another review under way, or lost half way
          overlapped  \* ghost: those that wait and were filed while other requests were under way

editVars == <<text, voters, editable, edit, original, turn, applied, contested, overlapped>>

Statuses == {"none", "pending", "approved", "rejected", "deleted"}
PendingEdits == {i \in Edits : edit[i] = "pending"}

At(p, label) == turn[p] # None /\ turn[p].at = label
Do(p, t) == turn' = [turn EXCEPT ![p] = t]
Finish(p) == Do(p, None)
rows == <<edit, original, overlapped>>
ghosts == <<applied, contested>>

-----------------------------------------------------------------------------
(* editSuggestion(): the row, a request that is pending already, the votes *)
(* of others, and one statement; where that is a request to staff, it has  *)
(* the present text with it, read just before.                             *)
EditSuggestion(p) ==
  /\ turn[p] = None /\ editable
  /\ Do(p, [at |-> "pending"])
  /\ UNCHANGED <<text, voters, editable, rows, ghosts>>

(* Mutant of Waiting: a request that waits does not matter.                *)
WaitingMutant == FALSE
Waiting == PendingEdits # {}

ReadPending(p) ==
  /\ At(p, "pending")
  /\ IF Waiting THEN Finish(p) ELSE Do(p, [at |-> "count"])
  /\ UNCHANGED <<text, voters, editable, rows, ghosts>>

Direct == voters = {}

CountVotes(p) ==
  /\ At(p, "count")
  /\ Do(p, [at |-> IF Direct THEN "write" ELSE "read"])
  /\ UNCHANGED <<text, voters, editable, rows, ghosts>>

WriteText(p) ==
  /\ At(p, "write") /\ Finish(p) /\ text' = IF text = 0 THEN -1 ELSE 0
  /\ UNCHANGED <<voters, editable, rows, ghosts>>

ReadText(p) ==
  /\ At(p, "read") /\ Do(p, [at |-> "insert", original |-> text])
  /\ UNCHANGED <<text, voters, editable, rows, ghosts>>

(* A request is overlapped if another waits by now, if the text is not as  *)
(* it was read, or if somebody is still to write one of the two.           *)
Writing == {"count", "write", "read", "insert", "apply"}
Overlapped(p) == \/ PendingEdits # {} \/ turn[p].original # text
                 \/ \E q \in Clients \ {p} : turn[q] # None /\ turn[q].at \in Writing

Unused == {i \in Edits : edit[i] = "none"}
InsertEdit(p) ==
  LET i == Min(Unused) IN
  /\ At(p, "insert") /\ Unused # {} /\ Finish(p)
  /\ edit' = [edit EXCEPT ![i] = "pending"]
  /\ original' = [original EXCEPT ![i] = turn[p].original]
  /\ overlapped' = IF Overlapped(p) THEN overlapped \cup {i} ELSE overlapped
  /\ UNCHANGED <<text, voters, editable, ghosts>>

-----------------------------------------------------------------------------
(* The author takes a request back, or staff decide on it: it was read as  *)
(* pending.                                                                *)
(* Mutant of First: the verdict first.                                     *)
FirstMutant(decision) == IF decision = "cancel" THEN "delete" ELSE "decide"
First(decision) == IF decision = "cancel" THEN "delete"
                   ELSE IF decision = "approved" THEN "apply" ELSE "decide"

Reviewing(i) == {p \in Clients : turn[p] # None /\ turn[p].at \in {"apply", "decide"} /\ turn[p].id = i}

Take(p, i, decision) ==
  /\ turn[p] = None /\ edit[i] = "pending"
  /\ Do(p, [at |-> First(decision), id |-> i, decision |-> decision])
  /\ contested' = IF Reviewing(i) # {} /\ decision # "cancel" THEN contested \cup {i} ELSE contested
  /\ UNCHANGED <<text, voters, editable, rows, applied>>

Forget(i) == original' = [original EXCEPT ![i] = 0] /\ overlapped' = overlapped \ {i}

Cancel(p) ==
  /\ At(p, "delete") /\ Finish(p) /\ edit' = [edit EXCEPT ![turn[p].id] = "deleted"]
  /\ Forget(turn[p].id)
  /\ UNCHANGED <<text, voters, editable, ghosts>>

Apply(p) ==
  /\ At(p, "apply") /\ Do(p, [turn[p] EXCEPT !.at = "decide"])
  /\ text' = turn[p].id /\ applied' = applied \cup {turn[p].id}
  /\ UNCHANGED <<voters, editable, rows, contested>>

Decide(p) ==
  LET i == turn[p].id IN
  /\ At(p, "decide") /\ Finish(p)
  /\ edit' = IF edit[i] = "pending" THEN [edit EXCEPT ![i] = turn[p].decision] ELSE edit
  /\ Forget(i)
  /\ UNCHANGED <<text, voters, editable, ghosts>>

-----------------------------------------------------------------------------
ToggleVote(v) ==
  /\ editable
  /\ voters' = IF v \in voters THEN voters \ {v} ELSE voters \cup {v}
  /\ UNCHANGED <<text, editable, rows, turn, ghosts>>

(* It is merged or taken down, or put on the board again.                  *)
Moderate == editable' = ~editable /\ UNCHANGED <<text, voters, rows, turn, ghosts>>

Crash(p) ==
  /\ turn[p] # None /\ Finish(p)
  /\ contested' = IF At(p, "decide") THEN contested \cup {turn[p].id} ELSE contested
  /\ UNCHANGED <<text, voters, editable, rows, applied>>

Init ==
  /\ text = 0 /\ voters = {} /\ editable = TRUE
  /\ edit = [i \in Edits |-> "none"] /\ original = [i \in Edits |-> 0]
  /\ turn = [p \in Clients |-> None]
  /\ applied = {} /\ contested = {} /\ overlapped = {}

Next ==
  \/ \E p \in Clients :
       \/ EditSuggestion(p) \/ ReadPending(p) \/ CountVotes(p)
       \/ WriteText(p) \/ ReadText(p) \/ InsertEdit(p)
       \/ \E i \in Edits, d \in {"approved", "rejected", "cancel"} : Take(p, i, d)
       \/ Cancel(p) \/ Apply(p) \/ Decide(p) \/ Crash(p)
  \/ Moderate \/ \E v \in Others : ToggleVote(v)

Spec == Init /\ [][Next]_editVars

-----------------------------------------------------------------------------
(* What staff decide on is the text as it stands: while a request waits,   *)
(* the words that its author asked to replace are on the board, or already *)
(* its own, whether votes come and go, it is taken down and put back, or   *)
(* an approval is lost half way and made again. Only a request that was    *)
(* filed while others were under way may be about words that are gone      *)
(* (getEditableState, editSuggestion, reviewEdit).                         *)
PendingEditIsCurrent ==
  \A i \in PendingEdits \ overlapped : text = IF i \in applied THEN i ELSE original[i]

(* A verdict is true to the text: an edit that is approved has been        *)
(* written, and one that is rejected has not, unless two reviews of it     *)
(* overlapped or one was lost half way (reviewEdit).                       *)
VerdictMatchesText ==
  \A i \in Edits : /\ edit[i] = "approved" => i \in applied
                   /\ edit[i] = "rejected" /\ i \in applied => i \in contested

=============================================================================
