--------------------------- MODULE MCVolunteering ---------------------------
(* Small instances of VolunteerShifts, HourLogs, SuggestionEdits and       *)
(* BandPremium for TLC. They share no state: a behaviour is of one of      *)
(* them, and the others stay as they are.                                  *)
EXTENDS VolunteerShifts

CONSTANTS Workers, p1, p2, m1, m2, Logs, Minutes, Others, Edits, Subs, MaxChanges

VARIABLES part, log, desk, told,
          text, voters, editable, edit, original, turn, applied, contested, overlapped,
          band, stripe, mail, job, sweep, changes

Hours == INSTANCE HourLogs
Editing == INSTANCE SuggestionEdits
Premium == INSTANCE BandPremium WITH Clients <- Workers

(* Edits are numbered, and None is no request and no run of the sync.      *)
ASSUME EditsAssumption ==
  /\ Edits \subseteq Nat
  /\ None \notin [at : {"decide"}, id : Edits, decision : {"approved"}]
ASSUME SweepAssumption ==
  None \notin [list : [Subs -> Premium!Sub], left : SUBSET Subs,
               seen : BOOLEAN, stale : BOOLEAN, quiet : BOOLEAN]

hourVars == <<log, desk, told>>
editingVars == <<text, voters, editable, edit, original, turn, applied, contested, overlapped>>
premiumVars == <<band, stripe, mail, job, sweep, changes>>
allVars == <<part, vars, hourVars, editingVars, premiumVars>>

MCInit == /\ part \in {"shifts", "hours", "edits", "premium"}
          /\ Init /\ Hours!Init /\ Editing!Init /\ Premium!Init
          /\ part # "shifts" => shift.capacity = 1 /\ shift.ends = 1
          /\ part # "hours" => \A id \in Logs : log[id].minutes = 60
MCNext ==
  \/ part = "shifts" /\ Next /\ UNCHANGED <<part, hourVars, editingVars, premiumVars>>
  \/ part = "hours" /\ Hours!Next /\ UNCHANGED <<part, vars, editingVars, premiumVars>>
  \/ part = "edits" /\ Editing!Next /\ UNCHANGED <<part, vars, hourVars, premiumVars>>
  \/ part = "premium" /\ Premium!Next /\ UNCHANGED <<part, vars, hourVars, editingVars>>
MCSpec == MCInit /\ [][MCNext]_allVars /\ Fairness

(* The verdict a member is told is the one that stands (HourLogs).         *)
VerdictStands == Hours!VerdictStands
(* Staff decide on the text as it stands (SuggestionEdits).                *)
PendingEditIsCurrent == Editing!PendingEditIsCurrent
(* A verdict on an edit is true to the text (SuggestionEdits).             *)
VerdictMatchesText == Editing!VerdictMatchesText
(* A subscription goes with the premium tier (BandPremium).                *)
PremiumUnlessOvertaken == Premium!PremiumUnlessOvertaken
(* A quiet run of the sync leaves the band as Stripe has it (BandPremium). *)
SweepAgrees == Premium!SweepAgrees
=============================================================================
