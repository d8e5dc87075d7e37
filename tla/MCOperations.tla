---------------------------- MODULE MCOperations ----------------------------
(* Small instances of EquipmentLoans, SuggestionMerges and                 *)
(* SeriesGeneration for TLC. They share no state: a behaviour is of one of *)
(* them, and the others stay as they are. The series come with two calls   *)
(* to one day, with a fault, and in a longer calendar, with and without a  *)
(* day on which the house is closed. A Calendar is the series with its     *)
(* days, how far ahead the job looks, the days of the closure, and the     *)
(* bounds on calls and on faults.                                          *)
EXTENDS EquipmentLoans, Sequences, TLC

CONSTANTS p1, p2, l1, l2, amp, Suggestions, Voters, Gigs, RoomSeries

(* The series differ, and are finitely many.                               *)
ASSUME SeriesAssumption ==
  IsFiniteSet(RoomSeries) /\ Gigs \notin RoomSeries \cup {None} /\ None \notin RoomSeries

VARIABLES part, vote, merged, act, undone,
          today, series, show, room, subscribed, task, asked, faults, mixed

Merging == INSTANCE SuggestionMerges
Calendar(days, ahead, closed, most, faulty) ==
  INSTANCE SeriesGeneration WITH req <- task, calls <- asked, muddled <- mixed,
    LastDay <- days, Ahead <- ahead, Closed <- closed, MaxCalls <- most, MaxFaults <- faulty

mergingVars == <<vote, merged, act, undone>>
seriesVars == <<today, series, show, room, subscribed, task, asked, faults, mixed>>
allVars == <<part, vars, mergingVars, seriesVars>>

MCInit == /\ part \in {"loans", "merges", "calls", "faults", "days", "closure"}
          /\ Init /\ Merging!Init /\ Calendar(2, 3, {}, 1, 0)!Init
          /\ part # "loans" => wallet = 0 /\ ~stripe /\ stock = [i \in Items |-> 1]
          /\ part \notin {"calls", "faults"} => show[1].day = 0
          /\ part \in {"days", "closure"} => \A s \in RoomSeries : series[s].state = "active"
          /\ part \in {"loans", "merges"} => room = <<>>
MCNext ==
  \/ part = "loans" /\ Next /\ UNCHANGED <<part, mergingVars, seriesVars>>
  \/ part = "merges" /\ Merging!Next /\ UNCHANGED <<part, vars, seriesVars>>
  \/ /\ \/ part = "calls" /\ Calendar(1, 2, {}, 2, 0)!Next
        \/ part = "faults" /\ Calendar(1, 2, {}, 1, 1)!Next
        \/ part = "days" /\ Calendar(2, 3, {}, 1, 0)!Next
        \/ part = "closure" /\ Calendar(2, 3, {2}, 1, 0)!Next
     /\ UNCHANGED <<part, vars, mergingVars>>
MCSpec == MCInit /\ [][MCNext]_allVars

(* Requests, and loans, differ in nothing.                                 *)
Symmetry == Permutations(Clients) \cup Permutations(Loans)

(* A merge keeps the votes (SuggestionMerges).                             *)
MergeKeepsVotes == Merging!MergeKeepsVotes
(* A show and its hold of the room name each other (SeriesGeneration).     *)
HoldsMatchShows == Calendar(2, 3, {}, 1, 0)!HoldsMatchShows
(* An occurrence is generated once (SeriesGeneration).                     *)
GeneratedOnceUnlessOvertaken == [][Calendar(2, 3, {}, 1, 0)!GeneratesOnce]_seriesVars
(* Events take the room before members' series do (SeriesGeneration).      *)
EventsFirst == [][Calendar(2, 3, {}, 1, 0)!LetsEventsFirst]_seriesVars
=============================================================================
