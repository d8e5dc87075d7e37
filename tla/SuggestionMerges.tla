-------------------------- MODULE SuggestionMerges --------------------------
(***************************************************************************)
(* The votes on suggestions, and folding a duplicate into the suggestion   *)
(* it duplicates: the votes are copied first, the duplicate is pointed at  *)
(* the other after. There are no transactions, so that a merge may stop    *)
(* between the two, and votes go on meanwhile. A suggestion off the board  *)
(* refuses votes, which changes nothing here.                              *)
(***************************************************************************)
EXTENDS FiniteSets

CONSTANTS Clients,      \* Worker invocations
          Suggestions,
          Voters,
          None          \* no suggestion, no request

VARIABLES vote,    \* the suggestion_vote rows, as pairs of suggestion and voter
          merged,  \* mergedIntoId of each suggestion
          act,     \* the request each client is serving
          undone   \* ghost: the votes that a merge need not carry over

mergeVars == <<vote, merged, act, undone>>

At(p, label) == act[p] # None /\ act[p].at = label
Do(p, a) == act' = [act EXCEPT ![p] = a]
Finish(p) == Do(p, None)
OfSuggestion(s) == {v \in Voters : <<s, v>> \in vote}

-----------------------------------------------------------------------------
(* toggleVote(): the suggestion, the voter's row, and one statement. The   *)
(* unique index absorbs a second row.                                      *)
ToggleVote(p, s, v) ==
  /\ act[p] = None /\ merged[s] = None
  /\ Do(p, [at |-> "existing", on |-> s, by |-> v])
  /\ UNCHANGED <<vote, merged, undone>>

Existing(p) ==
  LET a == act[p] IN
  /\ At(p, "existing")
  /\ Do(p, [a EXCEPT !.at = IF a.by \in OfSuggestion(a.on) THEN "withdraw" ELSE "cast"])
  /\ UNCHANGED <<vote, merged, undone>>

(* A vote withdrawn is not to be carried over, on either side of a merge.  *)
Withdraw(p) ==
  LET v == <<act[p].on, act[p].by>> IN
  /\ At(p, "withdraw") /\ Finish(p)
  /\ vote' = vote \ {v} /\ undone' = undone \cup {v}
  /\ UNCHANGED <<merged>>

(* Nor is one that comes to a duplicate, by a member or by a merge, when   *)
(* the duplicate's votes have been read.                                   *)
Late(s) == \/ merged[s] # None
           \/ \E p \in Clients : (At(p, "copy") \/ At(p, "point")) /\ act[p].source = s
Arrive(votes) ==
  LET new == votes \ vote IN
  /\ vote' = vote \cup new
  /\ undone' = (undone \ new) \cup {v \in new : Late(v[1])}

Cast(p) ==
  /\ At(p, "cast") /\ Finish(p)
  /\ Arrive({<<act[p].on, act[p].by>>})
  /\ UNCHANGED <<merged>>

-----------------------------------------------------------------------------
(* mergeSuggestions(): both rows, the votes, their copies, the pointer.    *)
Mergeable(s, t) == s # t /\ merged[t] = None /\ merged[s] \in {None, t}

Merge(p, s, t) ==
  /\ act[p] = None /\ Mergeable(s, t)
  /\ Do(p, [at |-> "voters", source |-> s, target |-> t])
  /\ UNCHANGED <<vote, merged, undone>>

(* Mutant of Second: the pointer before the copies.                        *)
SecondMutant == "point"
Second == "copy"

ReadVoters(p) ==
  LET a == act[p] IN
  /\ At(p, "voters")
  /\ Do(p, [at |-> Second, source |-> a.source, target |-> a.target,
            voters |-> OfSuggestion(a.source)])
  /\ UNCHANGED <<vote, merged, undone>>

CopyVotes(p) ==
  /\ At(p, "copy") /\ Do(p, [act[p] EXCEPT !.at = "point"])
  /\ Arrive({act[p].target} \X act[p].voters)
  /\ UNCHANGED <<merged>>

Point(p) ==
  LET a == act[p] IN
  /\ At(p, "point") /\ Finish(p)
  /\ merged' = IF merged[a.source] = None THEN [merged EXCEPT ![a.source] = a.target] ELSE merged
  /\ UNCHANGED <<vote, undone>>

Crash(p) == act[p] # None /\ Finish(p) /\ UNCHANGED <<vote, merged, undone>>

-----------------------------------------------------------------------------
Init ==
  /\ vote = {} /\ undone = {}
  /\ merged = [s \in Suggestions |-> None]
  /\ act = [p \in Clients |-> None]

Next ==
  \/ \E p \in Clients :
       \/ \E s \in Suggestions : (\E v \in Voters : ToggleVote(p, s, v)) \/ \E t \in Suggestions : Merge(p, s, t)
       \/ Existing(p) \/ Withdraw(p) \/ Cast(p)
       \/ ReadVoters(p) \/ CopyVotes(p) \/ Point(p) \/ Crash(p)

Spec == Init /\ [][Next]_mergeVars

-----------------------------------------------------------------------------
(* Whoever voted for a duplicate counts for what it was merged into, even  *)
(* when merges stop half way, are repeated or overlap; but for those who   *)
(* took a vote back, or whose vote came when the votes had been read.      *)
MergeKeepsVotes ==
  \A s \in Suggestions, v \in Voters :
    LET t == merged[s] IN
    t # None /\ <<s, v>> \in vote \ undone => <<t, v>> \in vote \cup undone

(* No suggestion ends up merged into one that was merged into it: "A->B    *)
(* then B->A is impossible once A is merged" (mergeSuggestions).           *)
NoMergeCycle == \A s \in Suggestions : merged[s] # None => merged[merged[s]] # s

=============================================================================
