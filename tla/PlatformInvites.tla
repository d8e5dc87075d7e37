--------------------------- MODULE PlatformInvites ---------------------------
(***************************************************************************)
(* Invitations of one band to an e-mail address, the account its holder    *)
(* may come to have, and the holder's row in the band. A session resolves  *)
(* the invitations pending for its address: for each it inserts a member   *)
(* row and then marks the invitation. It runs beside the response and may  *)
(* be lost with it; the next session begins anew.                          *)
(***************************************************************************)
EXTENDS Integers, FiniteSetsExt

CONSTANTS Clients,   \* Worker invocations
          Invites,   \* bound: ids of platform_invite rows, in the order they are used
          None,      \* no request
          MaxLosses  \* bound: sessions lost half way

VARIABLES account,  \* whether the address has an account
          row,      \* the holder's band_member row: "none", "pending" or "active"
          invite,   \* per id the status of the row, "none" before there is one
          lapsed,   \* the invitations past their expiry
          task,     \* the request each client is serving
          losses,
          joined,   \* ghost: the invitations that brought their holder in
          torn      \* ghost: those of a session that was lost before it marked them

inviteVars == <<account, row, invite, lapsed, task, losses, joined, torn>>

Statuses == {"none", "pending", "accepted", "revoked"}
Pending(i) == invite[i] = "pending" /\ i \notin lapsed

Labels == {"member", "insertMember", "look", "refresh", "insert", "join", "mark", "revoke"}
Task == [at : Labels, invite : Invites \cup {None}, left : SUBSET Invites]

At(p, label) == task[p] # None /\ task[p].at = label
Do(p, t) == task' = [task EXCEPT ![p] = t]
Finish(p) == Do(p, None)
Start(label) == [at |-> label, invite |-> None, left |-> {}]
ghosts == <<losses, joined, torn>>

-----------------------------------------------------------------------------
(* createInvite(): is there an account? Then its row in the band, and an   *)
(* ordinary invitation; otherwise an invitation of the address that is     *)
(* pending, lapsed or not, is renewed, or a new one made.                  *)
CreateInvite(p) ==
  /\ task[p] = None
  /\ Do(p, Start(IF account THEN "member" ELSE "look"))
  /\ UNCHANGED <<account, row, invite, lapsed, ghosts>>

Member(p) ==
  /\ At(p, "member")
  /\ IF row = "none" THEN Do(p, Start("insertMember")) ELSE Finish(p)
  /\ UNCHANGED <<account, row, invite, lapsed, ghosts>>

InsertMember(p) ==
  /\ At(p, "insertMember") /\ Finish(p)
  /\ row' = IF row = "none" THEN "pending" ELSE row
  /\ UNCHANGED <<account, invite, lapsed, ghosts>>

Look(p) ==
  LET found == {i \in Invites : invite[i] = "pending"} IN
  /\ At(p, "look")
  /\ \/ \E i \in found : Do(p, [Start("refresh") EXCEPT !.invite = i])
     \/ found = {} /\ Do(p, Start("insert"))
  /\ UNCHANGED <<account, row, invite, lapsed, ghosts>>

Refresh(p) ==
  /\ At(p, "refresh") /\ Finish(p) /\ lapsed' = lapsed \ {task[p].invite}
  /\ UNCHANGED <<account, row, invite, ghosts>>

Unused == {i \in Invites : invite[i] = "none"}
Insert(p) ==
  /\ At(p, "insert") /\ Finish(p)
  /\ IF Unused = {} THEN UNCHANGED invite ELSE invite' = [invite EXCEPT ![Min(Unused)] = "pending"]
  /\ UNCHANGED <<account, row, lapsed, ghosts>>

-----------------------------------------------------------------------------
(* resolvePendingInvites(), of a session of the account.                   *)
Resolve(p) ==
  LET found == {i \in Invites : Pending(i)} IN
  /\ task[p] = None /\ account /\ found # {}
  /\ Do(p, [Start("join") EXCEPT !.left = found])
  /\ UNCHANGED <<account, row, invite, lapsed, ghosts>>

(* The insert; a row that is there already leaves the rest the same.       *)
Join(p) ==
  LET i == Min(task[p].left) IN
    /\ At(p, "join")
    /\ Do(p, [task[p] EXCEPT !.at = "mark", !.invite = i, !.left = @ \ {i}])
    /\ IF row = "none" THEN row' = "active" /\ joined' = joined \cup {i}
                       ELSE UNCHANGED <<row, joined>>
    /\ UNCHANGED <<account, invite, lapsed, losses, torn>>

(* Mutant of Marked: the invitation stays as it is.                        *)
MarkedMutant == "pending"
Marked == "accepted"
After(t) == IF t.left = {} THEN None ELSE [t EXCEPT !.at = "join"]

Mark(p) ==
  /\ At(p, "mark") /\ Do(p, After(task[p]))
  /\ invite' = [invite EXCEPT ![task[p].invite] = Marked]
  /\ UNCHANGED <<account, row, lapsed, ghosts>>

(* revoke(): the row, which must be pending, and a write by its id.        *)
Revoke(p, i) ==
  /\ task[p] = None /\ invite[i] = "pending"
  /\ Do(p, [Start("revoke") EXCEPT !.invite = i])
  /\ UNCHANGED <<account, row, invite, lapsed, ghosts>>

WriteRevoked(p) ==
  /\ At(p, "revoke") /\ Finish(p)
  /\ invite' = [invite EXCEPT ![task[p].invite] = "revoked"]
  /\ UNCHANGED <<account, row, lapsed, ghosts>>

-----------------------------------------------------------------------------
(* What goes on around: an account, the row's other fates, time.           *)
SignUp == ~account /\ account' = TRUE /\ UNCHANGED <<row, invite, lapsed, task, ghosts>>
Accept == row = "pending" /\ row' = "active" /\ UNCHANGED <<account, invite, lapsed, task, ghosts>>
Leave == row # "none" /\ row' = "none" /\ UNCHANGED <<account, invite, lapsed, task, ghosts>>
Lapse(i) == Pending(i) /\ lapsed' = lapsed \cup {i} /\ UNCHANGED <<account, row, invite, task, ghosts>>

Crash(p) ==
  /\ losses < MaxLosses /\ losses' = losses + 1
  /\ task[p] # None /\ Finish(p)
  /\ torn' = IF At(p, "mark") THEN torn \cup {task[p].invite} ELSE torn
  /\ UNCHANGED <<account, row, invite, lapsed, joined>>

Init ==
  /\ account = FALSE /\ row = "none" /\ lapsed = {} /\ losses = 0
  /\ invite = [i \in Invites |-> "none"]
  /\ task = [p \in Clients |-> None]
  /\ joined = {} /\ torn = {}

Continue(p) == \/ Member(p) \/ InsertMember(p) \/ Look(p) \/ Refresh(p) \/ Insert(p)
               \/ Join(p) \/ Mark(p) \/ WriteRevoked(p)

Next ==
  \/ \E p \in Clients : CreateInvite(p) \/ Resolve(p) \/ Continue(p) \/ Crash(p)
                        \/ \E i \in Invites : Revoke(p, i)
  \/ SignUp \/ Accept \/ Leave \/ \E i \in Invites : Lapse(i)

Spec == Init /\ [][Next]_inviteVars

(* Every session looks for invitations, and its account holder comes back. *)
Fairness == \A p \in Clients : SF_inviteVars(Resolve(p)) /\ WF_inviteVars(Continue(p))

-----------------------------------------------------------------------------
(* An invitation brings its holder into the band once: one who has left is *)
(* not brought back by it, unless the session that brought them in was     *)
(* lost before it marked the invitation, or two sessions had both read it  *)
(* (resolvePendingInvites).                                                *)
Marking(i) == {p \in Clients : At(p, "mark") /\ task[p].invite = i}
JoinsOnceUnlessTorn ==
  [][row = "none" /\ row' = "active" =>
       \A i \in joined, p \in Clients :
         At(p, "join") /\ task'[p] # task[p] /\ task'[p].invite = i
           => i \in torn \/ invite[i] # "pending" \/ Marking(i) # {}]_inviteVars

(* An invitation that is pending for someone with an account is resolved:  *)
(* it comes to be accepted, revoked or lapsed (hooks.server.ts).           *)
InviteIsResolved == \A i \in Invites : (account /\ Pending(i)) ~> ~Pending(i)
=============================================================================
