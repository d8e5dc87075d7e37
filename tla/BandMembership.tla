--------------------------- MODULE BandMembership ---------------------------
(***************************************************************************)
(* The members of one band: invitations and their answers, removals, role  *)
(* edits, leaving, the hand-over of ownership and the band's deletion.     *)
(*                                                                         *)
(* An answer is one conditional statement. The others read a role first    *)
(* and then write by the id of the row or by band and user, whatever the   *)
(* role has become. Staff may remove, edit and revoke without a role in    *)
(* the band, so the members' permission for those is no guard here.        *)
(***************************************************************************)
EXTENDS Integers, FiniteSets

CONSTANTS Clients,  \* Worker invocations
          Users,
          None,     \* the owner of a deleted band
          MaxRows,  \* bound: band_member rows a user may have one after another
          MaxCalls  \* bound: calls of members and staff

ASSUME BandsAssumption == MaxRows \in Nat \ {0} /\ MaxCalls \in Nat

Roles == {"owner", "admin", "member"}
Statuses == {"pending", "active"}

VARIABLES owner,   \* band.ownerId
          member,  \* the band_member row by user; status "none" where there is no row
          req,     \* the request each client is serving
          calls

vars == <<owner, member, req, calls>>

Row == [status : Statuses \cup {"none"}, role : Roles, id : 0..MaxRows]
IsRow(u) == member[u].status # "none"
Active(u) == member[u].status = "active"

(* A request has its actor, the user it is about with the id of the row it *)
(* read, and the role it is to write.                                      *)
Labels == {"idle", "removeRow", "editRow", "target", "transfer", "role", "leaveRow", "delete"}
Request == [at : Labels, actor : Users \cup {None}, user : Users \cup {None},
            id : 0..MaxRows, role : Roles]
Idle == [at |-> "idle", actor |-> None, user |-> None, id |-> 0, role |-> "member"]

At(p, label) == req[p].at = label
Become(p, r) == req' = [req EXCEPT ![p] = r]
End(p) == Become(p, Idle)
Call == calls < MaxCalls /\ calls' = calls + 1
Begin(p, r) == req[p] = Idle /\ Call /\ Become(p, r) /\ UNCHANGED <<owner, member>>

Erase(u) == member' = [member EXCEPT ![u].status = "none", ![u].role = "member"]

-----------------------------------------------------------------------------
(* One statement each; the unique index refuses a second row.              *)
Invite(u, role) ==
  /\ Call /\ owner # None /\ ~IsRow(u) /\ member[u].id < MaxRows
  /\ member' = [member EXCEPT ![u] = [status |-> "pending", role |-> role, id |-> @.id + 1]]
  /\ UNCHANGED <<owner, req>>

AcceptInvitation(u) ==
  /\ Call /\ member[u].status = "pending"
  /\ member' = [member EXCEPT ![u].status = "active"]
  /\ UNCHANGED <<owner, req>>

(* The invited declines, or the band or staff revoke.                      *)
DeclineOrRevoke(u) ==
  /\ Call /\ member[u].status = "pending" /\ Erase(u)
  /\ UNCHANGED <<owner, req>>

-----------------------------------------------------------------------------
(* removeMember() and updateMember(): the row, which must not be the       *)
(* owner's, and a statement by its id.                                     *)
Editable(u) == IsRow(u) /\ member[u].role # "owner"

RemoveMember(p, u) ==
  /\ Editable(u)
  /\ Begin(p, [Idle EXCEPT !.at = "removeRow", !.user = u, !.id = member[u].id])

UpdateMember(p, u, role) ==
  /\ Editable(u)
  /\ Begin(p, [Idle EXCEPT !.at = "editRow", !.user = u, !.id = member[u].id, !.role = role])

SameRow(r) == IsRow(r.user) /\ member[r.user].id = r.id

RemoveRow(p) ==
  /\ At(p, "removeRow") /\ End(p)
  /\ IF SameRow(req[p]) THEN Erase(req[p].user) ELSE UNCHANGED member
  /\ UNCHANGED <<owner, calls>>

EditRow(p) ==
  LET r == req[p] IN
  /\ At(p, "editRow") /\ End(p)
  /\ member' = IF SameRow(r) THEN [member EXCEPT ![r.user].role = r.role] ELSE member
  /\ UNCHANGED <<owner, calls>>

-----------------------------------------------------------------------------
(* transferOwnership(): the owner acts, or staff for whom ownerId names;   *)
(* the new owner's row is read, and one batch writes both rows and ownerId. *)
OwnsRow(u) == Active(u) /\ member[u].role = "owner"

TransferOwnership(p, actor, u) ==
  /\ OwnsRow(actor) \/ actor = owner
  /\ owner # None
  /\ Begin(p, [Idle EXCEPT !.at = "target", !.actor = actor, !.user = u])

Target(p) ==
  /\ At(p, "target")
  /\ IF Active(req[p].user) THEN Become(p, [req[p] EXCEPT !.at = "transfer"]) ELSE End(p)
  /\ UNCHANGED <<owner, member, calls>>

(* The batch, statement by statement: the actor's row, the new owner's.    *)
(* Mutant of Demoted: nobody is.                                           *)
DemotedMutant(u, actor) == FALSE
Demoted(u, actor) == u = actor /\ member[u].role = "owner"
Promoted(u, new) == u = new /\ Active(u)

Transfer(p) ==
  LET r == req[p] IN
  /\ At(p, "transfer") /\ End(p)
  /\ member' = [u \in Users |->
       IF Promoted(u, r.user) THEN [member[u] EXCEPT !.role = "owner"]
       ELSE IF Demoted(u, r.actor) THEN [member[u] EXCEPT !.role = "admin"] ELSE member[u]]
  /\ owner' = IF owner = None THEN None ELSE r.user
  /\ UNCHANGED calls

-----------------------------------------------------------------------------
(* leaveBand(): the member's role, then a statement by band and user.      *)
Leave(p, u) == Active(u) /\ Begin(p, [Idle EXCEPT !.at = "role", !.user = u])

ReadRole(p) ==
  /\ At(p, "role")
  /\ IF Editable(req[p].user) THEN Become(p, [req[p] EXCEPT !.at = "leaveRow"]) ELSE End(p)
  /\ UNCHANGED <<owner, member, calls>>

LeaveRow(p) ==
  /\ At(p, "leaveRow") /\ End(p)
  /\ IF IsRow(req[p].user) THEN Erase(req[p].user) ELSE UNCHANGED member
  /\ UNCHANGED <<owner, calls>>

(* deleteBand(): the member rows go with the band's.                       *)
DeleteBand(p, u) == OwnsRow(u) /\ owner # None /\ Begin(p, [Idle EXCEPT !.at = "delete", !.actor = u])

DeleteRow(p) ==
  /\ At(p, "delete") /\ End(p)
  /\ owner' = None
  /\ member' = [u \in Users |-> [member[u] EXCEPT !.status = "none", !.role = "member"]]
  /\ UNCHANGED calls

-----------------------------------------------------------------------------
Init ==
  /\ owner \in Users
  /\ member = [u \in Users |-> IF u = owner THEN [status |-> "active", role |-> "owner", id |-> 1]
                               ELSE [status |-> "none", role |-> "member", id |-> 0]]
  /\ req = [p \in Clients |-> Idle] /\ calls = 0

Continue(p) == RemoveRow(p) \/ EditRow(p) \/ Target(p) \/ Transfer(p)
               \/ ReadRole(p) \/ LeaveRow(p) \/ DeleteRow(p)

Next ==
  \/ \E p \in Clients, u \in Users :
       \/ RemoveMember(p, u) \/ Leave(p, u) \/ DeleteBand(p, u)
       \/ \E role \in {"admin", "member"} : UpdateMember(p, u, role)
       \/ \E actor \in Users : TransferOwnership(p, actor, u)
  \/ \E p \in Clients : Continue(p)
  \/ \E u \in Users : AcceptInvitation(u) \/ DeclineOrRevoke(u)
                      \/ \E role \in {"admin", "member"} : Invite(u, role)

Spec == Init /\ [][Next]_vars

-----------------------------------------------------------------------------
(* Variables have their types, and an owner's row is never an invitation:  *)
(* who only was invited cannot come to own the band (invite, Promoted).    *)
TypeOK ==
  /\ owner \in Users \cup {None}
  /\ member \in [Users -> Row]
  /\ \A u \in Users : member[u].role = "owner" => Active(u)
  /\ req \in [Clients -> Request]
  /\ calls \in 0..MaxCalls

(* A band has one owner, the one its row names, who is an active member.   *)
(* Only a request that the ownership overtook undoes that: a removal, an   *)
(* edit or a departure of someone who has become the owner since, or a     *)
(* hand-over by someone who no longer is, or to someone no longer there.   *)
Owned == owner = None \/ {u \in Users : OwnsRow(u)} = {owner}
Overtaken(r) == \/ r.at \in {"removeRow", "editRow", "leaveRow"} /\ r.user = owner
                \/ r.at = "transfer" /\ (r.actor # owner \/ ~Active(r.user))
OwnedUnlessOvertaken ==
  [][Owned /\ ~Owned' => \E p \in Clients : req'[p] = Idle /\ Overtaken(req[p])]_vars
=============================================================================
