---------------------------- MODULE OutreachProofs ----------------------------
(***************************************************************************)
(* Bands, invitations by e-mail and campaigns, for every number of users,  *)
(* requests, rows, batches and calls. Each component has its inductive     *)
(* invariant and its theorems, and the last part states them of the        *)
(* instance that is model-checked.                                         *)
(***************************************************************************)
EXTENDS MCOutreach, WellFoundedInduction, TLAPS

-----------------------------------------------------------------------------
(* BandMembership: the types of the rows, and that a band keeps its one    *)
(* owner unless a request was overtaken by the ownership.                  *)

(* No request writes the role of an owner but a hand-over, which does not  *)
(* take it from the request; what is about a user names one.               *)
RequestOK(r) == r.role # "owner" /\ (r.at \notin {"idle", "delete"} => r.user \in Users)
BandInv == TypeOK /\ \A p \in Clients : RequestOK(req[p])

RequestsOK == req' \in [Clients -> Request] /\ \A p \in Clients : RequestOK(req'[p])
MembersOK == member' \in [Users -> Row] /\ \A u \in Users : member'[u].role = "owner" => Active(u)'

-----------------------------------------------------------------------------
(* What the building blocks of a step do to the types. *)

LEMMA BecomeOK ==
  ASSUME BandInv, NEW p \in Clients, NEW r \in Request, RequestOK(r), Become(p, r)
  PROVE  RequestsOK
BY DEF BandInv, TypeOK, Become, RequestsOK

LEMMA EndOK ==
  ASSUME BandInv, NEW p \in Clients, End(p)
  PROVE  RequestsOK
<1>1. 0 \in 0..MaxRows
  BY BandsAssumption
<1>2. Idle \in Request /\ RequestOK(Idle)
  BY <1>1 DEF Idle, Request, Labels, Roles, RequestOK
<1> QED BY <1>2, BecomeOK DEF End

LEMMA EraseOK ==
  ASSUME BandInv, NEW u \in Users, Erase(u)
  PROVE  MembersOK
BY DEF BandInv, TypeOK, Erase, MembersOK, Row, Statuses, Roles, Active

LEMMA KeepMembers ==
  ASSUME BandInv, UNCHANGED member
  PROVE  MembersOK
BY DEF BandInv, TypeOK, MembersOK, Active

-----------------------------------------------------------------------------
(* Type correctness. *)

LEMMA InitOK == Init => BandInv
<1> SUFFICES ASSUME Init PROVE BandInv
  OBVIOUS
<1>1. 0 \in 0..MaxRows /\ 1 \in 0..MaxRows /\ 0 \in 0..MaxCalls
  BY BandsAssumption
<1>2. Idle \in Request /\ RequestOK(Idle)
  BY <1>1 DEF Idle, Request, Labels, Roles, RequestOK
<1>3. member \in [Users -> Row] /\ \A u \in Users : member[u].role = "owner" => Active(u)
  BY <1>1 DEF Init, Row, Statuses, Roles, Active
<1> QED BY <1>1, <1>2, <1>3 DEF Init, BandInv, TypeOK

LEMMA CallOK == BandInv /\ Call => calls' \in 0..MaxCalls
BY BandsAssumption DEF BandInv, TypeOK, Call

LEMMA Combine ==
  ASSUME RequestsOK, MembersOK, owner' \in Users \cup {None}, calls' \in 0..MaxCalls
  PROVE  BandInv'
BY DEF RequestsOK, MembersOK, BandInv, TypeOK

LEMMA BeginOK ==
  ASSUME BandInv, NEW p \in Clients, NEW r \in Request, RequestOK(r), Begin(p, r)
  PROVE  BandInv'
BY BecomeOK, KeepMembers, CallOK, Combine DEF Begin, BandInv, TypeOK

(* A call reads what it is about. *)
LEMMA ArriveOK ==
  ASSUME BandInv, NEW p \in Clients, NEW u \in Users,
         \/ RemoveMember(p, u) \/ Leave(p, u) \/ DeleteBand(p, u)
         \/ \E role \in {"admin", "member"} : UpdateMember(p, u, role)
         \/ \E actor \in Users : TransferOwnership(p, actor, u)
  PROVE  BandInv'
<1>1. member[u].id \in 0..MaxRows /\ 0 \in 0..MaxRows
  BY BandsAssumption DEF BandInv, TypeOK, Row
<1>2. CASE RemoveMember(p, u)
  <2> DEFINE r == [Idle EXCEPT !.at = "removeRow", !.user = u, !.id = member[u].id]
  <2>1. r \in Request /\ RequestOK(r)
    BY <1>1 DEF Idle, Request, Labels, Roles, RequestOK
  <2> QED BY <1>2, <2>1, BeginOK DEF RemoveMember
<1>3. CASE Leave(p, u)
  <2> DEFINE r == [Idle EXCEPT !.at = "role", !.user = u]
  <2>1. r \in Request /\ RequestOK(r)
    BY <1>1 DEF Idle, Request, Labels, Roles, RequestOK
  <2> QED BY <1>3, <2>1, BeginOK DEF Leave
<1>4. CASE DeleteBand(p, u)
  <2> DEFINE r == [Idle EXCEPT !.at = "delete", !.actor = u]
  <2>1. r \in Request /\ RequestOK(r)
    BY <1>1 DEF Idle, Request, Labels, Roles, RequestOK
  <2> QED BY <1>4, <2>1, BeginOK DEF DeleteBand
<1>5. ASSUME NEW role \in {"admin", "member"}, UpdateMember(p, u, role) PROVE BandInv'
  <2> DEFINE r == [Idle EXCEPT !.at = "editRow", !.user = u, !.id = member[u].id, !.role = role]
  <2>1. r \in Request /\ RequestOK(r)
    BY <1>1 DEF Idle, Request, Labels, Roles, RequestOK
  <2> QED BY <1>5, <2>1, BeginOK DEF UpdateMember
<1>6. ASSUME NEW actor \in Users, TransferOwnership(p, actor, u) PROVE BandInv'
  <2> DEFINE r == [Idle EXCEPT !.at = "target", !.actor = actor, !.user = u]
  <2>1. r \in Request /\ RequestOK(r)
    BY <1>1 DEF Idle, Request, Labels, Roles, RequestOK
  <2> QED BY <1>6, <2>1, BeginOK DEF TransferOwnership
<1> QED BY <1>2, <1>3, <1>4, <1>5, <1>6

(* A request runs on. *)
LEMMA ContinueOK ==
  ASSUME BandInv, NEW p \in Clients, Continue(p)
  PROVE  BandInv'
<1> DEFINE r == req[p]
<1>1. r \in Request /\ RequestOK(r) /\ owner \in Users \cup {None} /\ calls \in 0..MaxCalls
  BY DEF BandInv, TypeOK
<1>2. ASSUME NEW label \in Labels, r.user \in Users, Become(p, [r EXCEPT !.at = label])
      PROVE  RequestsOK
  BY <1>1, <1>2, BecomeOK DEF Request, RequestOK
<1>3. CASE RemoveRow(p)
  <2>1. r.user \in Users
    BY <1>1, <1>3 DEF RemoveRow, At, RequestOK
  <2> QED BY <1>1, <1>3, <2>1, EndOK, EraseOK, KeepMembers, Combine DEF RemoveRow
<1>4. CASE EditRow(p)
  <2>1. r.user \in Users /\ r.role \in Roles \ {"owner"}
    BY <1>1, <1>4 DEF EditRow, At, RequestOK, Request
  <2>2. MembersOK
    BY <1>4, <2>1 DEF EditRow, BandInv, TypeOK, MembersOK, Row, Active
  <2> QED BY <1>1, <1>4, <2>2, EndOK, Combine DEF EditRow
<1>5. CASE Target(p)
  <2>1. r.user \in Users
    BY <1>1, <1>5 DEF Target, At, RequestOK
  <2> QED BY <1>1, <1>2, <1>5, <2>1, EndOK, KeepMembers, Combine DEF Target, Labels
<1>6. CASE Transfer(p)
  <2>1. r.user \in Users
    BY <1>1, <1>6 DEF Transfer, At, RequestOK
  <2>2. MembersOK
    BY <1>6 DEF Transfer, BandInv, TypeOK, MembersOK, Row, Roles, Active, Promoted, Demoted
  <2> QED BY <1>1, <1>6, <2>1, <2>2, EndOK, Combine DEF Transfer
<1>7. CASE ReadRole(p)
  <2>1. r.user \in Users
    BY <1>1, <1>7 DEF ReadRole, At, RequestOK
  <2> QED BY <1>1, <1>2, <1>7, <2>1, EndOK, KeepMembers, Combine DEF ReadRole, Labels
<1>8. CASE LeaveRow(p)
  <2>1. r.user \in Users
    BY <1>1, <1>8 DEF LeaveRow, At, RequestOK
  <2> QED BY <1>1, <1>8, <2>1, EndOK, EraseOK, KeepMembers, Combine DEF LeaveRow
<1>9. CASE DeleteRow(p)
  <2>1. MembersOK
    BY <1>9 DEF DeleteRow, BandInv, TypeOK, MembersOK, Row, Roles, Active
  <2> QED BY <1>1, <1>9, <2>1, EndOK, Combine DEF DeleteRow
<1> QED BY <1>3, <1>4, <1>5, <1>6, <1>7, <1>8, <1>9 DEF Continue

(* Invitations and their answers. *)
LEMMA InvitationOK ==
  ASSUME BandInv, NEW u \in Users,
         \/ AcceptInvitation(u) \/ DeclineOrRevoke(u)
         \/ \E role \in {"admin", "member"} : Invite(u, role)
  PROVE  BandInv'
<1>1. RequestsOK /\ owner' \in Users \cup {None}
  BY DEF AcceptInvitation, DeclineOrRevoke, Invite, BandInv, TypeOK, RequestsOK
<1>2. CASE AcceptInvitation(u)
  <2>1. MembersOK
    BY <1>2 DEF AcceptInvitation, BandInv, TypeOK, MembersOK, Row, Statuses, Active
  <2> QED BY <1>1, <1>2, <2>1, CallOK, Combine DEF AcceptInvitation
<1>3. CASE DeclineOrRevoke(u)
  BY <1>1, <1>3, EraseOK, CallOK, Combine DEF DeclineOrRevoke
<1>4. ASSUME NEW role \in {"admin", "member"}, Invite(u, role) PROVE BandInv'
  <2>1. member[u].id + 1 \in 0..MaxRows
    BY <1>4, BandsAssumption DEF Invite, BandInv, TypeOK, Row
  <2>2. MembersOK
    BY <1>4, <2>1 DEF Invite, BandInv, TypeOK, MembersOK, Row, Roles, Statuses, Active
  <2> QED BY <1>1, <1>4, <2>2, CallOK, Combine DEF Invite
<1> QED BY <1>2, <1>3, <1>4

LEMMA StepOK == BandInv /\ [Next]_vars => BandInv'
<1> SUFFICES ASSUME BandInv, [Next]_vars PROVE BandInv'
  OBVIOUS
<1>1. CASE UNCHANGED vars
  BY <1>1 DEF vars, BandInv, TypeOK, Active
<1> QED BY <1>1, ArriveOK, ContinueOK, InvitationOK DEF Next

(* The rows of a band and the requests about them keep their types, and a  *)
(* row that was never accepted is never the owner's (invite, transfer).    *)
THEOREM TypeCorrect == Spec => []TypeOK
<1>1. BandInv => TypeOK
  BY DEF BandInv
<1> QED BY <1>1, InitOK, StepOK, PTL DEF Spec

-----------------------------------------------------------------------------
(* One owner. *)

Theft == \E p \in Clients : req'[p] = Idle /\ Overtaken(req[p])

LEMMA OwnedKept ==
  ASSUME Owned, owner' = owner, \A u \in Users : OwnsRow(u)' <=> OwnsRow(u)
  PROVE  Owned'
BY DEF Owned

LEMMA OwnedStep == BandInv /\ [Next]_vars => (Owned /\ ~Owned' => Theft)
<1> SUFFICES ASSUME BandInv, [Next]_vars, Owned, ~Theft PROVE Owned'
  OBVIOUS
<1>1. \A p \in Clients : End(p) => ~Overtaken(req[p])
  BY DEF BandInv, TypeOK, End, Become, Theft
<1>2. ASSUME NEW u \in Users, member' = [member EXCEPT ![u].status = "none", ![u].role = "member"],
             owner' = owner, ~OwnsRow(u)
      PROVE  Owned'
  BY <1>2, OwnedKept DEF BandInv, TypeOK, OwnsRow, Active, Row
<1>3. \A u \in Users : u # owner /\ owner # None => ~OwnsRow(u)
  BY DEF Owned
<1>4. owner = None /\ owner' = owner => Owned'
  BY DEF Owned
<1>5. ASSUME NEW p \in Clients, RemoveRow(p) PROVE Owned'
  <2>1. req[p].user \in Users /\ req[p].user # owner
    BY <1>1, <1>5 DEF RemoveRow, BandInv, RequestOK, At, Overtaken
  <2>2. CASE UNCHANGED member
    BY <1>5, <2>2, OwnedKept DEF RemoveRow, OwnsRow, Active
  <2> QED BY <1>2, <1>3, <1>4, <1>5, <2>1, <2>2 DEF RemoveRow, Erase
<1>6. ASSUME NEW p \in Clients, LeaveRow(p) PROVE Owned'
  <2>1. req[p].user \in Users /\ req[p].user # owner
    BY <1>1, <1>6 DEF LeaveRow, BandInv, RequestOK, At, Overtaken
  <2>2. CASE UNCHANGED member
    BY <1>6, <2>2, OwnedKept DEF LeaveRow, OwnsRow, Active
  <2> QED BY <1>2, <1>3, <1>4, <1>6, <2>1, <2>2 DEF LeaveRow, Erase
<1>7. ASSUME NEW p \in Clients, EditRow(p) PROVE Owned'
  <2>1. req[p].user \in Users /\ req[p].user # owner /\ req[p].role # "owner"
    BY <1>1, <1>7 DEF EditRow, BandInv, RequestOK, At, Overtaken
  <2>2. CASE owner # None
    <3>1. ~OwnsRow(req[p].user)
      BY <1>3, <2>1, <2>2
    <3> QED BY <1>7, <2>1, <3>1, OwnedKept DEF EditRow, BandInv, TypeOK, OwnsRow, Active, Row
  <2> QED BY <1>4, <1>7, <2>2 DEF EditRow
<1>8. ASSUME NEW p \in Clients, Transfer(p) PROVE Owned'
  <2> DEFINE r == req[p]
  <2>1. r.user \in Users /\ r.actor = owner /\ Active(r.user)
    BY <1>1, <1>8 DEF Transfer, BandInv, RequestOK, At, Overtaken
  <2>2. CASE owner # None
    <3>1. ASSUME NEW u \in Users PROVE OwnsRow(u)' <=> u = r.user
      <4>1. member[u] \in Row
        BY DEF BandInv, TypeOK
      <4>2. CASE u = r.user
        BY <1>8, <2>1, <4>1, <4>2 DEF Transfer, Promoted, OwnsRow, Active, Row
      <4>3. CASE u # r.user /\ u = r.actor
        BY <1>8, <4>1, <4>3 DEF Transfer, Promoted, Demoted, OwnsRow, Active, Row
      <4>4. CASE u # r.user /\ u # r.actor
        BY <1>3, <1>8, <2>1, <2>2, <4>1, <4>4 DEF Transfer, Promoted, Demoted, OwnsRow, Active, Row
      <4> QED BY <4>2, <4>3, <4>4
    <3>2. owner' = r.user
      BY <1>8, <2>2 DEF Transfer
    <3> QED BY <2>1, <3>1, <3>2 DEF Owned
  <2> QED BY <1>4, <1>8, <2>2 DEF Transfer
<1>9. ASSUME NEW p \in Clients, DeleteRow(p) PROVE Owned'
  BY <1>9 DEF DeleteRow, Owned
<1>10. ASSUME NEW u \in Users,
              \/ AcceptInvitation(u) \/ DeclineOrRevoke(u)
              \/ \E role \in {"admin", "member"} : Invite(u, role)
       PROVE  Owned'
  <2>1. member[u].status # "active" /\ ~OwnsRow(u) /\ member[u].role # "owner"
    BY <1>10 DEF AcceptInvitation, DeclineOrRevoke, Invite, IsRow, OwnsRow, Active, BandInv, TypeOK
  <2> QED
    BY <1>10, <2>1, OwnedKept
    DEF AcceptInvitation, DeclineOrRevoke, Invite, Erase, OwnsRow, Active, BandInv, TypeOK, Row
<1>11. ASSUME UNCHANGED <<owner, member>> PROVE Owned'
  BY <1>11, OwnedKept DEF OwnsRow, Active
<1> QED
  BY <1>5, <1>6, <1>7, <1>8, <1>9, <1>10, <1>11
  DEF Next, Continue, RemoveMember, Leave, DeleteBand, UpdateMember, TransferOwnership, Begin,
      Target, ReadRole, vars

(* A band loses its one owner only to a request that the ownership         *)
(* overtook (removeMember, updateMember, leaveBand, transferOwnership).    *)
THEOREM OwnerStays == Spec => OwnedUnlessOvertaken
<1>1. BandInv /\ [Next]_vars
        => [Owned /\ ~Owned' => \E p \in Clients : req'[p] = Idle /\ Overtaken(req[p])]_vars
  BY OwnedStep DEF Theft
<1> QED BY <1>1, InitOK, StepOK, PTL DEF Spec, OwnedUnlessOvertaken

-----------------------------------------------------------------------------
(* PlatformInvites: an invitation that brought its holder in is marked, is *)
(* about to be, or was left by a session that was lost.                    *)

InviteTypes ==
  /\ invite \in [Invites -> Email!Statuses]
  /\ task \in [Clients -> Email!Task \cup {None}]

(* What a session holds was pending when it looked.                        *)
SessionOK(p) ==
  /\ task[p] # None => \A i \in task[p].left : invite[i] # "none"
  /\ Email!At(p, "join") => task[p].left # {}
  /\ Email!At(p, "mark") \/ Email!At(p, "revoke") =>
       task[p].invite \in Invites /\ invite[task[p].invite] # "none"

Marks(p, i) == Email!At(p, "mark") /\ task[p].invite = i
JoinedOK(i) ==
  /\ i \in Invites /\ invite[i] # "none"
  /\ i \in torn \/ invite[i] # "pending" \/ \E p \in Clients : Marks(p, i)

InviteInv == InviteTypes /\ (\A p \in Clients : SessionOK(p)) /\ (\A i \in joined : JoinedOK(i))

(* The least of some natural numbers is one of them. *)
LEMMA LeastOne ==
  ASSUME NEW S \in SUBSET Nat, S # {}
  PROVE  Email!Min(S) \in S
<1>1. PICK x \in S : \A y \in S : ~(<<y, x>> \in OpToRel(<, Nat))
  <2>1. \A R, U : IsWellFoundedOn(R, U) =>
                    \A T : T \subseteq U /\ T # {} => \E x \in T : \A y \in T : ~(<<y, x>> \in R)
    BY WFMin
  <2> HIDE DEF OpToRel
  <2> QED BY <2>1, NatLessThanWellFounded, Zenon
<1>2. \A y \in S : ~(y < x)
  BY <1>1 DEF OpToRel
<1>3. \E z \in S : \A y \in S : z <= y
  BY <1>2
<1> QED BY <1>3 DEF Email!Min

LEMMA InviteInitOK == Email!Init => InviteInv
BY DEF Email!Init, InviteInv, InviteTypes, SessionOK, JoinedOK, Email!At, Email!Statuses

(* A step of p that writes no invitation but one that there was, or one    *)
(* that was not used yet, and after which p marks none.                    *)
LEMMA OneSession ==
  ASSUME InviteInv, NEW p \in Clients, NEW t \in Email!Task \cup {None}, Email!Do(p, t),
         invite' \in [Invites -> Email!Statuses],
         \A i \in Invites : invite[i] # "none" => /\ invite'[i] # "none"
                                                  /\ invite'[i] = "pending" => invite[i] = "pending",
         t # None => /\ \A i \in t.left : invite'[i] # "none"
                     /\ t.at = "join" => t.left # {}
                     /\ t.at \in {"mark", "revoke"} => t.invite \in Invites /\ invite'[t.invite] # "none",
         joined' = joined \/ (\E i \in Invites : joined' = joined \cup {i} /\ t # None /\ t.at = "mark" /\ t.invite = i),
         torn \subseteq torn',
         Email!At(p, "mark") => invite'[task[p].invite] # "pending" \/ task[p].invite \in torn'
  PROVE  InviteInv'
<1>1. /\ task' \in [Clients -> Email!Task \cup {None}]
      /\ task'[p] = t /\ \A q \in Clients \ {p} : task'[q] = task[q]
  BY DEF InviteInv, InviteTypes, Email!Do
<1>2. ASSUME NEW q \in Clients PROVE SessionOK(q)'
  <2>1. CASE q = p
    BY <1>1, <2>1 DEF SessionOK, Email!At
  <2>2. CASE q # p
    <3>1. SessionOK(q) /\ task'[q] = task[q] /\ (task[q] # None => task[q].left \subseteq Invites)
      BY <1>1, <2>2 DEF InviteInv, InviteTypes, Email!Task
    <3> QED BY <3>1 DEF SessionOK, Email!At
  <2> QED BY <2>1, <2>2
<1>3. ASSUME NEW i \in joined, JoinedOK(i) PROVE JoinedOK(i)'
  <2>1. i \in Invites /\ invite'[i] # "none"
    BY <1>3 DEF JoinedOK
  <2>2. ASSUME NEW q \in Clients, Marks(q, i), invite'[i] = "pending", i \notin torn'
        PROVE  Marks(q, i)'
    <3>1. q # p
      BY <2>2 DEF Marks
    <3> QED BY <1>1, <2>2, <3>1 DEF Marks, Email!At
  <2> QED BY <1>3, <2>1, <2>2 DEF JoinedOK
<1>4. ASSUME NEW i \in Invites, t # None, t.at = "mark", t.invite = i PROVE JoinedOK(i)'
  BY <1>1, <1>4 DEF JoinedOK, Marks, Email!At
<1>5. \A i \in joined : JoinedOK(i)
  BY DEF InviteInv
<1>6. \A i \in joined' : JoinedOK(i)'
  BY <1>3, <1>4, <1>5
<1> QED BY <1>1, <1>2, <1>6 DEF InviteInv, InviteTypes

(* What goes on around disturbs no invitation and no session.              *)
LEMMA Around == InviteInv /\ UNCHANGED <<invite, task, joined, torn>> => InviteInv'
BY DEF InviteInv, InviteTypes, SessionOK, JoinedOK, Marks, Email!At

LEMMA JoinOK == ASSUME InviteInv, NEW p \in Clients, Email!Join(p) PROVE InviteInv'
<1> DEFINE i == Email!Min(task[p].left)
           t == [task[p] EXCEPT !.at = "mark", !.invite = i, !.left = @ \ {i}]
<1>1. /\ task[p] # None /\ task[p].at = "join" /\ task[p] \in Email!Task /\ Email!Do(p, t)
      /\ (joined' = joined \/ joined' = joined \cup {i}) /\ UNCHANGED <<invite, torn>>
  BY DEF Email!Join, Email!At, InviteInv, InviteTypes
<1>2. task[p].left \subseteq Invites /\ task[p].left # {} /\ \A j \in task[p].left : invite[j] # "none"
  BY <1>1 DEF InviteInv, SessionOK, Email!At, Email!Task
<1>3. i \in task[p].left
  BY <1>2, LeastOne, InvitesAssumption
<1> HIDE DEF i
<1>4. t \in Email!Task /\ t.at = "mark" /\ t.invite = i /\ t.left = task[p].left \ {i}
  BY <1>1, <1>2, <1>3 DEF Email!Task, Email!Labels
<1>5. t # None
  BY <1>4, InvitesAssumption
<1> HIDE DEF t
<1> QED BY <1>1, <1>2, <1>3, <1>4, <1>5, OneSession DEF InviteInv, InviteTypes, Email!At

LEMMA MarkOK == ASSUME InviteInv, NEW p \in Clients, Email!Mark(p) PROVE InviteInv'
<1> DEFINE i == task[p].invite
           t == Email!After(task[p])
<1>1. /\ task[p] # None /\ task[p].at = "mark" /\ task[p] \in Email!Task /\ Email!Do(p, t)
      /\ invite' = [invite EXCEPT ![i] = "accepted"] /\ UNCHANGED <<joined, torn>>
  BY DEF Email!Mark, Email!Marked, Email!At, Email!ghosts, InviteInv, InviteTypes
<1>2. i \in Invites /\ invite[i] # "none" /\ \A j \in task[p].left : invite[j] # "none"
  BY <1>1 DEF InviteInv, SessionOK, Email!At
<1>3. invite' \in [Invites -> Email!Statuses] /\ invite'[i] = "accepted" /\ \A j \in Invites \ {i} : invite'[j] = invite[j]
  BY <1>1, <1>2 DEF InviteInv, InviteTypes, Email!Statuses
<1>4. t = None \/ (t \in Email!Task /\ t.at = "join" /\ t.left = task[p].left /\ t.left # {})
  BY <1>1 DEF Email!After, Email!Task, Email!Labels
<1>5. task[p].left \subseteq Invites
  BY <1>1 DEF Email!Task
<1> HIDE DEF t
<1> QED BY <1>1, <1>2, <1>3, <1>4, <1>5, OneSession DEF Email!At

LEMMA InsertOK == ASSUME InviteInv, NEW p \in Clients, Email!Insert(p) PROVE InviteInv'
<1> DEFINE i == Email!Min(Email!Unused)
<1>1. /\ ~Email!At(p, "mark") /\ Email!Do(p, None) /\ UNCHANGED <<joined, torn>>
      /\ invite' = invite \/ (Email!Unused # {} /\ invite' = [invite EXCEPT ![i] = "pending"])
  BY DEF Email!Insert, Email!At, Email!Finish, Email!ghosts
<1>2. Email!Unused # {} => i \in Invites /\ invite[i] = "none"
  BY LeastOne, InvitesAssumption DEF Email!Unused
<1> HIDE DEF i
<1>3. /\ invite' \in [Invites -> Email!Statuses]
      /\ \A j \in Invites : invite[j] # "none" => invite'[j] = invite[j]
  BY <1>1, <1>2 DEF InviteInv, InviteTypes, Email!Statuses
<1> QED BY <1>1, <1>3, OneSession

LEMMA InviteStep == InviteInv /\ [Email!Next]_(Email!inviteVars) => InviteInv'
<1> SUFFICES ASSUME InviteInv, [Email!Next]_(Email!inviteVars) PROVE InviteInv'
  OBVIOUS
<1>1. \A label \in Email!Labels \ {"join", "mark", "revoke"} :
        /\ Email!Start(label) \in Email!Task
        /\ Email!Start(label).at = label /\ Email!Start(label).left = {}
  BY DEF Email!Start, Email!Task
<1>2. invite \in [Invites -> Email!Statuses]
  BY DEF InviteInv, InviteTypes
<1>3. ASSUME NEW p \in Clients, Email!CreateInvite(p) \/ Email!Member(p) PROVE InviteInv'
  <2>1. \E t \in {Email!Start("member"), Email!Start("look"), Email!Start("insertMember"), None} : Email!Do(p, t)
    BY <1>3 DEF Email!CreateInvite, Email!Member, Email!Finish
  <2>2. ~Email!At(p, "mark") /\ UNCHANGED <<invite, joined, torn>>
    BY <1>3 DEF Email!CreateInvite, Email!Member, Email!At, Email!ghosts
  <2> QED BY <1>1, <1>2, <2>1, <2>2, OneSession DEF Email!Labels
<1>4. ASSUME NEW p \in Clients, Email!InsertMember(p) \/ Email!Refresh(p) PROVE InviteInv'
  <2>1. Email!Do(p, None) /\ ~Email!At(p, "mark") /\ UNCHANGED <<invite, joined, torn>>
    BY <1>4 DEF Email!InsertMember, Email!Refresh, Email!At, Email!Finish, Email!ghosts
  <2> QED BY <1>2, <2>1, OneSession
<1>5. ASSUME NEW p \in Clients, Email!Look(p) PROVE InviteInv'
  <2>1. ~Email!At(p, "mark") /\ UNCHANGED <<invite, joined, torn>>
    BY <1>5 DEF Email!Look, Email!At, Email!ghosts
  <2>2. PICK t \in {Email!Start("insert")} \cup {[Email!Start("refresh") EXCEPT !.invite = i] : i \in Invites} :
          Email!Do(p, t)
    BY <1>5 DEF Email!Look
  <2>3. t \in Email!Task /\ t.at \in {"insert", "refresh"} /\ t.left = {}
    BY <2>2 DEF Email!Start, Email!Task, Email!Labels
  <2> QED BY <1>2, <2>1, <2>2, <2>3, OneSession
<1>6. ASSUME NEW p \in Clients, Email!Resolve(p) PROVE InviteInv'
  <2> DEFINE found == {i \in Invites : Email!Pending(i)}
             t == [Email!Start("join") EXCEPT !.left = found]
  <2>1. found # {} /\ Email!Do(p, t) /\ ~Email!At(p, "mark") /\ UNCHANGED <<invite, joined, torn>>
    BY <1>6 DEF Email!Resolve, Email!At, Email!ghosts
  <2>2. found \in SUBSET Invites /\ \A i \in found : invite[i] # "none"
    BY DEF Email!Pending
  <2> HIDE DEF found
  <2>3. t \in Email!Task /\ t.at = "join" /\ t.left = found
    BY <2>2 DEF Email!Start, Email!Task, Email!Labels
  <2> HIDE DEF t
  <2> QED BY <1>2, <2>1, <2>2, <2>3, OneSession
<1>7. ASSUME NEW p \in Clients, NEW i \in Invites, Email!Revoke(p, i) PROVE InviteInv'
  <2> DEFINE t == [Email!Start("revoke") EXCEPT !.invite = i]
  <2>1. invite[i] # "none" /\ Email!Do(p, t) /\ ~Email!At(p, "mark") /\ UNCHANGED <<invite, joined, torn>>
    BY <1>7 DEF Email!Revoke, Email!At, Email!ghosts
  <2>2. t \in Email!Task /\ t.at = "revoke" /\ t.left = {} /\ t.invite = i
    BY DEF Email!Start, Email!Task, Email!Labels
  <2> HIDE DEF t
  <2> QED BY <1>2, <2>1, <2>2, OneSession
<1>8. ASSUME NEW p \in Clients, Email!WriteRevoked(p) PROVE InviteInv'
  <2>1. /\ Email!Do(p, None) /\ ~Email!At(p, "mark") /\ UNCHANGED <<joined, torn>>
        /\ invite' = [invite EXCEPT ![task[p].invite] = "revoked"]
    BY <1>8 DEF Email!WriteRevoked, Email!At, Email!Finish, Email!ghosts
  <2>2. /\ invite' \in [Invites -> Email!Statuses]
        /\ \A j \in Invites : invite[j] # "none" => invite'[j] \in {"revoked", invite[j]}
    BY <1>2, <2>1 DEF Email!Statuses
  <2> QED BY <2>1, <2>2, OneSession
<1>9. ASSUME NEW p \in Clients, Email!Crash(p) PROVE InviteInv'
  <2>1. /\ Email!Do(p, None) /\ UNCHANGED <<invite, joined>> /\ torn \subseteq torn'
        /\ Email!At(p, "mark") => task[p].invite \in torn'
    BY <1>9 DEF Email!Crash, Email!Finish
  <2> QED BY <1>2, <2>1, OneSession
<1>10. ASSUME Email!SignUp \/ Email!Accept \/ Email!Leave \/ (\E i \in Invites : Email!Lapse(i))
       PROVE  InviteInv'
  BY <1>10, Around DEF Email!SignUp, Email!Accept, Email!Leave, Email!Lapse, Email!ghosts
<1>11. CASE UNCHANGED Email!inviteVars
  BY <1>11, Around DEF Email!inviteVars
<1> QED BY <1>3, <1>4, <1>5, <1>6, <1>7, <1>8, <1>9, <1>10, <1>11, JoinOK, MarkOK, InsertOK
        DEF Email!Next, Email!Continue

(* An invitation brings its holder into the band once, unless a session    *)
(* was lost before it marked it, or two had both read it                   *)
(* (resolvePendingInvites).                                                *)
THEOREM InvitesJoinOnce == Email!Spec => Email!JoinsOnceUnlessTorn
<1> DEFINE Claim == row = "none" /\ row' = "active" =>
                      \A i \in joined, p \in Clients :
                        Email!At(p, "join") /\ task'[p] # task[p] /\ task'[p].invite = i
                          => i \in torn \/ invite[i] # "pending" \/ Email!Marking(i) # {}
<1>1. InviteInv => Claim
  BY DEF InviteInv, JoinedOK, Marks, Email!Marking
<1> QED BY <1>1, InviteInitOK, InviteStep, PTL DEF Email!Spec, Email!JoinsOnceUnlessTorn

-----------------------------------------------------------------------------
(* Campaigns: who has posted what, and when there is nobody to post to.    *)

Posting == [at : {"post"}, row : Mailing!Row, left : SUBSET Batches,
            posted : BOOLEAN, nobody : BOOLEAN, torn : BOOLEAN]
Work == [at : Mailing!Edits \cup {"clear", "target", "read"}, whom : {None, Batches}]
        \cup [at : {"recipients"}, row : Mailing!Row]
        \cup Posting

MailingTypes ==
  /\ letter \in Mailing!Row
  /\ targets \in SUBSET Batches
  /\ work \in [Mailing!Servers -> Work \cup {None}]
  /\ reached \in SUBSET Batches
  /\ broken \in BOOLEAN /\ ripped \in BOOLEAN

(* A run has read a campaign that there was and that was not sent; one     *)
(* that found nobody, and no edit under way, found none left to send.      *)
RunOK(p) ==
  /\ Mailing!At(p, "recipients") \/ Mailing!At(p, "post") => work[p].row.exists /\ ~work[p].row.sent
  /\ Mailing!At(p, "post") /\ work[p].nobody => work[p].torn \/ ~letter.exists
  /\ Mailing!At(p, "clear") \/ Mailing!At(p, "target") => work[p].whom = Batches

(* A batch that was posted was posted by a run that goes on or was lost,   *)
(* or the campaign is marked, or gone.                                     *)
Posted(p, b) == Mailing!At(p, "post") /\ work[p].posted /\ b \notin work[p].left
ReachedOK(b) == broken \/ letter.sent \/ ~letter.exists \/ \E p \in Mailing!Servers : Posted(p, b)
NobodyOK == targets = {} => Mailing!Torn \/ ~letter.exists

MailingInv ==
  MailingTypes /\ (\A p \in Mailing!Servers : RunOK(p)) /\ (\A b \in reached : ReachedOK(b)) /\ NobodyOK

LEMMA MailingInitOK == Mailing!Init => MailingInv
<1> SUFFICES ASSUME Mailing!Init PROVE MailingInv
  OBVIOUS
<1>1. letter \in Mailing!Row /\ targets = Batches /\ work \in [Mailing!Servers -> Work \cup {None}]
  BY DEF Mailing!Init, Mailing!Row
<1>2. \A p \in Mailing!Servers : work[p] = None
  BY DEF Mailing!Init
<1> QED BY <1>1, <1>2, BatchesAssumption
        DEF Mailing!Init, MailingInv, MailingTypes, RunOK, ReachedOK, NobodyOK, Mailing!At

(* What a step of p leaves of the requests.                                *)
LEMMA OneRun ==
  ASSUME MailingInv, NEW p \in Mailing!Servers, NEW w \in Work \cup {None}, Mailing!Do(p, w)
  PROVE  /\ work' \in [Mailing!Servers -> Work \cup {None}]
         /\ work'[p] = w /\ \A q \in Mailing!Servers \ {p} : work'[q] = work[q]
BY DEF MailingInv, MailingTypes, Mailing!Do

(* A step of p that posts nothing, and tears nothing: what it asks of the  *)
(* request that it leaves, and of the row and its audiences.               *)
LEMMA OtherStep ==
  ASSUME MailingInv, NEW p \in Mailing!Servers, NEW w \in Work \cup {None}, Mailing!Do(p, w),
         w # None => /\ w.at \in {"recipients", "post"} => w.row.exists /\ ~w.row.sent
                     /\ w.at = "post" /\ w.nobody => w.torn \/ ~letter'.exists
                     /\ w.at \in {"clear", "target"} => w.whom = Batches,
         letter' \in Mailing!Row, letter'.exists => letter.exists, letter.sent => letter'.sent,
         targets' \in SUBSET Batches,
         targets' = {} => \/ ~letter'.exists
                          \/ w # None /\ w.at = "target"
                          \/ targets = {} /\ (Mailing!At(p, "target") => ripped'),
         reached' = reached, broken' \in BOOLEAN, ripped' \in BOOLEAN,
         broken => broken', ripped => ripped',
         Mailing!At(p, "post") /\ work[p].posted => broken' \/ letter'.sent \/ ~letter'.exists
  PROVE  MailingInv'
<1>1. /\ work' \in [Mailing!Servers -> Work \cup {None}]
      /\ work'[p] = w /\ \A q \in Mailing!Servers \ {p} : work'[q] = work[q]
  BY OneRun
<1>2. MailingTypes'
  BY <1>1 DEF MailingInv, MailingTypes
<1>3. ASSUME NEW q \in Mailing!Servers PROVE RunOK(q)'
  <2>1. CASE q = p
    BY <1>1, <2>1 DEF RunOK, Mailing!At
  <2>2. CASE q # p
    <3>1. RunOK(q) /\ work'[q] = work[q]
      BY <1>1, <2>2 DEF MailingInv
    <3> QED BY <3>1 DEF RunOK, Mailing!At
  <2> QED BY <2>1, <2>2
<1>4. ASSUME NEW b \in reached PROVE ReachedOK(b)'
  <2>1. ReachedOK(b)
    BY DEF MailingInv
  <2>2. ASSUME NEW q \in Mailing!Servers, q # p, Posted(q, b) PROVE Posted(q, b)'
    BY <1>1, <2>2 DEF Posted, Mailing!At
  <2>3. Posted(p, b) => broken' \/ letter'.sent \/ ~letter'.exists
    BY DEF Posted
  <2> QED BY <2>1, <2>2, <2>3 DEF ReachedOK
<1>5. NobodyOK'
  <2> SUFFICES ASSUME targets' = {}, letter'.exists PROVE Mailing!Torn'
    BY DEF NobodyOK
  <2>1. CASE w # None /\ w.at = "target"
    BY <1>1, <2>1 DEF Mailing!Torn, Mailing!At
  <2>2. CASE targets = {} /\ (Mailing!At(p, "target") => ripped')
    <3>1. ripped \/ \E q \in Mailing!Servers : Mailing!At(q, "target")
      BY <2>2 DEF MailingInv, NobodyOK, Mailing!Torn
    <3>2. ASSUME NEW q \in Mailing!Servers \ {p}, Mailing!At(q, "target") PROVE Mailing!At(q, "target")'
      BY <1>1, <3>2 DEF Mailing!At
    <3> QED BY <2>2, <3>1, <3>2 DEF Mailing!Torn
  <2> QED BY <2>1, <2>2
<1> QED BY <1>2, <1>3, <1>4, <1>5 DEF MailingInv

(* The calls of staff. *)
LEMMA StaffOK ==
  ASSUME MailingInv, NEW p \in Clients,
         \/ \E call \in Mailing!Edits, whom \in {None, Batches} : Mailing!Call(p, call, whom)
         \/ Mailing!Save(p) \/ Mailing!ClearTargets(p) \/ Mailing!InsertTargets(p) \/ Mailing!DeleteCampaign(p)
         \/ Mailing!ScheduleCampaign(p) \/ Mailing!UnscheduleCampaign(p) \/ Mailing!SendNow(p)
  PROVE  MailingInv'
<1>1. p \in Mailing!Servers /\ letter \in Mailing!Row /\ broken \in BOOLEAN /\ ripped \in BOOLEAN
  BY DEF Mailing!Servers, MailingInv, MailingTypes
<1>2. RunOK(p) /\ targets \in SUBSET Batches
  BY <1>1 DEF MailingInv, MailingTypes
<1>3. ASSUME NEW label \in Mailing!Edits \cup {"clear", "target", "read"}, Mailing!At(p, label)
      PROVE  /\ work[p] \in [at : {label}, whom : {None, Batches}]
             /\ ~Mailing!At(p, "post") /\ (label # "target" => ~Mailing!At(p, "target"))
  BY <1>1, <1>3 DEF MailingInv, MailingTypes, Mailing!At, Work, Posting, Mailing!Edits
<1>4. ASSUME NEW call \in Mailing!Edits, NEW whom \in {None, Batches}, Mailing!Call(p, call, whom)
      PROVE  MailingInv'
  <2> DEFINE w == [at |-> call, whom |-> whom]
  <2>1. w \in Work /\ w.at \in Mailing!Edits
    BY DEF Work
  <2>2. Mailing!Do(p, w) /\ work[p] = None /\ UNCHANGED <<letter, targets, reached, broken, ripped>>
    BY <1>4 DEF Mailing!Call, Mailing!ghosts
  <2> HIDE DEF w
  <2> QED BY <1>1, <1>2, <2>1, <2>2, OtherStep DEF Mailing!Edits, Mailing!At
<1>5. CASE Mailing!Save(p)
  <2> DEFINE w == [work[p] EXCEPT !.at = "clear"]
  <2>1. UNCHANGED <<letter, targets, reached, broken, ripped>> /\ Mailing!At(p, "save")
        /\ (Mailing!Do(p, None) \/ (work[p].whom # None /\ Mailing!Do(p, w)))
    BY <1>5 DEF Mailing!Save, Mailing!Finish, Mailing!Step, Mailing!Retargets, Mailing!ghosts
  <2>2. work[p] \in [at : {"save"}, whom : {None, Batches}] /\ ~Mailing!At(p, "post") /\ ~Mailing!At(p, "target")
    BY <1>3, <2>1 DEF Mailing!Edits
  <2>3. w \in Work /\ w.at = "clear" /\ w.whom = work[p].whom
    BY <2>2 DEF Work
  <2> HIDE DEF w
  <2> QED BY <1>1, <1>2, <2>1, <2>2, <2>3, OtherStep
<1>6. CASE Mailing!ClearTargets(p)
  <2> DEFINE w == [work[p] EXCEPT !.at = "target"]
  <2>1. UNCHANGED <<letter, reached, broken, ripped>> /\ Mailing!At(p, "clear") /\ targets' = {}
        /\ (work[p].whom # None => Mailing!Do(p, w)) /\ (work[p].whom = None => Mailing!Do(p, None))
    BY <1>6 DEF Mailing!ClearTargets, Mailing!Finish, Mailing!Step, Mailing!ghosts
  <2>2. /\ work[p] \in [at : {"clear"}, whom : {None, Batches}] /\ work[p].whom = Batches
        /\ ~Mailing!At(p, "post") /\ ~Mailing!At(p, "target")
    BY <1>2, <1>3, <2>1 DEF RunOK
  <2>3. w \in Work /\ w.at = "target" /\ w.whom = Batches
    BY <2>2 DEF Work
  <2>4. Batches # None /\ w # None
    <3>1. w \in [at : {"target"}, whom : {Batches}]
      BY <2>2
    <3> QED BY <3>1, BatchesAssumption
  <2> HIDE DEF w
  <2> QED BY <1>1, <1>2, <2>1, <2>2, <2>3, <2>4, OtherStep
<1>7. CASE Mailing!InsertTargets(p)
  <2>1. UNCHANGED <<letter, reached, broken, ripped>> /\ Mailing!At(p, "target") /\ Mailing!Do(p, None)
        /\ targets' = IF letter.exists THEN targets \cup work[p].whom ELSE targets
    BY <1>7 DEF Mailing!InsertTargets, Mailing!Finish, Mailing!ghosts
  <2>2. work[p].whom = Batches /\ ~Mailing!At(p, "post")
    BY <1>2, <1>3, <2>1 DEF RunOK
  <2> QED BY <1>1, <1>2, <2>1, <2>2, OtherStep, BatchesAssumption
<1>8. CASE Mailing!DeleteCampaign(p)
  <2>1. UNCHANGED <<reached, broken, ripped>> /\ Mailing!At(p, "delete") /\ Mailing!Do(p, None)
        /\ letter' = [letter EXCEPT !.exists = FALSE] /\ targets' = {}
    BY <1>8 DEF Mailing!DeleteCampaign, Mailing!Finish, Mailing!ghosts
  <2>2. letter' \in Mailing!Row /\ ~letter'.exists /\ letter'.sent = letter.sent
    BY <1>1, <2>1 DEF Mailing!Row
  <2> QED BY <1>1, <1>3, <2>1, <2>2, OtherStep DEF Mailing!Edits
<1>9. ASSUME NEW schedule \in {"none", "later", "due"}, Mailing!Put([letter EXCEPT !.schedule = schedule])
      PROVE  letter' \in Mailing!Row /\ letter'.exists = letter.exists /\ letter'.sent = letter.sent
  BY <1>1, <1>9 DEF Mailing!Put, Mailing!Row
<1>10. CASE Mailing!ScheduleCampaign(p) \/ Mailing!UnscheduleCampaign(p)
  <2>1. /\ UNCHANGED <<targets, reached, broken, ripped>> /\ Mailing!Do(p, None)
        /\ Mailing!At(p, "schedule") \/ Mailing!At(p, "unschedule")
        /\ letter' \in Mailing!Row /\ letter'.exists = letter.exists /\ letter'.sent = letter.sent
    BY <1>9, <1>10 DEF Mailing!ScheduleCampaign, Mailing!UnscheduleCampaign, Mailing!Finish, Mailing!ghosts
  <2>2. ~Mailing!At(p, "post") /\ ~Mailing!At(p, "target")
    BY <2>1 DEF Mailing!At
  <2> QED BY <1>1, <1>2, <2>1, <2>2, OtherStep
<1>11. CASE Mailing!SendNow(p)
  <2> DEFINE w == [work[p] EXCEPT !.at = "read"]
  <2>1. /\ UNCHANGED <<targets, reached, broken, ripped>> /\ Mailing!Do(p, w) /\ Mailing!At(p, "sendNow")
        /\ letter' \in Mailing!Row /\ letter'.exists = letter.exists /\ letter'.sent = letter.sent
    BY <1>9, <1>11 DEF Mailing!SendNow, Mailing!Step, Mailing!ghosts
  <2>2. work[p] \in [at : {"sendNow"}, whom : {None, Batches}] /\ ~Mailing!At(p, "post") /\ ~Mailing!At(p, "target")
    BY <1>3, <2>1 DEF Mailing!Edits
  <2>3. w \in Work /\ w.at = "read"
    BY <2>2 DEF Work
  <2> HIDE DEF w
  <2> QED BY <1>1, <1>2, <2>1, <2>2, <2>3, OtherStep
<1> QED BY <1>4, <1>5, <1>6, <1>7, <1>8, <1>10, <1>11

(* A run of the sending. *)
LEMMA RecipientsOK ==
  ASSUME MailingInv, NEW p \in Mailing!Servers, Mailing!Recipients(p)
  PROVE  MailingInv'
<1> DEFINE w == [at |-> "post", row |-> work[p].row, left |-> targets, posted |-> FALSE,
                 nobody |-> targets = {}, torn |-> Mailing!Torn]
<1>1. /\ Mailing!At(p, "recipients") /\ Mailing!Do(p, w)
      /\ UNCHANGED <<letter, targets, reached, broken, ripped>>
  BY DEF Mailing!Recipients, Mailing!ghosts
<1>2. /\ work[p].row \in Mailing!Row /\ work[p].row.exists /\ ~work[p].row.sent
      /\ ~Mailing!At(p, "post") /\ ~Mailing!At(p, "target")
  BY <1>1 DEF Mailing!At, MailingInv, MailingTypes, RunOK, Work, Posting, Mailing!Edits
<1>3. ripped \in BOOLEAN /\ targets \in SUBSET Batches /\ letter \in Mailing!Row /\ broken \in BOOLEAN
  BY DEF MailingInv, MailingTypes
<1>4. Mailing!Torn \in BOOLEAN
  BY <1>3 DEF Mailing!Torn
<1>5. w \in Work /\ w.at = "post" /\ w.row = work[p].row /\ (w.nobody <=> targets = {}) /\ (w.torn <=> Mailing!Torn)
  BY <1>2, <1>3, <1>4 DEF Work, Posting
<1>6. targets = {} => Mailing!Torn \/ ~letter.exists
  BY DEF MailingInv, NobodyOK
<1> HIDE DEF w
<1> QED BY <1>1, <1>2, <1>3, <1>5, <1>6, OtherStep

LEMMA PostBatchOK ==
  ASSUME MailingInv, NEW p \in Mailing!Servers, Mailing!PostBatch(p)
  PROVE  MailingInv'
<1>1. PICK b \in work[p].left :
        /\ reached' = reached \cup {b}
        /\ Mailing!Do(p, [work[p] EXCEPT !.left = @ \ {b}, !.posted = TRUE])
  BY DEF Mailing!PostBatch
<1> DEFINE w == [work[p] EXCEPT !.left = @ \ {b}, !.posted = TRUE]
<1>2. work[p] # None /\ work[p] \in Posting /\ UNCHANGED <<letter, targets, broken, ripped>>
  BY DEF Mailing!PostBatch, Mailing!At, MailingInv, MailingTypes, Work, Mailing!Edits
<1>3. /\ w \in Posting /\ w.row = work[p].row /\ w.nobody = work[p].nobody /\ w.torn = work[p].torn
      /\ w.left = work[p].left \ {b} /\ w.posted = TRUE /\ w.at = "post"
  BY <1>2 DEF Posting
<1>4. w # None /\ w \in Work
  BY <1>3, BatchesAssumption DEF Posting, Work
<1> HIDE DEF w
<1>5. /\ work' \in [Mailing!Servers -> Work \cup {None}]
      /\ work'[p] = w /\ \A q \in Mailing!Servers \ {p} : work'[q] = work[q]
  BY <1>1, <1>4, OneRun DEF w
<1>6. MailingTypes'
  BY <1>1, <1>2, <1>5 DEF MailingInv, MailingTypes, Posting
<1>7. ASSUME NEW q \in Mailing!Servers PROVE RunOK(q)'
  <2>1. RunOK(q)
    BY DEF MailingInv
  <2>2. CASE q = p
    BY <1>2, <1>3, <1>5, <2>1, <2>2 DEF RunOK, Mailing!At, Posting
  <2>3. CASE q # p
    BY <1>2, <1>5, <2>1, <2>3 DEF RunOK, Mailing!At
  <2> QED BY <2>2, <2>3
<1>8. ASSUME NEW c \in reached' PROVE ReachedOK(c)'
  <2>1. Posted(p, b)'
    BY <1>3, <1>4, <1>5 DEF Posted, Mailing!At
  <2>2. ASSUME NEW q \in Mailing!Servers, Posted(q, c) PROVE Posted(q, c)'
    <3>1. CASE q = p
      BY <1>3, <1>4, <1>5, <2>2, <3>1 DEF Posted, Mailing!At
    <3>2. CASE q # p
      BY <1>5, <2>2, <3>2 DEF Posted, Mailing!At
    <3> QED BY <3>1, <3>2
  <2>3. CASE c = b
    BY <2>1, <2>3 DEF ReachedOK
  <2>4. CASE c # b
    <3>1. ReachedOK(c)
      BY <1>1, <2>4 DEF MailingInv
    <3> QED BY <1>2, <2>2, <3>1 DEF ReachedOK
  <2> QED BY <2>3, <2>4
<1>9. NobodyOK'
  <2>1. ASSUME NEW q \in Mailing!Servers, Mailing!At(q, "target") PROVE Mailing!At(q, "target")'
    BY <1>2, <1>5, <2>1 DEF Mailing!At, Posting
  <2> QED BY <1>2, <2>1 DEF MailingInv, NobodyOK, Mailing!Torn
<1> QED BY <1>6, <1>7, <1>8, <1>9 DEF MailingInv

LEMMA RunStepOK ==
  ASSUME MailingInv, NEW p \in Mailing!Servers,
         Mailing!ReadCampaign(p) \/ Mailing!MarkSent(p) \/ Mailing!Fault(p)
  PROVE  MailingInv'
<1>1. letter \in Mailing!Row /\ broken \in BOOLEAN /\ ripped \in BOOLEAN /\ targets \in SUBSET Batches
  BY DEF MailingInv, MailingTypes
<1>2. CASE Mailing!ReadCampaign(p)
  <2> DEFINE w == [at |-> "recipients", row |-> letter]
  <2>1. /\ Mailing!At(p, "read") /\ UNCHANGED <<letter, targets, reached, broken, ripped>>
        /\ (letter.exists /\ ~letter.sent /\ Mailing!Do(p, w)) \/ Mailing!Do(p, None)
    BY <1>2 DEF Mailing!ReadCampaign, Mailing!Sendable, Mailing!Finish, Mailing!ghosts
  <2>2. w \in Work /\ w.at = "recipients" /\ w.row = letter
    BY <1>1 DEF Work
  <2>3. ~Mailing!At(p, "post") /\ ~Mailing!At(p, "target")
    BY <2>1 DEF Mailing!At
  <2> HIDE DEF w
  <2> QED BY <1>1, <2>1, <2>2, <2>3, OtherStep
<1>3. CASE Mailing!MarkSent(p)
  <2>1. /\ Mailing!At(p, "post") /\ UNCHANGED <<targets, reached, broken, ripped>> /\ Mailing!Do(p, None)
        /\ letter' = IF letter.exists THEN [letter EXCEPT !.sent = TRUE] ELSE letter
    BY <1>1, <1>3 DEF Mailing!MarkSent, Mailing!Put, Mailing!Marked, Mailing!Finish, Mailing!ghosts, Mailing!Row
  <2>2. letter' \in Mailing!Row /\ letter'.exists = letter.exists /\ (letter.exists => letter'.sent)
        /\ (letter.sent => letter'.sent)
    BY <1>1, <2>1 DEF Mailing!Row
  <2>3. ~Mailing!At(p, "target")
    BY <2>1 DEF Mailing!At
  <2> QED BY <1>1, <2>1, <2>2, <2>3, OtherStep
<1>4. CASE Mailing!Fault(p)
  <2>1. /\ UNCHANGED <<letter, targets, reached>> /\ Mailing!Do(p, None)
        /\ broken' = (broken \/ (Mailing!At(p, "post") /\ work[p].posted))
        /\ ripped' = (ripped \/ Mailing!At(p, "target"))
    BY <1>4 DEF Mailing!Fault, Mailing!Finish
  <2>2. Mailing!At(p, "post") => work[p].posted \in BOOLEAN
    BY DEF Mailing!At, MailingInv, MailingTypes, Work, Posting, Mailing!Edits
  <2>3. broken' \in BOOLEAN /\ ripped' \in BOOLEAN
    BY <1>1, <2>1, <2>2 DEF Mailing!At
  <2> QED BY <1>1, <2>1, <2>3, OtherStep
<1> QED BY <1>2, <1>3, <1>4

LEMMA MailingStep == MailingInv /\ [Mailing!Next]_(Mailing!campaignVars) => MailingInv'
<1> SUFFICES ASSUME MailingInv, [Mailing!Next]_(Mailing!campaignVars) PROVE MailingInv'
  OBVIOUS
<1>1. letter \in Mailing!Row /\ broken \in BOOLEAN /\ ripped \in BOOLEAN /\ targets \in SUBSET Batches
  BY DEF MailingInv, MailingTypes
<1>2. CASE Mailing!ProcessDue
  <2> DEFINE w == [at |-> "read", whom |-> None]
  <2>1. w \in Work /\ w.at = "read" /\ Cron \in Mailing!Servers
    BY DEF Work, Mailing!Servers
  <2>2. work[Cron] = None /\ Mailing!Do(Cron, w) /\ UNCHANGED <<letter, targets, reached, broken, ripped>>
    BY <1>2 DEF Mailing!ProcessDue, Mailing!ghosts
  <2> HIDE DEF w
  <2> QED BY <1>1, <2>1, <2>2, OtherStep DEF Mailing!At
<1>3. ASSUME letter' \in Mailing!Row, letter'.exists = letter.exists, letter'.sent = letter.sent,
             UNCHANGED <<targets, work, reached, broken, ripped>>
      PROVE  MailingInv'
  <2>1. \A p \in Mailing!Servers : RunOK(p) => RunOK(p)'
    BY <1>3 DEF RunOK, Mailing!At
  <2>2. \A b \in reached : ReachedOK(b) => ReachedOK(b)'
    BY <1>3 DEF ReachedOK, Posted, Mailing!At
  <2>3. NobodyOK'
    BY <1>3 DEF MailingInv, NobodyOK, Mailing!Torn, Mailing!At
  <2> QED BY <1>3, <2>1, <2>2, <2>3 DEF MailingInv, MailingTypes
<1>4. CASE Mailing!ComesDue
  <2>1. letter' = [letter EXCEPT !.schedule = "due"] /\ UNCHANGED <<targets, work, reached, broken, ripped>>
    BY <1>4 DEF Mailing!ComesDue, Mailing!ghosts
  <2>2. letter' \in Mailing!Row /\ letter'.exists = letter.exists /\ letter'.sent = letter.sent
    BY <1>1, <2>1 DEF Mailing!Row
  <2> QED BY <1>3, <2>1, <2>2
<1>5. CASE UNCHANGED Mailing!campaignVars
  BY <1>1, <1>3, <1>5 DEF Mailing!campaignVars
<1> QED BY <1>2, <1>4, <1>5, StaffOK, RecipientsOK, PostBatchOK, RunStepOK
        DEF Mailing!Next, Mailing!Sending, Mailing!Edits

(* Nobody gets a campaign twice, unless a run was lost after it had begun  *)
(* to post, or two runs had both read it as not sent (executeSend,         *)
(* processDueCampaigns, sendNow).                                          *)
THEOREM PostedOnce == Mailing!Spec => Mailing!TwiceOnlyWhenOvertaken
<1> DEFINE Claim == \A p \in Mailing!Servers, b \in Batches :
                      b \in reached /\ Mailing!Posts(p, b)
                        => \/ broken \/ work[p].row # letter
                           \/ \E q \in Mailing!Servers \ {p} : Mailing!At(q, "post") /\ work[q].posted
<1>1. MailingInv => Claim
  <2> SUFFICES ASSUME MailingInv, NEW p \in Mailing!Servers, NEW b \in reached, Mailing!Posts(p, b),
                      ~broken, work[p].row = letter
               PROVE  \E q \in Mailing!Servers \ {p} : Mailing!At(q, "post") /\ work[q].posted
    OBVIOUS
  <2>1. Mailing!At(p, "post") /\ b \in work[p].left
    BY DEF Mailing!Posts
  <2>2. letter.exists /\ ~letter.sent
    BY <2>1 DEF MailingInv, RunOK
  <2>3. PICK q \in Mailing!Servers : Posted(q, b)
    BY <2>2 DEF MailingInv, ReachedOK
  <2> QED BY <2>1, <2>3 DEF Posted
<1> QED BY <1>1, MailingInitOK, MailingStep, PTL DEF Mailing!Spec, Mailing!TwiceOnlyWhenOvertaken

(* A campaign is marked as sent to nobody only if it was read while an     *)
(* edit had its audiences deleted and not yet inserted, or after one that  *)
(* was lost just there (updateCampaign, executeSend).                      *)
THEOREM SentToSomebody == Mailing!Spec => Mailing!SentToSomebodyUnlessTorn
<1> DEFINE Claim == \A p \in Mailing!Servers : Mailing!At(p, "post") /\ work[p].nobody /\ letter'.sent /\ ~letter.sent
                      => work[p].torn \/ work'[p] = work[p]
<1>1. ASSUME MailingInv, Mailing!Next, letter'.sent, ~letter.sent PROVE letter.exists
  <2>1. letter \in Mailing!Row
    BY <1>1 DEF MailingInv, MailingTypes
  <2>2. ASSUME NEW r, Mailing!Put(r) PROVE letter.exists
    BY <1>1, <2>2 DEF Mailing!Put
  <2>3. ASSUME letter' = [letter EXCEPT !.exists = FALSE] \/ letter' = [letter EXCEPT !.schedule = "due"]
        PROVE  FALSE
    BY <1>1, <2>1, <2>3 DEF Mailing!Row
  <2> QED BY <1>1, <2>2, <2>3
          DEF Mailing!Next, Mailing!Call, Mailing!Save, Mailing!ClearTargets, Mailing!InsertTargets,
              Mailing!DeleteCampaign, Mailing!ScheduleCampaign, Mailing!UnscheduleCampaign, Mailing!SendNow,
              Mailing!Sending, Mailing!ReadCampaign, Mailing!Recipients, Mailing!PostBatch, Mailing!MarkSent,
              Mailing!Fault, Mailing!ProcessDue, Mailing!ComesDue
<1>2. MailingInv /\ [Mailing!Next]_(Mailing!campaignVars) => [Claim]_(Mailing!campaignVars)
  BY <1>1 DEF MailingInv, RunOK
<1> QED BY <1>2, MailingInitOK, MailingStep, PTL DEF Mailing!Spec, Mailing!SentToSomebodyUnlessTorn

-----------------------------------------------------------------------------
(* The instance that is model-checked: a behaviour of it is one of each    *)
(* component, and has what was proved of that component.                   *)

LEMMA InvitesRun == MCSpec => Email!Spec
<1>1. MCInit => Email!Init
  BY DEF MCInit
<1>2. [MCNext]_allVars => [Email!Next]_(Email!inviteVars)
  BY DEF MCNext, allVars, emailVars, Email!inviteVars
<1> QED BY <1>1, <1>2, PTL DEF MCSpec, Email!Spec

LEMMA CampaignRun == MCSpec => Mailing!Spec
<1>1. MCInit => Mailing!Init
  BY DEF MCInit
<1>2. [MCNext]_allVars => [Mailing!Next]_(Mailing!campaignVars)
  BY DEF MCNext, allVars, mailingVars, Mailing!campaignVars
<1> QED BY <1>1, <1>2, PTL DEF MCSpec, Mailing!Spec

(* An invitation by e-mail brings its holder in once                       *)
(* (resolvePendingInvites).                                                *)
THEOREM JoinsOnce == MCSpec => JoinsOnceUnlessTorn
BY InvitesRun, InvitesJoinOnce DEF JoinsOnceUnlessTorn

(* Nobody gets a campaign twice (executeSend).                             *)
THEOREM NotTwice == MCSpec => TwiceOnlyWhenOvertaken
BY CampaignRun, PostedOnce DEF TwiceOnlyWhenOvertaken

(* A campaign is not marked as sent to nobody (updateCampaign).            *)
THEOREM NotToNobody == MCSpec => SentToSomebodyUnlessTorn
BY CampaignRun, SentToSomebody DEF SentToSomebodyUnlessTorn
=============================================================================
