----------------------------- MODULE MCOutreach -----------------------------
(* Small instances of BandMembership, PlatformInvites, Campaigns and       *)
(* SeriesGeneration for TLC. They share no state: a behaviour is of one of *)
(* them, and the others stay as they are. Users are alike, so one of them  *)
(* may own the band. Only the first invitation lapses. The nightly job has *)
(* a show and a series of a member, and somebody makes a call while it     *)
(* runs; or a show without a hold and two series, of which one may fail.   *)
EXTENDS BandMembership

CONSTANTS p1, p2, u1, u2, u3, Invites, MaxLosses, Cron, Batches, MaxEdits, MaxFaults,
          Gigs, jam, choir, Closed

VARIABLES part, account, row, invite, lapsed, task, losses, joined, torn,
          letter, targets, work, edits, faults, reached, broken, ripped,
          today, series, show, room, subscribed, serving, asked, upsets, mixed

Email == INSTANCE PlatformInvites
Mailing == INSTANCE Campaigns WITH row <- letter, torn <- ripped
Nightly(most, faulty) ==
  INSTANCE SeriesGeneration WITH req <- serving, calls <- asked, faults <- upsets, muddled <- mixed,
    RoomSeries <- {jam, choir}, LastDay <- 1, Ahead <- 2, MaxCalls <- most, MaxFaults <- faulty

(* Invitations are numbered, there is somebody to write to, and None is no *)
(* session that resolves invitations and no request of a campaign.         *)
ASSUME InvitesAssumption == Invites \subseteq Nat /\ None \notin Email!Task
ASSUME BatchesAssumption ==
  /\ Batches \notin {{}, None}
  /\ None \notin [at : {"target"}, whom : {Batches}]
  /\ None \notin [at : {"post"}, row : Mailing!Row, left : SUBSET Batches,
                  posted : BOOLEAN, nobody : BOOLEAN, torn : BOOLEAN]

emailVars == <<account, row, invite, lapsed, task, losses, joined, torn>>
mailingVars == <<letter, targets, work, edits, faults, reached, broken, ripped>>
seriesVars == <<today, series, show, room, subscribed, serving, asked, upsets, mixed>>
allVars == <<part, vars, emailVars, mailingVars, seriesVars>>

MCInit == /\ part \in {"members", "invites", "campaign", "series", "two series"}
          /\ Init /\ owner = u1 /\ Email!Init /\ Mailing!Init /\ Nightly(1, 0)!Init
          /\ part = "two series" <=> series[choir].state = "active"
          /\ part \notin {"series", "two series"} => room = <<>> /\ show[1].day = 0
          /\ part = "two series" => series[jam].proto = 1 /\ series[choir].proto = 2
MCNext ==
  \/ part = "members" /\ Next /\ UNCHANGED <<part, emailVars, mailingVars, seriesVars>>
  \/ part = "invites" /\ Email!Next /\ 2 \notin lapsed'
     /\ UNCHANGED <<part, vars, mailingVars, seriesVars>>
  \/ part = "campaign" /\ Mailing!Next /\ UNCHANGED <<part, vars, emailVars, seriesVars>>
  \/ /\ \/ part = "series" /\ Nightly(1, 0)!Next /\ \A p \in Clients : serving'[p].s # choir
        \/ part = "two series" /\ Nightly(0, 1)!Next
     /\ UNCHANGED <<part, vars, emailVars, mailingVars>>

(* The nightly job comes round in the behaviours that are of it.           *)
NightlyFairness ==
  \A p \in Clients : WF_seriesVars(part \in {"series", "two series"} /\ Nightly(1, 0)!Work(p))
MCSpec == MCInit /\ [][MCNext]_allVars /\ Email!Fairness /\ Mailing!Fairness /\ NightlyFairness

(* An invitation by e-mail brings its holder in once (PlatformInvites).    *)
JoinsOnceUnlessTorn == Email!JoinsOnceUnlessTorn
(* A pending invitation of an account is resolved (PlatformInvites).       *)
InviteIsResolved == Email!InviteIsResolved
(* Nobody gets a campaign twice (Campaigns).                               *)
TwiceOnlyWhenOvertaken == Mailing!TwiceOnlyWhenOvertaken
(* A campaign is not marked as sent to nobody (Campaigns).                 *)
SentToSomebodyUnlessTorn == Mailing!SentToSomebodyUnlessTorn
(* A campaign that is due is sent (Campaigns).                             *)
DueIsSent == Mailing!DueIsSent
(* An occurrence in the window of an active series comes (SeriesGeneration). *)
OccurrenceComes == part \in {"series", "two series"} => Nightly(1, 0)!OccurrenceComes
=============================================================================
