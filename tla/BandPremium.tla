----------------------------- MODULE BandPremium -----------------------------
(***************************************************************************)
(* The premium tier of one band: what its row says of it, what Stripe      *)
(* says, and the ways the row follows. Stripe announces changes in events  *)
(* that carry the subscription as it was, may arrive in any order and more *)
(* than once. A subscription is known to be the band's by its metadata,    *)
(* which the listener of the completed checkout adds.                      *)
(***************************************************************************)
EXTENDS FiniteSets, Integers

CONSTANTS Clients,       \* Worker invocations
          Subs,          \* bound: subscriptions the band may come to have
          None,          \* no subscription, no request
          MaxChanges     \* bound: Stripe's own changes, the owner's and staff's

VARIABLES band,    \* tier, and the subscription JSON: its id, whether it is to end
          stripe,  \* the subscriptions as Stripe has them
          mail,    \* Stripe's events so far: any may be delivered, at any time, again
          job,     \* the request each client is serving
          sweep,   \* the run of syncAllSubscriptions, None between runs
          changes

premiumVars == <<band, stripe, mail, job, sweep, changes>>

WriteStatuses == {"active", "past_due"}
Terminal == {"canceled", "unpaid"}
Existing == WriteStatuses \cup Terminal \cup {"paused"}
Sub == [status : Existing \cup {"none", "open"}, ending : BOOLEAN, tagged : BOOLEAN]
Band == [tier : {"free", "premium"}, sub : Subs \cup {None}, ending : BOOLEAN]

Labels == {"retrieve", "tag", "sync", "ask", "write", "tier"}
At(p, label) == job[p] # None /\ job[p].at = label
Do(p, j) == job' = [job EXCEPT ![p] = j]
Finish(p) == Do(p, None)

(* A sweep is quiet while nothing but it touches the band or Stripe, and   *)
(* its own writes succeed.                                                 *)
Disturb == sweep' = IF sweep = None THEN None ELSE [sweep EXCEPT !.quiet = FALSE]

Updated(s, row) == [kind |-> "updated", sub |-> s, copy |-> row]
Alter(s, row) ==
  /\ stripe' = [stripe EXCEPT ![s] = row]
  /\ mail' = IF row.tagged THEN mail \cup {Updated(s, row)} ELSE mail

Change == changes < MaxChanges /\ changes' = changes + 1

-----------------------------------------------------------------------------
(* upgradeToPremium() opens a checkout for a band that is not premium; it  *)
(* may be completed at any later time.                                     *)
Upgrade(s) ==
  /\ band.tier = "free" /\ stripe[s].status = "none"
  /\ stripe' = [stripe EXCEPT ![s].status = "open"]
  /\ UNCHANGED <<band, mail, job, sweep, changes>>

CompleteCheckout(s) ==
  /\ stripe[s].status = "open"
  /\ stripe' = [stripe EXCEPT ![s].status = "active"]
  /\ mail' = mail \cup {[kind |-> "checkout", sub |-> s, copy |-> None]}
  /\ Disturb /\ UNCHANGED <<band, job, changes>>

(* What becomes of a subscription by itself: payments fail and succeed, it *)
(* pauses, it ends.                                                        *)
StripeChange(s, status) ==
  /\ Change
  /\ stripe[s].status \in Existing \ {"canceled", status}
  /\ Alter(s, [stripe[s] EXCEPT !.status = status])
  /\ Disturb /\ UNCHANGED <<band, job>>

(* syncFromWebhook(): by the band's id, whichever subscription it has.     *)
Synced(s, row) ==
  IF row.status \in WriteStatuses THEN [tier |-> "premium", sub |-> s, ending |-> row.ending]
  ELSE IF row.status \in Terminal THEN [tier |-> "free", sub |-> None, ending |-> FALSE]
  ELSE band

Deliver(m) ==
  /\ m.kind = "updated" /\ band' = Synced(m.sub, m.copy)
  /\ Disturb /\ UNCHANGED <<stripe, mail, job, changes>>

(* handleBandPremiumCheckout(): the subscription, its metadata, the sync.  *)
DeliverCheckout(p, m) ==
  /\ m.kind = "checkout" /\ job[p] = None
  /\ Do(p, [at |-> "retrieve", sub |-> m.sub, copy |-> None])
  /\ UNCHANGED <<band, stripe, mail, sweep, changes>>

Retrieve(p) ==
  LET row == stripe[job[p].sub] IN
  /\ At(p, "retrieve")
  /\ Do(p, [job[p] EXCEPT !.at = IF row.tagged THEN "sync" ELSE "tag", !.copy = row])
  /\ UNCHANGED <<band, stripe, mail, sweep, changes>>

Tag(p) ==
  LET s == job[p].sub IN
  /\ At(p, "tag") /\ Do(p, [job[p] EXCEPT !.at = "sync"])
  /\ Alter(s, [stripe[s] EXCEPT !.tagged = TRUE])
  /\ Disturb /\ UNCHANGED <<band, changes>>

Sync(p) ==
  /\ At(p, "sync") /\ Finish(p) /\ band' = Synced(job[p].sub, job[p].copy)
  /\ Disturb /\ UNCHANGED <<stripe, mail, changes>>

-----------------------------------------------------------------------------
(* cancelBandSubscription() and resumeBandSubscription(): the row, Stripe, *)
(* and the JSON as it was read, with its new flag.                         *)
CancelOrResume(p, ending) ==
  /\ job[p] = None /\ band.sub # None
  /\ ending \/ band.ending
  /\ Change
  /\ Do(p, [at |-> "ask", sub |-> band.sub, ending |-> ending])
  /\ UNCHANGED <<band, stripe, mail, sweep>>

Ask(p) ==
  LET s == job[p].sub IN
  /\ At(p, "ask")
  /\ IF stripe[s].status = "canceled" THEN Finish(p) /\ UNCHANGED <<stripe, mail, sweep>>
     ELSE /\ Do(p, [job[p] EXCEPT !.at = "write"])
          /\ Alter(s, [stripe[s] EXCEPT !.ending = job[p].ending]) /\ Disturb
  /\ UNCHANGED <<band, changes>>

Write(p) ==
  /\ At(p, "write") /\ Finish(p)
  /\ band' = [band EXCEPT !.sub = job[p].sub, !.ending = job[p].ending]
  /\ Disturb /\ UNCHANGED <<stripe, mail, changes>>

(* setTier(), refused for a band that Stripe has a hand in.                *)
(* Mutant of Comped: any band.                                             *)
CompedMutant == TRUE
Comped == band.sub = None

SetTier(p, tier) ==
  /\ Change
  /\ job[p] = None /\ Comped
  /\ Do(p, [at |-> "tier", read |-> band.sub, tier |-> tier])
  /\ UNCHANGED <<band, stripe, mail, sweep>>

WriteTier(p) ==
  /\ At(p, "tier") /\ Finish(p)
  /\ band' = [band EXCEPT !.tier = job[p].tier]
  /\ Disturb /\ UNCHANGED <<stripe, mail, changes>>

(* A Worker is lost, or a call fails: the event bus keeps it to itself.    *)
Crash(p) == job[p] # None /\ Finish(p) /\ UNCHANGED <<band, stripe, mail, sweep, changes>>

-----------------------------------------------------------------------------
(* syncAllSubscriptions(): the list, each subscription in it, and then the *)
(* bands that have one but were not seen to.                               *)
Listed == {s \in Subs : stripe[s].status \in Existing}

List ==
  /\ sweep = None /\ Listed # {}
  /\ sweep' = [list |-> stripe, left |-> {s \in Listed : stripe[s].tagged},
               seen |-> FALSE, stale |-> FALSE, quiet |-> TRUE]
  /\ UNCHANGED <<band, stripe, mail, job, changes>>

(* Mutant of Applied: a terminal subscription clears the band at once.     *)
AppliedMutant(s, row) == Synced(s, row)
Applied(s, row) == IF row.status \in WriteStatuses THEN Synced(s, row) ELSE band

Apply(s) ==
  /\ sweep # None /\ s \in sweep.left
  /\ band' = Applied(s, sweep.list[s])
  /\ sweep' = [sweep EXCEPT !.left = @ \ {s}, !.seen = @ \/ sweep.list[s].status \notin Terminal]
  /\ UNCHANGED <<stripe, mail, job, changes>>

(* A write that fails is noted, and the sweep goes on: the band does not   *)
(* count as seen.                                                          *)
FailApply(s) ==
  /\ sweep # None /\ s \in sweep.left /\ sweep.list[s].status \in WriteStatuses
  /\ sweep' = [sweep EXCEPT !.left = @ \ {s}, !.quiet = FALSE]
  /\ UNCHANGED <<band, stripe, mail, job, changes>>

(* The band is selected if it has a subscription, and cleared by its id.   *)
SelectStale ==
  /\ sweep # None /\ ~sweep.stale /\ sweep.left = {}
  /\ sweep' = IF band.sub # None /\ ~sweep.seen THEN [sweep EXCEPT !.stale = TRUE] ELSE None
  /\ UNCHANGED <<band, stripe, mail, job, changes>>

ClearStale ==
  /\ sweep # None /\ sweep.stale /\ sweep' = None
  /\ band' = [tier |-> "free", sub |-> None, ending |-> FALSE]
  /\ UNCHANGED <<stripe, mail, job, changes>>

AbortSweep == sweep # None /\ sweep' = None /\ UNCHANGED <<band, stripe, mail, job, changes>>

-----------------------------------------------------------------------------
Init ==
  /\ band = [tier |-> "free", sub |-> None, ending |-> FALSE]
  /\ stripe = [s \in Subs |-> [status |-> "none", ending |-> FALSE, tagged |-> FALSE]]
  /\ mail = {} /\ job = [p \in Clients |-> None] /\ sweep = None /\ changes = 0

Next ==
  \/ \E s \in Subs : Upgrade(s) \/ CompleteCheckout(s) \/ Apply(s) \/ FailApply(s)
                     \/ \E status \in Existing : StripeChange(s, status)
  \/ \E m \in mail : Deliver(m) \/ \E p \in Clients : DeliverCheckout(p, m)
  \/ \E p \in Clients :
       \/ Retrieve(p) \/ Tag(p) \/ Sync(p) \/ Ask(p) \/ Write(p) \/ WriteTier(p) \/ Crash(p)
       \/ \E ending \in BOOLEAN : CancelOrResume(p, ending)
       \/ \E tier \in {"free", "premium"} : SetTier(p, tier)
  \/ List \/ SelectStale \/ ClearStale \/ AbortSweep

Spec == Init /\ [][Next]_premiumVars

-----------------------------------------------------------------------------
(* A band that has a subscription is premium, unless a request was         *)
(* overtaken: staff's change of the tier by the subscription, or the       *)
(* owner's cancelling by the end of it (setTier, cancelBandSubscription).  *)
Mismatch == band.sub # None /\ band.tier = "free"
PremiumUnlessOvertaken ==
  [][~Mismatch /\ Mismatch' =>
       \E p \in Clients : /\ job[p] # None /\ job'[p] = None
                          /\ \/ job[p].at = "tier" /\ job[p].read # band.sub
                             \/ job[p].at = "write" /\ job[p].sub # band.sub]_premiumVars

(* A run of the sync that nothing comes between, and whose writes succeed, *)
(* leaves the band as Stripe has it: with a subscription that lives, as    *)
(* long as one does, whatever others it had and in whatever order they are *)
(* listed, and with none when all have ended (applyBand, clearStaleBands). *)
Status(s) == IF stripe[s].tagged THEN stripe[s].status ELSE "none"
Living == {s \in Subs : Status(s) \in WriteStatuses}
Agrees == IF Living # {} THEN \E s \in Living : band = Synced(s, stripe[s])
          ELSE band.sub # None => \E s \in Subs : Status(s) = "paused"
SweepAgrees ==
  [][(SelectStale \/ ClearStale) /\ sweep.quiet /\ sweep' = None => Agrees']_premiumVars
=============================================================================
