# CorvMC in TLA+

CorvMC is the web application of a music collective: a practice room that
members book, events with tickets, a credit ledger fed by Stripe
subscriptions, equipment loans, volunteering, bands, an inbox, marketing and
moderation. It is one SvelteKit application on a Cloudflare Worker. Its
database is D1 (SQLite over HTTP), reached through Drizzle; money goes through
Stripe, which calls back by webhook; cron triggers call endpoints of the same
Worker.

This directory holds TLA+ models of the parts whose correctness depends on the
order in which things happen, the TLC configurations that check them on small
instances, and theorems that TLAPS proves for every instance. Paths below are
relative to the directory that holds `src/`, so application code is under
`src/src/lib`.

## 1. What makes this system hard

Three facts about the platform shape every module here
(`src/docs/architecture/overview.md`, "No transactions — use `db.batch()`"):

- **No interactive transactions.** D1 offers `db.batch` and nothing more. A
  handler is a sequence of SQL statements; each statement is atomic, and every
  `await` between two of them is a point where any other request may run. A
  model's step is one statement, with the pure code that follows it up to the
  next `await`.
- **A request may die between two statements.** The Worker can be evicted, a
  statement can fail, and nothing is rolled back. There is no recovery log: what
  was written stays. A model's `Crash(p)` drops the request of process `p` and
  leaves the database alone. A failing statement that aborts its handler is the
  same step.
- **Everything is delivered at least once, or at most once, and nobody says
  which.** Stripe delivers webhooks at least once and in any order; the
  in-process event bus (emittery) runs listeners best-effort after the write
  and swallows their errors; cron triggers fire again and again.

## 2. Inventory

| Part | State | Operations | Interacts with | Hard behaviour | Correct when |
|---|---|---|---|---|---|
| Room reservations (`server/reservation/reservation-service.ts`, `checkout-listener.ts`, `lib/remote/reservations.remote.ts`) | `reservation` rows: status, slot, `cashDueCents`, `creditsUsed`, `stripePaymentRecordId`, waitlist fields | create, createWaitlisted, staffCreate, confirm, cancel, markComplete, markNoShow, recordCashAndComplete, autoCompleteExpired, cancelUnconfirmedReservations, comp, refund, pay | waitlist, credits, Stripe, events, series, lock | SELECT-then-INSERT without a transaction; back-out; by-id writes after a read | no two accepted bookings share the room; a final reservation stays final; unconfirmed slots are released |
| Waitlist (`waitlist-service.ts`, `events/register-listeners.ts`) | waitlisted rows, `waitlistNotifiedAt`, `waitlistExpiresAt` | promoteNextWaitlisted, expireWaitlisted, confirmWaitlisted | reservations, event bus | a promotion looks once; two promotions at once; an offer taken while another books | an offer is taken only of a free slot; lapsed offers go away; who waits is served |
| Recurring series (`generation-job.ts`, `recurring-series-service.ts`, `rrule-helpers.ts`) | `recurring_series`, its reservations and events | start, expand nightly, cancel, lapse with the membership | reservations, events, waitlist | existing occurrences are read once; overlapping or half-done runs; insert without re-check; hold and link in two statements | each occurrence comes, and once; a show has the room that is held for it; events come first |
| Conflict and slot queries (`conflict-service.ts`, `timezone.ts`) | none | hasConflict, validateBooking, getAvailableSlots | reservations, closures | staleness of the answer | offered slots are free |
| Member credits (`finance/credit-service.ts`) | the columns `creditFreeHours` and `creditEquipment` of a `user` row, the `credit_transaction` ledger | addCredits, deductCredits, setBalance, allocateMonthlyCredits, allocateEquipmentCredits | settlement, webhooks, loans | compare-and-swap with bounded retries; ledger written after the balance | balance never negative, no update lost, ledger adds up to the balance |
| Reservation settlement (`reservation-credit-service.ts`, `payment-service.ts`, remotes) | `cashDueCents`, `creditsUsed`, payment record, ledger entries by source | commitReservationCredits, reverseReservationCredits, checkout, recordCashPayment, refund | credits, Stripe, reservations | two confirms at once; cancel against a late payment; refund interrupted | credits are spent once and returned once; a cancelled booking keeps no money |
| Stripe webhooks and subscriptions (`webhook-handlers.ts`, `subscription-service.ts`, `subscription-sync-service.ts`) | `user.subscription`, the payment cache, Stripe's own state | checkout completed, invoice paid, subscription updated / deleted, nightly sync | credits, reservations, tickets, bands | redelivery, reordering, sync against webhook | an invoice allocates once; a late event does not undo a newer one |
| Tickets (`ticket/ticket-service.ts`, `checkout-listener.ts`) | `ticket` rows: pending, valid, checked_in, cancelled | createTickets, fulfillPurchase, cancelPurchase, cancelStalePendingTickets, cancelTicket, checkIn | Stripe, events | capacity checked before an insert; late payment against the stale sweep | no overselling but by overlapping purchases (which `docs/specs/tickets-spec.md` accepts); a valid ticket is paid for; a final ticket stays final; nothing stays pending |
| Events (`event/event-service.ts`, `community-event-service.ts`, `rsvp-service.ts`) | `event` rows, room hold, RSVP rows | create, publish, cancel, rebook, moderate, RSVP | reservations, tickets, series | hold and event in two statements | an event's hold exists while it does |
| Equipment loans (`equipment/loan-service.ts`) | `equipment_loan` rows, an item's `total_quantity` and `out_of_order_quantity` | request, schedule, check out, return, cancel | credits, Stripe | scheduling is one conditional UPDATE, the rest writes by id what it read; a return settles the charge first | no more pieces out than there are; a loan is charged once |
| Volunteering (`volunteer/*`) | shifts, signups, hour logs, certifications | sign up, wait, promote, complete, log, approve | notifications, cron | a claim is one conditional INSERT, but of a capacity read before; the completion sweep writes by id | a shift is not overfilled; a no-show stays one |
| Bands (`band/*`) | bands, members, invites, subscription, addresses | create, invite, accept, leave, transfer (a batch) | Stripe, directory | leaving by a role read earlier, against a transfer | a band has one owner |
| Inbox (`inbox/*`) | threads, messages, direct messages | inbound, reply, snooze, wake | Postmark, cron | duplicate inbound delivery | a message is filed once |
| Marketing (`marketing/*`) | campaigns, recipients, subscribers | schedule, send, unsubscribe | Postmark, cron | overlapping cron runs | nobody gets a campaign twice |
| Moderation (`flag/*`, `moderation/*`) | flags, standing | raise, resolve, dismiss, sanction | content, users | several flags on one target | one resolution per flag |
| Suggestions (`suggestion/*`) | suggestions, votes | submit, vote, merge, resolve | users | merge against vote | votes are counted once |
| Lock access (`lock/*`) | codes at the lock vendor | daily provisioning | reservations | vendor call fails half way | only booked members have a code |
| Notifications (`notification/*`) | preferences, log | dispatch | every part, by the bus | best-effort delivery | — |
| Users, directory, help, site config, entity references, auth, storage | rows | CRUD | — | none beyond a single statement | — |
| User interface (`src/src/routes`, `lib/components`, Svelte) | browser state | forms, pages | remotes | — | — |


## 3. Plan

The modules, in the order of how much depends on them. An abstract
specification stands beside a detailed one where the component promises its
callers an atomic operation.

| # | Module | Builds on | Abstract specification | State |
|---|---|---|---|---|
| 1 | `Reservations` | — | `RoomCalendar`: a booking is accepted in one step, of a free slot | checked; type invariant, `NoDoubleBooking`, `SettledIsFinal` and the refinement proved |
| 2 | `CreditLedger` | — | `CreditAccounts`: deposits, spendings and resets of a balance are atomic | checked; its type invariant, all its safety properties and the refinement proved |
| 3 | `ReservationSettlement` | takes 2's statements as atomic | — | checked; its type invariant and all its safety properties proved |
| 4 | `Tickets` | — | — | checked; its type invariant and all its safety properties proved |
| 5 | `EquipmentLoans` | takes 2's statements as atomic | — | checked; its type invariant and all its safety properties proved |
| 6 | `VolunteerShifts`, `HourLogs` | — | — | checked; the shifts' type invariant and all safety properties proved |
| 7 | `BandMembership`, `PlatformInvites`, `BandPremium` | — | — | checked; the members' type invariant and all safety properties proved |
| 8 | `Campaigns` | — | — | checked; all its safety properties proved |
| 9 | `SuggestionMerges`, `SuggestionEdits` | — | — | checked; all their safety properties proved |
| 10 | `SeriesGeneration` (nightly expansion, holds of shows) | takes a booking of 1 as atomic | — | checked; all its safety properties proved, for every calendar |
| 11 | `Inbox` (threads, snooze, duplicate delivery) | — | — | planned |
| 12 | `Subscriptions` (several per member, checkout, reconciliation) | 2 | — | planned |

## 4. The models

### Conventions

- A variable holds a table's rows, or the row that a component is about; `req`
  holds, for every Worker invocation, the label of the statement it is at and
  what it has read and not yet used.
- An action is one statement and the code up to the next `await`. Its name is
  the handler's, with what the statement does (`BookCheck`, `BookInsert`,
  `BookRecheck`, `BookBackout`). The first action of a handler has the guards
  of its arguments; a guard that fails ends the request.
- `Crash(p)` ends a request between two statements and stands for a lost Worker
  and for a statement that fails. Emitting a domain event cannot fail its
  emitter, because the bus swallows what its listeners throw.
- A definition whose name ends in `Mutant` is a plausible mistake in the
  definition that follows it and is used by no specification: it is there to
  show that a property notices the mistake.
- Bounds are constants named as such in their module (`MaxRows`, `MaxCrashes`,
  `MaxCalls`, `MaxEvents`, `MaxUpsets`, `MaxQuantity`, `Horizon`, `Traffic`).
  They only switch off the arrival of further calls, never a step of a request
  that has started, and they are parameters of the theorems.
- Variables marked *ghost* record what a property has to know about the past.
  No guard reads them.

### `Reservations` and `RoomCalendar`: the practice room

`rows` is the `reservation` table; an id is the order of `createdAt`. A row has
its status, its slot, whether it is an event's hold, its waitlist offer
(`waitlistNotifiedAt` and whether `waitlistExpiresAt` has passed) and whether
it is paid for. `Clash` says which slots overlap, so slots need no arithmetic.

| Actions | Code |
|---|---|
| `BookCheck`, `BookInsert`, `BookRecheck`, `BookBackout`, `BookQueue` | `create`, `createWaitlisted` (`reservation-service.ts`) |
| `BookConfirm` | the confirmation by id in `bookAndPayReservation` |
| `StaffBook`, `EventHold`, `EventSave`, `SeriesCheck`, `SeriesInsert` | `staffCreate`; the hold of `event-service.ts` `create` and its compensating delete; one instance of `generateForSeries` |
| `AcceptRead`, `AcceptCheck`, `AcceptWrite`, `AcceptRecheck`, `AcceptBackout` | `confirmWaitlisted` |
| `CancelRead`, `CancelWrite`, `Listen`, `Pick`, `Verify`, `Offer` | `cancel`, the listener in `register-listeners.ts`, `promoteNextWaitlisted` |
| `ExpireSelect`, `ExpireOne`, `SweepSelect`, `SweepOne`, `AutoComplete` | the crons `expire-waitlisted`, `cancel-unconfirmed`, `auto-complete` |
| `CheckoutRead`, `CheckoutWrite`, `Confirm`, `Settle`, `CompConfirm`, `CompWrite`, `MarkComplete`, `MarkNoShow`, `RecordCash` | `checkout-listener.ts` and the writes that settle or resolve a row |

Not modelled: opening hours and durations (`validateBooking` reads only the
request). The exclusion of a series' own rows, `uq_recurring_instance` and the
moving of an event to another slot are in `SeriesGeneration`.

`RoomCalendar` has a set of bookings and the slot each of them holds; `Accept`
takes a free slot in one step, `Release` gives it back. A reservation is
mapped to its slot from the moment its re-check passed (`vetted`).

### `CreditLedger` and `CreditAccounts`: one member's credits

Members do not interact, since every statement names one `user` row, so there
is one wallet with the two credit types. `balance` holds the columns of the
`user` row, `posted` the sum of the ledger's amounts, and `tags` the ledger
entries that the guards look for. Stripe raises events of the member's
subscription in an order and delivers them at least once, in any order. Amounts
are in half-hour credits; the equipment credits are in units of the 250 cents
that buy one.

| Actions | Code |
|---|---|
| `Read`, `Swap`, `SwapMissed`, `Log` | `applyBalanceMutation`: the read, the compare-and-swap UPDATE, the retries, the ledger INSERT |
| `Spend` | `deductCredits`: one guarded UPDATE |
| `Adjust` | `adjustCredits` of the staff |
| `Webhook`, `WebhookAgain`, `Guard`, `Save` | `handleInvoicePaid`, `handleSubscriptionUpdated`, `handleSubscriptionDeleted` as `/api/stripe/webhook` calls them |
| `Sync` | `syncAllSubscriptions`, whose reads are merged into one |
| `Raise`, `Redeliver` | Stripe |

`CreditAccounts` has the balances alone: `Deposit`, `Spend` and `Reset` apply
to the balance of the moment.

### `ReservationSettlement`: the money of one reservation

`row` has the status, `cashDueCents` (`due`, -1 for null), the payment record
(`receipt`) and `refundedAt`. `spent` and `returned` are what the ledger says of
the reservation, and `payments` is Stripe's state. The wallet's statements are
atomic here; that they may be taken so is what `CreditLedger` shows. The ledger
entry that follows each of them stays a step of its own.

| Actions | Code |
|---|---|
| `Book`, `Confirm`, `Pay`, `CashReceived`, `Comp`, `Cancel`, `Refund` | where each endpoint of `reservations.remote.ts` enters |
| `CommitRead`, `BalanceRead`, `Deduct`, `DeductEntry`, `Mark` | `commitReservationCredits` |
| `SettleReceipt`, `Settle`, `FinishBook`, `FinishConfirm`, `FinishPay`, `FinishCash`, `Reread`, `Complete` | `commitCreditsAndSettleIfCovered` and what each endpoint does after it |
| `CompConfirm`, `CompMark` | `compReservation` |
| `CancelWrite`, `RefundPayment`, `Stamp` | `cancel` and `refund` |
| `ReverseCheck`, `ReverseSum`, `ReverseWeigh`, `ReverseAdd`, `ReverseEntry` | `reverseReservationCredits` |
| `PayOnline`, `Hear`, `HookWrite` | the member at Stripe, and `checkout-listener.ts` |
| `Resolve`, `Renew`, `SpendElsewhere`, `Unsubscribe` | the rest of the application, as far as it changes the row or the wallet |

The hour of the day is left out: whatever requires a future or a past slot may
happen at any time. `payForReservation` follows `payReservation` and has no
action of its own. There is at most one Stripe session open at a time.

`blemishes` collects what happened that an excused property allows for: two
requests on the row at once (`overlap`), a request that died inside a commit
(`cutCommit`) or a cancellation (`cutCancel`), a refund that Stripe refused, and
so on. Each property names the blemishes it excuses and no others.

### `Tickets`: the tickets of one event

A row is named by its purchase and its place in the batch, `ticket` gives its
status, `stamped` the rows that hold a payment record's id, `sale` what was
asked for and what Stripe knows of it, and `desk` the calls of staff.

| Actions | Code |
|---|---|
| `Arrive`, `Remaining`, `Create`, `Checkout`, `Fulfil` | `purchaseTickets`, `claimFreeTicket`, `compTickets` with `createTickets`, `fulfillPurchase` |
| `Pay`, `Expire`, `Deliver` | the buyer at Stripe, and `handleTicketCheckout`, which may be called late and repeatedly |
| `Age`, `Sweep` | a day passes; the cron `cancel-stale-tickets` |
| `ReadTicket`, `WriteTicket` | `cancelTicket` and `checkIn` |
| `CancelEvent`, `Void`, `Abandon`, `CountTickets`, `Remove`, `Unpublish`, `CountSold`, `Withdraw`, `Publish` | `cancel`, `remove`, `unpublish`, `publish` of `event-service.ts` |

`Capacity` is fixed: an event without a limit, and edits of the limit while
tickets are on sale, are not modelled. Staff may set and clear the price at any
time, so one event's tickets may be both bought and claimed. `getTicketsRemaining`'s two reads are one
step. The codes appear only as how many rows a draw yields. `cancelPurchase`
is called by nothing in the application.

### `EquipmentLoans`: one member's loans

`loan` holds the `equipment_loan` rows, `stock` what an item has in working
order (`total_quantity - out_of_order_quantity`), `wallet`, `taken` and `cash`
the money: credits left, credits deducted for a loan according to the ledger,
cash recorded at Stripe. As in the settlement of reservations, the wallet's
statements are atomic. What a return costs is an argument of the return.

| Actions | Code |
|---|---|
| request, `Schedule`, `CheckOut`, cancellation | `requestLoan`, `scheduleLoan` (one conditional UPDATE that counts what is left), `checkoutLoan`, `cancelLoan` of `loan-service.ts` |
| the return, its balance, deduction, cash and closing | `returnLoan` with `settleReturn`, whose deduction is tried a bounded number of times |
| edits of the stock, retirement | `equipment-service.ts` |

### `VolunteerShifts` and `HourLogs`

One shift, with a capacity, an end and perhaps a cancellation, and one signup
row for each member. A claim looks for a row of the member, and either revives
it or inserts one, each in a statement that counts the places taken but
compares with the capacity read before. An edit of the shift counts first and
writes after. The cron job `complete-shifts` selects what is confirmed and
ended (`SelectDue`) and completes it by id (`Complete`), and may die between two
of them. An hour log is submitted, edited, withdrawn and reviewed; each handler
reads the row, and its statement asks for "pending" once more. `told` is what
the member is told, taken from the row that the UPDATE returned.

### `BandMembership` and `PlatformInvites`

The members of one band, by rows with a role and a status, and the owner that
the band's own row names. Each handler reads the acting user's role and perhaps
the row in question and then writes by id or by member; `transferOwnership` is
one batch (`Demoted`, `Promoted`, and the band's row) after its reads, leaving is a
read and a delete. `PlatformInvites` has one address that is invited, may come to
have an account, and whose logins resolve what is pending: for each invitation
an insert of the member and a mark, in two statements, in as many tabs as there
are.

### `BandPremium`: a band's premium tier

`band` is the tier and the subscription JSON of its row, `stripe` the
subscriptions as Stripe has them, and `mail` every event Stripe has sent, each
of which carries the subscription as it was and may be delivered at any time,
repeatedly and in any order. The metadata that makes a subscription known as the
band's is added by the listener of the completed checkout (`Tag`); a sweep that
runs before does not know it.

| Actions | Code |
|---|---|
| `Upgrade`, `CompleteCheckout`, `DeliverCheckout`, `Retrieve`, `Tag`, `Sync` | `upgradeToPremium`, and `handleBandPremiumCheckout` |
| `Deliver` | `handleSubscriptionUpdated`, `handleSubscriptionDeleted` with `syncFromWebhook` |
| `CancelOrResume`, `Ask`, `Write` | `cancelBandSubscription`, `resumeBandSubscription` |
| `SetTier`, `WriteTier` | `setTier` of the staff |
| `List`, `Apply`, `FailApply`, `SelectStale`, `ClearStale`, `AbortSweep` | `syncAllSubscriptions` with `applyBand` and `clearStaleBands`; the list is taken at once |

### `Campaigns`: one e-mail campaign

`row` is the campaign, `targets` its audience, which is rows of another table
and appears as the batches it will be posted in. `Call` is the check of the
status with which every call of staff begins; what they write goes by the id. A
run, of the cron job or of `sendNow`, reads the campaign (`ReadCampaign`), then
the audience (`Recipients`), posts it batch by batch (`PostBatch`) and marks the
campaign as sent (`MarkSent`). Subscribers who opt out in the meantime are
not modelled.

### `SuggestionMerges` and `SuggestionEdits`

`vote` is the `suggestion_vote` table and `merged` the pointer of each
suggestion. A vote is toggled by a read and a statement; a merge reads both rows,
reads the duplicate's voters, copies their votes and writes the pointer. An
author's edit reads the suggestion, a pending request, the votes of others, and
then writes the text (`WriteText`), or reads the words as they stand
(`ReadText`) and files a request that keeps them beside the new ones
(`InsertEdit`); a review reads the request, writes the text, then the verdict.
`text` names the edit whose words are on the board, `original` the one whose words a
waiting request is to replace, which is what staff compare it with.

### `SeriesGeneration`: recurring series and the holds of shows

`series` holds the `recurring_series` rows, one for events that exists from the
start and those that a member may start; `show` and `room` are the `event` and
`reservation` rows, which name each other (`event.reservationId`,
`reservation.bookerId`). Times are days: two rows of one day clash, and a rule
has an occurrence a day. A member's first booking is one step here, because that is
what `RoomCalendar` shows of it.

| Actions | Code |
|---|---|
| `StartRun`, `NextPass`, `TakeSeries` | `generateRecurring` and its two passes; a series' prototype, window and existing occurrences |
| `Draft`, `CheckRoom`, `Hold`, `Link` | `processEventSeries`: the draft, `hasConflict`, `staffCreate` and the link, a statement each; what fails of the hold is caught and left |
| `CheckShows`, `CheckOthers`, `Insert` | `processSeries`: the hard blocks, the reservations of others, the insert as scheduled or waitlisted |
| `Book`, `First`, `Register` | `bookMemberReservation` with a frequency |
| `CancelSeries`, `Lapse`, `Unsubscribe` | `cancel`, `cancelAllForUser` and the end of the membership |
| `CancelShow`, `RemoveShow`, `MoveShow`, `RebookShow` and `WriteCancel`, `CheckClash`, `FreeRoom`, `Rehold`, `WriteUpdate`, `Delete` | `cancel`, `remove` and `update` of `event-service.ts`, each from its read of the row to its last write |
| `CancelRoom`, `BookOther` | single reservations of members |

The two unique indexes refuse a second row of a series that is not cancelled on
a day (`ShowTaken`, `RoomTaken`). The refusal is an error that ends the series
for the night (`Aborted`). Posters, tickets, messages and a series' end date are
left out, as are skipped months.

## 5. The runs

A passing run finishes with no error; a violation run shows a disagreement
between a sentence of the repository and its code (section 6).

| Run | What it asks | Instance |
|---|---|---|
| `room_race` | do re-checks keep the room single while members book, queue, accept offers and cancel; is that an implementation of the calendar | three slots in a line of which the middle one overlaps the others, three rows, two Workers, one crash |
| `back_office` | staff, events, series, comps, Stripe's webhook and resolution against members: do final rows stay final | one slot whose time comes, two rows, one crash |
| `sweeps` | do the crons release lapsed offers and unconfirmed slots | fair; three rows, one crash |
| `ledger` | does the compare-and-swap loop implement atomic accounts, does it give up only under contention, does the ledger explain the balance; is an invoice applied in full, and once, under repeated and reordered deliveries and the staff sync | fair; two Workers, two events of any kind, amounts 1 and 2, one retry, one crash |
| `settlement` | do credits and cash add up, does a paid row owe nothing, does a cancelled one hold nothing, are credits returned once | two Workers, three calls, and one upset: a crash, or another change of the wallet |
| `box_office` | capacity, payment of what opens the door, finality under cancellation, check-in, late webhooks and a withdrawn event; is every pending ticket resolved | fair; two purchases of up to two tickets for one seat, colliding codes, two staff, two calls, one crash |
| `operations` | is a loan charged once, does a deduction give up only under contention, is more lent than there is only when a request was overtaken; do merges keep the votes; do shows and holds name each other, is an occurrence generated once, do events get the room before series do | two loans of up to two pieces of one item, two Workers, seven calls, one upset; three suggestions; one day with two calls, or with a call and a fault, and two days with a call, the second open or closed |
| `volunteering` | is a shift overfilled, or something settled rewritten, only when overtaken; is confirmed work completed; does the verdict told on hours stand; is what staff decide on the text as it stands, and do verdicts match it; does the premium tier go with the subscription | fair; two members, two Workers, four calls, a cron job that dies once; one hour log; two edits; two subscriptions and two changes, one Worker |
| `outreach` | has a band the one owner its row names; are invitations resolved, and do they bring a member in once; is a due campaign sent, once, to somebody; does every occurrence come | fair; three users, two rows; two invitations; a campaign of two batches, three calls; one fault each; one day with a show and a series and one call, or with a show and two series and one fault |

`MCOperations`, `MCVolunteering` and `MCOutreach` put modules that share no state
into one run: the variable `part`, chosen at the start, says which of them the
behaviour is of, so the state spaces add up and do not multiply. In
`MCOperations` the series come in four calendars, which are one instance with
parameters: `Calendar(days, ahead, closed, most, faulty)`. The type invariants of the
modules that have one are proved (section 7) and are not run again with every
change.

**Why these bounds are enough to be interesting.** Every hazard of the room is
about a pair of rows that clash, and a third row is what they wait for or back
out before; two Workers give every interleaving of two handlers, and the cron's
processes are there beside them. A balance is contended by two writers, of whom one overtakes the other
twice, which is what makes the last retry fail with `Retries = 1`
(the code's `MAX_BALANCE_RETRIES` is 5; the theorems hold for every value).
Two events are the least that can be reordered. Three calls on a reservation
are the least that can confirm, cancel and refund it. Two purchases of
up to two tickets for one seat oversell by two buyers at once, and by a count that
left the quantity out. One item of one or two pieces and two loans are the least that
can lend a piece twice; a shift of one or two places and two members the least that can
overfill one. Three suggestions make a chain of merges, two a cycle. Two
subscriptions are the least of which one is old. One day and two Workers give two
runs of the job, or a run and a call, every interleaving on an occurrence; the
second day lets an occurrence pass, a show move, and a series fail after its first. Two
series of members in one pass are the least of which one fails and the other must
still be expanded, and compete with it for the day. Of two invitations the first alone may lapse. The theorems
of section 7 remove the bounds where they apply.

**Deadlock** is not checked: the bounds stop the arrival of calls, and a system
in which nobody calls rests. Workers, purchases and staff are interchangeable
and are symmetry sets in the runs without liveness properties; a run with a
liveness property uses no symmetry.

**Fairness.** Weak fairness of a request's next statement: a Worker goes on with
what it started unless it is lost (`Crash` is a step of its own, and bounded).
Weak fairness of the cron's sweeps: `wrangler.toml` triggers them again and
again, and what a sweep selects stays selected until a sweep takes it. Weak
fairness of Stripe's redelivery: Stripe repeats a delivery that was not
answered. In `Tickets` also that a day passes. In
`VolunteerShifts` and `Campaigns` the cron jobs `complete-shifts` and
`send-campaigns`; in `PlatformInvites` that a user's session goes on being
loaded, where `hooks.server.ts` resolves what is pending: strong fairness, since
another tab may have resolved it at times; in `SeriesGeneration` the nightly job
(`schedule.ts`), which comes round and is served to its end. Members, buyers and staff owe
the system nothing and have no fairness.

**Excused properties.** The code narrows its races and does not close them all.
Where the repository accepts the remainder, the property names exactly the
circumstance it excuses, and is a claim about everything else:
`NoDoubleBooking` excuses writers that never re-check (`loose`) and rows still
in flight; `SettledIsFinal` a request that still holds a row it read before;
`AllocatedOnce` overlapping deliveries and one that died before its ledger
entry; `OversellsOnlyWhenOvertaken` a purchase that was overtaken;
`FinalUnlessRaced` two calls of staff on one ticket; the settlement's properties
the blemishes they name. In the newer modules the excuse is in the name: `...WhenOvertaken`,
`...UnlessOvertaken` says that what the request had read was changed by somebody
else before it wrote, `...UnlessTorn` that a handler died, or was read, between its
two statements. `MergeKeepsVotes` excuses votes that came after the merge had read
them, `VerdictMatchesText` overlapping reviews of one edit,
`PendingEditIsCurrent` a request that was filed while another was yet to write the text or
to file one (`overlapped`), and `SweepAgrees` is
about sweeps that nothing comes between. `HoldsMatchShows` excuses the shows that
two requests worked on at once or that one failed on (`muddled`);
`GeneratedOnceUnlessOvertaken` a run that looked before the first row came, or
that saw that the show had been moved or deleted (`known` has the days that had a
row, less those, which are in `gone`); `EventsFirst` a run of which a
series failed, or during which a show was rebooked or the day changed (`late`).

## 6. Where the code and its documents disagree

Each of these runs ends in a counterexample. The sentence it contradicts is
quoted above the property and in `PROJECT.json`.

| Run | What happens |
|---|---|
| `double_commit` | two confirmations both read `cashDueCents` as null and both deduct, although `reservation-credit-service.ts:67` says "exactly once" |
| `merge_cycle` | A is merged into B while B is merged into A: each request read the other suggestion as not merged, and the UPDATE asks about its source alone. Both leave the board, although `suggestion-service.ts:393` calls it "impossible" |
| `removed_returns` | staff delete a generated show; the next run of the job looks for its occurrences among the shows, misses it, and generates it again, although `event-service.ts:696` says that the cancelled reservation is kept because the job "dedupes on reservation rows rather than events" |

Five further disagreements are in the models; the properties excuse them or are about
something else: the checkout webhook of a reservation writes by id what it read
("Only transition if still scheduled", `checkout-listener.ts:17`; excused by
`SettledIsFinal`); a delivery of an invoice that dies between the balance and the
ledger entry leaves nothing for the next to find, which grants the equipment
credits again ("Idempotent by invoice id", `webhook-handlers.ts:264`; excused by
`AllocatedOnce`); a draw of ticket codes that collides yields fewer tickets
than were bought (`ticket-service.ts:39`; `Drawn`); an author's edit counts no votes
of others, a member votes, and the edit replaces the words by the id of the row (`WriteText`),
although "the moment another member upvotes [...] changing them silently would be a
bait-and-switch" (`suggestion-service.ts:470`); and a write of the
subscription sync that fails leaves the band out of the keep set that is to
have "every user/band that has a non-terminal subscription"
(`subscription-sync-service.ts:47`), so that the same run clears it (`FailApply`).

The excuses in the properties name further windows that the models contain
and the code leaves open: a member who joins the waitlist just after the
promotion looked waits beside a free slot; an invoice redelivered after the
subscription ended writes the old subscription back; a refund and a
cancellation at once both return the credits (`twoReversals`); the room below
the allowance is computed from a balance that may have changed; a settlement
write by id marks a cancelled row as committed again (`dead`); a payment that
the webhook records between `cancel`'s read and its UPDATE is not refunded
(`overtaken`); a cancellation and a check-in of one ticket undo each other; the
sweep voids tickets whose session can still be paid; tickets minted around an
event's cancellation are accepted at the door; a purchase that inserts between
`remove`'s count and its delete loses its tickets to the cascade; a return that is
repeated after a crash, or made twice at once, charges twice; a cron job that
selected a signup completes it although it became a no-show; a run of a campaign
that died after some batches posts them again; the end of a band's old
subscription, delivered late, frees a band that has a new one, until the next
sweep; a rebooking that `uq_event_recurring_instance` refuses has freed the old hold and
leaves the new one to nobody (`muddled`); a series that is registered just after
`cancelAllForUser` outlives the membership.

Most have one pattern in common: a row is read, a decision is taken, and the
write that carries it out names the row by id alone. Where the write repeats
the condition (`cancel`'s UPDATE, the compare-and-swap of a balance,
`fulfillPurchase`), the properties hold.

## 7. What is proved

All theorems are about the modules TLC checks, with no definition replaced, and
for every value of the constants that satisfies the module's `ASSUME`.

**`ReservationsProofs`: `TypeCorrect`.** `TypeOK` says nothing of what a request
knows, so `TypeInv` adds it: a request past its read refers to a row that has
been inserted (`RequestOK`). One lemma for each group of actions.

**`ReservationsProofs`: `RoomNotDoubleBooked`, `RefinesCalendar`.** `NoDoubleBooking`
is not inductive: it does not say why a re-check that passed may be trusted. The
invariant `RoomInv` says it: an active row is vetted, or loose, or in the flight
of some request, marked rows are active, and two vetted rows never clash. The step that matters is
the re-check that passes (`RecheckPassed`): no active row clashes with the row
at that moment, in particular no vetted one, so vetting it keeps the
invariant; and rows that become active later are not vetted until their own
re-check, which would see this one. Every other step leaves `vetted` alone or
takes a row out of it, which is what `LocalStep` and `QuietStep` say once for
the many actions that touch one row or none. The same case split gives the
refinement: a re-check that passes is `Accept`, losing a vetted row is
`Release`, everything else stutters.

**`ReservationsProofs`: `SettledStays`.** Final statuses are rewritten only by a
request that writes by id alone and still holds the row as it read it, and no request
gets hold of a row that is final. Each action is one of three kinds: it
writes under a condition no final row meets, it inserts (and `RoomInv` says
that the next row's number is nobody's yet), or it carries on with a row it holds.

**`CreditProofs`: `TypeCorrect`, `RefinesAccounts`, `FailsFairly`, `GrantsOnce`.** `LedgerInv`
adds to `TypeOK` what a request under way knows: an addition's amount is one of
`Amounts`, a reset's is a level of a contribution or zero, the event it handles has been
raised, and only an invoice is guarded. Without these the balance after a swap
is not known to be a natural number below its cap, nor the step to be a `Deposit`
or `Reset` of the abstract accounts. The refinement then needs one fact of the
code: the UPDATE compares the balance with the value the new balance was
computed from (`SwapMaps`). `FailsFairly` counts: each attempt of a
request is matched by a write of somebody else since its last read.
`GrantsOnce`: the grant happens at the swap and the trace
the guard looks for is written later. `AllocInv` says that an event that is not
muddled has one handler at most, and that each of its grants is in the ledger
or in that handler on its way there; a change under way that would grant has
not been preceded by another. A crash between the two and an overlapping delivery make
the event muddled.

**`TicketProofs`: `TypeCorrect`, `BoughtArePaid`, `FinalStays`, `Oversells`.**
`TicketInv` adds what the requests and the desk know: a request has minted rows
only past its insert, and no more than it sold; a row that is admitted was paid;
staff who are about to admit somebody read such a row; and a purchase that has
counted sells what fits what it counted (`Fits`). `Oversells` then is a
count: a step admits at most one batch, which fits what its request counted, so
more tickets than places means that others were sold since. The set of
purchases has to be finite for there to be a count.

**`SettlementProofs`: `TypeCorrect`, `AddsUp`, `PaysInFull`, `CancelledIsEmpty`,
`ReturnsOnce`.** One invariant for each property, each under the property's own
excuses. `PaymentInv`: a payment needs a session, a session needs an amount on
the row, so whoever still counts the price (`Counting`) has nobody paying beside
it and is alone; that a paid row owes nothing follows, and the other proofs build
on it. `DueInv`: a live row without an amount has in the ledger what the one
request that counts has entered, so the amount it marks is what is left.
`ReceiptInv`: a call records one payment at most and nobody writes over it, so the
receipt on a row, and any that a handler has read, is a payment that was made.
`CancelInv` then follows a cancellation from its UPDATE, where nobody is between
the deduction and its ledger entry, to the reversal and the refund: until both are done the
request that owes them is still under way. `ReturnInv`: from the check for a
reversal to the ledger's entry there is one request, which adds once.

**`OperationsProofs`: `TypeCorrect`, `PaysCashFairly`, `ChargesOnce`.** `ChargedOnce`
speaks of returned loans, but what has to be carried along is the way there. For
every loan that nobody wrote over (`LoanOK`), the ledger and the recorded cash
are as the row says while no return takes money, and as the one return that does
so has taken otherwise. That a second return cannot be at the same point without
one of the two having been overtaken follows from `Rank`: a loan only goes forward, and what a
request read is never ahead of the row.

**`OperationsProofs`: `NeverShort`.** What is left of an item is its stock less the
pieces of the loans that hold it, a sum. A step changes one loan or one item, so the sum
changes by the pieces of that loan (`SumChange` of `SetSums`); of the steps that take
pieces, scheduling compares the sum with the stock in its own statement, and a
pickup takes no more than the row it read had promised.

**`OperationsProofs`: `MergedVotesKept`.** `MergeKeepsVotes` speaks of suggestions
that were merged. `MergeInv` adds the merges under way: the votes that the
request has read are those of the source, but for late and withdrawn ones, and past its insert
they are on the target. A merge that is lost in between leaves copies, which take nothing
away.

**`OperationsProofs`: `HoldsMatchTheirShows`, `GeneratesEachOnce`,
`ShowsBeforeRooms`.** They are about `SeriesGeneration` with any number of days,
closure, look-ahead and bound on calls and faults. One invariant, `SeriesInv`, carries the
first two. A request is at a statement of its own operation and knows what that
operation has read (`JobsOK`); a room that a show or a request names exists and names
it back (`RoomsNamed`); a show that is not muddled has one request at work on it at
most (`Alone`). `ShowsInv` then says of every such show that it meets its hold, or that
somebody is in the midst of it (`Midway`), and at which statement: the hold is freed and
not yet made, made and not linked, or the show is cancelled and its hold is not.
Each action is one of three kinds: it takes a show up, carries on with it, or
leaves the shows alone. For `GeneratesEachOnce`, `RunOK` follows the set of days that a run has yet to
do: none of them had a row when the run looked, except of a show that had by then been
moved or deleted. `ShowsBeforeRooms` needs more, `SeesTo(last, far)`: once a run's pass over the
events has taken a series, every day of the window is one the series had a show on
or one the run is still to do, unless the run is `late`. Hence when the second pass
inserts, each such day had its show. The window is where the look-ahead
comes in, so `SeesTo` has the calendar's numbers as parameters.

**`OperationsProofs`: `MergedVotesKept`, `HoldsKept`, `GeneratedOnce`,
`EventsComeFirst`** state the same of `MCSpec`, whose behaviours are of one part each and leave
the others as they are. In the modules below the results on the components are
carried to `MCSpec` likewise.

**`VolunteeringProofs`: `TypeCorrect`, `FullShiftsStayFull`, `SettledStands`.** A claim
adds one to the places taken in a statement that compares them with the capacity
it read (`OneMoreClaim`), an edit lowers the capacity to no less than
what it counted; so exceeding the capacity takes a capacity, or a count, that changed
in between. The set of members has to be finite.

**`VolunteeringProofs`: `VerdictsStand`.** `HourInv` says that what a member was told, or
is about to be told, is the row as it stands, and that only a review writes a
row, when it is pending: the loser of two reviews has nothing to tell.

**`VolunteeringProofs`: `VerdictsMatch`, `PendingIsCurrent`.** An approval writes the
text before it decides. `EditInv` says that an edit that was written and is pending
has a review that approves it, that one that was rejected has none that would write it
still, and that an edit of which either fails, or which two reviews work on, is contested.
`PendingIsCurrent` needs to know who can still write the text (`Undisturbed`): while a
request waits that was filed with nobody else on the way to the text, there is no
author's edit past its look for such a request, and no other review about to write, so the words stay
those it was filed against until its own approval writes them. That edits are numbered (`EditsAssumption`) keeps a request apart from no request.

**`VolunteeringProofs`: `SubscribedIsPremium`, `SweepsAgree`.** The first is a split
over the writes: each writes tier and subscription together, but for two that
write by what they read of the subscription. For the second, `SweepOK` follows
a quiet run of the sync: its list is still what Stripe has, and as soon as it has gone through a
subscription that lives, the band is as one of those says, whatever comes after it in the list.

**`OutreachProofs`: `TypeCorrect`, `OwnerStays`.** `BandInv` says that no request is
about to write the role of an owner, except a hand-over, which is one batch.
A step that takes the ownership away therefore is one of a request that read
another role, or another owner, than there is.

**`OutreachProofs`: `JoinsOnce`, `NotTwice`, `NotToNobody`.** An invitation that
has brought its holder in is marked, or somebody is about to mark it, or it is torn. A
batch that was posted was posted by a run that is still posting or was lost, or
the campaign is marked as sent, or gone; and a run that has nobody to post to read
its audience empty, which it is only between the two statements of an edit.

**`CreditProofs`: `LedgerExplains`.** `LedgerBalances` is a sum over the requests at
their ledger entry. Every step moves one request, to its entry or past it, so the sum
changes by that request's amount, and so does the balance, the ledger or what was lost.

**`SetSums`.** The lemmas about sums over finite sets that `LedgerExplains` and
`NeverShort` cite. `MapThenSumSet` is a fold, that is a recursive function over the subsets of
its set, so its value on a set can be unfolded at one element that `CHOOSE` picks. That any other
element may be taken out first is by induction on the set's size, written as
the statement that a set of numbers holds 0 and every successor, which first-order provers can do:
no induction theorem with an operator parameter is needed. The module's lemmas
are about any function into the integers.

**Assumptions.** Beside the types of the bounds, the theorems need: the sets of
members, purchases, Workers, loans and room series to be finite where a property
counts over them; and `None`, the value that stands for no request, to be none of
the requests (`EditsAssumption`, `SweepAssumption`, `InvitesAssumption`,
`BatchesAssumption`, `SeriesAssumption` in the `MC` modules). TLC evaluates them
in the runs.

**What the proofs found.** `GeneratedOnceUnlessOvertaken` had been stated so that it
asked, at the insert, whether the show had been moved or deleted by then. The attempt to
prove it failed on a show that is moved away, is missed by a run that looks, and is
moved back and cancelled before that run inserts; TLC finds it with three calls, one more than the run
had. What the code promises is relative to what the run saw, and that is how the property
now reads.

**Only model-checked.** Liveness (`LapsedOfferResolved`, `UnconfirmedReleased`,
`InvoiceApplied`, `PendingIsResolved`, `WorkIsCompleted`, `InviteIsResolved`,
`DueIsSent`, `OccurrenceComes`): TLAPS does not reason about `ENABLED`. Every safety
property and action property of the passing runs is stated by a theorem.

## 8. What is not modelled

`PROJECT.json` lists every part with the reason. Briefly: the parts of the plan that
have no module yet (inbox, moderation, lock codes); parts that are single-statement writes
or lookups (directory, help, site configuration, users); output (mail, in-app
notices, the live stream, pages); and sanitising and rendering of content.
Two storage effects are left out of the modelled parts as well: the cascade of
deleting a member's account, and D1's behaviour under a lost response (a
statement that was applied although its caller saw a failure), which `Crash`
covers only where the caller ends there.

## 9. Files

- `X.tla` is a component, an `MC` module gives one or several to TLC (model values,
  symmetry, instances of its constants; a component without one is run as it is), `XProofs.tla` hold theorems: `OperationsProofs`, `VolunteeringProofs` and `OutreachProofs` those of all the components of their `MC` module, and `SetSums` lemmas on sums.
- `*.cfg`: one per run, with the run's name.
- `PROJECT.json`: the components, runs, mutants, the source lines of each
  definition, the hazards, the findings and the theorems.

`tlc -workers 2 -config room_race.cfg MCReservations` checks a run, `tlapm
ReservationsProofs.tla` a module's proofs.
