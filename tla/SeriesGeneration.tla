-------------------------- MODULE SeriesGeneration --------------------------
(***************************************************************************)
(* Recurring series, the nightly job that expands them into shows with     *)
(* their hold of the room and into members' reservations, and what staff   *)
(* and members do to the rows meanwhile.                                   *)
(*                                                                         *)
(* The job reads which occurrences exist once for each series and inserts  *)
(* them one by one; a unique index refuses a second row of a series that   *)
(* is not cancelled on a day, and the refusal ends the series for the      *)
(* night. A show and its hold are written one after the other, by the job  *)
(* and by staff. Times are days: rows of one day clash. Posters, tickets,  *)
(* messages and a series' end date are left out; a waitlisted row stays    *)
(* so (its offers are in Reservations).                                    *)
(***************************************************************************)
EXTENDS Integers, Sequences, FiniteSetsExt

CONSTANTS Clients,    \* Worker invocations
          Gigs,       \* a series of events; it exists from the start
          RoomSeries, \* series of reservations, which members start
          None,
          LastDay,    \* bound: the days of the calendar
          Ahead,      \* days the job looks ahead
          Closed,     \* days of a closure
          MaxCalls,   \* bound: calls of members and staff
          MaxFaults   \* bound: lost invocations and failing statements

Days == 1..LastDay

Series == RoomSeries \cup {Gigs}

VARIABLES today,
          series, \* the recurring_series rows, "none" where there is no row
          show,   \* the event rows; a deleted one is "removed"
          room,   \* the reservation rows; show is 0 where bookerType is not 'event'
          subscribed, \* user.subscription of the member who owns RoomSeries
          req,    \* the request each client is serving
          calls, faults,
          muddled  \* ghost: shows two requests worked on at once, or one failed on

db == <<series, show, room, subscribed>>
vars == <<today, db, req, calls, faults, muddled>>

(* A request has what it does: a pass of the job, with the series that are *)
(* yet to do, the series it does, the days that are yet to insert, whether *)
(* the prototype holds the room, and (ghosts) the days that had a row, the *)
(* days whose show was moved or deleted, and whether the run missed        *)
(* something since; or a call, with the rows it works on, the day, and the *)
(* status that it is to write.                                             *)
Idle == [at |-> "idle", op |-> "none", todo |-> {}, s |-> None, pending |-> {}, holds |-> FALSE,
         known |-> {}, gone |-> {}, late |-> FALSE, show |-> 0, room |-> 0, day |-> 0, status |-> "none"]

At(p, label) == req[p].at = label
Become(p, r) == req' = [req EXCEPT ![p] = r]
End(p) == Become(p, Idle)
Call(p) == req[p] = Idle /\ calls < MaxCalls /\ calls' = calls + 1

Held(d) == {r \in DOMAIN room : room[r].day = d /\ room[r].status = "held"}
Clash(d, own) == d \in Closed \/ Held(d) \ {own} # {}
AddRoom(row) == room' = Append(room, row)
(* An UPDATE by id: it finds nothing where the row was deleted.            *)
SetShow(i, row) == show' = IF show[i].status = "removed" THEN show ELSE [show EXCEPT ![i] = row]

(* Ghosts. *)
Disturbed(r) == IF r.op \in {"shows", "rooms"} THEN [r EXCEPT !.late = TRUE] ELSE r
Others(p, i) == \E q \in Clients \ {p} : req[q].show = i
Muddle(p) == muddled' = muddled \cup ({req[p].show} \ {0})
Take(p, i) == muddled' = IF Others(p, i) THEN muddled \cup {i} ELSE muddled
EverOn(s) == IF s = Gigs
             THEN UNION {show[i].was : i \in {i \in DOMAIN show : show[i].series = s}}
             ELSE {room[r].day : r \in {r \in DOMAIN room : room[r].series = s}}
Gone(s) == {d \in EverOn(s) : s = Gigs /\ \E i \in DOMAIN show :
              /\ show[i].series = s /\ d \in show[i].was
              /\ show[i].day # d \/ show[i].status = "removed"}

-----------------------------------------------------------------------------
(* The job: generateRecurring(), nightly and on demand. *)
(* Mutant of Passes: reservations first.                                   *)
PassesMutant == <<"rooms", "shows">>
Passes == <<"shows", "rooms">>
Active(s) == series[s].state = "active"
Of(pass) == IF pass = "shows" THEN {Gigs} ELSE RoomSeries
StartPass(n) == [Idle EXCEPT !.at = "series", !.op = Passes[n], !.todo = {s \in Of(Passes[n]) : Active(s)}]

StartRun(p) ==
  /\ req[p] = Idle
  /\ Become(p, StartPass(1))
  /\ UNCHANGED <<today, db, calls, faults, muddled>>

NextPass(p) ==
  /\ At(p, "series") /\ req[p].todo = {}
  /\ Become(p, IF req[p].op = Passes[1] THEN [StartPass(2) EXCEPT !.late = req[p].late] ELSE Idle)
  /\ UNCHANGED <<today, db, calls, faults, muddled>>

(* getOccurrences() *)
Occurrences(s) == {d \in Days : d >= series[s].from /\ today < d /\ d < today + Ahead}
(* Mutant of Existing: a cancelled reservation does not count.             *)
ExistingMutant(s) ==
  IF s = Gigs
  THEN {show[i].day : i \in {i \in DOMAIN show : show[i].series = s /\ show[i].status # "removed"}}
  ELSE {room[r].day : r \in {r \in DOMAIN room : room[r].series = s /\ room[r].status # "cancelled"}}
Existing(s) ==
  IF s = Gigs
  THEN {show[i].day : i \in {i \in DOMAIN show : show[i].series = s /\ show[i].status # "removed"}}
  ELSE {room[r].day : r \in {r \in DOMAIN room : room[r].series = s}}

Skip(r) == [Idle EXCEPT !.at = "series", !.op = r.op, !.todo = r.todo \ {r.s}, !.late = r.late]
(* Mutant of Aborted: an error ends the run.                               *)
AbortedMutant(r) == Idle
Aborted(r) == Skip([r EXCEPT !.late = TRUE])
Following(r) == IF r.pending = {r.day} THEN Skip(r)
                ELSE [r EXCEPT !.at = "day", !.pending = @ \ {r.day}, !.day = Min(r.pending \ {r.day}),
                               !.show = 0, !.room = 0, !.status = "none"]

(* The prototype, the window, and the occurrences that are there already.  *)
TakeSeries(p) ==
  /\ At(p, "series")
  /\ \E s \in req[p].todo :
       LET proto == series[s].proto
           pending == Occurrences(s) \ Existing(s)
           r == [req[p] EXCEPT !.s = s] IN
       IF s = Gigs /\ show[proto].status = "removed"
       THEN Become(p, Aborted(r))
       ELSE Become(p, IF pending = {} THEN Skip(r)
                      ELSE [r EXCEPT !.at = "day", !.pending = pending, !.day = Min(pending),
                                     !.holds = s = Gigs /\ show[proto].room # 0,
                                     !.known = EverOn(s) \ Gone(s), !.gone = Gone(s)])
  /\ UNCHANGED <<today, db, calls, faults, muddled>>

(* processEventSeries(): a draft first, then its hold, then the link.      *)
ShowTaken(s, d, i) ==
  \E j \in DOMAIN show \ {i} : show[j].series = s /\ show[j].day = d /\ show[j].status = "live"

Draft(p) ==
  LET r == req[p] IN
  /\ At(p, "day") /\ r.op = "shows"
  /\ IF ShowTaken(r.s, r.day, 0)
     THEN Become(p, Aborted(r)) /\ UNCHANGED show
     ELSE /\ show' = Append(show, [series |-> r.s, day |-> r.day, was |-> {r.day},
                                   status |-> "live", room |-> 0])
          /\ Become(p, IF r.holds THEN [r EXCEPT !.at = "room", !.show = Len(show')] ELSE Following(r))
  /\ UNCHANGED <<today, series, room, subscribed, calls, faults, muddled>>

CheckRoom(p) ==
  LET r == req[p] IN
  /\ At(p, "room")
  /\ Become(p, IF Clash(r.day, 0) THEN Following(r) ELSE [r EXCEPT !.at = "hold"])
  /\ UNCHANGED <<today, db, calls, faults, muddled>>

Hold(p) ==
  LET r == req[p] IN
  /\ At(p, "hold")
  /\ AddRoom([show |-> r.show, series |-> None, day |-> r.day, status |-> "held"])
  /\ Become(p, [r EXCEPT !.at = "link", !.room = Len(room')])
  /\ UNCHANGED <<today, series, show, subscribed, calls, faults, muddled>>

(* Mutant of Linked: the link is not written.                              *)
LinkedMutant(r) == show[r.show]
Linked(r) == [show[r.show] EXCEPT !.room = r.room]
Link(p) ==
  LET r == req[p] IN
  /\ At(p, "link")
  /\ SetShow(r.show, Linked(r))
  /\ Become(p, Following(r))
  /\ UNCHANGED <<today, series, room, subscribed, calls, faults, muddled>>

(* processSeries(): shows and closures, other reservations, the insert.    *)
CheckShows(p) ==
  LET r == req[p] IN
  /\ At(p, "day") /\ r.op = "rooms"
  /\ Become(p, IF r.day \in Closed \/ \E h \in Held(r.day) : room[h].show # 0
               THEN Following(r) ELSE [r EXCEPT !.at = "others"])
  /\ UNCHANGED <<today, db, calls, faults, muddled>>

CheckOthers(p) ==
  LET r == req[p]
      taken == \E h \in Held(r.day) : room[h].series # r.s IN
  /\ At(p, "others")
  /\ Become(p, [r EXCEPT !.at = "insert", !.status = IF taken THEN "waitlisted" ELSE "held"])
  /\ UNCHANGED <<today, db, calls, faults, muddled>>

RoomTaken(s, d) ==
  \E r \in DOMAIN room : room[r].series = s /\ room[r].day = d /\ room[r].status # "cancelled"

Insert(p) ==
  LET r == req[p] IN
  /\ At(p, "insert")
  /\ IF RoomTaken(r.s, r.day)
     THEN Become(p, Aborted(r)) /\ UNCHANGED room
     ELSE /\ AddRoom([show |-> 0, series |-> r.s, day |-> r.day, status |-> r.status])
          /\ Become(p, Following(r))
  /\ UNCHANGED <<today, series, show, subscribed, calls, faults, muddled>>

Generate(p) == \/ NextPass(p) \/ TakeSeries(p)
               \/ Draft(p) \/ CheckRoom(p) \/ Hold(p) \/ Link(p)
               \/ CheckShows(p) \/ CheckOthers(p) \/ Insert(p)

-----------------------------------------------------------------------------
(* A member starts a series: the membership, the first reservation, which  *)
(* is waitlisted where another is in its way (create() does not look for   *)
(* closures), and the series with its link in a batch.                     *)
Book(p, s, d) ==
  /\ Call(p) /\ series[s].state = "none" /\ d > today
  /\ \A q \in Clients : req[q].op = "book" => req[q].s # s
  /\ subscribed
  /\ Become(p, [Idle EXCEPT !.at = "first", !.op = "book", !.s = s, !.day = d])
  /\ UNCHANGED <<today, db, faults, muddled>>

First(p) ==
  LET r == req[p] IN
  /\ At(p, "first")
  /\ AddRoom([show |-> 0, series |-> None, day |-> r.day,
              status |-> IF Held(r.day) = {} THEN "held" ELSE "waitlisted"])
  /\ Become(p, [r EXCEPT !.at = "register", !.room = Len(room')])
  /\ UNCHANGED <<today, series, show, subscribed, calls, faults, muddled>>

Register(p) ==
  LET r == req[p] IN
  /\ At(p, "register")
  /\ series' = [series EXCEPT ![r.s] = [state |-> "active", proto |-> r.room, from |-> r.day]]
  /\ room' = [room EXCEPT ![r.room].series = r.s]
  /\ End(p)
  /\ UNCHANGED <<today, show, subscribed, calls, faults, muddled>>

Stop(ss) == series' = [s \in Series |-> IF s \in ss /\ Active(s)
                                        THEN [series[s] EXCEPT !.state = "cancelled"] ELSE series[s]]
(* cancel() of recurring-series-service: one conditional UPDATE.           *)
CancelSeries(p, s) ==
  /\ Call(p) /\ Active(s) /\ Stop({s})
  /\ UNCHANGED <<today, show, room, subscribed, req, faults, muddled>>

(* The membership ends: cancelAllForUser(), then user.subscription.        *)
Lapse(p) ==
  /\ Call(p) /\ subscribed
  /\ Stop(RoomSeries)
  /\ Become(p, [Idle EXCEPT !.at = "unsubscribe", !.op = "lapse"])
  /\ UNCHANGED <<today, show, room, subscribed, faults, muddled>>

Unsubscribe(p) ==
  /\ At(p, "unsubscribe")
  /\ subscribed' = FALSE /\ End(p)
  /\ UNCHANGED <<today, series, show, room, calls, faults, muddled>>

-----------------------------------------------------------------------------
(* Staff and shows: cancel(), remove() and update() of event-service. Each *)
(* reads the row first, and works on the hold that it named then.          *)
Open(p, i, op, label, d) ==
  /\ Call(p) /\ Take(p, i)
  /\ Become(p, [Idle EXCEPT !.at = label, !.op = op, !.show = i, !.room = show[i].room, !.day = d])
  /\ UNCHANGED <<today, db, faults>>

CancelShow(p, i) == show[i].status = "live" /\ Open(p, i, "cancel", "cancel", 0)
RemoveShow(p, i) ==
  show[i].status # "removed" /\ Open(p, i, "remove", IF show[i].room = 0 THEN "delete" ELSE "free", 0)
(* The day alone; or the day with a new hold, heeding other rows or not.   *)
MoveShow(p, i, d) == show[i].status = "live" /\ Open(p, i, "update", "write", d)
RebookShow(p, i, d, override) ==
  /\ show[i].status = "live"
  /\ Open(p, i, "rebook", IF ~override THEN "clash" ELSE IF show[i].room = 0 THEN "rehold" ELSE "free", d)

WriteCancel(p) ==
  LET r == req[p] IN
  /\ At(p, "cancel")
  /\ IF show[r.show].status = "live"
     THEN /\ show' = [show EXCEPT ![r.show].status = "cancelled"]
          /\ IF r.room = 0 THEN End(p) ELSE Become(p, [r EXCEPT !.at = "free"])
     ELSE End(p) /\ UNCHANGED show
  /\ UNCHANGED <<today, series, room, subscribed, calls, faults, muddled>>

(* update() heeds every hold but its own.                                  *)
CheckClash(p) ==
  LET r == req[p] IN
  /\ At(p, "clash")
  /\ IF Clash(r.day, r.room) THEN End(p)
     ELSE Become(p, [r EXCEPT !.at = IF r.room = 0 THEN "rehold" ELSE "free"])
  /\ UNCHANGED <<today, db, calls, faults, muddled>>

FreeRoom(p) ==
  LET r == req[p] IN
  /\ At(p, "free")
  /\ room' = [room EXCEPT ![r.room].status = "cancelled"]
  /\ CASE r.op = "cancel" -> End(p)
       [] r.op = "remove" -> Become(p, [r EXCEPT !.at = "delete"])
       [] r.op = "rebook" -> Become(p, [r EXCEPT !.at = "rehold"])
  /\ UNCHANGED <<today, series, show, subscribed, calls, faults, muddled>>

Delete(p) ==
  /\ At(p, "delete")
  /\ show' = [show EXCEPT ![req[p].show].status = "removed"]
  /\ End(p)
  /\ UNCHANGED <<today, series, room, subscribed, calls, faults, muddled>>

Rehold(p) ==
  LET r == req[p] IN
  /\ At(p, "rehold")
  /\ AddRoom([show |-> r.show, series |-> None, day |-> r.day, status |-> "held"])
  /\ Become(p, [r EXCEPT !.at = "write", !.room = Len(room')])
  /\ UNCHANGED <<today, series, show, subscribed, calls, faults, muddled>>

(* The unique index refuses two shows of a series on one day.              *)
WriteUpdate(p) ==
  LET r == req[p]
      row == show[r.show] IN
  /\ At(p, "write")
  /\ IF row.status = "live" /\ row.series # None /\ ShowTaken(row.series, r.day, r.show)
     THEN End(p) /\ Muddle(p) /\ UNCHANGED show
     ELSE /\ SetShow(r.show, [row EXCEPT !.day = r.day, !.was = @ \cup {r.day},
                                              !.room = IF r.op = "rebook" THEN r.room ELSE @])
          /\ req' = [q \in Clients |-> IF q = p THEN Idle ELSE Disturbed(req[q])]
          /\ UNCHANGED muddled
  /\ UNCHANGED <<today, series, room, subscribed, calls, faults>>

(* Members and staff cancel single reservations, and book others.          *)
CancelRoom(p, r) ==
  /\ Call(p) /\ room[r].status \in {"held", "waitlisted"} /\ room[r].show = 0
  /\ room' = [room EXCEPT ![r].status = "cancelled"]
  /\ UNCHANGED <<today, series, show, subscribed, req, faults, muddled>>

BookOther(p, d) ==
  /\ Call(p) /\ d > today /\ Held(d) = {}
  /\ AddRoom([show |-> 0, series |-> None, day |-> d, status |-> "held"])
  /\ UNCHANGED <<today, series, show, subscribed, req, faults, muddled>>

Serve(p) == \/ First(p) \/ Register(p) \/ Unsubscribe(p)
            \/ WriteCancel(p) \/ CheckClash(p) \/ FreeRoom(p) \/ Delete(p)
            \/ Rehold(p) \/ WriteUpdate(p)

-----------------------------------------------------------------------------
(* A statement of the job fails: what concerns a hold is caught and left,  *)
(* anything else ends the series.                                          *)
Fail(p) ==
  LET r == req[p] IN
  /\ r.at \in {"room", "hold", "link", "day", "others", "insert"}
  /\ faults < MaxFaults /\ faults' = faults + 1
  /\ Become(p, IF r.at \in {"room", "hold", "link"} THEN Following(Disturbed(r)) ELSE Aborted(r))
  /\ Muddle(p)
  /\ UNCHANGED <<today, db, calls>>

Crash(p) ==
  /\ req[p] # Idle
  /\ faults < MaxFaults /\ faults' = faults + 1
  /\ End(p) /\ Muddle(p)
  /\ UNCHANGED <<today, db, calls>>

Tick ==
  /\ today < LastDay - 1 /\ today' = today + 1
  /\ req' = [p \in Clients |-> Disturbed(req[p])]
  /\ UNCHANGED <<db, calls, faults, muddled>>

-----------------------------------------------------------------------------
(* The series of events has its prototype, with the room held or without.  *)
Init ==
  /\ today = 0
  /\ \E d \in 0..1, holds \in BOOLEAN, started \in SUBSET RoomSeries :
     \E order \in Bijection(1..Cardinality(started), started) :
       /\ show = <<[series |-> Gigs, day |-> d, was |-> {d}, status |-> "live",
                    room |-> IF holds THEN 1 ELSE 0]>>
       /\ room = (IF holds THEN <<[show |-> 1, series |-> None, day |-> d, status |-> "held"]>> ELSE <<>>)
                 \o [n \in DOMAIN order |-> [show |-> 0, series |-> order[n], day |-> 0, status |-> "held"]]
       /\ series = [s \in Series |->
            CASE s = Gigs -> [state |-> "active", proto |-> 1, from |-> d]
              [] s \in started -> [state |-> "active", from |-> 0,
                   proto |-> CHOOSE r \in DOMAIN room : room[r].series = s]
              [] OTHER -> [state |-> "none", proto |-> 0, from |-> 0]]
  /\ subscribed = TRUE
  /\ req = [p \in Clients |-> Idle]
  /\ calls = 0 /\ faults = 0
  /\ muddled = {}

Work(p) == StartRun(p) \/ Generate(p) \/ Serve(p)

(* What members and staff may call for. *)
Called(p) ==
  \/ \E s \in RoomSeries, d \in Days : Book(p, s, d)
  \/ \E s \in Series : CancelSeries(p, s)
  \/ \E i \in DOMAIN show :
       \/ CancelShow(p, i) \/ RemoveShow(p, i)
       \/ \E d \in Days : MoveShow(p, i, d) \/ \E o \in BOOLEAN : RebookShow(p, i, d, o)
  \/ \E r \in DOMAIN room : CancelRoom(p, r)
  \/ \E d \in Days : BookOther(p, d)

Next ==
  \/ \E p \in Clients :
       \/ Work(p) \/ Lapse(p) \/ Fail(p) \/ Crash(p)
       \/ calls < MaxCalls /\ Called(p)
  \/ Tick

Spec == Init /\ [][Next]_vars

(* The cron job comes round, and whoever is served is served to the end.   *)
Fairness == \A p \in Clients : WF_vars(Work(p))
FairSpec == Spec /\ Fairness

-----------------------------------------------------------------------------
(* A show and its hold of the room name each other: a room held for a show *)
(* is the one the show has, and what it has is held, unless a request is   *)
(* at work on it, two were at once, or one failed or was refused half way  *)
(* (processEventSeries, update, cancel, remove).                           *)
HoldsMatchShows ==
  \A i \in DOMAIN show :
    \/ i \in muddled \/ \E p \in Clients : req[p].show = i
    \/ \A r \in DOMAIN room : room[r].show = i =>
         (room[r].status = "held" <=> show[i].status = "live" /\ show[i].room = r)

(* An occurrence is generated once, also when it has been cancelled: again *)
(* only by a run that looked before the first, or that saw that the show   *)
(* had been moved or deleted (existingInstances, uq_recurring_instance).   *)
Inserts(p) == /\ req'[p] # req[p]
              /\ \/ At(p, "day") /\ Len(show') > Len(show)
                 \/ At(p, "insert") /\ Len(room') > Len(room)
GeneratesOnce == \A p \in Clients : Inserts(p) => req[p].day \notin req[p].known
GeneratedOnceUnlessOvertaken == [][GeneratesOnce]_vars

(* No reservation of a series takes the room on a day for which a series   *)
(* of events has yet to hold it, unless the run was disturbed: a series    *)
(* failed, a show was rebooked, or the day changed (generateRecurring).    *)
LetsEventsFirst ==
  \A p \in Clients :
    LET r == req[p] IN
    /\ At(p, "insert") /\ r.status = "held" /\ Inserts(p)
    /\ Active(Gigs) /\ show[series[Gigs].proto].room # 0 /\ r.day \in Occurrences(Gigs)
    => r.day \in EverOn(Gigs) \/ r.late
EventsFirst == [][LetsEventsFirst]_vars

(* An occurrence in the window of an active series comes, unless its day   *)
(* passes, an event or a closure has it, or the prototype was deleted.     *)
Waiting(s, d) ==
  /\ Active(s) /\ d \in Occurrences(s) \ Existing(s)
  /\ IF s = Gigs THEN show[series[s].proto].status # "removed"
     ELSE d \notin Closed /\ \A h \in Held(d) : room[h].show = 0
OccurrenceComes == \A s \in Series, d \in Days : Waiting(s, d) ~> ~Waiting(s, d)

(* An event that was deleted is not generated again: the comment at        *)
(* event-service.ts:694 gives this as the reason to keep its reservation.  *)
RemovedStaysRemoved ==
  [][\A p \in Clients :
       LET r == req[p] IN
       At(p, "day") /\ Inserts(p) =>
         \A i \in DOMAIN show : show[i].status = "removed" /\ show[i].day = r.day => r.day \notin r.gone]_vars
=============================================================================
