---------------------------- MODULE RoomCalendar ----------------------------
(***************************************************************************)
(* What the booking system promises about the practice room: a booking     *)
(* that has been accepted occupies its slot alone, until it is released.   *)
(* Reservations.tla implements this over a database without transactions.  *)
(***************************************************************************)
CONSTANTS Bookings,  \* identifiers of bookings
          Slots,     \* time ranges of the room
          NoSlot,    \* the slot of a booking that occupies nothing
          Clash      \* the pairs of slots that overlap in time

VARIABLE held        \* the slot each booking occupies, or NoSlot

Free(b, s) == \A other \in Bookings \ {b} : <<held[other], s>> \notin Clash

Init == held = [b \in Bookings |-> NoSlot]

Accept(b, s) == /\ held[b] = NoSlot
                /\ Free(b, s)
                /\ held' = [held EXCEPT ![b] = s]

Release(b) == /\ held[b] # NoSlot
              /\ held' = [held EXCEPT ![b] = NoSlot]

Next == \E b \in Bookings : Release(b) \/ \E s \in Slots : Accept(b, s)

Spec == Init /\ [][Next]_held

(* Two bookings never occupy clashing slots. *)
Exclusive == \A a, b \in Bookings : a # b => <<held[a], held[b]>> \notin Clash
=============================================================================
