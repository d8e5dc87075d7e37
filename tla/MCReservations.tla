--------------------------- MODULE MCReservations ---------------------------
(* Small instances of Reservations for TLC. *)
EXTENDS Reservations, TLC

CONSTANTS am, noon, pm

(* One slot; or a slot that two others overlap. *)
OneSlot == {am}
OneClash == {<<am, am>>}
ThreeSlots == {am, noon, pm}
LineClash == (ThreeSlots \X ThreeSlots) \ {<<am, pm>>, <<pm, am>>}
NoTime == {}

(* Members and a waitlist. *)
SelfService == {"book", "accept", "cancel"}
(* The writers that do not check, and staff settlement and resolution. *)
BackOffice == {"book", "cancel", "staff", "event", "series", "confirm", "checkout", "resolve"}
(* The cron sweeps against members. *)
Sweeps == {"book", "accept", "cancel", "event", "expire", "sweep"}

Interchangeable == Permutations(Clients)
=============================================================================
