----------------------- MODULE MCReservationSettlement -----------------------
(* Small instances of ReservationSettlement for TLC. *)
EXTENDS ReservationSettlement, TLC

CONSTANTS c1, c2

Interchangeable == Permutations(Clients)
=============================================================================
