----------------------------- MODULE MCRoomSeats ----------------------------
(* Teams for TLC are interchangeable; players are not, their order is their tenure. *)
EXTENDS RoomSeats, TLC

TeamSymmetry == Permutations(Team)
=============================================================================
