----------------------------- MODULE MCRoomClock ----------------------------
(* Lengths for TLC: the round's clock outlasts every other. *)
EXTENDS RoomClock

MCLengths == [k \in Kind |-> IF k = "round-time-limit" THEN 2 ELSE 1]
=============================================================================
