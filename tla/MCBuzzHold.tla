----------------------------- MODULE MCBuzzHold ----------------------------
(***************************************************************************)
(* Small instances of BuzzHold.                                            *)
(***************************************************************************)
EXTENDS BuzzHold, TLC

CONSTANTS p1, p2

\* Phones are interchangeable as long as they are wired alike.
PlayerSymmetry == Permutations(Wired) \cup Permutations(Player \ Wired)
=============================================================================
