---------------------------- MODULE MCGameEngine ---------------------------
(***************************************************************************)
(* Small instances of GameEngine: boards, wager layouts and the settings   *)
(* each run explores.                                                      *)
(***************************************************************************)
EXTENDS GameEngine, TLC

CONSTANTS p1, p2, p3, t1

MCCellValue == [r \in 0 .. RoundCount - 1 |-> [c \in 1 .. CellCount |-> 1]]
MCTopRowValue == [r \in 0 .. RoundCount - 1 |-> 1]

NoWagerCells == {[r \in 0 .. RoundCount - 1 |-> {}]}
MaybeWagers == {[r \in 0 .. RoundCount - 1 |-> {}], [r \in 0 .. RoundCount - 1 |-> {CellCount}]}
LastCellWagers == {[r \in 0 .. RoundCount - 1 |-> {CellCount}]}
Deltas == {-1}
NoInputs == {}
\* Players without teams are interchangeable.
PlayerSymmetry == Permutations(Player)
Amounts == {0, 1, 2}

\* The defaults of the settings groups, with every optional timer off.
Defaults ==
  [playerMode |-> "individuals", rotatingCaptain |-> FALSE, teamWidePenalty |-> TRUE,
   nextSelector |-> "last-correct", firstSelector |-> "random",
   laterSelector |-> "lowest-score", clocks |-> {}, earlyLockout |-> TRUE,
   rebound |-> TRUE, wrongLockedOut |-> TRUE, penalty |-> "deduct",
   hostDecides |-> FALSE, deductOnTimeout |-> TRUE, typed |-> FALSE, everyone |-> "off",
   minimumWager |-> 1, maximumRule |-> "tv", final |-> FALSE,
   everyoneEligible |-> FALSE, fixedStake |-> None, reveal |-> "lowest-first",
   tieForFirst |-> "co-champions", noWinner |-> FALSE, lateJoin |-> FALSE,
   lateJoinScore |-> "zero"]

\* The buzzer race: rebounds, lockouts, both selector shapes that move control by itself.
RaceRules ==
  {Defaults,
   [Defaults EXCEPT !.clocks = {"buzz-window", "round-time-limit"}, !.nextSelector = "rotate",
                    !.deductOnTimeout = FALSE],
   [Defaults EXCEPT !.nextSelector = "auto-sweep", !.wrongLockedOut = FALSE,
                    !.penalty = "none"],
   [Defaults EXCEPT !.rebound = FALSE, !.hostDecides = TRUE, !.penalty = "floor-at-zero"]}

\* Teams with rotating captains, and soloists beside them, joining late.
TeamRules ==
  {[Defaults EXCEPT !.playerMode = "mixed", !.rotatingCaptain = TRUE, !.lateJoin = TRUE,
                    !.lateJoinScore = "host-prompt", !.penalty = "none"],
   [Defaults EXCEPT !.playerMode = "teams", !.teamWidePenalty = FALSE, !.penalty = "none",
                    !.lateJoin = TRUE, !.nextSelector = "host-picks",
                    !.firstSelector = "host-picks", !.lateJoinScore = "match-lowest"]}

\* Wager cells under every ceiling, over two rounds.
WagerRules ==
  {[Defaults EXCEPT !.clocks = {"wager-timer"}, !.earlyLockout = FALSE,
                    !.firstSelector = "host-picks"],
   [Defaults EXCEPT !.maximumRule = "score-only", !.laterSelector = "same-as-round-one",
                    !.earlyLockout = FALSE, !.hostDecides = TRUE],
   [Defaults EXCEPT !.maximumRule = "unlimited", !.nextSelector = "rotate",
                    !.earlyLockout = FALSE, !.noWinner = TRUE]}

BoardRules == RaceRules \cup WagerRules

\* Crowd mode, plain and weighted by speed.
CrowdRules ==
  {[Defaults EXCEPT !.typed = TRUE, !.everyone = "on", !.lateJoin = TRUE,
                    !.earlyLockout = FALSE],
   [Defaults EXCEPT !.typed = TRUE, !.everyone = "speed-weighted", !.nextSelector = "rotate",
                    !.earlyLockout = FALSE]}

PartyRules == TeamRules \cup CrowdRules
\* p1 is named by Droppable.
OtherSymmetry == Permutations(Player \ {p1})

\* The final and sudden death; typed answers; a board swept in order.
FinaleRules ==
  {[Defaults EXCEPT !.final = TRUE, !.tieForFirst = "sudden-death", !.earlyLockout = FALSE,
                    !.typed = TRUE, !.clocks = {"wager-timer", "buzz-window"}],
   [Defaults EXCEPT !.final = TRUE, !.everyoneEligible = TRUE, !.reveal = "top-contenders",
                    !.tieForFirst = "sudden-death", !.noWinner = TRUE,
                    !.earlyLockout = FALSE, !.penalty = "floor-at-zero"],
   [Defaults EXCEPT !.final = TRUE, !.everyoneEligible = TRUE, !.fixedStake = 1,
                    !.reveal = "leaderboard", !.earlyLockout = FALSE,
                    !.nextSelector = "auto-sweep", !.tieForFirst = "shared-placement"],
   [Defaults EXCEPT !.everyone = "on", !.typed = TRUE, !.earlyLockout = FALSE,
                    !.clocks = {"round-time-limit", "auto-arm", "selection-shot-clock"}]}
=============================================================================
