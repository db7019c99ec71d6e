----------------------------- MODULE EngineTable ----------------------------
(***************************************************************************)
(* The engine as its driver sees it: from each phase, where an accepted    *)
(* action may lead, which timers it asks for and which of its events the   *)
(* room reacts to.  Scores, clues, seats and wagers are left out: wherever *)
(* they decide, every outcome is allowed.  g is the engine's state         *)
(* [phase, latched], latched the spent round clock (timeExpired of the     *)
(* current board); s is the set of timer settings that are not null.       *)
(***************************************************************************)
EXTENDS Naturals, FiniteSets

Phase == {"lobby", "awaiting-selection", "reading", "armed", "answering", "wagering",
          "wager-answering", "all-answering", "all-judging", "round-break",
          "final-wagers", "final-writing", "final-reveal", "tiebreaker-reading",
          "tiebreaker-armed", "tiebreaker-answering", "game-over"}
OpenClue == {"reading", "armed", "answering", "wagering", "wager-answering",
             "all-answering", "all-judging"}
Kind == {"auto-arm", "selection-shot-clock", "buzz-window", "answer-window",
         "everyone-answers-window", "wager-entry", "final-wager", "final-writing",
         "round-time-limit"}
Setting == {"selection-shot-clock", "auto-arm", "buzz-window", "wager-timer",
            "round-time-limit"}
\* silent: accepted without an event; started, over: game-started or game-over among them.
Word == {"silent", "told", "started", "over"}
Answer == [sets : SUBSET Kind, word : Word]

-----------------------------------------------------------------------------
(* Where an accepted action may lead. *)

Outcome(to, sets, word) == [to |-> to, sets |-> sets, word |-> word]
Told(to, sets) == Outcome(to, sets, "told")
From(g, phases, outcomes) == IF g.phase \in phases THEN outcomes ELSE {}
Stays(g) == {Told(g.phase, {})}
On(s, setting, kind) == IF setting \in s THEN {kind} ELSE {}

\* enterAwaitingSelection, presentClue, endRound.
BoardWaits(s) ==
  {Told("awaiting-selection", On(s, "selection-shot-clock", "selection-shot-clock"))}
ClueReads(s) == {Told("reading", On(s, "auto-arm", "auto-arm"))}
ClueUp(s) == ClueReads(s) \cup {Told("wagering", On(s, "wager-timer", "wager-entry"))}
RoundEnds == {Told("round-break", {})}

\* closeClue: once the round's time is up, only the break is left.
ClueCloses(g, s) == RoundEnds \cup (IF g.latched THEN {} ELSE BoardWaits(s) \cup ClueUp(s))

\* startRound: the board waits, or sweeping reads its first clue.
RoundOpens(s, word) ==
  {Outcome(o.to, o.sets \cup On(s, "round-time-limit", "round-time-limit"), word) :
     o \in BoardWaits(s) \cup ClueReads(s)}

\* armed again for whoever may still ring in
Rearmed(s) == {Told("armed", On(s, "buzz-window", "buzz-window"))}
Finishes == {Outcome("game-over", {}, "over"), Told("tiebreaker-reading", {})}
Writing == {Told("final-writing", {"final-writing"})}
Wagers(s) == {Told("final-wagers", On(s, "wager-timer", "final-wager"))}
TiebreakerMissed == {Told("tiebreaker-armed", {}), Outcome("tiebreaker-reading", {}, "silent")}

\* What an action of this type may answer in this phase; nothing: it is rejected.
Outcomes(g, s, type) ==
  CASE type = "start-game" -> From(g, {"lobby"}, RoundOpens(s, "started"))
    [] type \in {"select-cell", "selection-timeout"} ->
         From(g, {"awaiting-selection"}, ClueUp(s))
    [] type = "arm-buzzers" ->
         From(g, {"reading"}, Rearmed(s) \cup
              {Told("all-answering", {"everyone-answers-window"})})
         \cup From(g, {"tiebreaker-reading"},
                   {Told("tiebreaker-armed", On(s, "buzz-window", "buzz-window"))})
    [] type = "buzz" ->
         From(g, {"reading", "armed"}, Stays(g))
         \cup From(g, {"armed"}, {Told("answering", {"answer-window"})})
         \cup From(g, {"tiebreaker-armed"}, {Told("tiebreaker-answering", {})})
    [] type = "buzz-timeout" ->
         From(g, {"armed"}, ClueCloses(g, s))
         \cup From(g, {"tiebreaker-armed"}, {Outcome("tiebreaker-reading", {}, "silent")})
    [] type = "judge" ->
         From(g, {"answering"}, ClueCloses(g, s) \cup Rearmed(s))
         \cup From(g, {"wager-answering"}, ClueCloses(g, s))
         \cup From(g, {"tiebreaker-answering"},
                   TiebreakerMissed \cup {Outcome("game-over", {}, "over")})
    [] type = "answer-timeout" ->
         From(g, {"answering", "wager-answering"}, Stays(g) \cup ClueCloses(g, s))
         \cup From(g, {"answering"}, Rearmed(s))
         \cup From(g, {"all-answering"}, ClueCloses(g, s) \cup {Told("all-judging", {})})
         \cup From(g, {"tiebreaker-answering"}, TiebreakerMissed)
    [] type = "host-award" -> From(g, {"reading", "armed"}, Stays(g) \cup ClueCloses(g, s))
    [] type = "cancel-clue" -> From(g, OpenClue, ClueCloses(g, s))
    [] type \in {"commit-wager", "wager-timeout"} ->
         From(g, {"wagering"}, {Told("wager-answering", {})})
    [] type = "submit-typed-answer" ->
         From(g, {"answering", "all-answering"}, Stays(g))
         \cup From(g, {"all-answering"}, {Told("all-judging", {})})
    [] type = "close-answers" ->
         From(g, {"all-answering"}, ClueCloses(g, s) \cup {Told("all-judging", {})})
    [] type = "judge-entity" ->
         From(g, {"all-judging"}, Stays(g) \cup ClueCloses(g, s))
         \cup From(g, {"final-reveal"}, Stays(g) \cup Finishes)
    [] type = "end-round" -> From(g, {"awaiting-selection"}, RoundEnds)
    [] type = "round-timeout" ->
         From(g, {"awaiting-selection"}, RoundEnds)
         \cup From(g, OpenClue, {Outcome(g.phase, {}, "silent")})
    [] type = "end-game" ->
         From(g, Phase \ {"lobby", "game-over"}, {Outcome("game-over", {}, "over")})
    [] type = "proceed" ->
         From(g, {"round-break"},
              RoundOpens(s, "told") \cup Writing \cup Wagers(s) \cup Finishes)
    [] type = "commit-final-wager" -> From(g, {"final-wagers"}, Stays(g) \cup Writing)
    [] type = "final-wager-timeout" -> From(g, {"final-wagers"}, Writing)
    [] type = "submit-final-answer" ->
         From(g, {"final-writing"}, Stays(g) \cup {Told("final-reveal", {})})
    [] type = "final-writing-timeout" -> From(g, {"final-writing"}, {Told("final-reveal", {})})
    [] type = "tiebreaker-next-clue" ->
         From(g, {"tiebreaker-reading", "tiebreaker-armed"}, {Told("tiebreaker-reading", {})})
    [] OTHER -> Stays(g)        \* seats, scores and reopened cells move no phase

Type == {"start-game", "select-cell", "selection-timeout", "arm-buzzers", "buzz",
         "buzz-timeout", "judge", "answer-timeout", "host-award", "cancel-clue",
         "commit-wager", "wager-timeout", "submit-typed-answer", "close-answers",
         "judge-entity", "end-round", "round-timeout", "end-game", "proceed",
         "commit-final-wager", "final-wager-timeout", "submit-final-answer",
         "final-writing-timeout", "tiebreaker-next-clue", "surgery"}

\* The round clock latches under an open clue, and every round starts with an unspent one.
Latches(g, type, o) ==
  CASE type = "round-timeout" /\ g.phase \in OpenClue -> TRUE
    [] type = "start-game" -> FALSE
    [] g.phase = "round-break" /\ o.to \in {"awaiting-selection", "reading"} -> FALSE
    [] OTHER -> g.latched

Engine == [phase : Phase, latched : BOOLEAN]
After(g, type, o) == [phase |-> o.to, latched |-> Latches(g, type, o)]
NewGame == [phase |-> "lobby", latched |-> FALSE]

=============================================================================
