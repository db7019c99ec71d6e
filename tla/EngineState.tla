---------------------------- MODULE EngineState ----------------------------
(***************************************************************************)
(* The game state of @jeopardy/engine (packages/engine/src/state.ts) and   *)
(* the flow spine its handlers share: presenting and closing a clue,       *)
(* ending and starting a round, finishing the game (flow.ts, control.ts,   *)
(* scoring.ts, standings.ts).  The handlers themselves are in ClueActions  *)
(* and StageActions.                                                       *)
(*                                                                         *)
(* One step of the engine is one accepted action: transition() discards    *)
(* the draft of a rejected one.  Text, names, wall-clock times and the     *)
(* seeded generator are abstracted: a random draw is any of its outcomes,  *)
(* an early-buzz lockout is either still running or over.                  *)
(***************************************************************************)
EXTENDS Integers, Sequences, FiniteSets

CONSTANTS
  Player,        \* phones that may take a seat
  Team,          \* team ids a join may name
  None,          \* the null of state.ts
  RoundCount,    \* playedRoundCount(setup): board rounds this game plays
  CellCount,     \* cells of a board, numbered in auto-sweep order
  CellValue,     \* CellValue[round][cell]: the face value, already multiplied
  TopRowValue,   \* TopRowValue[round]: the wager ceiling's floor under the TV rule
  WagerLayouts,  \* hidden wager-cell layouts start-game may draw or read
  Rules,         \* the settings records a room may be created with
  WagerInputs,   \* amounts a phone may send
  ScoreInputs,   \* deltas and scores a host may type
  Droppable,     \* bound: players whose player-leave is explored
  ScoreBound,    \* bound on |score|: an action that would pass it is not taken
  CaptainCycle,  \* captainRotation is kept modulo this multiple of every team size
  IndividualCount,         \* topContendersIndividualCount (final.ts)
  MinimumFieldToBatch      \* topContendersMinimumFieldToBatch (final.ts)

Entity == Player \cup Team      \* a scoring entity: a team, or a player alone
Round == 0 .. RoundCount - 1
Cell == 1 .. CellCount
Unlimited == 1000000000

RulesType ==
  [playerMode : {"individuals", "teams", "mixed"},
   rotatingCaptain : BOOLEAN,        \* teamBuzzer = rotating-captain
   teamWidePenalty : BOOLEAN,        \* teamWideEarlyBuzzPenalty
   nextSelector : {"last-correct", "rotate", "host-picks", "auto-sweep"},
   firstSelector : {"random", "host-picks"},
   laterSelector : {"lowest-score", "same-as-round-one"},
   clocks : SUBSET {"selection-shot-clock", "auto-arm", "buzz-window",
                    "wager-timer", "round-time-limit"},  \* the timers that are not null
   earlyLockout : BOOLEAN,           \* earlyBuzzLockoutMs > 0
   rebound : BOOLEAN,
   wrongLockedOut : BOOLEAN,         \* wrongAnswererLockedOut
   penalty : {"deduct", "floor-at-zero", "none"},
   hostDecides : BOOLEAN,            \* answerTimeoutOutcome = host-decides
   deductOnTimeout : BOOLEAN,
   typed : BOOLEAN,                  \* answerCapture = typed
   everyone : {"off", "on", "speed-weighted"},
   minimumWager : Nat,
   maximumRule : {"tv", "score-only", "unlimited"},
   final : BOOLEAN,                  \* final.enabled and a final clue was authored
   everyoneEligible : BOOLEAN,
   fixedStake : Nat \cup {None},     \* None: zero-to-score
   reveal : {"lowest-first", "top-contenders", "leaderboard"},
   tieForFirst : {"sudden-death", "co-champions", "shared-placement"},
   noWinner : BOOLEAN,               \* allNonPositiveFinish = no-winner
   lateJoin : BOOLEAN,
   lateJoinScore : {"zero", "match-lowest", "host-prompt"}]

ASSUME EntityAssumption == Player \cap Team = {}
ASSUME RoundAssumption == RoundCount \in Nat \ {0} /\ CellCount \in Nat \ {0}
ASSUME ValueAssumption == /\ CellValue \in [Round -> [Cell -> Nat]]
                          /\ TopRowValue \in [Round -> Nat]
ASSUME LayoutAssumption == WagerLayouts \subseteq [Round -> SUBSET Cell]
ASSUME RulesAssumption == Rules \subseteq RulesType
ASSUME InputAssumption == /\ WagerInputs \subseteq Int /\ ScoreInputs \subseteq Int
                          /\ Droppable \subseteq Player
                          /\ ScoreBound \in Nat /\ CaptainCycle \in Nat \ {0}
                          /\ IndividualCount \in Nat /\ MinimumFieldToBatch \in Nat

VARIABLES
  rules,                  \* setup.settings
  phase,                  \* GamePhase
  seat,                   \* seat[p]: the entity p plays for, None while p is unknown
  connected,              \* players whose presence flag is up
  members,                \* members[t]: memberIds of team t in join order
  captainRotation,        \* captainRotation[t], modulo CaptainCycle
  entityOrder,            \* scoring entities in join order
  scores,
  roundIndex,
  hidden,                 \* hidden[r]: the cells of round r not played yet
  wagerCells,             \* wagerCells[r]
  timeExpired,            \* timeExpired[r]
  controlEntity,
  firstSelectorRoundOne,
  clue,                   \* ClueState or None
  breakNextStage,
  final,                  \* FinalRoundState or None
  tiebreaker,             \* TiebreakerState or None
  winners,
  out                     \* types of the events the last accepted action emitted

seatVars  == <<seat, connected, members, entityOrder>>
boardVars == <<roundIndex, wagerCells, timeExpired>>
endVars   == <<final, tiebreaker, winners>>
vars == <<rules, phase, seat, connected, members, captainRotation, entityOrder, scores,
          roundIndex, hidden, wagerCells, timeExpired, controlEntity,
          firstSelectorRoundOne, clue, breakNextStage, final, tiebreaker, winners, out>>

Phases == {"lobby", "awaiting-selection", "reading", "armed", "answering", "wagering",
           "wager-answering", "all-answering", "all-judging", "round-break",
           "final-wagers", "final-writing", "final-reveal", "tiebreaker-reading",
           "tiebreaker-armed", "tiebreaker-answering", "game-over"}
CluePhases == {"reading", "armed", "answering", "wagering", "wager-answering",
               "all-answering", "all-judging"}
FinalPhases == {"final-wagers", "final-writing", "final-reveal"}
TiebreakerPhases == {"tiebreaker-reading", "tiebreaker-armed", "tiebreaker-answering"}

Clue == [round : Round, cell : Cell, isWager : BOOLEAN, wager : Int \cup {None},
         selectedBy : Entity \cup {None}, lockedOut : SUBSET Entity,
         earlyLocked : SUBSET Entity,       \* keys of earlyLockedUntil
         buzzWinner : Player \cup {None},   \* its entity is seat[buzzWinner]
         submissions : Seq(Entity),         \* in order of their timestamps
         correct : SUBSET Entity, wrong : SUBSET Entity]
Final == [eligible : SUBSET Entity, wagers : [Entity -> Int \cup {None}],
          answers : SUBSET Entity,          \* who has an answer in
          prefinal : [Entity -> Int], individual : SUBSET Entity,
          batched : SUBSET Entity, judged : SUBSET Entity]
Tiebreaker == [participants : SUBSET Entity, eliminated : SUBSET Entity,
               buzzWinner : Player \cup {None}]

\* The null is not a value of any kind it may stand in for.
ASSUME NoneAssumption ==
  /\ None \notin Entity /\ None \notin Int
  /\ None \notin Clue /\ None \notin Final /\ None \notin Tiebreaker

-----------------------------------------------------------------------------
(* Lookups. *)

InOrder == {entityOrder[i] : i \in DOMAIN entityOrder}
IndexOf(e) == CHOOSE i \in DOMAIN entityOrder : entityOrder[i] = e
Value(k) == CellValue[k.round][k.cell]
TeamsOffered == rules.playerMode # "individuals"
TeamsRequired == rules.playerMode = "teams"
Clocked(clock, event) == IF clock \in rules.clocks THEN {event} ELSE {}
Bounded(score) == -ScoreBound <= score /\ score <= ScoreBound

\* The score after a wrong answer at this stake (scoring.ts).
AfterWrong(score, stake) ==
  CASE rules.penalty = "none" -> score
    [] rules.penalty = "floor-at-zero" -> IF score - stake > 0 THEN score - stake ELSE 0
    [] OTHER -> score - stake

\* The score after the answer window ran out (scoring.ts).
AfterTimeout(score, stake) ==
  IF rules.deductOnTimeout THEN AfterWrong(score, stake) ELSE score

\* What a correct everyone-answers submission may be paid: full value, or anything down
\* to the rounded half of it when the mode is weighted by speed.
Awards(value) ==
  IF rules.everyone = "speed-weighted" THEN {v \in 0 .. value : 2 * v >= value} ELSE {value}

MaximumWager(score) ==
  LET floor == rules.minimumWager
      AtLeast(a, b) == IF a > b THEN a ELSE b
  IN  CASE rules.maximumRule = "unlimited" -> Unlimited
        [] rules.maximumRule = "score-only" -> AtLeast(score, floor)
        [] OTHER -> AtLeast(AtLeast(score, TopRowValue[roundIndex]), floor)

\* The entity after c in join order; the first one when nobody holds control.
NextInRotation(c) ==
  IF entityOrder = <<>> THEN None
  ELSE LET i == IF c \in InOrder THEN IndexOf(c) ELSE 0
       IN  entityOrder[(i % Len(entityOrder)) + 1]

\* Auto-sweep plays the cells in order.
SweepCell(cells) == CHOOSE c \in cells : \A d \in cells : c <= d

\* Who may open round one, and a later round: every outcome of the draw.
FirstSelectors == IF rules.firstSelector = "host-picks" THEN {None} ELSE InOrder
LaterSelectors ==
  IF rules.laterSelector = "same-as-round-one"
    THEN IF firstSelectorRoundOne \in InOrder THEN {firstSelectorRoundOne} ELSE FirstSelectors
    ELSE {e \in InOrder : \A f \in InOrder : scores[e] <= scores[f]}

-----------------------------------------------------------------------------
(* The flow spine (flow.ts).  Each operator writes what the function writes    *)
(* and adds to the events the handler has emitted so far.                      *)

\* enterAwaitingSelection: someone must pick a cell.
AwaitSelection(events) ==
  /\ phase' = "awaiting-selection"
  /\ clue' = None
  /\ out' = events \cup Clocked("selection-shot-clock", "selection-shot-clock")

FreshClue(r, c, isWager, control) ==
  [round |-> r, cell |-> c, isWager |-> isWager, wager |-> None, selectedBy |-> control,
   lockedOut |-> {}, earlyLocked |-> {}, buzzWinner |-> None, submissions |-> <<>>,
   correct |-> {}, wrong |-> {}]

\* A wager cell needs a bettor: without a controlling entity it plays as a plain clue.
\* A faulty variant asks the board alone.
WagerWithoutBettor(r, c, control) == c \in wagerCells[r]
PlaysAsWager(r, c, control) == control # None /\ c \in wagerCells[r]

\* presentClue: the clue is up, waiting for its stake or being read.
PresentClue(r, c, control, events) ==
  LET isWager == PlaysAsWager(r, c, control)
  IN  /\ clue' = FreshClue(r, c, isWager, control)
      /\ IF isWager
           THEN /\ phase' = "wagering"
                /\ out' = events \cup {"cell-selected", "wager-cell-hit"}
                             \cup Clocked("wager-timer", "wager-entry")
           ELSE /\ phase' = "reading"
                /\ out' = events \cup {"cell-selected", "clue-presented"}
                             \cup Clocked("auto-arm", "auto-arm")

\* closeClue's end-of-round test, once the played cell is off the board.
\* A faulty variant forgets the latched clock.
OverWhenEmpty(r, left) == left = {}
RoundIsOver(r, left) == left = {} \/ timeExpired[r]

NextStage ==
  IF roundIndex + 1 < RoundCount THEN "round"
  ELSE IF rules.final THEN "final" ELSE "game-over"

\* endRound: into the break the host proceeds from.
\* A faulty variant: the clue that closed the round stays up.
EndRoundUnderTheClue(events) ==
  /\ phase' = "round-break"
  /\ breakNextStage' = NextStage
  /\ out' = events \cup {"round-ended", "round-break"}
  /\ UNCHANGED clue
EndRound(events) ==
  /\ phase' = "round-break"
  /\ clue' = None
  /\ breakNextStage' = NextStage
  /\ out' = events \cup {"round-ended", "round-break"}

\* closeClue, reached with board control already at `control`: the cell is played, the
\* rotations advance, and the round ends, sweeps on or waits for a selection.
CloseClue(control, events) ==
  LET r == clue.round
      left == hidden[r] \ {clue.cell}
      rotates == rules.nextSelector = "rotate"
      next == IF rotates THEN NextInRotation(control) ELSE control
      told == events \cup {"clue-finished"}
                     \cup (IF rotates THEN {"control-assigned"} ELSE {})
  IN  /\ hidden' = [hidden EXCEPT ![r] = left]
      /\ captainRotation' = [t \in Team |-> IF members[t] = <<>> THEN captainRotation[t]
                                            ELSE (captainRotation[t] + 1) % CaptainCycle]
      /\ controlEntity' = next
      /\ IF RoundIsOver(r, left) THEN EndRound(told)
         ELSE /\ UNCHANGED breakNextStage
              /\ IF rules.nextSelector = "auto-sweep"
                   THEN PresentClue(r, SweepCell(left), next, told)
                   ELSE AwaitSelection(told)
      /\ UNCHANGED <<rules, seatVars, boardVars, firstSelectorRoundOne, endVars>>

\* startRound at round r, whose board has the hidden cells `cells`.
StartRound(r, selector, cells, events) ==
  LET sweeps == rules.nextSelector = "auto-sweep"
      control == IF sweeps THEN None ELSE selector
      told == events \cup {"round-started", "control-assigned"}
                     \cup Clocked("round-time-limit", "round-time-limit")
  IN  /\ roundIndex' = r
      /\ breakNextStage' = None
      /\ controlEntity' = control
      /\ firstSelectorRoundOne' = IF r = 0 THEN selector ELSE firstSelectorRoundOne
      /\ IF sweeps /\ cells # {} THEN PresentClue(r, SweepCell(cells), None, told)
                                ELSE AwaitSelection(told)

\* The entities in first placement (computeStandings), for the scores sc.
\* A faulty variant keeps one of the tied leaders.
FirstLeader(sc) == {CHOOSE e \in InOrder : \A f \in InOrder : sc[f] <= sc[e]}
Leaders(sc) == {e \in InOrder : \A f \in InOrder : sc[f] <= sc[e]}
NobodyMayWin(sc) == rules.noWinner /\ \A e \in InOrder : sc[e] <= 0

\* finishGame: the all-non-positive rule, then the tie rule, then a clean win.
FinishGame(sc, events) ==
  LET leaders == Leaders(sc)
      tied == \E e, f \in leaders : e # f
  IN  \/ /\ NobodyMayWin(sc)
         /\ phase' = "game-over" /\ winners' = {}
         /\ out' = events \cup {"game-over"}
         /\ UNCHANGED tiebreaker
      \/ /\ ~NobodyMayWin(sc) /\ tied /\ rules.tieForFirst = "sudden-death"
         /\ phase' = "tiebreaker-reading"
         /\ tiebreaker' = [participants |-> leaders, eliminated |-> {}, buzzWinner |-> None]
         /\ out' = events \cup {"tiebreaker-started"}
         /\ UNCHANGED winners
      \/ /\ ~NobodyMayWin(sc) /\ ~(tied /\ rules.tieForFirst = "sudden-death")
         /\ phase' = "game-over" /\ winners' = leaders
         /\ out' = events \cup {"game-over"}
         /\ UNCHANGED tiebreaker

-----------------------------------------------------------------------------
(* createInitialState: an empty lobby under any of the rules. *)

Init ==
  /\ rules \in Rules
  /\ phase = "lobby"
  /\ seat = [p \in Player |-> None]
  /\ connected = {}
  /\ members = [t \in Team |-> <<>>]
  /\ captainRotation = [t \in Team |-> 0]
  /\ entityOrder = <<>>
  /\ scores = [e \in Entity |-> 0]
  /\ roundIndex = 0
  /\ hidden = [r \in Round |-> {}]
  /\ wagerCells = [r \in Round |-> {}]
  /\ timeExpired = [r \in Round |-> FALSE]
  /\ controlEntity = None
  /\ firstSelectorRoundOne = None
  /\ clue = None
  /\ breakNextStage = None
  /\ final = None
  /\ tiebreaker = None
  /\ winners = None
  /\ out = {}

=============================================================================
