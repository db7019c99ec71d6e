-------------------------- MODULE GameEngine_proofs -------------------------
(***************************************************************************)
(* Proofs about GameEngine for every roster, board and settings record.    *)
(***************************************************************************)
EXTENDS GameEngine, TLAPS, SequenceTheorems, WellFoundedInduction

USE DEF Entity

-----------------------------------------------------------------------------
(* The lookups return what they name. *)

\* A non-empty set of naturals has a least member.
LEMMA LeastMember ==
  ASSUME NEW S \in SUBSET Nat, S # {}
  PROVE  \E i \in S : \A j \in S : i <= j
<1> DEFINE Below == {ss \in Nat \X Nat : ss[1] < ss[2]}
<1>1. IsWellFoundedOn(Below, Nat)
  BY NatLessThanWellFounded, Zenon DEF OpToRel
<1>2. PICK c \in S : \A d \in S : <<d, c>> \notin Below
  <2> HIDE DEF Below
  <2> QED BY <1>1, WFMin, Zenon
<1> SUFFICES ASSUME NEW d \in S PROVE c <= d
  OBVIOUS
<1>3. <<d, c>> \in Nat \X Nat /\ <<d, c>>[1] = d /\ <<d, c>>[2] = c
  OBVIOUS
<1>4. ~(<<d, c>>[1] < <<d, c>>[2])
  BY <1>2, <1>3, Zenon
<1> QED
  BY <1>3, <1>4

\* So a search for it finds it.
LEMMA LeastIndex ==
  ASSUME NEW S \in SUBSET Nat, S # {}
  PROVE  (CHOOSE i \in S : \A j \in S : i <= j) \in S
  BY LeastMember

\* nextSweepCell finds a hidden cell whenever there is one.
LEMMA SweepCellInBoard ==
  ASSUME NEW cells \in SUBSET Cell, cells # {}
  PROVE  SweepCell(cells) \in cells
<1>1. cells \subseteq Nat
  BY RoundAssumption DEF Cell
<1> QED
  BY <1>1, LeastIndex DEF SweepCell

\* The rotation hands control to a scoring entity, or to nobody while there is none.
LEMMA NextInRotationType ==
  ASSUME entityOrder \in Seq(Entity), NEW c
  PROVE  NextInRotation(c) \in InOrder \cup {None}
<1>1. CASE entityOrder = <<>>
  BY <1>1 DEF NextInRotation
<1>2. CASE entityOrder # <<>>
  <2> DEFINE i == IF c \in InOrder THEN IndexOf(c) ELSE 0
  <2>1. i \in Nat
    BY DEF InOrder, IndexOf
  <2>2. Len(entityOrder) \in Nat \ {0}
    BY <1>2
  <2>3. (i % Len(entityOrder)) + 1 \in 1 .. Len(entityOrder)
    <3> HIDE DEF i
    <3> QED BY <2>1, <2>2
  <2>4. NextInRotation(c) = entityOrder[(i % Len(entityOrder)) + 1]
    BY <1>2 DEF NextInRotation
  <2> HIDE DEF i
  <2> QED
    BY <2>3, <2>4 DEF InOrder
<1> QED
  BY <1>1, <1>2

\* The entities of entityOrder are entities.
LEMMA InOrderType ==
  ASSUME entityOrder \in Seq(Entity)
  PROVE  InOrder \subseteq Entity
  BY DEF InOrder

-----------------------------------------------------------------------------
(* Types along the flow spine.  TypeOK alone is not inductive: a miss bars the *)
(* entity of the buzz winner, which is an entity only while that phone keeps   *)
(* its seat.                                                                   *)

Seated(holder) == holder # None => seat[holder] # None

\* Whoever holds the floor, on the board or in sudden death, is seated.
HoldersAreSeated ==
  /\ clue # None => Seated(clue.buzzWinner)
  /\ tiebreaker # None => Seated(tiebreaker.buzzWinner)

TypeInv == TypeOK /\ HoldersAreSeated

\* presentClue puts up a well-formed clue nobody holds.
LEMMA PresentClueType ==
  ASSUME NEW r \in Round, NEW c \in Cell, NEW control \in Entity \cup {None}, NEW events,
         PresentClue(r, c, control, events)
  PROVE  /\ phase' \in {"wagering", "reading"}
         /\ clue' \in Clue /\ clue'.buzzWinner = None
<1>1. FreshClue(r, c, PlaysAsWager(r, c, control), control) \in Clue
  BY DEF FreshClue, Clue, PlaysAsWager
<1> QED
  BY <1>1 DEF PresentClue, FreshClue

\* endRound leads into a break whose next stage is one of the three.
LEMMA EndRoundType ==
  ASSUME NEW events, EndRound(events)
  PROVE  /\ phase' = "round-break" /\ clue' = None
         /\ breakNextStage' \in {"round", "final", "game-over", None}
  BY DEF EndRound, NextStage

\* closeClue keeps every type; the score is the caller's.
LEMMA CloseClueType ==
  ASSUME TypeInv, clue # None, NEW control \in Entity \cup {None}, NEW events,
         CloseClue(control, events), scores' \in [Entity -> Int]
  PROVE  TypeInv'
<1> DEFINE r == clue.round
           left == hidden[r] \ {clue.cell}
           next == IF rules.nextSelector = "rotate" THEN NextInRotation(control) ELSE control
           told == events \cup {"clue-finished"}
                     \cup (IF rules.nextSelector = "rotate" THEN {"control-assigned"} ELSE {})
<1>1. clue \in Clue /\ r \in Round
  BY DEF TypeInv, TypeOK, Clue
<1>2. left \in SUBSET Cell /\ hidden' = [hidden EXCEPT ![r] = left]
  BY <1>1 DEF TypeInv, TypeOK, CloseClue
<1>3. next \in Entity \cup {None} /\ controlEntity' = next
  BY NextInRotationType, InOrderType DEF TypeInv, TypeOK, CloseClue
<1>4. hidden' \in [Round -> SUBSET Cell]
  BY <1>1, <1>2 DEF TypeInv, TypeOK
<1>5. captainRotation' \in [Team -> 0 .. CaptainCycle - 1]
  <2>1. ASSUME NEW t \in Team
        PROVE  (captainRotation[t] + 1) % CaptainCycle \in 0 .. CaptainCycle - 1
    BY InputAssumption DEF TypeInv, TypeOK
  <2> QED
    BY <2>1 DEF TypeInv, TypeOK, CloseClue
<1>6. /\ phase' \in Phases /\ clue' \in Clue \cup {None}
      /\ clue' # None => clue'.buzzWinner = None
      /\ breakNextStage' \in {"round", "final", "game-over", None}
  <2>1. CASE RoundIsOver(r, left)
    <3>1. EndRound(told)
      BY <2>1 DEF CloseClue
    <3> QED
      BY <3>1, EndRoundType DEF Phases
  <2>2. CASE ~RoundIsOver(r, left) /\ rules.nextSelector = "auto-sweep"
    <3>1. PresentClue(r, SweepCell(left), next, told) /\ breakNextStage' = breakNextStage
      BY <2>2 DEF CloseClue
    <3>2. SweepCell(left) \in Cell
      BY <1>2, <2>2, SweepCellInBoard DEF RoundIsOver
    <3> HIDE DEF r, left, next, told
    <3> QED
      BY <1>1, <1>3, <3>1, <3>2, PresentClueType DEF Phases, TypeInv, TypeOK
  <2>3. CASE ~RoundIsOver(r, left) /\ rules.nextSelector # "auto-sweep"
    BY <2>3 DEF CloseClue, AwaitSelection, Phases, TypeInv, TypeOK
  <2> QED
    BY <2>1, <2>2, <2>3
<1> HIDE DEF r, left, next, told
<1>7. TypeOK'
  BY <1>3, <1>4, <1>5, <1>6 DEF TypeInv, TypeOK, CloseClue, seatVars, boardVars, endVars
<1>8. HoldersAreSeated'
  BY <1>6 DEF TypeInv, HoldersAreSeated, Seated, CloseClue, seatVars, endVars
<1> QED
  BY <1>7, <1>8 DEF TypeInv

\* startRound opens the board with a well-formed selector and clue.
LEMMA StartRoundType ==
  ASSUME NEW r \in Round, NEW selector \in Entity \cup {None}, NEW cells \in SUBSET Cell,
         NEW events, StartRound(r, selector, cells, events),
         firstSelectorRoundOne \in Entity \cup {None}
  PROVE  /\ phase' \in Phases /\ clue' \in Clue \cup {None}
         /\ clue' # None => clue'.buzzWinner = None
         /\ roundIndex' \in Round /\ breakNextStage' = None
         /\ controlEntity' \in Entity \cup {None}
         /\ firstSelectorRoundOne' \in Entity \cup {None}
<1> DEFINE told == events \cup {"round-started", "control-assigned"}
                     \cup Clocked("round-time-limit", "round-time-limit")
<1>1. CASE rules.nextSelector = "auto-sweep" /\ cells # {}
  <2>1. PresentClue(r, SweepCell(cells), None, told)
    BY <1>1 DEF StartRound
  <2>2. SweepCell(cells) \in Cell
    BY <1>1, SweepCellInBoard
  <2> HIDE DEF told
  <2>3. phase' \in Phases /\ clue' \in Clue /\ clue'.buzzWinner = None
    BY <2>1, <2>2, PresentClueType DEF Phases
  <2> QED
    BY <2>3 DEF StartRound
<1>2. CASE ~(rules.nextSelector = "auto-sweep" /\ cells # {})
  <2>1. AwaitSelection(told)
    BY <1>2 DEF StartRound
  <2> QED
    BY <2>1 DEF StartRound, AwaitSelection, Phases
<1> QED
  BY <1>1, <1>2

\* finishGame crowns scoring entities or opens a tiebreaker among them.
LEMMA FinishGameType ==
  ASSUME TypeInv, NEW sc, NEW events, FinishGame(sc, events)
  PROVE  /\ phase' \in {"game-over", "tiebreaker-reading"}
         /\ winners' \in (SUBSET Entity) \cup {None}
         /\ tiebreaker' \in Tiebreaker \cup {None}
         /\ tiebreaker' = tiebreaker \/ tiebreaker'.buzzWinner = None
<1>1. Leaders(sc) \in SUBSET Entity
  BY InOrderType DEF Leaders, TypeInv, TypeOK
<1> DEFINE fresh == [participants |-> Leaders(sc), eliminated |-> {}, buzzWinner |-> None]
<1>2. fresh \in Tiebreaker /\ fresh.buzzWinner = None
  BY <1>1 DEF Tiebreaker
<1>3. /\ phase' \in {"game-over", "tiebreaker-reading"}
      /\ winners' \in {winners, {}, Leaders(sc)}
      /\ tiebreaker' = tiebreaker \/ tiebreaker' = fresh
  BY DEF FinishGame
<1> HIDE DEF fresh
<1> QED
  BY <1>1, <1>2, <1>3 DEF TypeInv, TypeOK

\* A handler that leaves the table alone and types its clue and scores keeps every type.
LEMMA TableType ==
  ASSUME TypeInv, UNCHANGED tableVars, phase' \in Phases, clue' \in Clue \cup {None},
         clue' # None => Seated(clue'.buzzWinner), scores' \in [Entity -> Int]
  PROVE  TypeInv'
<1>1. TypeOK'
  BY DEF TypeInv, TypeOK, tableVars, seatVars, boardVars, endVars
<1>2. HoldersAreSeated'
  BY DEF TypeInv, HoldersAreSeated, Seated, tableVars, seatVars, endVars
<1> QED
  BY <1>1, <1>2 DEF TypeInv

-----------------------------------------------------------------------------
(* Type correctness.  One lemma per group of actions.                          *)

\* A fresh lobby is well typed.
LEMMA TypeInit == Init => TypeInv
<1> SUFFICES ASSUME Init PROVE TypeInv
  OBVIOUS
<1>1. 0 \in Round /\ 0 \in 0 .. CaptainCycle - 1
  BY RoundAssumption, InputAssumption DEF Round
<1>2. entityOrder \in Seq(Entity) /\ members \in [Team -> Seq(Player)]
  BY DEF Init
<1>3. TypeOK
  BY <1>1, <1>2 DEF Init, TypeOK, Phases
<1> QED
  BY <1>3 DEF Init, TypeInv, HoldersAreSeated

\* Seating appends to the rosters and the scoring order.
LEMMA SeatingType == TypeInv /\ Seating => TypeInv'
<1> SUFFICES ASSUME TypeInv, Seating PROVE TypeInv'
  OBVIOUS
<1>0. TypeOK /\ HoldersAreSeated
  BY DEF TypeInv
<1>1. ASSUME NEW p \in Player, NEW t \in Team \cup {None}, PlayerReturns(p, t) PROVE TypeInv'
  BY <1>0, <1>1 DEF TypeInv, TypeOK, HoldersAreSeated, Seated, PlayerReturns, gameVars,
                    boardVars, endVars
<1>2. ASSUME NEW p \in Player, NEW t \in Team \cup {None}, PlayerJoins(p, t) PROVE TypeInv'
  <2> DEFINE e == IF t = None THEN p ELSE t
  <2>1. e \in Entity /\ e # None
    BY NoneAssumption
  <2>2. members' \in [Team -> Seq(Player)]
    BY <1>0, <1>2 DEF PlayerJoins, TypeOK
  <2>3. scores' \in [Entity -> Int]
    <3>1. \A start \in StartScores : start \in Int
      BY <1>0, InOrderType DEF StartScores, TypeOK
    <3> QED
      BY <1>0, <1>2, <3>1 DEF PlayerJoins, TypeOK
  <2>4. entityOrder' \in Seq(Entity)
    <3>1. entityOrder' = Append(entityOrder, e) \/ entityOrder' = entityOrder
      BY <1>2 DEF PlayerJoins
    <3>2. entityOrder \in Seq(Entity)
      BY <1>0 DEF TypeOK
    <3> HIDE DEF e
    <3> QED
      BY <2>1, <3>1, <3>2, AppendProperties
  <2>5. /\ seat' = [seat EXCEPT ![p] = e] /\ connected' = connected \cup {p}
        /\ seat[p] = None /\ UNCHANGED gameVars
    BY <1>2 DEF PlayerJoins
  <2> HIDE DEF e
  <2>6. TypeOK'
    BY <1>0, <2>1, <2>2, <2>3, <2>4, <2>5 DEF TypeOK, gameVars, boardVars, endVars
  <2>7. HoldersAreSeated'
    BY <1>0, <2>1, <2>5
    DEF TypeOK, HoldersAreSeated, Seated, gameVars, endVars, Clue, Tiebreaker
  <2> QED
    BY <2>6, <2>7 DEF TypeInv
<1>3. ASSUME NEW p \in Player, PlayerLeave(p) PROVE TypeInv'
  BY <1>0, <1>3 DEF TypeInv, TypeOK, HoldersAreSeated, Seated, PlayerLeave, gameVars,
                    boardVars, endVars
<1> QED
  BY <1>1, <1>2, <1>3 DEF Seating

\* Starting the game, picking and reopening cells keep the types.
LEMMA SelectingType == TypeInv /\ Selecting => TypeInv'
<1> SUFFICES ASSUME TypeInv, Selecting PROVE TypeInv'
  OBVIOUS
<1>0. TypeOK /\ HoldersAreSeated
  BY DEF TypeInv
<1>1. CASE StartGame
  <2>1. PICK e \in FirstSelectors : StartRound(0, e, Cell, {"game-started"})
    BY <1>1 DEF StartGame
  <2>2. e \in Entity \cup {None}
    BY <1>0, InOrderType DEF FirstSelectors, TypeOK
  <2>3. 0 \in Round
    BY RoundAssumption DEF Round
  <2>4. /\ phase' \in Phases /\ clue' \in Clue \cup {None}
        /\ clue' # None => clue'.buzzWinner = None
        /\ roundIndex' \in Round /\ breakNextStage' = None
        /\ controlEntity' \in Entity \cup {None}
        /\ firstSelectorRoundOne' \in Entity \cup {None}
    BY <1>0, <2>1, <2>2, <2>3, StartRoundType DEF TypeOK
  <2>5. /\ hidden' \in [Round -> SUBSET Cell] /\ wagerCells' \in [Round -> SUBSET Cell]
        /\ timeExpired' \in [Round -> BOOLEAN]
    BY <1>1, LayoutAssumption DEF StartGame
  <2>6. TypeOK'
    BY <1>0, <1>1, <2>4, <2>5 DEF StartGame, TypeOK, seatVars, endVars
  <2>7. HoldersAreSeated'
    BY <1>0, <1>1, <2>4 DEF HoldersAreSeated, Seated, StartGame, seatVars, endVars
  <2> QED
    BY <2>6, <2>7 DEF TypeInv
<1>2. ASSUME NEW c \in Cell, PresentClue(roundIndex, c, controlEntity, {}),
             UNCHANGED <<tableVars, scores>>
      PROVE  TypeInv'
  <2>1. phase' \in {"wagering", "reading"} /\ clue' \in Clue /\ clue'.buzzWinner = None
    BY <1>0, <1>2, PresentClueType DEF TypeOK
  <2> QED
    BY <1>0, <1>2, <2>1, TableType DEF TypeOK, Phases, Seated
<1>3. ASSUME NEW c \in Cell, NEW by \in Entity \cup {None}, SelectCell(c, by) PROVE TypeInv'
  BY <1>2, <1>3 DEF SelectCell
<1>4. CASE SelectionTimeout
  <2>1. hidden[roundIndex] \subseteq Cell
    BY <1>0 DEF TypeOK
  <2> QED
    BY <1>2, <1>4, <2>1 DEF SelectionTimeout
<1>5. ASSUME NEW c \in Cell, ReopenCell(c) PROVE TypeInv'
  BY <1>0, <1>5 DEF TypeInv, TypeOK, HoldersAreSeated, Seated, ReopenCell, seatVars,
                    boardVars, endVars
<1> QED
  BY <1>1, <1>3, <1>4, <1>5 DEF Selecting

\* Arming, pressing and the buzz window (buzzing.ts) keep the types.
LEMMA BuzzingType == TypeInv /\ Buzzing => TypeInv'
<1> SUFFICES ASSUME TypeInv, Buzzing PROVE TypeInv'
  OBVIOUS
<1>0. TypeOK /\ HoldersAreSeated /\ (clue # None => clue \in Clue)
  BY DEF TypeInv, TypeOK
<1>1. CASE ArmBuzzers
  <2>1. /\ phase' \in Phases /\ clue' \in Clue /\ scores' = scores
        /\ Seated(clue'.buzzWinner)
    BY <1>0, <1>1 DEF ArmBuzzers, Phases, Clue, HoldersAreSeated, Seated
  <2> QED
    BY <1>0, <1>1, <2>1, TableType DEF ArmBuzzers, TypeOK
<1>2. ASSUME NEW p \in Player, EarlyBuzz(p) PROVE TypeInv'
  <2>1. EarlyKey(p) \in Entity
    BY <1>0, <1>2 DEF EarlyKey, EarlyBuzz, TypeOK
  <2>2. /\ clue' \in Clue /\ phase' = phase /\ scores' = scores
        /\ clue'.buzzWinner = clue.buzzWinner
    BY <1>0, <1>2, <2>1 DEF EarlyBuzz, Clue
  <2> QED
    BY <1>0, <1>2, <2>2, TableType DEF EarlyBuzz, TypeOK, HoldersAreSeated
<1>3. ASSUME NEW p \in Player, BuzzWins(p) PROVE TypeInv'
  <2>1. clue' \in Clue /\ phase' \in Phases /\ scores' = scores /\ Seated(clue'.buzzWinner)
    BY <1>0, <1>3 DEF BuzzWins, InTheRace, Clue, Phases, Seated
  <2> QED
    BY <1>0, <1>3, <2>1, TableType DEF BuzzWins, TypeOK
<1>4. ASSUME NEW p \in Player, BuzzLocked(p) PROVE TypeInv'
  BY <1>0, <1>4, TableType DEF BuzzLocked, TypeOK, HoldersAreSeated
<1>5. CASE BuzzTimeout
  BY <1>0, <1>5, CloseClueType DEF BuzzTimeout, TypeOK
<1> QED
  BY <1>1, <1>2, <1>3, <1>4, <1>5 DEF Buzzing

\* The stakes and penalties are integers.
LEMMA ScoringType ==
  ASSUME NEW score \in Int, NEW stake \in Int
  PROVE  AfterWrong(score, stake) \in Int /\ AfterTimeout(score, stake) \in Int
  BY DEF AfterWrong, AfterTimeout

\* A clue's value is a natural number.
LEMMA ValueType ==
  ASSUME NEW k \in Clue
  PROVE  Value(k) \in Nat
  BY ValueAssumption DEF Clue, Value

\* afterCorrect and afterMiss keep the types, whatever they do to the clue.
LEMMA AfterCorrectType ==
  ASSUME TypeInv, clue # None, NEW e \in Entity, NEW stake \in Int, AfterCorrect(e, stake)
  PROVE  TypeInv'
<1>1. scores' \in [Entity -> Int]
  BY DEF AfterCorrect, TypeInv, TypeOK
<1> DEFINE control == IF rules.nextSelector = "last-correct" THEN e ELSE controlEntity
<1>2. control \in Entity \cup {None} /\ CloseClue(control, {"judged"})
  BY DEF AfterCorrect, TypeInv, TypeOK
<1> HIDE DEF control
<1> QED
  BY <1>1, <1>2, CloseClueType

\* afterMiss keeps them whether the clue stays open or closes.
LEMMA AfterMissType ==
  ASSUME TypeInv, clue # None, NEW e \in Entity, NEW lockOut \in BOOLEAN,
         AfterMiss(e, lockOut), scores' \in [Entity -> Int]
  PROVE  TypeInv'
<1>0. clue \in Clue /\ controlEntity \in Entity \cup {None}
  BY DEF TypeInv, TypeOK
<1>1. CASE CloseClue(controlEntity, {"judged"})
  BY <1>0, <1>1, CloseClueType
<1>2. CASE ~CloseClue(controlEntity, {"judged"})
  <2>1. LockedOutAfter(e, lockOut) \in SUBSET Entity
    BY <1>0 DEF LockedOutAfter, Clue
  <2>2. /\ clue' = [clue EXCEPT !.lockedOut = LockedOutAfter(e, lockOut), !.buzzWinner = None]
        /\ phase' = "armed" /\ UNCHANGED tableVars
    BY <1>2 DEF AfterMiss
  <2>3. clue' \in Clue /\ clue'.buzzWinner = None
    BY <1>0, <2>1, <2>2 DEF Clue
  <2> QED
    BY <2>2, <2>3, TableType DEF Phases, Seated
<1> QED
  BY <1>1, <1>2

\* Verdicts, host awards and a cancelled clue (judging.ts) keep the types.
LEMMA JudgingType == TypeInv /\ Judging => TypeInv'
<1> SUFFICES ASSUME TypeInv, Judging PROVE TypeInv'
  OBVIOUS
<1>0. /\ TypeOK /\ HoldersAreSeated /\ scores \in [Entity -> Int]
      /\ clue # None => clue \in Clue /\ Value(clue) \in Int
      /\ controlEntity \in Entity \cup {None}
  BY ValueType DEF TypeInv, TypeOK
\* Who answers a buzz is an entity; so is the bettor, and the wager is a number.
<1>a. phase = "answering" /\ clue # None /\ clue.buzzWinner # None
        => seat[clue.buzzWinner] \in Entity
  BY <1>0 DEF HoldersAreSeated, Seated, TypeOK, Clue
<1>b. clue # None /\ clue.selectedBy # None /\ clue.wager # None
        => clue.selectedBy \in Entity /\ clue.wager \in Int
  BY <1>0 DEF Clue
<1>1. ASSUME NEW v \in {"correct", "wrong", "no-penalty"}, JudgeBuzz(v) PROVE TypeInv'
  <2> DEFINE e == seat[clue.buzzWinner]
  <2>1. e \in Entity /\ clue # None
    BY <1>1, <1>a DEF JudgeBuzz
  <2>2. CASE v = "correct" /\ AfterCorrect(e, Value(clue))
    BY <1>0, <2>1, <2>2, AfterCorrectType
  <2>3. CASE ScoreBecomes(e, AfterWrong(scores[e], Value(clue))) /\ AfterMiss(e, TRUE)
    <3>1. scores' \in [Entity -> Int]
      BY <1>0, <2>1, <2>3, ScoringType DEF ScoreBecomes
    <3> HIDE DEF e
    <3> QED
      BY <2>1, <2>3, <3>1, AfterMissType
  <2>4. CASE AfterMiss(e, FALSE) /\ UNCHANGED scores
    <3> HIDE DEF e
    <3> QED
      BY <1>0, <2>1, <2>4, AfterMissType
  <2> QED
    BY <1>1, <2>2, <2>3, <2>4 DEF JudgeBuzz
<1>2. ASSUME NEW v \in {"correct", "wrong", "no-penalty"}, JudgeWager(v) PROVE TypeInv'
  <2>1. clue.selectedBy \in Entity /\ clue.wager \in Int /\ clue # None
    BY <1>2, <1>b DEF JudgeWager
  <2>2. CASE AfterCorrect(clue.selectedBy, clue.wager)
    BY <2>1, <2>2, AfterCorrectType
  <2>3. CASE ~AfterCorrect(clue.selectedBy, clue.wager)
    <3>1. /\ CloseClue(controlEntity, {"judged"})
          /\ scores' = scores
             \/ ScoreBecomes(clue.selectedBy, AfterWrong(scores[clue.selectedBy], clue.wager))
      BY <1>2, <2>3 DEF JudgeWager
    <3>2. scores' \in [Entity -> Int]
      BY <1>0, <2>1, <3>1, ScoringType DEF ScoreBecomes
    <3> QED
      BY <1>0, <2>1, <3>1, <3>2, CloseClueType
  <2> QED
    BY <2>2, <2>3
<1>3. CASE OverTime
  BY <1>0, <1>3, TableType DEF OverTime, TypeOK, HoldersAreSeated
<1>4. CASE AnswerTimeoutBuzz
  <2> DEFINE e == seat[clue.buzzWinner]
  <2>1. e \in Entity /\ clue # None
    BY <1>4, <1>a DEF AnswerTimeoutBuzz
  <2>2. AfterMiss(e, TRUE) /\ scores' \in [Entity -> Int]
    BY <1>0, <1>4, <2>1, ScoringType DEF AnswerTimeoutBuzz, ScoreBecomes
  <2> HIDE DEF e
  <2> QED
    BY <2>1, <2>2, AfterMissType
<1>5. CASE AnswerTimeoutWager
  <2>1. CloseClue(controlEntity, {"judged"}) /\ clue # None /\ scores' \in [Entity -> Int]
    BY <1>0, <1>5, <1>b, ScoringType DEF AnswerTimeoutWager, ScoreBecomes
  <2> QED
    BY <1>0, <2>1, CloseClueType
<1>6. ASSUME NEW e \in Entity, NEW v \in {"correct", "wrong"}, HostAward(e, v) PROVE TypeInv'
  <2>1. CASE AfterCorrect(e, Value(clue))
    BY <1>0, <1>6, <2>1, AfterCorrectType DEF HostAward
  <2>2. CASE ~AfterCorrect(e, Value(clue))
    <3>1. /\ clue # None /\ UNCHANGED <<tableVars, phase>> /\ scores' \in [Entity -> Int]
          /\ clue' = [clue EXCEPT !.lockedOut =
                        @ \cup (IF rules.wrongLockedOut THEN {e} ELSE {})]
      BY <1>0, <1>6, <2>2, ScoringType DEF HostAward, ScoreBecomes
    <3>2. clue' \in Clue /\ clue'.buzzWinner = clue.buzzWinner
      BY <1>0, <3>1 DEF Clue
    <3> QED
      BY <1>0, <3>1, <3>2, TableType DEF TypeOK, HoldersAreSeated
  <2> QED
    BY <2>1, <2>2
<1>7. CASE CancelClue
  BY <1>0, <1>7, CloseClueType DEF CancelClue
<1> QED
  BY <1>1, <1>2, <1>3, <1>4, <1>5, <1>6, <1>7 DEF Judging

\* Wager entry and its timeout (wagers.ts) keep the types.
LEMMA WageringType == TypeInv /\ Wagering => TypeInv'
<1> SUFFICES ASSUME TypeInv, Wagering PROVE TypeInv'
  OBVIOUS
<1>0. TypeOK /\ HoldersAreSeated /\ (clue # None => clue \in Clue)
  BY DEF TypeInv, TypeOK
<1>1. ASSUME NEW amount \in Int, clue # None, CommitAmount(amount) PROVE TypeInv'
  <2>1. clue' \in Clue /\ clue'.buzzWinner = clue.buzzWinner
    BY <1>0, <1>1 DEF CommitAmount, Clue
  <2> QED
    BY <1>0, <1>1, <2>1, TableType DEF CommitAmount, HoldersAreSeated, Phases, TypeOK
<1>2. ASSUME NEW amount \in WagerInputs, CommitWager(amount) PROVE TypeInv'
  BY <1>1, <1>2, InputAssumption DEF CommitWager
<1>3. CASE WagerTimeout
  <2>1. rules.minimumWager \in Int
    BY <1>0, RulesAssumption DEF TypeOK, RulesType
  <2> QED
    BY <1>1, <1>3, <2>1 DEF WagerTimeout
<1> QED
  BY <1>2, <1>3 DEF Wagering

\* closeEveryoneAnswers closes the clue or hands it to the judge.
LEMMA CloseEveryoneAnswersType ==
  ASSUME TypeInv, clue # None, NEW submissions \in Seq(Entity), NEW events,
         CloseEveryoneAnswers(submissions, events), scores' = scores
  PROVE  TypeInv'
<1>0. /\ clue \in Clue /\ controlEntity \in Entity \cup {None}
      /\ scores' \in [Entity -> Int] /\ Seated(clue.buzzWinner)
  BY DEF TypeInv, TypeOK, HoldersAreSeated
<1>1. CASE submissions = <<>>
  <2>1. CloseClue(controlEntity, events \cup {"answers-closed"})
    BY <1>1 DEF CloseEveryoneAnswers
  <2> QED
    BY <1>0, <2>1, CloseClueType
<1>2. CASE submissions # <<>>
  <2>1. /\ phase' = "all-judging" /\ UNCHANGED tableVars
        /\ clue' = [clue EXCEPT !.submissions = submissions]
    BY <1>2 DEF CloseEveryoneAnswers
  <2>2. clue' \in Clue /\ clue'.buzzWinner = clue.buzzWinner
    BY <1>0, <2>1 DEF Clue
  <2> QED
    BY <1>0, <2>1, <2>2, TableType DEF Phases
<1> QED
  BY <1>1, <1>2

\* Typed capture and its judging (judging.ts) keep the types.
LEMMA TypingType == TypeInv /\ Typing => TypeInv'
<1> SUFFICES ASSUME TypeInv, Typing PROVE TypeInv'
  OBVIOUS
<1>0. /\ TypeOK /\ phase \in Phases /\ scores \in [Entity -> Int]
      /\ controlEntity \in Entity \cup {None}
      /\ clue # None => clue \in Clue /\ Seated(clue.buzzWinner) /\ Value(clue) \in Nat
                        /\ clue.submissions \in Seq(Entity)
  BY ValueType DEF TypeInv, TypeOK, HoldersAreSeated, Clue
<1>1. ASSUME NEW p \in Player, seat[p] # None, clue # None
      PROVE  Append(clue.submissions, seat[p]) \in Seq(Entity)
  <2>1. seat[p] \in Entity
    BY <1>0, <1>1 DEF TypeOK
  <2> QED
    BY <1>0, <1>1, <2>1, AppendProperties
\* Recording submissions on the clue keeps the types.
<1>2. ASSUME NEW submissions \in Seq(Entity), clue # None,
             clue' = [clue EXCEPT !.submissions = submissions],
             UNCHANGED <<tableVars, phase, scores>>
      PROVE  TypeInv'
  <2>1. clue' \in Clue /\ clue'.buzzWinner = clue.buzzWinner
    BY <1>0, <1>2 DEF Clue
  <2> QED
    BY <1>0, <1>2, <2>1, TableType
<1>3. ASSUME NEW p \in Player, SubmitTypedAnswer(p) PROVE TypeInv'
  <2> DEFINE submissions == IF seat[p] \in Submitted THEN clue.submissions
                            ELSE Append(clue.submissions, seat[p])
  <2>1. /\ clue # None /\ seat[p] # None /\ UNCHANGED <<tableVars, phase, scores>>
        /\ clue' = [clue EXCEPT !.submissions = submissions]
    BY <1>3 DEF SubmitTypedAnswer
  <2>2. submissions \in Seq(Entity)
    BY <1>0, <1>1, <2>1
  <2> HIDE DEF submissions
  <2> QED
    BY <1>2, <2>1, <2>2
<1>4. ASSUME NEW p \in Player, SubmitEveryoneAnswer(p) PROVE TypeInv'
  <2> DEFINE submissions == Append(clue.submissions, seat[p])
  <2>1. clue # None /\ seat[p] # None /\ scores' = scores
    BY <1>4 DEF SubmitEveryoneAnswer
  <2>2. submissions \in Seq(Entity)
    BY <1>1, <2>1
  <2>3. \/ CloseEveryoneAnswers(submissions, {"answer-submitted"})
        \/ /\ clue' = [clue EXCEPT !.submissions = submissions]
           /\ UNCHANGED <<tableVars, phase>>
    BY <1>4 DEF SubmitEveryoneAnswer
  <2> HIDE DEF submissions
  <2> QED
    BY <1>2, <2>1, <2>2, <2>3, CloseEveryoneAnswersType
<1>5. CASE CloseAnswers
  BY <1>0, <1>5, CloseEveryoneAnswersType DEF CloseAnswers
<1>6. ASSUME NEW e \in Entity, NEW v \in {"correct", "wrong"}, JudgeSubmission(e, v)
      PROVE  TypeInv'
  <2> DEFINE correct == clue.correct \cup (IF v = "correct" THEN {e} ELSE {})
             wrong == clue.wrong \cup (IF v = "wrong" THEN {e} ELSE {})
             ranks == {i \in DOMAIN clue.submissions : clue.submissions[i] \in correct}
             fastest == clue.submissions[CHOOSE i \in ranks : \A j \in ranks : i <= j]
             control == IF rules.nextSelector = "last-correct" /\ ranks # {}
                          THEN fastest ELSE controlEntity
  <2>0. clue # None
    BY <1>6 DEF JudgeSubmission
  <2>1. scores' \in [Entity -> Int]
    <3>1. \A award \in Awards(Value(clue)) : award \in Int
      BY <1>0, <2>0 DEF Awards
    <3>2. scores' = scores
          \/ \E award \in Awards(Value(clue)) : ScoreBecomes(e, scores[e] + award)
      BY <1>6 DEF JudgeSubmission
    <3> QED
      BY <1>0, <3>1, <3>2 DEF ScoreBecomes
  <2>2. CASE CloseClue(control, {"judged"})
    <3>1. control \in Entity \cup {None}
      <4>1. CASE ranks # {}
        <5>1. ranks \subseteq 1 .. Len(clue.submissions) /\ ranks # {}
          BY <1>0, <2>0, <4>1
        <5> HIDE DEF ranks
        <5>2. (CHOOSE i \in ranks : \A j \in ranks : i <= j) \in ranks
          <6>1. ranks \in SUBSET Nat
            BY <1>0, <2>0, <5>1
          <6> QED
            BY <5>1, <6>1, LeastIndex, Zenon
        <5>3. fastest \in Entity
          BY <1>0, <2>0, <5>1, <5>2
        <5> HIDE DEF fastest
        <5> QED
          BY <1>0, <5>3
      <4> QED
        BY <1>0, <4>1
    <3> HIDE DEF control
    <3> QED
      BY <2>0, <2>1, <2>2, <3>1, CloseClueType
  <2>3. CASE ~CloseClue(control, {"judged"})
    <3>1. /\ clue' = [clue EXCEPT !.correct = correct, !.wrong = wrong]
          /\ UNCHANGED <<tableVars, phase>>
      BY <1>6, <2>3 DEF JudgeSubmission
    <3>2. correct \in SUBSET Entity /\ wrong \in SUBSET Entity
      BY <1>0, <2>0 DEF Clue
    <3> HIDE DEF correct, wrong
    <3>3. clue' \in Clue /\ clue'.buzzWinner = clue.buzzWinner
      BY <1>0, <2>0, <3>1, <3>2 DEF Clue
    <3> QED
      BY <1>0, <2>0, <2>1, <3>1, <3>3, TableType
  <2> QED
    BY <2>2, <2>3
<1> QED
  BY <1>3, <1>4, <1>5, <1>6 DEF Typing

-----------------------------------------------------------------------------
(* Types of the stages. *)

\* A handler of the final or the tiebreaker keeps the types of what it leaves alone.
LEMMA BoardSideType ==
  ASSUME TypeInv, UNCHANGED boardSideVars, phase' \in Phases, scores' \in [Entity -> Int],
         final' \in Final \cup {None}, tiebreaker' \in Tiebreaker \cup {None},
         tiebreaker' # None => Seated(tiebreaker'.buzzWinner),
         winners' \in (SUBSET Entity) \cup {None}
  PROVE  TypeInv'
<1>1. TypeOK'
  BY DEF TypeInv, TypeOK, boardSideVars, standingVars, seatVars
<1>2. HoldersAreSeated'
  BY DEF TypeInv, HoldersAreSeated, Seated, boardSideVars, standingVars, seatVars
<1> QED
  BY <1>1, <1>2 DEF TypeInv

\* The settings are one of the rule sets, so the stakes they name are numbers.
LEMMA StakeType ==
  ASSUME TypeOK
  PROVE  FinalMinimum \in Int /\ rules.fixedStake \in Int \cup {None}
<1>1. rules \in RulesType
  BY RulesAssumption DEF TypeOK
<1> QED
  BY <1>1 DEF RulesType, FinalMinimum

\* The contenders revealed one by one are entities.
LEMMA IndividualType ==
  ASSUME final \in Final
  PROVE  Individual \in SUBSET Entity
  BY DEF Individual, TopContenders, Final

\* Opening the reveal splits the eligible entities into a batch and individuals.
LEMMA StartRevealType ==
  ASSUME final \in Final, NEW answers \in SUBSET Entity, NEW events,
         StartReveal(answers, events)
  PROVE  phase' \in Phases /\ final' \in Final
<1>1. Individual \in SUBSET Entity /\ final.eligible \ Individual \in SUBSET Entity
  BY IndividualType DEF Final
<1>2. final' = [final EXCEPT !.answers = answers, !.individual = Individual,
                             !.batched = final.eligible \ Individual]
  BY DEF StartReveal
<1>3. final' \in Final
  BY <1>1, <1>2 DEF Final
<1> QED
  BY <1>3 DEF StartReveal, Phases

\* A score after the final is an integer.
LEMMA FinalScoreType ==
  ASSUME TypeOK, final \in Final, NEW e \in Entity, NEW v
  PROVE  FinalScore(e, v) \in Int
<1>1. (IF final.wagers[e] = None THEN 0 ELSE final.wagers[e]) \in Int /\ scores[e] \in Int
  BY DEF Final, TypeOK
<1> QED
  BY <1>1 DEF FinalScore

\* The final round (final.ts) keeps the types.
LEMMA FinalRoundType == TypeInv /\ FinalRound => TypeInv'
<1> SUFFICES ASSUME TypeInv, FinalRound PROVE TypeInv'
  OBVIOUS
<1>0. /\ TypeOK /\ phase \in Phases /\ scores \in [Entity -> Int]
      /\ final # None => final \in Final
      /\ tiebreaker \in Tiebreaker \cup {None}
      /\ tiebreaker # None => Seated(tiebreaker.buzzWinner)
      /\ winners \in (SUBSET Entity) \cup {None}
  BY DEF TypeInv, TypeOK, HoldersAreSeated
<1>1. ASSUME NEW e \in Entity, NEW amount \in WagerInputs, CommitFinalWager(e, amount)
      PROVE  TypeInv'
  <2>1. /\ final # None /\ UNCHANGED <<boardSideVars, scores, tiebreaker, winners>>
        /\ final' = [final EXCEPT !.wagers = [final.wagers EXCEPT ![e] = amount]]
        /\ phase' \in {"final-writing", phase}
    BY <1>1 DEF CommitFinalWager
  <2>2. [final.wagers EXCEPT ![e] = amount] \in [Entity -> Int \cup {None}]
    BY <1>0, <2>1, InputAssumption DEF Final
  <2>3. final' \in Final
    BY <1>0, <2>1, <2>2 DEF Final
  <2> QED
    BY <1>0, <2>1, <2>3, BoardSideType DEF Phases
<1>2. CASE FinalWagerTimeout
  <2> DEFINE wagers == [e \in Entity |-> IF e \in final.eligible /\ final.wagers[e] = None
                                           THEN FinalMinimum ELSE final.wagers[e]]
  <2>1. /\ final # None /\ UNCHANGED <<boardSideVars, scores, tiebreaker, winners>>
        /\ final' = [final EXCEPT !.wagers = wagers] /\ phase' = "final-writing"
    BY <1>2 DEF FinalWagerTimeout
  <2>2. wagers \in [Entity -> Int \cup {None}]
    BY <1>0, <2>1, StakeType DEF Final
  <2> HIDE DEF wagers
  <2>3. final' \in Final
    BY <1>0, <2>1, <2>2 DEF Final
  <2> QED
    BY <1>0, <2>1, <2>3, BoardSideType DEF Phases
<1>3. ASSUME NEW e \in Entity, SubmitFinalAnswer(e) PROVE TypeInv'
  <2> DEFINE answers == final.answers \cup {e}
  <2>1. final # None /\ UNCHANGED <<boardSideVars, scores, tiebreaker, winners>>
    BY <1>3 DEF SubmitFinalAnswer
  <2>2. answers \in SUBSET Entity
    BY <1>0, <2>1 DEF Final
  <2>3. CASE StartReveal(answers, {"final-answer-submitted"})
    <3> HIDE DEF answers
    <3> QED
      BY <1>0, <2>1, <2>2, <2>3, StartRevealType, BoardSideType
  <2>4. CASE final' = [final EXCEPT !.answers = answers] /\ phase' = phase
    <3> HIDE DEF answers
    <3>1. final' \in Final
      BY <1>0, <2>1, <2>2, <2>4 DEF Final
    <3> QED
      BY <1>0, <2>1, <2>4, <3>1, BoardSideType
  <2> QED
    BY <1>3, <2>3, <2>4 DEF SubmitFinalAnswer
<1>4. CASE FinalWritingTimeout
  <2>1. /\ final # None /\ StartReveal(final.answers, {})
        /\ UNCHANGED <<boardSideVars, scores, tiebreaker, winners>>
    BY <1>4 DEF FinalWritingTimeout
  <2>2. final.answers \in SUBSET Entity
    BY <1>0, <2>1 DEF Final
  <2> QED
    BY <1>0, <2>1, <2>2, StartRevealType, BoardSideType
<1>5. ASSUME NEW e \in Entity, NEW v \in {"correct", "wrong"}, JudgeFinalEntity(e, v)
      PROVE  TypeInv'
  <2> DEFINE judged == final.judged \cup {e}
  <2>1. /\ final # None /\ UNCHANGED boardSideVars
        /\ scores' = [scores EXCEPT ![e] = FinalScore(e, v)]
    BY <1>5 DEF JudgeFinalEntity
  <2>2. scores' \in [Entity -> Int]
    BY <1>0, <2>1, FinalScoreType
  <2>3. CASE final' = None /\ FinishGame(scores', {"final-judged"})
    BY <1>0, <2>1, <2>2, <2>3, FinishGameType, BoardSideType DEF Phases, Seated
  <2>4. CASE /\ final' = [final EXCEPT !.judged = judged]
             /\ UNCHANGED <<phase, tiebreaker, winners>>
    <3>1. judged \in SUBSET Entity
      BY <1>0, <2>1 DEF Final
    <3> HIDE DEF judged
    <3>2. final' \in Final
      BY <1>0, <2>1, <2>4, <3>1 DEF Final
    <3> QED
      BY <1>0, <2>1, <2>2, <2>4, <3>2, BoardSideType
  <2> QED
    BY <1>5, <2>3, <2>4 DEF JudgeFinalEntity
<1> QED
  BY <1>1, <1>2, <1>3, <1>4, <1>5 DEF FinalRound

\* One of the stages follows the current round, and a further round exists when it is next.
LEMMA StartFinalType ==
  ASSUME TypeInv, StartFinal
  PROVE  /\ phase' \in Phases /\ final' \in Final \cup {None}
         /\ winners' \in (SUBSET Entity) \cup {None}
         /\ tiebreaker' \in Tiebreaker \cup {None}
         /\ tiebreaker' = tiebreaker \/ tiebreaker'.buzzWinner = None
<1> DEFINE eligible == IF rules.everyoneEligible THEN InOrder
                       ELSE {e \in InOrder : scores[e] > 0}
           wagers == [e \in Entity |-> IF e \in eligible THEN rules.fixedStake ELSE None]
<1>0. TypeOK
  BY DEF TypeInv
<1>1. CASE FinishGame(scores, {"final-skipped"}) /\ UNCHANGED final
  BY <1>0, <1>1, FinishGameType DEF TypeOK, Phases
<1>2. CASE ~(FinishGame(scores, {"final-skipped"}) /\ UNCHANGED final)
  <2>1. /\ final' = [eligible |-> eligible, wagers |-> wagers, answers |-> {},
                     prefinal |-> scores, individual |-> {}, batched |-> {}, judged |-> {}]
        /\ phase' \in {"final-writing", "final-wagers"}
        /\ UNCHANGED <<tiebreaker, winners>>
    BY <1>2 DEF StartFinal
  <2>2. eligible \in SUBSET Entity
    BY <1>0, InOrderType DEF TypeOK
  <2> HIDE DEF eligible
  <2>3. wagers \in [Entity -> Int \cup {None}]
    BY <1>0, StakeType
  <2> HIDE DEF wagers
  <2>4. final' \in Final
    BY <1>0, <2>1, <2>2, <2>3 DEF Final, TypeOK
  <2> QED
    BY <1>0, <2>1, <2>4 DEF Phases, TypeOK
<1> QED
  BY <1>1, <1>2

\* The round after the current one, when the break promises one.
BreakNamesARound ==
  phase = "round-break" /\ breakNextStage = "round" => roundIndex + 1 \in Round

\* Ending a round or the game and leaving a break keep the types when a break names a round.
LEMMA StagingType == TypeInv /\ BreakNamesARound /\ Staging => TypeInv'
<1> SUFFICES ASSUME TypeInv, BreakNamesARound, Staging PROVE TypeInv'
  OBVIOUS
<1>0. TypeOK /\ HoldersAreSeated
  BY DEF TypeInv
<1>1. CASE EndRound({}) /\ UNCHANGED <<standingVars, roundIndex, timeExpired, controlEntity,
                                       firstSelectorRoundOne, scores, endVars>>
  <2>1. TypeOK'
    BY <1>0, <1>1, EndRoundType DEF TypeOK, Phases, standingVars, seatVars, endVars
  <2>2. HoldersAreSeated'
    BY <1>0, <1>1, EndRoundType DEF HoldersAreSeated, Seated, standingVars, seatVars, endVars
  <2> QED
    BY <2>1, <2>2 DEF TypeInv
<1>2. CASE HostEndsRound
  BY <1>1, <1>2 DEF HostEndsRound
<1>3. CASE RoundTimeout
  <2>1. CASE /\ timeExpired' = [timeExpired EXCEPT ![roundIndex] = TRUE]
             /\ UNCHANGED <<standingVars, phase, roundIndex, controlEntity,
                            firstSelectorRoundOne, clue, breakNextStage, scores, endVars>>
    BY <1>0, <2>1 DEF TypeInv, TypeOK, HoldersAreSeated, Seated, standingVars, seatVars,
                      endVars
  <2> QED
    BY <1>1, <1>3, <2>1 DEF RoundTimeout
<1>4. CASE EndGame
  <2>1. Leaders(scores) \in SUBSET Entity
    BY <1>0, InOrderType DEF Leaders, TypeOK
  <2>2. TypeOK'
    BY <1>0, <1>4, <2>1 DEF EndGame, TypeOK, Phases, standingVars, seatVars
  <2>3. HoldersAreSeated'
    BY <1>0, <1>4 DEF EndGame, HoldersAreSeated, Seated, standingVars, seatVars
  <2> QED
    BY <2>2, <2>3 DEF TypeInv
<1>5. CASE Proceed
  <2>0. UNCHANGED <<standingVars, timeExpired, scores>> /\ phase = "round-break"
    BY <1>5 DEF Proceed
  <2>1. CASE /\ breakNextStage = "round" /\ UNCHANGED endVars
             /\ \E e \in LaterSelectors :
                  StartRound(roundIndex + 1, e, hidden[roundIndex + 1], {})
    <3>1. PICK e \in LaterSelectors :
                 StartRound(roundIndex + 1, e, hidden[roundIndex + 1], {})
      BY <2>1
    <3>2. e \in Entity \cup {None}
      BY <1>0, InOrderType DEF LaterSelectors, FirstSelectors, TypeOK
    <3>3. roundIndex + 1 \in Round /\ hidden[roundIndex + 1] \in SUBSET Cell
      BY <1>0, <2>0, <2>1 DEF BreakNamesARound, TypeOK
    <3>4. /\ phase' \in Phases /\ clue' \in Clue \cup {None}
          /\ clue' # None => clue'.buzzWinner = None
          /\ roundIndex' \in Round /\ breakNextStage' = None
          /\ controlEntity' \in Entity \cup {None}
          /\ firstSelectorRoundOne' \in Entity \cup {None}
      BY <1>0, <3>1, <3>2, <3>3, StartRoundType DEF TypeOK
    <3>5. TypeOK'
      BY <1>0, <2>0, <2>1, <3>4 DEF TypeOK, standingVars, seatVars, endVars
    <3>6. HoldersAreSeated'
      BY <1>0, <2>0, <2>1, <3>4
      DEF HoldersAreSeated, Seated, standingVars, seatVars, endVars
    <3> QED
      BY <3>5, <3>6 DEF TypeInv
  \* Into the final, or straight to the finish: the board stays as it is.
  <2>2. CASE /\ breakNextStage' = None
             /\ UNCHANGED <<roundIndex, controlEntity, firstSelectorRoundOne, clue>>
             /\ StartFinal \/ (FinishGame(scores, {}) /\ UNCHANGED final)
    <3>1. /\ phase' \in Phases /\ final' \in Final \cup {None}
          /\ winners' \in (SUBSET Entity) \cup {None}
          /\ tiebreaker' \in Tiebreaker \cup {None}
          /\ tiebreaker' = tiebreaker \/ tiebreaker'.buzzWinner = None
      BY <1>0, <2>2, StartFinalType, FinishGameType DEF TypeOK, Phases
    <3>2. TypeOK'
      BY <1>0, <2>0, <2>2, <3>1 DEF TypeOK, standingVars, seatVars
    <3>3. HoldersAreSeated'
      BY <1>0, <2>0, <2>2, <3>1 DEF HoldersAreSeated, Seated, standingVars, seatVars
    <3> QED
      BY <3>2, <3>3 DEF TypeInv
  <2> QED
    BY <1>5, <2>1, <2>2 DEF Proceed
<1> QED
  BY <1>2, <1>3, <1>4, <1>5 DEF Staging

\* Sudden death keeps the types.
LEMMA SuddenDeathType == TypeInv /\ SuddenDeath => TypeInv'
<1> SUFFICES ASSUME TypeInv, SuddenDeath PROVE TypeInv'
  OBVIOUS
<1>0. /\ TypeOK /\ phase \in Phases /\ scores \in [Entity -> Int]
      /\ final \in Final \cup {None} /\ winners \in (SUBSET Entity) \cup {None}
      /\ tiebreaker # None => tiebreaker \in Tiebreaker /\ Seated(tiebreaker.buzzWinner)
  BY DEF TypeInv, TypeOK, HoldersAreSeated
\* A tiebreaker that changes only who is out and who holds it.
<1>1. ASSUME UNCHANGED <<boardSideVars, scores, final, winners>>, phase' \in Phases,
             tiebreaker' \in Tiebreaker, Seated(tiebreaker'.buzzWinner)
      PROVE  TypeInv'
  BY <1>0, <1>1, BoardSideType
<1>2. CASE ArmTiebreaker
  <2>1. tiebreaker' \in Tiebreaker /\ tiebreaker'.buzzWinner = None
    BY <1>0, <1>2 DEF ArmTiebreaker, Tiebreaker
  <2> QED
    BY <1>1, <1>2, <2>1 DEF ArmTiebreaker, Phases, Seated
<1>3. ASSUME NEW p \in Player, TiebreakerBuzz(p) PROVE TypeInv'
  <2>1. tiebreaker' \in Tiebreaker /\ tiebreaker'.buzzWinner = p /\ seat[p] # None
    BY <1>0, <1>3 DEF TiebreakerBuzz, Tiebreaker
  <2> QED
    BY <1>1, <1>3, <2>1 DEF TiebreakerBuzz, Phases, Seated
<1>4. CASE TiebreakerBuzzTimeout
  <2>1. tiebreaker' \in Tiebreaker /\ tiebreaker'.buzzWinner = tiebreaker.buzzWinner
    BY <1>0, <1>4 DEF TiebreakerBuzzTimeout, Tiebreaker
  <2> QED
    BY <1>0, <1>1, <1>4, <2>1 DEF TiebreakerBuzzTimeout, Phases
<1>5. ASSUME NEW v \in {"correct", "wrong", "no-penalty"}, JudgeTiebreaker(v) PROVE TypeInv'
  <2> DEFINE e == seat[tiebreaker.buzzWinner]
             eliminated == tiebreaker.eliminated \cup (IF v = "wrong" THEN {e} ELSE {})
  <2>1. tiebreaker # None /\ e \in Entity /\ UNCHANGED <<boardSideVars, scores, final>>
    BY <1>0, <1>5 DEF JudgeTiebreaker, Seated, Tiebreaker, TypeOK
  <2>2. CASE tiebreaker' = None /\ winners' = {e} /\ phase' = "game-over"
    BY <1>0, <2>1, <2>2, BoardSideType DEF Phases
  <2>3. CASE /\ tiebreaker' = [tiebreaker EXCEPT !.eliminated = eliminated,
                                                 !.buzzWinner = None]
             /\ phase' \in {"tiebreaker-reading", "tiebreaker-armed"} /\ UNCHANGED winners
    <3>1. eliminated \in SUBSET Entity
      BY <1>0, <2>1 DEF Tiebreaker
    <3> HIDE DEF eliminated, e
    <3>2. tiebreaker' \in Tiebreaker /\ tiebreaker'.buzzWinner = None
      BY <1>0, <2>1, <2>3, <3>1 DEF Tiebreaker
    <3> QED
      BY <1>1, <2>1, <2>3, <3>2 DEF Phases, Seated
  <2> QED
    BY <1>5, <2>2, <2>3 DEF JudgeTiebreaker
<1>6. CASE TiebreakerNextClue
  <2>1. tiebreaker' \in Tiebreaker /\ tiebreaker'.buzzWinner = None
    BY <1>0, <1>6 DEF TiebreakerNextClue, Tiebreaker
  <2> QED
    BY <1>1, <1>6, <2>1 DEF TiebreakerNextClue, Phases, Seated
<1> QED
  BY <1>2, <1>3, <1>4, <1>5, <1>6 DEF SuddenDeath

\* Host surgery keeps the types.
LEMMA SurgeryType == TypeInv /\ Surgery => TypeInv'
<1> SUFFICES ASSUME TypeInv, Surgery PROVE TypeInv'
  OBVIOUS
<1>1. ASSUME NEW e \in Entity, NEW score \in Int, HostScores(e, score) PROVE TypeInv'
  <2>1. scores' \in [Entity -> Int]
    BY <1>1 DEF HostScores, TypeInv, TypeOK
  <2> QED
    BY <1>1, <2>1, BoardSideType
    DEF HostScores, endVars, TypeInv, TypeOK, HoldersAreSeated
<1>2. ASSUME NEW e \in Entity, NEW delta \in ScoreInputs, ScoreAdjust(e, delta) PROVE TypeInv'
  <2>1. scores[e] + delta \in Int
    BY InputAssumption DEF TypeInv, TypeOK
  <2> QED
    BY <1>1, <1>2, <2>1 DEF ScoreAdjust
<1>3. ASSUME NEW e \in Entity, NEW score \in ScoreInputs, ScoreSet(e, score) PROVE TypeInv'
  BY <1>1, <1>3, InputAssumption DEF ScoreSet
<1> QED
  BY <1>2, <1>3 DEF Surgery

-----------------------------------------------------------------------------
(* The board: a clue is live exactly in the clue phases, and a board waiting   *)
(* for a selection has a cell to select and time left.  Both rest on the       *)
(* boards of later rounds being untouched, and on the break naming a round     *)
(* only when there is one.                                                     *)

LaterBoardsAreFresh ==
  phase # "lobby" => \A r \in Round : r > roundIndex => hidden[r] = Cell /\ ~timeExpired[r]

BoardInv == /\ ClueMatchesPhase
            /\ SelectionIsPossible
            /\ LaterBoardsAreFresh
            /\ BreakNamesARound

USE DEF CluePhases, FinalPhases, TiebreakerPhases

\* A fresh lobby satisfies the board invariant.
LEMMA BoardInit == Init => BoardInv
BY DEF Init, BoardInv, ClueMatchesPhase, SelectionIsPossible, LaterBoardsAreFresh,
       BreakNamesARound

\* presentClue opens the clue of the cell it was asked for, in reading or wagering.
LEMMA PresentClueBoard ==
  ASSUME NEW r, NEW c, NEW control, NEW events, PresentClue(r, c, control, events)
  PROVE  /\ phase' \in {"wagering", "reading"}
         /\ clue' # None => clue'.round = r /\ clue'.cell = c
  BY DEF PresentClue, FreshClue

\* endRound announces a further round only when there is one.
LEMMA EndRoundBoard ==
  ASSUME TypeInv, LaterBoardsAreFresh, NEW events, EndRound(events), phase # "lobby",
         roundIndex' = roundIndex, timeExpired' = timeExpired,
         \A r \in Round : r > roundIndex => hidden'[r] = hidden[r]
  PROVE  BoardInv'
<1>1. phase' = "round-break" /\ clue' = None /\ breakNextStage' = NextStage
  BY DEF EndRound
<1>2. breakNextStage' = "round" => roundIndex + 1 \in Round
  BY <1>1, RoundAssumption DEF NextStage, Round, TypeInv, TypeOK
<1> QED
  BY <1>1, <1>2 DEF BoardInv, ClueMatchesPhase, SelectionIsPossible, LaterBoardsAreFresh,
                    BreakNamesARound

\* closeClue leaves a finished round, the next clue of the sweep, or a playable board.
LEMMA CloseClueBoard ==
  ASSUME TypeInv, BoardInv, phase \in CluePhases, NEW control \in Entity \cup {None},
         NEW events, CloseClue(control, events)
  PROVE  BoardInv'
<1> DEFINE r == clue.round
           left == hidden[r] \ {clue.cell}
           next == IF rules.nextSelector = "rotate" THEN NextInRotation(control) ELSE control
           told == events \cup {"clue-finished"}
                     \cup (IF rules.nextSelector = "rotate" THEN {"control-assigned"} ELSE {})
<1>1. /\ clue \in Clue /\ r = roundIndex /\ r \in Round
      /\ hidden \in [Round -> SUBSET Cell] /\ left \in SUBSET Cell
  BY DEF TypeInv, TypeOK, BoardInv, ClueMatchesPhase, Clue
<1>2. /\ hidden' = [hidden EXCEPT ![r] = left]
      /\ roundIndex' = roundIndex /\ timeExpired' = timeExpired
  BY DEF CloseClue, boardVars
<1>3. LaterBoardsAreFresh
  BY DEF BoardInv
<1>4. hidden'[r] = left /\ \A q \in Round : q > roundIndex => hidden'[q] = hidden[q]
  BY <1>1, <1>2 DEF TypeInv, TypeOK, Round
<1>5. CASE RoundIsOver(r, left)
  <2>1. EndRound(told)
    BY <1>5 DEF CloseClue
  <2> HIDE DEF r, left, next, told
  <2> QED
    BY <1>1, <1>2, <1>3, <1>4, <2>1, EndRoundBoard
<1>6. CASE ~RoundIsOver(r, left) /\ rules.nextSelector = "auto-sweep"
  <2>1. PresentClue(r, SweepCell(left), next, told) /\ breakNextStage' = breakNextStage
    BY <1>6 DEF CloseClue
  <2>2. SweepCell(left) \in left
    BY <1>1, <1>6, SweepCellInBoard DEF RoundIsOver
  <2> HIDE DEF left, next, told
  <2>3. next \in Entity \cup {None}
    BY NextInRotationType, InOrderType DEF next, TypeInv, TypeOK
  <2>4. clue' \in Clue /\ SweepCell(left) \in Cell
    BY <1>1, <2>1, <2>2, <2>3, PresentClueType
  <2>5. /\ phase' \in {"wagering", "reading"} /\ clue' # None
        /\ clue'.round = r /\ clue'.cell = SweepCell(left)
    BY <2>1, <2>4, PresentClueBoard, NoneAssumption
  <2> QED
    BY <1>1, <1>2, <1>3, <1>4, <2>2, <2>5
    DEF BoardInv, ClueMatchesPhase, SelectionIsPossible, LaterBoardsAreFresh, BreakNamesARound
<1>7. CASE ~RoundIsOver(r, left) /\ rules.nextSelector # "auto-sweep"
  <2>1. phase' = "awaiting-selection" /\ clue' = None
    BY <1>7 DEF CloseClue, AwaitSelection
  <2>2. left # {} /\ ~timeExpired[r]
    BY <1>7 DEF RoundIsOver
  <2> HIDE DEF left, next, told
  <2> QED
    BY <1>1, <1>2, <1>3, <1>4, <2>1, <2>2
    DEF BoardInv, ClueMatchesPhase, SelectionIsPossible, LaterBoardsAreFresh, BreakNamesARound
<1> QED
  BY <1>5, <1>6, <1>7

\* startRound on a fresh board opens it for selection or presents its first cell.
LEMMA StartRoundBoard ==
  ASSUME NEW r \in Round, NEW selector \in Entity \cup {None}, NEW events,
         StartRound(r, selector, Cell, events), hidden'[r] = Cell, ~timeExpired'[r],
         \A q \in Round : q > r => hidden'[q] = Cell /\ ~timeExpired'[q]
  PROVE  BoardInv'
<1>0. Cell # {} /\ roundIndex' = r
  BY RoundAssumption DEF Cell, StartRound
<1> DEFINE told == events \cup {"round-started", "control-assigned"}
                     \cup Clocked("round-time-limit", "round-time-limit")
<1>1. CASE rules.nextSelector = "auto-sweep"
  <2>1. PresentClue(r, SweepCell(Cell), None, told)
    BY <1>0, <1>1 DEF StartRound
  <2>2. SweepCell(Cell) \in Cell
    BY <1>0, SweepCellInBoard
  <2> HIDE DEF told
  <2>3. clue' \in Clue
    BY <2>1, <2>2, PresentClueType
  <2>4. /\ phase' \in {"wagering", "reading"} /\ clue' # None
        /\ clue'.round = r /\ clue'.cell = SweepCell(Cell)
    BY <2>1, <2>3, PresentClueBoard, NoneAssumption
  <2> QED
    BY <1>0, <2>2, <2>4
    DEF BoardInv, ClueMatchesPhase, SelectionIsPossible, LaterBoardsAreFresh, BreakNamesARound
<1>2. CASE rules.nextSelector # "auto-sweep"
  <2>1. phase' = "awaiting-selection" /\ clue' = None
    BY <1>2 DEF StartRound, AwaitSelection
  <2> QED
    BY <1>0, <2>1
    DEF BoardInv, ClueMatchesPhase, SelectionIsPossible, LaterBoardsAreFresh, BreakNamesARound
<1> QED
  BY <1>1, <1>2

\* A handler that moves between clue phases keeps the cell of the clue.
LEMMA TableBoard ==
  ASSUME BoardInv, UNCHANGED tableVars, phase \in CluePhases, phase' \in CluePhases,
         clue' # None, clue'.round = clue.round, clue'.cell = clue.cell
  PROVE  BoardInv'
  BY DEF BoardInv, ClueMatchesPhase, SelectionIsPossible, LaterBoardsAreFresh,
         BreakNamesARound, tableVars, boardVars

\* Stuttering on the board.
LEMMA SameBoard ==
  ASSUME BoardInv, UNCHANGED <<phase, clue, hidden, roundIndex, timeExpired, breakNextStage>>
  PROVE  BoardInv'
  BY DEF BoardInv, ClueMatchesPhase, SelectionIsPossible, LaterBoardsAreFresh,
         BreakNamesARound

\* The final and sudden death run with the board put away.
LEMMA AwayFromBoard ==
  ASSUME BoardInv, UNCHANGED boardSideVars,
         phase \in FinalPhases \cup TiebreakerPhases,
         phase' \in FinalPhases \cup TiebreakerPhases \cup {"game-over"}
  PROVE  BoardInv'
  BY DEF BoardInv, ClueMatchesPhase, SelectionIsPossible, LaterBoardsAreFresh,
         BreakNamesARound, boardSideVars, standingVars

\* Joining, leaving and returning leave the board alone.
LEMMA SeatingBoard == BoardInv /\ Seating => BoardInv'
BY SameBoard DEF Seating, PlayerReturns, PlayerJoins, PlayerLeave, gameVars, boardVars

\* Starting the game, picking and reopening cells keep the board invariant.
LEMMA SelectingBoard == TypeInv /\ BoardInv /\ Selecting => BoardInv'
<1> SUFFICES ASSUME TypeInv, BoardInv, Selecting PROVE BoardInv'
  OBVIOUS
<1>0. /\ roundIndex \in Round /\ controlEntity \in Entity \cup {None}
      /\ hidden \in [Round -> SUBSET Cell]
  BY DEF TypeInv, TypeOK
<1>1. CASE StartGame
  <2>1. PICK e \in FirstSelectors : StartRound(0, e, Cell, {"game-started"})
    BY <1>1 DEF StartGame
  <2>2. e \in Entity \cup {None}
    BY InOrderType DEF FirstSelectors, TypeInv, TypeOK
  <2>3. 0 \in Round /\ \A r \in Round : hidden'[r] = Cell /\ ~timeExpired'[r]
    BY <1>1, RoundAssumption DEF StartGame, Round
  <2> QED
    BY <2>1, <2>2, <2>3, StartRoundBoard
<1>2. ASSUME NEW c \in hidden[roundIndex], phase = "awaiting-selection",
             PresentClue(roundIndex, c, controlEntity, {}), UNCHANGED <<tableVars, scores>>
      PROVE  BoardInv'
  <2>1. clue' \in Clue
    BY <1>0, <1>2, PresentClueType
  <2>2. /\ phase' \in {"wagering", "reading"} /\ clue' # None
        /\ clue'.round = roundIndex /\ clue'.cell = c
    BY <1>2, <2>1, PresentClueBoard, NoneAssumption
  <2> QED
    BY <1>2, <2>2
    DEF BoardInv, ClueMatchesPhase, SelectionIsPossible, LaterBoardsAreFresh,
        BreakNamesARound, tableVars, boardVars
<1>3. ASSUME NEW c \in Cell, NEW by \in Entity \cup {None}, SelectCell(c, by) PROVE BoardInv'
  BY <1>2, <1>3 DEF SelectCell
<1>4. CASE SelectionTimeout
  BY <1>2, <1>4 DEF SelectionTimeout
<1>5. ASSUME NEW c \in Cell, ReopenCell(c) PROVE BoardInv'
  <2>1. /\ hidden' = [hidden EXCEPT ![roundIndex] = @ \cup {c}] /\ phase = "awaiting-selection"
        /\ UNCHANGED <<phase, clue, roundIndex, timeExpired>>
    BY <1>5 DEF ReopenCell, boardVars
  <2>2. /\ hidden'[roundIndex] = hidden[roundIndex] \cup {c}
        /\ \A r \in Round : r > roundIndex => hidden'[r] = hidden[r]
    BY <1>0, <2>1 DEF Round
  <2> QED
    BY <2>1, <2>2
    DEF BoardInv, ClueMatchesPhase, SelectionIsPossible, LaterBoardsAreFresh, BreakNamesARound
<1> QED
  BY <1>1, <1>3, <1>4, <1>5 DEF Selecting

\* Arming, pressing and the buzz window keep the board invariant.
LEMMA BuzzingBoard == TypeInv /\ BoardInv /\ Buzzing => BoardInv'
<1> SUFFICES ASSUME TypeInv, BoardInv, Buzzing PROVE BoardInv'
  OBVIOUS
<1>0. /\ clue # None => clue \in Clue
      /\ controlEntity \in Entity \cup {None}
  BY DEF TypeInv, TypeOK
\* An arming, a lockout or a won buzz leaves the cell of the clue alone.
<1>1. ASSUME clue # None, UNCHANGED tableVars, phase \in {"reading", "armed"},
             phase' \in {"reading", "armed", "answering", "all-answering"},
             clue' \in Clue, clue'.round = clue.round, clue'.cell = clue.cell
      PROVE  BoardInv'
  BY <1>1, TableBoard, NoneAssumption
<1>2. CASE ArmBuzzers
  <2>1. clue' \in Clue /\ clue'.round = clue.round /\ clue'.cell = clue.cell
    BY <1>0, <1>2 DEF ArmBuzzers, Clue
  <2> QED
    BY <1>1, <1>2, <2>1 DEF ArmBuzzers
<1>3. ASSUME NEW p \in Player, EarlyBuzz(p) PROVE BoardInv'
  <2>1. EarlyKey(p) \in Entity
    BY <1>3 DEF EarlyKey, EarlyBuzz, TypeInv, TypeOK
  <2>2. clue' \in Clue /\ clue'.round = clue.round /\ clue'.cell = clue.cell
    BY <1>0, <1>3, <2>1 DEF EarlyBuzz, Clue
  <2> QED
    BY <1>1, <1>3, <2>2 DEF EarlyBuzz
<1>4. ASSUME NEW p \in Player, BuzzWins(p) PROVE BoardInv'
  <2>1. clue' \in Clue /\ clue'.round = clue.round /\ clue'.cell = clue.cell
    BY <1>0, <1>4 DEF BuzzWins, InTheRace, Clue
  <2> QED
    BY <1>1, <1>4, <2>1 DEF BuzzWins, InTheRace
<1>5. ASSUME NEW p \in Player, BuzzLocked(p) PROVE BoardInv'
  BY <1>0, <1>1, <1>5 DEF BuzzLocked, InTheRace
<1>6. CASE BuzzTimeout
  BY <1>0, <1>6, CloseClueBoard DEF BuzzTimeout
<1> QED
  BY <1>2, <1>3, <1>4, <1>5, <1>6 DEF Buzzing

\* afterMiss on a clue that is being answered.
LEMMA AfterMissBoard ==
  ASSUME TypeInv, BoardInv, phase \in CluePhases, NEW e \in Entity, NEW lockOut \in BOOLEAN,
         AfterMiss(e, lockOut)
  PROVE  BoardInv'
<1>0. clue \in Clue /\ clue # None /\ controlEntity \in Entity \cup {None}
  BY DEF TypeInv, TypeOK, BoardInv, ClueMatchesPhase
<1>1. CASE CloseClue(controlEntity, {"judged"})
  BY <1>0, <1>1, CloseClueBoard
<1>2. CASE ~CloseClue(controlEntity, {"judged"})
  <2>1. LockedOutAfter(e, lockOut) \in SUBSET Entity
    BY <1>0 DEF LockedOutAfter, Clue
  <2>2. /\ clue' = [clue EXCEPT !.lockedOut = LockedOutAfter(e, lockOut), !.buzzWinner = None]
        /\ phase' = "armed" /\ UNCHANGED tableVars
    BY <1>2 DEF AfterMiss
  <2>3. clue' \in Clue /\ clue'.round = clue.round /\ clue'.cell = clue.cell
    BY <1>0, <2>1, <2>2 DEF Clue
  <2> QED
    BY <2>2, <2>3, TableBoard, NoneAssumption
<1> QED
  BY <1>1, <1>2

\* afterCorrect closes the clue and keeps the board invariant.
LEMMA AfterCorrectBoard ==
  ASSUME TypeInv, BoardInv, phase \in CluePhases, NEW e \in Entity, NEW stake,
         AfterCorrect(e, stake)
  PROVE  BoardInv'
<1> DEFINE control == IF rules.nextSelector = "last-correct" THEN e ELSE controlEntity
<1>1. control \in Entity \cup {None} /\ CloseClue(control, {"judged"})
  BY DEF AfterCorrect, TypeInv, TypeOK
<1> HIDE DEF control
<1> QED
  BY <1>1, CloseClueBoard

\* Verdicts, host awards and a cancelled clue keep the board invariant.
LEMMA JudgingBoard == TypeInv /\ BoardInv /\ Judging => BoardInv'
<1> SUFFICES ASSUME TypeInv, BoardInv, Judging PROVE BoardInv'
  OBVIOUS
<1>0. /\ TypeOK /\ HoldersAreSeated /\ controlEntity \in Entity \cup {None}
      /\ clue # None => clue \in Clue
  BY DEF TypeInv, TypeOK
<1>1. ASSUME clue # None, clue.buzzWinner # None
      PROVE  seat[clue.buzzWinner] \in Entity
  BY <1>0, <1>1 DEF HoldersAreSeated, Seated, TypeOK, Clue
<1>2. ASSUME clue # None, clue.selectedBy # None
      PROVE  clue.selectedBy \in Entity
  BY <1>0, <1>2 DEF Clue
<1>3. ASSUME NEW v \in {"correct", "wrong", "no-penalty"}, JudgeBuzz(v) PROVE BoardInv'
  <2>1. seat[clue.buzzWinner] \in Entity /\ phase = "answering"
    BY <1>1, <1>3 DEF JudgeBuzz
  <2> QED
    BY <1>3, <2>1, AfterMissBoard, AfterCorrectBoard DEF JudgeBuzz
<1>4. ASSUME NEW v \in {"correct", "wrong", "no-penalty"}, JudgeWager(v) PROVE BoardInv'
  <2>1. clue.selectedBy \in Entity /\ phase = "wager-answering"
    BY <1>2, <1>4 DEF JudgeWager
  <2> QED
    BY <1>0, <1>4, <2>1, CloseClueBoard, AfterCorrectBoard DEF JudgeWager
<1>5. CASE OverTime
  BY <1>5, SameBoard DEF OverTime, tableVars, boardVars
<1>6. CASE AnswerTimeoutBuzz
  <2>1. seat[clue.buzzWinner] \in Entity /\ phase = "answering"
    BY <1>1, <1>6 DEF AnswerTimeoutBuzz
  <2> QED
    BY <1>6, <2>1, AfterMissBoard DEF AnswerTimeoutBuzz
<1>7. CASE AnswerTimeoutWager
  BY <1>0, <1>7, CloseClueBoard DEF AnswerTimeoutWager
<1>8. ASSUME NEW e \in Entity, NEW v \in {"correct", "wrong"}, HostAward(e, v) PROVE BoardInv'
  <2>1. CASE AfterCorrect(e, Value(clue))
    BY <1>8, <2>1, AfterCorrectBoard DEF HostAward
  <2>2. CASE ~AfterCorrect(e, Value(clue))
    <3>1. /\ clue # None /\ phase \in CluePhases /\ UNCHANGED <<tableVars, phase>>
          /\ clue' = [clue EXCEPT !.lockedOut =
                        @ \cup (IF rules.wrongLockedOut THEN {e} ELSE {})]
      BY <1>8, <2>2 DEF HostAward
    <3>2. clue' \in Clue /\ clue'.round = clue.round /\ clue'.cell = clue.cell
      BY <1>0, <3>1 DEF Clue
    <3> QED
      BY <3>1, <3>2, TableBoard, NoneAssumption
  <2> QED
    BY <2>1, <2>2
<1>9. CASE CancelClue
  BY <1>0, <1>9, CloseClueBoard DEF CancelClue
<1> QED
  BY <1>3, <1>4, <1>5, <1>6, <1>7, <1>8, <1>9 DEF Judging

\* Wager entry and its timeout keep the board invariant.
LEMMA WageringBoard == TypeInv /\ BoardInv /\ Wagering => BoardInv'
<1> SUFFICES ASSUME TypeInv, BoardInv, Wagering PROVE BoardInv'
  OBVIOUS
<1>0. clue # None => clue \in Clue
  BY DEF TypeInv, TypeOK
<1>1. ASSUME NEW amount \in Int, clue # None, phase = "wagering", CommitAmount(amount)
      PROVE  BoardInv'
  <2>1. clue' \in Clue /\ clue'.round = clue.round /\ clue'.cell = clue.cell
    BY <1>0, <1>1 DEF CommitAmount, Clue
  <2> QED
    BY <1>1, <2>1, TableBoard, NoneAssumption DEF CommitAmount
<1>2. rules.minimumWager \in Int
  BY RulesAssumption DEF TypeInv, TypeOK, RulesType
<1> QED
  BY <1>1, <1>2, InputAssumption DEF Wagering, CommitWager, WagerTimeout

\* Typed capture and its judging keep the board invariant.
LEMMA TypingBoard == TypeInv /\ BoardInv /\ Typing => BoardInv'
<1> SUFFICES ASSUME TypeInv, BoardInv, Typing PROVE BoardInv'
  OBVIOUS
<1>0. /\ controlEntity \in Entity \cup {None}
      /\ clue # None => clue \in Clue /\ clue.submissions \in Seq(Entity)
      /\ \A p \in Player : seat[p] \in Entity \cup {None}
  BY DEF TypeInv, TypeOK, Clue
\* Recording submissions or verdicts leaves the cell of the clue alone.
<1>1. ASSUME clue # None, clue' \in Clue, clue'.round = clue.round, clue'.cell = clue.cell,
             UNCHANGED tableVars, phase \in CluePhases, phase' \in CluePhases
      PROVE  BoardInv'
  BY <1>1, TableBoard, NoneAssumption
<1>2. ASSUME NEW submissions \in Seq(Entity), clue # None,
             clue' = [clue EXCEPT !.submissions = submissions]
      PROVE  clue' \in Clue /\ clue'.round = clue.round /\ clue'.cell = clue.cell
  BY <1>0, <1>2 DEF Clue
<1>3. ASSUME NEW submissions \in Seq(Entity), NEW events, clue # None,
             phase = "all-answering", CloseEveryoneAnswers(submissions, events)
      PROVE  BoardInv'
  <2>1. CASE submissions = <<>>
    BY <1>0, <1>3, <2>1, CloseClueBoard DEF CloseEveryoneAnswers
  <2>2. CASE submissions # <<>>
    BY <1>1, <1>2, <1>3, <2>2 DEF CloseEveryoneAnswers
  <2> QED
    BY <2>1, <2>2
<1>4. ASSUME NEW p \in Player, seat[p] # None, clue # None
      PROVE  Append(clue.submissions, seat[p]) \in Seq(Entity)
  <2>1. seat[p] \in Entity
    BY <1>0, <1>4
  <2> QED
    BY <1>0, <1>4, <2>1, AppendProperties
<1>5. ASSUME NEW p \in Player, SubmitTypedAnswer(p) PROVE BoardInv'
  <2> DEFINE submissions == IF seat[p] \in Submitted THEN clue.submissions
                            ELSE Append(clue.submissions, seat[p])
  <2>1. /\ clue # None /\ seat[p] # None /\ UNCHANGED <<tableVars, phase>>
        /\ phase = "answering" /\ clue' = [clue EXCEPT !.submissions = submissions]
    BY <1>5 DEF SubmitTypedAnswer
  <2>2. submissions \in Seq(Entity)
    BY <1>0, <1>4, <2>1
  <2> HIDE DEF submissions
  <2> QED
    BY <1>1, <1>2, <2>1, <2>2
<1>6. ASSUME NEW p \in Player, SubmitEveryoneAnswer(p) PROVE BoardInv'
  <2> DEFINE submissions == Append(clue.submissions, seat[p])
  <2>1. clue # None /\ seat[p] # None /\ phase = "all-answering"
    BY <1>6 DEF SubmitEveryoneAnswer
  <2>2. submissions \in Seq(Entity)
    BY <1>4, <2>1
  <2>3. \/ CloseEveryoneAnswers(submissions, {"answer-submitted"})
        \/ /\ clue' = [clue EXCEPT !.submissions = submissions]
           /\ UNCHANGED <<tableVars, phase>>
    BY <1>6 DEF SubmitEveryoneAnswer
  <2> HIDE DEF submissions
  <2> QED
    BY <1>1, <1>2, <1>3, <2>1, <2>2, <2>3
<1>7. CASE CloseAnswers
  BY <1>0, <1>3, <1>7 DEF CloseAnswers
<1>8. ASSUME NEW e \in Entity, NEW v \in {"correct", "wrong"}, JudgeSubmission(e, v)
      PROVE  BoardInv'
  <2> DEFINE correct == clue.correct \cup (IF v = "correct" THEN {e} ELSE {})
             wrong == clue.wrong \cup (IF v = "wrong" THEN {e} ELSE {})
             ranks == {i \in DOMAIN clue.submissions : clue.submissions[i] \in correct}
             fastest == clue.submissions[CHOOSE i \in ranks : \A j \in ranks : i <= j]
             control == IF rules.nextSelector = "last-correct" /\ ranks # {}
                          THEN fastest ELSE controlEntity
  <2>0. clue # None /\ phase = "all-judging" /\ clue \in Clue
    BY <1>0, <1>8 DEF JudgeSubmission
  <2>2. CASE CloseClue(control, {"judged"})
    <3>1. control \in Entity \cup {None}
      <4>1. CASE ranks # {}
        <5>1. ranks \subseteq 1 .. Len(clue.submissions) /\ ranks # {}
          BY <1>0, <2>0, <4>1
        <5> HIDE DEF ranks
        <5>2. (CHOOSE i \in ranks : \A j \in ranks : i <= j) \in ranks
          <6>1. ranks \in SUBSET Nat
            BY <1>0, <2>0, <5>1
          <6> QED
            BY <5>1, <6>1, LeastIndex, Zenon
        <5>3. fastest \in Entity
          BY <1>0, <2>0, <5>1, <5>2
        <5> HIDE DEF fastest
        <5> QED
          BY <1>0, <5>3
      <4> QED
        BY <1>0, <4>1
    <3> HIDE DEF control
    <3> QED
      BY <2>0, <2>2, <3>1, CloseClueBoard
  <2>3. CASE ~CloseClue(control, {"judged"})
    <3>1. /\ clue' = [clue EXCEPT !.correct = correct, !.wrong = wrong]
          /\ UNCHANGED <<tableVars, phase>>
      BY <1>8, <2>3 DEF JudgeSubmission
    <3>2. correct \in SUBSET Entity /\ wrong \in SUBSET Entity
      BY <2>0 DEF Clue
    <3> HIDE DEF correct, wrong
    <3>3. clue' \in Clue /\ clue'.round = clue.round /\ clue'.cell = clue.cell
      BY <2>0, <3>1, <3>2 DEF Clue
    <3> QED
      BY <1>1, <2>0, <3>1, <3>3
  <2> QED
    BY <2>2, <2>3
<1> QED
  BY <1>5, <1>6, <1>7, <1>8 DEF Typing

\* The final round plays no board clue.
LEMMA FinalRoundBoard == BoardInv /\ FinalRound => BoardInv'
<1> SUFFICES ASSUME BoardInv, FinalRound PROVE BoardInv'
  OBVIOUS
<1>1. ASSUME NEW e \in Entity, NEW v \in {"correct", "wrong"}, JudgeFinalEntity(e, v)
      PROVE  BoardInv'
  BY <1>1, AwayFromBoard DEF JudgeFinalEntity, FinishGame
<1> QED
  BY <1>1, AwayFromBoard
  DEF FinalRound, CommitFinalWager, FinalWagerTimeout, SubmitFinalAnswer,
      FinalWritingTimeout, StartReveal

\* Sudden death plays no board clue.
LEMMA SuddenDeathBoard == BoardInv /\ SuddenDeath => BoardInv'
BY AwayFromBoard
DEF SuddenDeath, ArmTiebreaker, TiebreakerBuzz, TiebreakerBuzzTimeout, JudgeTiebreaker,
    TiebreakerNextClue

\* Host surgery moves scores, never the board.
LEMMA SurgeryBoard == BoardInv /\ Surgery => BoardInv'
BY SameBoard DEF Surgery, ScoreAdjust, ScoreSet, HostScores, boardSideVars, standingVars

\* Ending a round or the game and leaving a break keep the board invariant.
LEMMA StagingBoard == TypeInv /\ BoardInv /\ Staging => BoardInv'
<1> SUFFICES ASSUME TypeInv, BoardInv, Staging PROVE BoardInv'
  OBVIOUS
<1>0. roundIndex \in Round /\ timeExpired \in [Round -> BOOLEAN] /\ LaterBoardsAreFresh
  BY DEF TypeInv, TypeOK, BoardInv
<1>1. CASE /\ phase = "awaiting-selection" /\ EndRound({})
           /\ UNCHANGED <<standingVars, roundIndex, timeExpired>>
  BY <1>0, <1>1, EndRoundBoard DEF standingVars
<1>2. CASE HostEndsRound
  BY <1>1, <1>2 DEF HostEndsRound
<1>3. CASE RoundTimeout
  <2>1. CASE /\ phase \in CluePhases /\ UNCHANGED <<standingVars, phase, roundIndex, clue>>
             /\ timeExpired' = [timeExpired EXCEPT ![roundIndex] = TRUE]
    <3>0. timeExpired' = [timeExpired EXCEPT ![roundIndex] = TRUE]
      BY <2>1
    <3>1. \A r \in Round : r > roundIndex => timeExpired'[r] = timeExpired[r]
      <4> SUFFICES ASSUME NEW r \in Round, r > roundIndex
                   PROVE  timeExpired'[r] = timeExpired[r]
        OBVIOUS
      <4>1. r # roundIndex
        BY <1>0, RoundAssumption DEF Round
      <4>2. timeExpired \in [Round -> BOOLEAN]
        BY <1>0
      <4> QED
        BY <3>0, <4>1, <4>2, Zenon
    <3> QED
      BY <2>1, <3>1
      DEF BoardInv, ClueMatchesPhase, SelectionIsPossible, LaterBoardsAreFresh,
          BreakNamesARound, standingVars
  <2> QED
    BY <1>1, <1>3, <2>1 DEF RoundTimeout
<1>4. CASE EndGame
  BY <1>4 DEF EndGame, BoardInv, ClueMatchesPhase, SelectionIsPossible, LaterBoardsAreFresh,
              BreakNamesARound, standingVars
<1>5. CASE Proceed
  <2>0. UNCHANGED <<standingVars, timeExpired, scores>> /\ phase = "round-break"
    BY <1>5 DEF Proceed
  <2>1. CASE /\ breakNextStage = "round"
             /\ \E e \in LaterSelectors :
                  StartRound(roundIndex + 1, e, hidden[roundIndex + 1], {})
    <3>1. PICK e \in LaterSelectors :
                 StartRound(roundIndex + 1, e, hidden[roundIndex + 1], {})
      BY <2>1
    <3>2. e \in Entity \cup {None}
      BY InOrderType DEF LaterSelectors, FirstSelectors, TypeInv, TypeOK
    <3>3. roundIndex + 1 \in Round
      BY <2>0, <2>1 DEF BoardInv, BreakNamesARound
    <3>4. \A r \in Round : r >= roundIndex + 1 => hidden'[r] = Cell /\ ~timeExpired'[r]
      BY <1>0, <2>0 DEF LaterBoardsAreFresh, standingVars, Round
    <3>5. hidden[roundIndex + 1] = Cell
      BY <1>0, <2>0, <3>3 DEF LaterBoardsAreFresh, Round
    <3>6. /\ hidden'[roundIndex + 1] = Cell /\ ~timeExpired'[roundIndex + 1]
          /\ \A r \in Round : r > roundIndex + 1 => hidden'[r] = Cell /\ ~timeExpired'[r]
      BY <3>3, <3>4 DEF Round
    <3> QED
      BY <3>1, <3>2, <3>3, <3>5, <3>6, StartRoundBoard
  <2>2. CASE /\ UNCHANGED <<roundIndex, clue>>
             /\ phase' \in FinalPhases \cup TiebreakerPhases \cup {"game-over"}
    BY <2>0, <2>2 DEF BoardInv, ClueMatchesPhase, SelectionIsPossible,
                      LaterBoardsAreFresh, BreakNamesARound, standingVars
  <2> QED
    BY <1>5, <2>1, <2>2 DEF Proceed, StartFinal, FinishGame
<1> QED
  BY <1>2, <1>3, <1>4, <1>5 DEF Staging

-----------------------------------------------------------------------------
(* The inductive invariant and what it gives. *)

EngineInv == TypeInv /\ BoardInv

\* Every action of the engine keeps the whole invariant.
LEMMA EngineInvStep == EngineInv /\ [Next]_vars => EngineInv'
<1> SUFFICES ASSUME EngineInv, [Next]_vars PROVE EngineInv'
  OBVIOUS
<1>1. TypeInv /\ BoardInv /\ BreakNamesARound
  BY DEF EngineInv, BoardInv
<1>2. CASE UNCHANGED vars
  BY <1>1, <1>2
  DEF EngineInv, TypeInv, TypeOK, HoldersAreSeated, Seated, BoardInv, ClueMatchesPhase,
      SelectionIsPossible, LaterBoardsAreFresh, BreakNamesARound, vars
<1>3. CASE Seating
  BY <1>1, <1>3, SeatingType, SeatingBoard DEF EngineInv
<1>4. CASE Selecting
  BY <1>1, <1>4, SelectingType, SelectingBoard DEF EngineInv
<1>5. CASE Buzzing
  BY <1>1, <1>5, BuzzingType, BuzzingBoard DEF EngineInv
<1>6. CASE Judging
  BY <1>1, <1>6, JudgingType, JudgingBoard DEF EngineInv
<1>7. CASE Wagering
  BY <1>1, <1>7, WageringType, WageringBoard DEF EngineInv
<1>8. CASE Typing
  BY <1>1, <1>8, TypingType, TypingBoard DEF EngineInv
<1>9. CASE FinalRound
  BY <1>1, <1>9, FinalRoundType, FinalRoundBoard DEF EngineInv
<1>10. CASE Staging
  BY <1>1, <1>10, StagingType, StagingBoard DEF EngineInv
<1>11. CASE SuddenDeath
  BY <1>1, <1>11, SuddenDeathType, SuddenDeathBoard DEF EngineInv
<1>12. CASE Surgery
  BY <1>1, <1>12, SurgeryType, SurgeryBoard DEF EngineInv
<1> QED
  BY <1>2, <1>3, <1>4, <1>5, <1>6, <1>7, <1>8, <1>9, <1>10, <1>11, <1>12 DEF Next

\* The whole inductive invariant holds in every reachable state.
THEOREM EngineInvariant == Spec => []EngineInv
<1>1. Init => EngineInv
  BY TypeInit, BoardInit DEF EngineInv
<1> QED
  BY <1>1, EngineInvStep, PTL DEF Spec

\* Every part of the game state keeps its type, whatever the roster, the board and the rules.
THEOREM TypeCorrect == Spec => []TypeOK
<1>1. EngineInv => TypeOK
  BY DEF EngineInv, TypeInv
<1> QED
  BY <1>1, EngineInvariant, PTL

\* A clue phase always has its live clue, and no other running phase has one.
THEOREM ClueAlwaysMatchesPhase == Spec => []ClueMatchesPhase
<1>1. EngineInv => ClueMatchesPhase
  BY DEF EngineInv, BoardInv
<1> QED
  BY <1>1, EngineInvariant, PTL

\* A board that waits for a selection always has a cell to select and time left.
THEOREM SelectionAlwaysPossible == Spec => []SelectionIsPossible
<1>1. EngineInv => SelectionIsPossible
  BY DEF EngineInv, BoardInv
<1> QED
  BY <1>1, EngineInvariant, PTL

=============================================================================
