------------------------- MODULE EngineRefines_proofs -----------------------
(***************************************************************************)
(* What GameEngine implements, for every roster, board and settings        *)
(* record: the race that the buzzers promise (BuzzRace), and the table by  *)
(* which the room drives it (EnginePhases, EngineTable).                   *)
(***************************************************************************)
EXTENDS EngineSafety_proofs

USE DEF Entity

-----------------------------------------------------------------------------
(* The buzzers keep the promise of BuzzRace, step by step.                     *)

\* A step that the abstract race allows.
RaceStep == [Race!Next]_(Race!raceVars)

\* A step out of every phase of the buzzers closes the race.
LEMMA RaceCloses ==
  ASSUME phase' \notin {"reading", "armed", "answering"} \cup TiebreakerPhases
  PROVE  RaceStep
<1>1. raceStage' = "off" /\ raceHolder' = None /\ raceBarred' = {}
  BY DEF raceStage, raceHolder, raceBarred, TiebreakerPhases
<1> QED
  BY <1>1 DEF RaceStep, Race!Next, Race!Close

\* A fresh clue deals a race.
LEMMA RaceDeals == ASSUME phase' = "reading", clue'.lockedOut = {} PROVE RaceStep
<1>1. raceStage' = "dead" /\ raceHolder' = None /\ raceBarred' = {}
  BY DEF raceStage, raceHolder, raceBarred
<1> QED
  BY <1>1 DEF RaceStep, Race!Next, Race!Deal

\* So does a fresh clue of sudden death.
LEMMA TieDeals ==
  ASSUME phase' = "tiebreaker-reading", tiebreaker'.eliminated = {} PROVE RaceStep
<1>1. raceStage' = "dead" /\ raceHolder' = None /\ raceBarred' = {}
  BY DEF raceStage, raceHolder, raceBarred, TiebreakerPhases
<1> QED
  BY <1>1 DEF RaceStep, Race!Next, Race!Deal

\* Dealing, whatever it deals, is a step of the race.
LEMMA DealRace == ASSUME NEW control, Dealt(control) PROVE RaceStep
<1>1. CASE phase' = "reading" /\ clue'.lockedOut = {}
  BY <1>1, RaceDeals
<1>2. CASE phase' \in {"awaiting-selection", "round-break", "wagering"}
  <2>1. phase' \notin {"reading", "armed", "answering"} \cup TiebreakerPhases
    BY <1>2 DEF TiebreakerPhases
  <2> QED
    BY <2>1, RaceCloses
<1> QED
  BY <1>1, <1>2 DEF Dealt

\* A clue that closes is a step of the race, wherever control goes.
LEMMA CloseClueRace ==
  ASSUME NEW control, NEW events, CloseClue(control, events)
  PROVE  RaceStep
<1>1. CASE \E told : EndRound(told) \/ AwaitSelection(told)
  <2>1. phase' \in {"awaiting-selection", "round-break"}
    BY <1>1 DEF EndRound, AwaitSelection
  <2>2. phase' \notin {"reading", "armed", "answering"} \cup TiebreakerPhases
    BY <2>1 DEF TiebreakerPhases
  <2> QED
    BY <2>2, RaceCloses
<1>2. ASSUME NEW r, NEW c, NEW next, NEW told, PresentClue(r, c, next, told) PROVE RaceStep
  BY <1>2, PresentClueDeals, DealRace
<1> QED
  BY <1>1, <1>2 DEF CloseClue

\* A step that changes neither phase, clue, tiebreaker nor a holder's seat is none.
LEMMA RaceStutters ==
  ASSUME UNCHANGED <<phase, clue, tiebreaker>>,
         phase = "answering" => seat'[clue.buzzWinner] = seat[clue.buzzWinner],
         phase = "tiebreaker-answering" =>
           seat'[tiebreaker.buzzWinner] = seat[tiebreaker.buzzWinner]
  PROVE  RaceStep
  BY DEF RaceStep, Race!raceVars, raceStage, raceHolder, raceBarred

\* Joining moves no holder.
LEMMA SeatingRace == GameInv /\ Seating => RaceStep
<1> SUFFICES ASSUME GameInv, Seating PROVE RaceStep
  OBVIOUS
<1>1. seat \in [Player -> Entity \cup {None}] /\ (clue # None => clue \in Clue)
      /\ (tiebreaker # None => tiebreaker \in Tiebreaker)
  BY DEF GameInv, EngineInv, TypeInv, TypeOK
<1>2. UNCHANGED <<phase, clue, tiebreaker>>
  BY DEF Seating, PlayerReturns, PlayerJoins, PlayerLeave, gameVars, endVars
<1>3. \A q \in Player : seat[q] # None => seat'[q] = seat[q]
  <2>1. ASSUME NEW p \in Player, NEW t \in Team \cup {None}, PlayerJoins(p, t)
        PROVE  \A q \in Player : seat[q] # None => seat'[q] = seat[q]
    BY <1>1, <2>1 DEF PlayerJoins
  <2> QED
    BY <2>1 DEF Seating, PlayerReturns, PlayerLeave
<1>4. phase = "answering" => clue.buzzWinner \in Player /\ seat[clue.buzzWinner] # None
  <2>1. None \notin InOrder
    BY InOrderType, NoneAssumption DEF GameInv, EngineInv, TypeInv, TypeOK
  <2>2. phase = "answering" => clue \in Clue
    BY <1>1 DEF GameInv, EngineInv, BoardInv, ClueMatchesPhase, CluePhases
  <2> QED
    BY <2>1, <2>2 DEF GameInv, ClueInv, ClueFloor, Clue
<1>5. phase = "tiebreaker-answering" =>
        tiebreaker.buzzWinner \in Player /\ seat[tiebreaker.buzzWinner] # None
  <2>1. phase = "tiebreaker-answering" => tiebreaker \in Tiebreaker
    BY <1>1 DEF GameInv, EndInv, TieFloor, TiebreakerPhases
  <2> QED
    BY <2>1, NoneAssumption DEF GameInv, EndInv, TieFloor, Tiebreaker
<1> QED
  BY <1>2, <1>3, <1>4, <1>5, RaceStutters

\* Starting and picking deal.
LEMMA SelectingRace == GameInv /\ Selecting => RaceStep
<1> SUFFICES ASSUME GameInv, Selecting PROVE RaceStep
  OBVIOUS
<1>1. CASE StartGame
  <2>1. PICK e \in InOrder \cup {None} : StartRound(0, e, Cell, {"game-started"})
    BY <1>1 DEF StartGame, FirstSelectors
  <2> QED
    BY <2>1, StartRoundDeals, DealRace
<1>2. ASSUME NEW c, PresentClue(roundIndex, c, controlEntity, {}) PROVE RaceStep
  BY <1>2, PresentClueDeals, DealRace
<1>3. ASSUME NEW c \in Cell, ReopenCell(c) PROVE RaceStep
  BY <1>3, RaceStutters DEF ReopenCell, seatVars, endVars
<1> QED
  BY <1>1, <1>2, <1>3 DEF Selecting, SelectCell, SelectionTimeout

\* An arming opens the race, the first valid press wins it.
LEMMA BuzzingRace == GameInv /\ Buzzing => RaceStep
<1> SUFFICES ASSUME GameInv, Buzzing PROVE RaceStep
  OBVIOUS
<1>0. /\ clue # None => clue \in Clue
      /\ seat \in [Player -> Entity \cup {None}]
  BY DEF GameInv, EngineInv, TypeInv, TypeOK
<1>1. CASE ArmBuzzers
  <2>1. CASE phase' = "all-answering"
    <3>1. phase' \notin {"reading", "armed", "answering"} \cup TiebreakerPhases
      BY <2>1 DEF TiebreakerPhases
    <3> QED
      BY <3>1, RaceCloses
  <2>2. CASE phase' = "armed" /\ clue' = [clue EXCEPT !.buzzWinner = None]
    <3>1. phase = "reading" /\ clue'.lockedOut = clue.lockedOut
      BY <1>0, <1>1, <2>2 DEF ArmBuzzers, Clue
    <3> QED
      BY <2>2, <3>1 DEF RaceStep, Race!Next, Race!Arm, raceStage, raceHolder, raceBarred
  <2> QED
    BY <1>1, <2>1, <2>2 DEF ArmBuzzers
<1>2. ASSUME NEW p \in Player, EarlyBuzz(p) PROVE RaceStep
  <2>1. /\ phase = "reading" /\ phase' = phase
        /\ clue'.lockedOut = clue.lockedOut
    BY <1>0, <1>2 DEF EarlyBuzz, Clue
  <2> QED
    BY <2>1 DEF RaceStep, Race!raceVars, raceStage, raceHolder, raceBarred
<1>3. ASSUME NEW p \in Player, BuzzWins(p) PROVE RaceStep
  <2>1. /\ phase = "armed" /\ phase' = "answering"
        /\ clue'.lockedOut = clue.lockedOut /\ clue'.buzzWinner = p
        /\ seat' = seat /\ seat[p] \in Entity \ clue.lockedOut
    BY <1>0, <1>3 DEF BuzzWins, InTheRace, Clue, tableVars, seatVars
  <2>2. /\ raceStage = "open" /\ raceStage' = "held" /\ raceHolder' = seat[p]
        /\ raceBarred = clue.lockedOut /\ raceBarred' = clue.lockedOut
    BY <2>1 DEF raceStage, raceHolder, raceBarred
  <2> QED
    BY <2>1, <2>2 DEF RaceStep, Race!Next, Race!Win
<1>4. ASSUME NEW p \in Player, BuzzLocked(p) PROVE RaceStep
  BY <1>4, RaceStutters DEF BuzzLocked, tableVars, seatVars, endVars
<1>5. CASE BuzzTimeout
  BY <1>5, CloseClueRace DEF BuzzTimeout
<1> QED
  BY <1>1, <1>2, <1>3, <1>4, <1>5 DEF Buzzing

\* A miss ends the holding: the buzzers open again, or the clue is closed.
LEMMA AfterMissRace ==
  ASSUME GameInv, phase = "answering", clue # None, NEW lockOut,
         AfterMiss(seat[clue.buzzWinner], lockOut)
  PROVE  RaceStep
<1> DEFINE e == seat[clue.buzzWinner]
<1>0. clue \in Clue
  BY DEF GameInv, EngineInv, TypeInv, TypeOK
<1>1. CASE CloseClue(controlEntity, {"judged"})
  BY <1>1, CloseClueRace
<1>2. CASE /\ phase' = "armed"
           /\ clue' = [clue EXCEPT !.lockedOut = LockedOutAfter(e, lockOut),
                                   !.buzzWinner = None]
  <2>1. clue'.lockedOut = LockedOutAfter(e, lockOut)
    BY <1>0, <1>2 DEF Clue
  <2>2. /\ clue.lockedOut \subseteq clue'.lockedOut
        /\ clue'.lockedOut \subseteq clue.lockedOut \cup {e}
    BY <2>1 DEF LockedOutAfter
  <2>3. /\ raceStage = "held" /\ raceStage' = "open" /\ raceHolder = e /\ raceHolder' = None
        /\ raceBarred = clue.lockedOut /\ raceBarred' = clue'.lockedOut
    BY <1>2 DEF raceStage, raceHolder, raceBarred
  <2> HIDE DEF e
  <2> QED
    BY <2>2, <2>3 DEF RaceStep, Race!Next, Race!Miss
<1> QED
  BY <1>1, <1>2 DEF AfterMiss

\* Verdicts close the race, reopen it or bar an entity.
LEMMA JudgingRace == GameInv /\ Judging => RaceStep
<1> SUFFICES ASSUME GameInv, Judging PROVE RaceStep
  OBVIOUS
<1>0. clue # None => clue \in Clue
  BY DEF GameInv, EngineInv, TypeInv, TypeOK
<1>1. ASSUME NEW e, NEW stake, AfterCorrect(e, stake) PROVE RaceStep
  BY <1>1, CloseClueRace DEF AfterCorrect
<1>2. ASSUME NEW v, JudgeBuzz(v) PROVE RaceStep
  <2>1. phase = "answering" /\ clue # None
    BY <1>2 DEF JudgeBuzz
  <2>2. \/ AfterCorrect(seat[clue.buzzWinner], Value(clue))
        \/ AfterMiss(seat[clue.buzzWinner], TRUE)
        \/ AfterMiss(seat[clue.buzzWinner], FALSE)
    BY <1>2 DEF JudgeBuzz
  <2> QED
    BY <1>1, <2>1, <2>2, AfterMissRace
<1>3. ASSUME NEW v, JudgeWager(v) PROVE RaceStep
  BY <1>1, <1>3, CloseClueRace DEF JudgeWager
<1>4. CASE OverTime
  BY <1>4, RaceStutters DEF OverTime, tableVars, seatVars, endVars
<1>5. CASE AnswerTimeoutBuzz
  BY <1>5, AfterMissRace DEF AnswerTimeoutBuzz
<1>6. CASE AnswerTimeoutWager \/ CancelClue
  BY <1>6, CloseClueRace DEF AnswerTimeoutWager, CancelClue
<1>7. ASSUME NEW e \in Entity, NEW v, HostAward(e, v) PROVE RaceStep
  <2>1. phase \in {"reading", "armed"} /\ clue \in Clue /\ e \in InOrder
    BY <1>0, <1>7 DEF HostAward
  <2>2. CASE AfterCorrect(e, Value(clue))
    BY <1>1, <2>1, <2>2
  <2>3. CASE /\ clue' = [clue EXCEPT !.lockedOut =
                          @ \cup (IF rules.wrongLockedOut THEN {e} ELSE {})]
             /\ phase' = phase
    <3>1. clue'.lockedOut \in {clue.lockedOut, clue.lockedOut \cup {e}}
      BY <2>1, <2>3 DEF Clue
    <3>2. /\ raceStage \in {"dead", "open"} /\ raceStage' = raceStage
          /\ raceHolder' = raceHolder
          /\ raceBarred = clue.lockedOut /\ raceBarred' = clue'.lockedOut
      BY <2>1, <2>3 DEF raceStage, raceHolder, raceBarred
    <3> QED
      BY <3>1, <3>2 DEF RaceStep, Race!Next, Race!Bar, Race!raceVars
  <2> QED
    BY <1>7, <2>2, <2>3 DEF HostAward
<1> QED
  BY <1>2, <1>3, <1>4, <1>5, <1>6, <1>7 DEF Judging

\* Stakes and submissions happen away from the buzzers, or while one holds them.
LEMMA AnswersRace == GameInv /\ (Wagering \/ Typing) => RaceStep
<1> SUFFICES ASSUME GameInv, Wagering \/ Typing PROVE RaceStep
  OBVIOUS
<1>0. clue # None => clue \in Clue
  BY DEF GameInv, EngineInv, TypeInv, TypeOK
<1>1. ASSUME phase' \in {"wager-answering", "all-answering", "all-judging"} PROVE RaceStep
  <2>1. phase' \notin {"reading", "armed", "answering"} \cup TiebreakerPhases
    BY <1>1 DEF TiebreakerPhases
  <2> QED
    BY <2>1, RaceCloses
<1>2. CASE Wagering
  BY <1>1, <1>2 DEF Wagering, CommitWager, WagerTimeout, CommitAmount
<1>3. ASSUME NEW p \in Player, SubmitTypedAnswer(p) PROVE RaceStep
  <2>1. /\ phase = "answering" /\ phase' = phase /\ seat' = seat
        /\ clue'.lockedOut = clue.lockedOut /\ clue'.buzzWinner = clue.buzzWinner
    BY <1>0, <1>3 DEF SubmitTypedAnswer, Clue, tableVars, seatVars
  <2> QED
    BY <2>1 DEF RaceStep, Race!raceVars, raceStage, raceHolder, raceBarred
<1>4. ASSUME NEW s, NEW events, CloseEveryoneAnswers(s, events) PROVE RaceStep
  BY <1>1, <1>4, CloseClueRace DEF CloseEveryoneAnswers
<1>5. ASSUME NEW p \in Player, SubmitEveryoneAnswer(p) PROVE RaceStep
  BY <1>1, <1>4, <1>5 DEF SubmitEveryoneAnswer
<1>6. ASSUME NEW e \in Entity, NEW v, JudgeSubmission(e, v) PROVE RaceStep
  <2>1. CASE phase' = phase
    BY <1>1, <1>6, <2>1 DEF JudgeSubmission
  <2>2. CASE \E control : CloseClue(control, {"judged"})
    <3>1. PICK control : CloseClue(control, {"judged"})
      BY <2>2
    <3> QED
      BY <3>1, CloseClueRace
  <2> QED
    BY <1>6, <2>1, <2>2 DEF JudgeSubmission
<1> QED
  BY <1>2, <1>3, <1>4, <1>5, <1>6 DEF Typing, CloseAnswers

\* finishGame closes the race or deals the first clue of sudden death.
LEMMA FinishGameRace == ASSUME NEW sc, NEW events, FinishGame(sc, events) PROVE RaceStep
<1>1. CASE phase' = "game-over"
  <2>1. phase' \notin {"reading", "armed", "answering"} \cup TiebreakerPhases
    BY <1>1 DEF TiebreakerPhases
  <2> QED
    BY <2>1, RaceCloses
<1>2. CASE phase' = "tiebreaker-reading" /\ tiebreaker'.eliminated = {}
  BY <1>2, TieDeals
<1> QED
  BY <1>1, <1>2 DEF FinishGame

\* The final and the stages are off the race, up to the finish.
LEMMA StagesRace == GameInv /\ (FinalRound \/ Staging) => RaceStep
<1> SUFFICES ASSUME GameInv, FinalRound \/ Staging PROVE RaceStep
  OBVIOUS
<1>1. ASSUME phase' \in FinalPhases \cup {"round-break", "game-over"} PROVE RaceStep
  <2>1. phase' \notin {"reading", "armed", "answering"} \cup TiebreakerPhases
    BY <1>1 DEF FinalPhases, TiebreakerPhases
  <2> QED
    BY <2>1, RaceCloses
<1>2. CASE FinalRound
  <2>1. ASSUME NEW e, NEW amount, CommitFinalWager(e, amount) PROVE RaceStep
    BY <1>1, <2>1 DEF CommitFinalWager, FinalPhases
  <2>2. ASSUME NEW e, SubmitFinalAnswer(e) PROVE RaceStep
    BY <1>1, <2>2 DEF SubmitFinalAnswer, StartReveal, FinalPhases
  <2>3. CASE FinalWagerTimeout \/ FinalWritingTimeout
    BY <1>1, <2>3 DEF FinalWagerTimeout, FinalWritingTimeout, StartReveal, FinalPhases
  <2>4. ASSUME NEW e, NEW v, JudgeFinalEntity(e, v) PROVE RaceStep
    <3>1. FinishGame(scores', {"final-judged"}) \/ (phase' = phase /\ phase = "final-reveal")
      BY <2>4 DEF JudgeFinalEntity
    <3> QED
      BY <1>1, <3>1, FinishGameRace DEF FinalPhases
  <2> QED
    BY <1>2, <2>1, <2>2, <2>3, <2>4 DEF FinalRound
<1>3. CASE HostEndsRound \/ EndGame
  BY <1>1, <1>3 DEF HostEndsRound, EndRound, EndGame
<1>4. CASE RoundTimeout
  <2>1. CASE EndRound({})
    BY <1>1, <2>1 DEF EndRound
  <2>2. CASE UNCHANGED <<phase, clue, tiebreaker, seat>>
    BY <2>2, RaceStutters
  <2> QED
    BY <1>4, <2>1, <2>2 DEF RoundTimeout, standingVars, seatVars, endVars
<1>5. CASE Proceed
  <2>1. ASSUME NEW e \in LaterSelectors, NEW r, NEW cells, StartRound(r, e, cells, {})
        PROVE  RaceStep
    <3>1. e \in InOrder \cup {None}
      BY DEF LaterSelectors, FirstSelectors
    <3> QED
      BY <2>1, <3>1, StartRoundDeals, DealRace
  <2>2. CASE StartFinal
    <3>1. phase' \in FinalPhases \/ FinishGame(scores, {"final-skipped"})
      BY <2>2 DEF StartFinal, FinalPhases
    <3> QED
      BY <1>1, <3>1, FinishGameRace
  <2> QED
    BY <1>5, <2>1, <2>2, FinishGameRace DEF Proceed
<1> QED
  BY <1>2, <1>3, <1>4, <1>5 DEF Staging

\* Sudden death runs the same race among the tied.
LEMMA SuddenDeathRace == GameInv /\ SuddenDeath => RaceStep
<1> SUFFICES ASSUME GameInv, SuddenDeath PROVE RaceStep
  OBVIOUS
<1>0. /\ tiebreaker # None => tiebreaker \in Tiebreaker
      /\ seat \in [Player -> Entity \cup {None}]
  BY DEF GameInv, EngineInv, TypeInv, TypeOK
<1>1. CASE ArmTiebreaker
  <2>1. /\ phase = "tiebreaker-reading" /\ phase' = "tiebreaker-armed"
        /\ tiebreaker'.eliminated = tiebreaker.eliminated
    BY <1>0, <1>1 DEF ArmTiebreaker, Tiebreaker
  <2>2. /\ raceStage = "dead" /\ raceStage' = "open"
        /\ raceHolder = None /\ raceHolder' = None
        /\ raceBarred = tiebreaker.eliminated /\ raceBarred' = tiebreaker.eliminated
    BY <2>1 DEF raceStage, raceHolder, raceBarred, TiebreakerPhases
  <2> QED
    BY <2>2 DEF RaceStep, Race!Next, Race!Arm
<1>2. ASSUME NEW p \in Player, TiebreakerBuzz(p) PROVE RaceStep
  <2>1. /\ phase = "tiebreaker-armed" /\ phase' = "tiebreaker-answering" /\ seat' = seat
        /\ tiebreaker'.eliminated = tiebreaker.eliminated /\ tiebreaker'.buzzWinner = p
        /\ seat[p] \in Entity \ tiebreaker.eliminated
    BY <1>0, <1>2
    DEF TiebreakerBuzz, StillIn, Tiebreaker, boardSideVars, standingVars, seatVars
  <2>2. /\ raceStage = "open" /\ raceStage' = "held" /\ raceHolder' = seat[p]
        /\ raceBarred = tiebreaker.eliminated /\ raceBarred' = tiebreaker.eliminated
    BY <2>1 DEF raceStage, raceHolder, raceBarred, TiebreakerPhases
  <2> QED
    BY <2>1, <2>2 DEF RaceStep, Race!Next, Race!Win
<1>3. CASE TiebreakerBuzzTimeout \/ TiebreakerNextClue
  <2>1. phase' = "tiebreaker-reading" /\ tiebreaker'.eliminated = {}
    BY <1>0, <1>3 DEF TiebreakerBuzzTimeout, TiebreakerNextClue, Tiebreaker
  <2> QED
    BY <2>1, TieDeals
<1>4. ASSUME NEW v, JudgeTiebreaker(v) PROVE RaceStep
  <2> DEFINE e == seat[tiebreaker.buzzWinner]
             eliminated == tiebreaker.eliminated \cup (IF v = "wrong" THEN {e} ELSE {})
  <2>1. CASE phase' = "game-over"
    <3>1. phase' \notin {"reading", "armed", "answering"} \cup TiebreakerPhases
      BY <2>1 DEF TiebreakerPhases
    <3> QED
      BY <3>1, RaceCloses
  <2>2. CASE /\ tiebreaker' = [tiebreaker EXCEPT !.eliminated = eliminated,
                                                 !.buzzWinner = None]
             /\ phase' \in {"tiebreaker-reading", "tiebreaker-armed"}
    <3>1. phase = "tiebreaker-answering" /\ tiebreaker'.eliminated = eliminated
      BY <1>0, <1>4, <2>2 DEF JudgeTiebreaker, Tiebreaker
    <3>2. /\ tiebreaker.eliminated \subseteq eliminated
          /\ eliminated \subseteq tiebreaker.eliminated \cup {e}
      OBVIOUS
    <3>3. /\ raceStage = "held" /\ raceStage' \in {"open", "dead"}
          /\ raceHolder = e /\ raceHolder' = None
          /\ raceBarred = tiebreaker.eliminated /\ raceBarred' = tiebreaker'.eliminated
      BY <2>2, <3>1 DEF raceStage, raceHolder, raceBarred, TiebreakerPhases
    <3> HIDE DEF e, eliminated
    <3> QED
      BY <3>1, <3>2, <3>3 DEF RaceStep, Race!Next, Race!Miss
  <2> QED
    BY <1>4, <2>1, <2>2 DEF JudgeTiebreaker
<1> QED
  BY <1>1, <1>2, <1>3, <1>4 DEF SuddenDeath

\* The engine keeps the promise of the buzzers ("buzz-won fires EXACTLY ONCE per arming",
\* events.ts) in every game: on board clues and in sudden death, under every settings record,
\* whoever joins, misses, is barred by the host or eliminated.
THEOREM EngineImplementsRace == Spec => ImplementsRace
<1>1. Init => Race!Init
  BY DEF Init, Race!Init, raceStage, raceHolder, raceBarred, TiebreakerPhases
<1>2. GameInv /\ [Next]_vars => RaceStep
  <2> SUFFICES ASSUME GameInv, [Next]_vars PROVE RaceStep
    OBVIOUS
  <2>1. CASE Surgery
    BY <2>1, RaceStutters DEF Surgery, ScoreAdjust, ScoreSet, HostScores, boardSideVars,
                              standingVars, seatVars, endVars
  <2>2. CASE UNCHANGED vars
    BY <2>2, RaceStutters DEF vars
  <2> QED
    BY <2>1, <2>2, SeatingRace, SelectingRace, BuzzingRace, JudgingRace, AnswersRace,
       StagesRace, SuddenDeathRace DEF Next
<1> QED
  BY <1>1, <1>2, GameInvariant, PTL DEF Spec, ImplementsRace, Race!Spec, RaceStep

-----------------------------------------------------------------------------
(* The driver's table: every action of the engine answers as one row says.     *)

\* A step that the table allows.
PhaseStep == [Driver!Next]_(Driver!vars)
\* Whether the present board's clock is spent, and the engine's state as the driver keeps it.
late == timeExpired[roundIndex]
table == [phase |-> phase, latched |-> late]

\* What the driver sees of a set of events: the timers it asks for, and how it reads.
Says(events, kinds, word) ==
  /\ events \cap Driver!Kind = kinds
  /\ \/ word = "silent" /\ events = {}
     \/ /\ word = "told" /\ events # {}
        /\ "game-started" \notin events /\ "game-over" \notin events
     \/ word = "started" /\ "game-started" \in events /\ "game-over" \notin events
     \/ word = "over" /\ "game-over" \in events /\ "game-started" \notin events

\* The step answers as the table's outcome o does.
Matches(o) == phase' = o.to /\ Says(out', o.sets, o.word) /\ rules' = rules

\* An action that answers as one outcome of its row does is a step of EnginePhases.
LEMMA StepOfTable ==
  ASSUME NEW type \in Driver!Type, NEW o \in Driver!Outcomes(table, rules.clocks, type),
         Matches(o), late' = Driver!Latches(table, type, o)
  PROVE  PhaseStep
<1>1. Driver!game = table
  BY DEF Driver!game, table, late
<1>2. narration' = o.word
  BY DEF Matches, Says, narration
<1>3. o.sets = {"auto-arm", "selection-shot-clock", "buzz-window",
                "answer-window", "everyone-answers-window",
                "wager-entry", "final-wager", "final-writing",
                "round-time-limit"} \cap out'
  BY DEF Matches, Says, Driver!Kind
<1>4. Driver!Take(type)
  BY <1>1, <1>2, <1>3 DEF Driver!Take, Matches, late
<1> QED
  BY <1>4 DEF PhaseStep, Driver!Next

\* closeClue's outcomes are open to whatever may close a clue in the present phase.
LEMMA ClosingRows ==
  ASSUME NEW type, NEW o \in Driver!ClueCloses(table, rules.clocks),
         \/ type = "buzz-timeout" /\ phase = "armed"
         \/ type = "judge" /\ phase \in {"answering", "wager-answering"}
         \/ type = "answer-timeout" /\ phase \in {"answering", "wager-answering", "all-answering"}
         \/ type = "host-award" /\ phase \in {"reading", "armed"}
         \/ type = "cancel-clue" /\ phase \in CluePhases
         \/ type = "close-answers" /\ phase = "all-answering"
         \/ type = "judge-entity" /\ phase = "all-judging"
  PROVE  o \in Driver!Outcomes(table, rules.clocks, type)
<1>1. table.phase = phase
  BY DEF table
<1>2. CASE type = "buzz-timeout"
  BY <1>1, <1>2 DEF Driver!Outcomes, Driver!From
<1>3. CASE type = "judge"
  BY <1>1, <1>3 DEF Driver!Outcomes, Driver!From
<1>4. CASE type = "answer-timeout"
  BY <1>1, <1>4 DEF Driver!Outcomes, Driver!From
<1>5. CASE type = "host-award"
  BY <1>1, <1>5 DEF Driver!Outcomes, Driver!From
<1>6. CASE type = "cancel-clue"
  BY <1>1, <1>6 DEF Driver!Outcomes, Driver!From, Driver!OpenClue, CluePhases
<1>7. CASE type = "close-answers"
  BY <1>1, <1>7 DEF Driver!Outcomes, Driver!From
<1>8. CASE type = "judge-entity"
  BY <1>1, <1>8 DEF Driver!Outcomes, Driver!From
<1> QED
  BY <1>2, <1>3, <1>4, <1>5, <1>6, <1>7, <1>8

\* Seats, scores and presses that move no phase answer with Stays.
LEMMA StayingRows ==
  ASSUME NEW type,
         \/ type = "surgery"
         \/ type = "buzz" /\ phase \in {"reading", "armed"}
         \/ type = "judge-entity" /\ phase \in {"all-judging", "final-reveal"}
  PROVE  Driver!Told(phase, {}) \in Driver!Outcomes(table, rules.clocks, type)
<1>1. table.phase = phase
  BY DEF table
<1>2. CASE type = "surgery"
  BY <1>1, <1>2 DEF Driver!Outcomes, Driver!Stays
<1>3. CASE type = "buzz"
  BY <1>1, <1>3 DEF Driver!Outcomes, Driver!From, Driver!Stays
<1>4. CASE type = "judge-entity"
  BY <1>1, <1>4 DEF Driver!Outcomes, Driver!From, Driver!Stays
<1> QED
  BY <1>2, <1>3, <1>4

\* Only the round's clock and a new round move the latch.
LEMMA LatchStays ==
  ASSUME NEW type, type \notin {"round-timeout", "start-game"}, NEW o, late' = late,
         phase # "round-break" \/ o.to \notin {"awaiting-selection", "reading"}
  PROVE  late' = Driver!Latches(table, type, o)
  BY DEF Driver!Latches, table

-----------------------------------------------------------------------------
(* The flow spine, as the driver sees it.                                      *)

\* The events a handler passes on to it.
Opens(events, kinds, word) ==
  /\ events \cap Driver!Kind = kinds
  /\ "game-over" \notin events
  /\ word = IF "game-started" \in events THEN "started" ELSE "told"

\* The spine passes events on and adds its own.
LEMMA OpensMore ==
  ASSUME NEW events, NEW kinds, NEW word, Opens(events, kinds, word), NEW more,
         more # {}, more \cap {"game-started", "game-over"} = {}
  PROVE  Says(events \cup more, kinds \cup (more \cap Driver!Kind), word)
<1>1. (events \cup more) \cap Driver!Kind = kinds \cup (more \cap Driver!Kind)
  BY DEF Opens
<1> QED
  BY <1>1 DEF Opens, Says

\* The engine and the table agree which settings start a timer.
LEMMA ClockedIsOn ==
  ASSUME NEW clock, NEW kind
  PROVE  Driver!On(rules.clocks, clock, kind) = Clocked(clock, kind)
  BY DEF Driver!On, Clocked

\* enterAwaitingSelection, as the driver sees it.
LEMMA AwaitAnswers ==
  ASSUME NEW events, NEW kinds, NEW word, Opens(events, kinds, word),
         "round-started" \in events \/ "clue-finished" \in events,
         AwaitSelection(events)
  PROVE  /\ phase' = "awaiting-selection"
         /\ Says(out', kinds \cup Clocked("selection-shot-clock", "selection-shot-clock"), word)
<1> DEFINE more == Clocked("selection-shot-clock", "selection-shot-clock")
<1>1. more \in SUBSET {"selection-shot-clock"} /\ more \cap Driver!Kind = more
  BY DEF Clocked, Driver!Kind
<1>2. out' = events \cup more /\ phase' = "awaiting-selection"
  BY DEF AwaitSelection
<1>3. (events \cup more) \cap Driver!Kind = kinds \cup more
  BY <1>1 DEF Opens
<1> HIDE DEF more
<1>4. Says(out', kinds \cup more, word)
  BY <1>1, <1>2, <1>3 DEF Opens, Says
<1> QED
  BY <1>2, <1>4 DEF more

\* presentClue, as the driver sees it.
LEMMA PresentAnswers ==
  ASSUME NEW r, NEW c, NEW control, NEW events, NEW kinds, NEW word,
         Opens(events, kinds, word), PresentClue(r, c, control, events)
  PROVE  \/ /\ phase' = "wagering" /\ control # None
            /\ Says(out', kinds \cup Clocked("wager-timer", "wager-entry"), word)
         \/ /\ phase' = "reading"
            /\ Says(out', kinds \cup Clocked("auto-arm", "auto-arm"), word)
<1>1. CASE PlaysAsWager(r, c, control)
  <2> DEFINE more == {"cell-selected", "wager-cell-hit"} \cup Clocked("wager-timer", "wager-entry")
  <2>1. /\ more # {} /\ more \cap {"game-started", "game-over"} = {}
        /\ more \cap Driver!Kind = Clocked("wager-timer", "wager-entry")
    BY DEF Clocked, Driver!Kind
  <2>2. out' = events \cup more /\ phase' = "wagering" /\ control # None
    BY <1>1 DEF PresentClue, PlaysAsWager
  <2> HIDE DEF more
  <2>3. Says(events \cup more, kinds \cup (more \cap Driver!Kind), word)
    BY <2>1, OpensMore
  <2> QED
    BY <2>1, <2>2, <2>3
<1>2. CASE ~PlaysAsWager(r, c, control)
  <2> DEFINE more == {"cell-selected", "clue-presented"} \cup Clocked("auto-arm", "auto-arm")
  <2>1. /\ more # {} /\ more \cap {"game-started", "game-over"} = {}
        /\ more \cap Driver!Kind = Clocked("auto-arm", "auto-arm")
    BY DEF Clocked, Driver!Kind
  <2>2. out' = events \cup more /\ phase' = "reading"
    BY <1>2 DEF PresentClue
  <2> HIDE DEF more
  <2>3. Says(events \cup more, kinds \cup (more \cap Driver!Kind), word)
    BY <2>1, OpensMore
  <2> QED
    BY <2>1, <2>2, <2>3
<1> QED
  BY <1>1, <1>2

\* endRound, as the driver sees it.
LEMMA EndRoundAnswers ==
  ASSUME NEW events, Opens(events, {}, "told"), EndRound(events)
  PROVE  phase' = "round-break" /\ Says(out', {}, "told")
<1> DEFINE more == {"round-ended", "round-break"}
<1>1. more # {} /\ more \cap {"game-started", "game-over"} = {} /\ more \cap Driver!Kind = {}
  BY DEF Driver!Kind
<1>2. out' = events \cup more /\ phase' = "round-break"
  BY DEF EndRound
<1> HIDE DEF more
<1>3. Says(events \cup more, {} \cup (more \cap Driver!Kind), "told")
  BY <1>1, OpensMore
<1> QED
  BY <1>1, <1>2, <1>3

\* closeClue, as the driver sees it.
Closes == /\ \E o \in Driver!ClueCloses(table, rules.clocks) : Matches(o)
          /\ late' = late

\* Whatever closes a clue answers with one of the table's closings.
LEMMA CloseClueAnswers ==
  ASSUME GameInv, phase \in CluePhases, NEW control, NEW events, Opens(events, {}, "told"),
         CloseClue(control, events)
  PROVE  Closes
<1> DEFINE r == clue.round
           left == hidden[r] \ {clue.cell}
           rotates == rules.nextSelector = "rotate"
           next == IF rotates THEN NextInRotation(control) ELSE control
           told == events \cup {"clue-finished"}
                     \cup (IF rotates THEN {"control-assigned"} ELSE {})
<1>1. r = roundIndex
  BY DEF GameInv, EngineInv, BoardInv, ClueMatchesPhase
<1>2. late' = late /\ rules' = rules
  BY DEF CloseClue, late, boardVars
<1>3. Opens(told, {}, "told")
  BY DEF Opens, Driver!Kind
<1>4. "clue-finished" \in told
  OBVIOUS
<1>5. CASE EndRound(told)
  <2>1. Matches(Driver!Told("round-break", {}))
    <3> HIDE DEF told
    <3> QED BY <1>2, <1>3, <1>5, EndRoundAnswers DEF Matches, Driver!Told, Driver!Outcome
  <2> QED
    BY <1>2, <2>1 DEF Closes, Driver!ClueCloses, Driver!RoundEnds
<1>6. CASE ~timeExpired[r] /\ AwaitSelection(told)
  <2>1. Matches(Driver!Told("awaiting-selection",
                  Clocked("selection-shot-clock", "selection-shot-clock")))
    <3> HIDE DEF told
    <3> QED BY <1>2, <1>3, <1>4, <1>6, AwaitAnswers DEF Matches, Driver!Told, Driver!Outcome
  <2>2. ~table.latched
    BY <1>1, <1>6 DEF table, late
  <2> QED
    BY <1>2, <2>1, <2>2, ClockedIsOn DEF Closes, Driver!ClueCloses, Driver!BoardWaits
<1>7. CASE ~timeExpired[r] /\ \E c : PresentClue(r, c, next, told)
  <2>1. PICK c : PresentClue(r, c, next, told)
    BY <1>7
  <2>2. ~table.latched
    BY <1>1, <1>7 DEF table, late
  <2>3. \/ Matches(Driver!Told("wagering", Clocked("wager-timer", "wager-entry")))
        \/ Matches(Driver!Told("reading", Clocked("auto-arm", "auto-arm")))
    <3> HIDE DEF told, next
    <3> QED BY <1>2, <1>3, <2>1, PresentAnswers DEF Matches, Driver!Told, Driver!Outcome
  <2> QED
    BY <1>2, <2>2, <2>3, ClockedIsOn DEF Closes, Driver!ClueCloses, Driver!ClueUp, Driver!ClueReads
<1> QED
  BY <1>5, <1>6, <1>7 DEF CloseClue, RoundIsOver

\* startRound, as the driver sees it.
LEMMA StartRoundAnswers ==
  ASSUME NEW r, NEW selector, NEW cells, NEW events, NEW word, Opens(events, {}, word),
         StartRound(r, selector, cells, events), rules' = rules
  PROVE  \E o \in Driver!RoundOpens(rules.clocks, word) : Matches(o)
<1> DEFINE sweeps == rules.nextSelector = "auto-sweep"
           timed == Clocked("round-time-limit", "round-time-limit")
           told == events \cup {"round-started", "control-assigned"} \cup timed
<1>1. Opens(told, timed, word)
  BY DEF Opens, Driver!Kind, Clocked
<1>2. "round-started" \in told
  OBVIOUS
<1>3. CASE AwaitSelection(told)
  <2> DEFINE shot == Clocked("selection-shot-clock", "selection-shot-clock")
             o == Driver!Told("awaiting-selection", shot)
  <2>1. o \in Driver!BoardWaits(rules.clocks)
    BY ClockedIsOn DEF Driver!BoardWaits
  <2>2. Matches(Driver!Outcome(o.to, o.sets \cup timed, word))
    <3>1. phase' = "awaiting-selection" /\ Says(out', timed \cup shot, word)
      <4> HIDE DEF told, timed
      <4> QED BY <1>1, <1>2, <1>3, AwaitAnswers
    <3>2. timed \cup shot = shot \cup timed
      OBVIOUS
    <3> HIDE DEF timed, shot
    <3> QED
      BY <3>1, <3>2 DEF Matches, Driver!Told, Driver!Outcome
  <2> HIDE DEF o
  <2> QED
    BY <2>1, <2>2, ClockedIsOn DEF Driver!RoundOpens
<1>4. CASE \E c : PresentClue(r, c, None, told)
  <2> DEFINE arm == Clocked("auto-arm", "auto-arm")
             o == Driver!Told("reading", arm)
  <2>1. o \in Driver!ClueReads(rules.clocks)
    BY ClockedIsOn DEF Driver!ClueReads
  <2>2. PICK c : PresentClue(r, c, None, told)
    BY <1>4
  <2>3. Matches(Driver!Outcome(o.to, o.sets \cup timed, word))
    <3>1. phase' = "reading" /\ Says(out', timed \cup arm, word)
      <4> HIDE DEF told, timed
      <4> QED BY <1>1, <2>2, PresentAnswers
    <3>2. timed \cup arm = arm \cup timed
      OBVIOUS
    <3> HIDE DEF timed, arm
    <3> QED
      BY <3>1, <3>2 DEF Matches, Driver!Told, Driver!Outcome
  <2> HIDE DEF o
  <2> QED
    BY <2>1, <2>3, ClockedIsOn DEF Driver!RoundOpens
<1> QED
  BY <1>3, <1>4 DEF StartRound

\* finishGame, as the driver sees it.
LEMMA FinishGameAnswers ==
  ASSUME NEW sc, NEW events, Opens(events, {}, "told"), FinishGame(sc, events), rules' = rules
  PROVE  \E o \in Driver!Finishes : Matches(o)
<1>1. CASE phase' = "game-over" /\ out' = events \cup {"game-over"}
  <2>1. Says(out', {}, "over")
    BY <1>1 DEF Opens, Says, Driver!Kind
  <2> QED
    BY <1>1, <2>1 DEF Matches, Driver!Finishes, Driver!Outcome
<1>2. CASE phase' = "tiebreaker-reading" /\ out' = events \cup {"tiebreaker-started"}
  <2>1. Says(out', {}, "told")
    BY <1>2 DEF Opens, Says, Driver!Kind
  <2> QED
    BY <1>2, <2>1 DEF Matches, Driver!Finishes, Driver!Outcome, Driver!Told
<1> QED
  BY <1>1, <1>2 DEF FinishGame

-----------------------------------------------------------------------------
(* From an answer to a step, and every family of actions.                      *)

\* A step of one row, where no round begins and no clock latches.
Answers(type, to, kinds, word) ==
  /\ type \in Driver!Type \ {"round-timeout", "start-game"}
  /\ Driver!Outcome(to, kinds, word) \in Driver!Outcomes(table, rules.clocks, type)
  /\ phase' = to /\ Says(out', kinds, word)
  /\ phase # "round-break" \/ to \notin {"awaiting-selection", "reading"}

\* A row of its own.
LEMMA StepAnswers ==
  ASSUME NEW type, NEW to, NEW kinds, NEW word, Answers(type, to, kinds, word),
         late' = late, rules' = rules
  PROVE  PhaseStep
<1> DEFINE o == Driver!Outcome(to, kinds, word)
<1>1. o.to = to /\ o.sets = kinds /\ o.word = word
  BY DEF Driver!Outcome
<1>2. /\ o \in Driver!Outcomes(table, rules.clocks, type) /\ type \in Driver!Type
      /\ Matches(o) /\ late' = Driver!Latches(table, type, o)
  <2> HIDE DEF o
  <2>1. late' = Driver!Latches(table, type, o)
    BY <1>1, LatchStays DEF Answers
  <2>2. Matches(o)
    BY <1>1 DEF Answers, Matches
  <2>3. o \in Driver!Outcomes(table, rules.clocks, type) /\ type \in Driver!Type
    BY DEF Answers, o
  <2> QED
    BY <2>1, <2>2, <2>3
<1> HIDE DEF o
<1> QED
  BY <1>2, StepOfTable

\* Told, and no phase moved.
LEMMA StepStays ==
  ASSUME phase' = phase, late' = late, rules' = rules, Says(out', {}, "told")
  PROVE  PhaseStep
<1>1. Driver!Told(phase, {}) \in Driver!Outcomes(table, rules.clocks, "surgery")
  BY StayingRows
<1>2. CASE phase # "round-break" \/ phase \notin {"awaiting-selection", "reading"}
  <2>1. Answers("surgery", phase, {}, "told")
    BY <1>1, <1>2 DEF Answers, Driver!Told, Driver!Type
  <2> QED
    BY <2>1, StepAnswers
<1> QED
  BY <1>2

\* A clue closed by an action that may close it.
LEMMA StepCloses ==
  ASSUME NEW type, Closes,
         \/ type = "buzz-timeout" /\ phase = "armed"
         \/ type = "judge" /\ phase \in {"answering", "wager-answering"}
         \/ type = "answer-timeout" /\ phase \in {"answering", "wager-answering", "all-answering"}
         \/ type = "host-award" /\ phase \in {"reading", "armed"}
         \/ type = "cancel-clue" /\ phase \in CluePhases
         \/ type = "close-answers" /\ phase = "all-answering"
         \/ type = "judge-entity" /\ phase = "all-judging"
  PROVE  PhaseStep
<1>1. PICK o \in Driver!ClueCloses(table, rules.clocks) : Matches(o)
  BY DEF Closes
<1>2. o \in Driver!Outcomes(table, rules.clocks, type)
  BY ClosingRows
<1>3. type \in Driver!Type /\ type \notin {"round-timeout", "start-game"} /\ phase # "round-break"
  BY DEF Driver!Type, CluePhases
<1>4. late' = Driver!Latches(table, type, o)
  BY <1>3, LatchStays DEF Closes
<1> QED
  BY <1>1, <1>2, <1>3, <1>4, StepOfTable

\* Joins and leaves move no phase (lobby.ts).
LEMMA SeatingPhases == Seating => PhaseStep
<1> SUFFICES ASSUME Seating PROVE PhaseStep
  OBVIOUS
<1>1. phase' = phase /\ late' = late /\ rules' = rules
  BY DEF Seating, PlayerReturns, PlayerJoins, PlayerLeave, gameVars, late, boardVars
<1>2. \/ out' = {"player-joined"} \/ out' = {"player-left"}
      \/ out' = {"player-joined"} \cup {"late-join-score-needed"}
      \/ out' = {"player-joined"} \cup {}
  BY DEF Seating, PlayerReturns, PlayerJoins, PlayerLeave
<1>3. Says(out', {}, "told")
  BY <1>2 DEF Says, Driver!Kind
<1> QED
  BY <1>1, <1>3, StepStays

\* A handler that has no event of its own to pass on.
LEMMA NothingYet == Opens({}, {}, "told")
  BY DEF Opens

\* A cell selected by its owner or by the shot clock.
LEMMA PresentPhases ==
  ASSUME NEW type \in {"select-cell", "selection-timeout"}, NEW r, NEW c, NEW control,
         phase = "awaiting-selection", PresentClue(r, c, control, {}),
         late' = late, rules' = rules
  PROVE  PhaseStep
<1>1. \/ phase' = "wagering" /\ Says(out', {} \cup Clocked("wager-timer", "wager-entry"), "told")
      \/ phase' = "reading" /\ Says(out', {} \cup Clocked("auto-arm", "auto-arm"), "told")
  BY NothingYet, PresentAnswers
<1>2. Driver!Outcomes(table, rules.clocks, type) = Driver!ClueUp(rules.clocks)
  BY DEF Driver!Outcomes, Driver!From, table
<1>3. /\ Driver!Told("wagering", Clocked("wager-timer", "wager-entry"))
            \in Driver!ClueUp(rules.clocks)
      /\ Driver!Told("reading", Clocked("auto-arm", "auto-arm")) \in Driver!ClueUp(rules.clocks)
  BY ClockedIsOn DEF Driver!ClueUp, Driver!ClueReads
<1>4. \/ Answers(type, "wagering", Clocked("wager-timer", "wager-entry"), "told")
      \/ Answers(type, "reading", Clocked("auto-arm", "auto-arm"), "told")
  BY <1>1, <1>2, <1>3 DEF Answers, Driver!Told, Driver!Type
<1> QED
  BY <1>4, StepAnswers

\* start-game and the selections (lobby.ts, selection.ts).
LEMMA SelectingPhases == GameInv /\ Selecting => PhaseStep
<1> SUFFICES ASSUME GameInv, Selecting PROVE PhaseStep
  OBVIOUS
<1>1. ASSUME NEW c, NEW by, SelectCell(c, by) PROVE PhaseStep
  BY <1>1, PresentPhases DEF SelectCell, tableVars, boardVars, late
<1>2. CASE SelectionTimeout
  BY <1>2, PresentPhases DEF SelectionTimeout, tableVars, boardVars, late
<1>3. ASSUME NEW c, ReopenCell(c) PROVE PhaseStep
  <2>1. Says(out', {}, "told")
    BY <1>3 DEF ReopenCell, Says, Driver!Kind
  <2> QED
    BY <1>3, <2>1, StepStays DEF ReopenCell, boardVars, late
<1>4. CASE StartGame
  <2>1. PICK e : StartRound(0, e, Cell, {"game-started"})
    BY <1>4 DEF StartGame
  <2>2. Opens({"game-started"}, {}, "started")
    BY DEF Opens, Driver!Kind
  <2>3. PICK o \in Driver!RoundOpens(rules.clocks, "started") : Matches(o)
    BY <1>4, <2>1, <2>2, StartRoundAnswers DEF StartGame
  <2>4. o \in Driver!Outcomes(table, rules.clocks, "start-game")
    BY <1>4, <2>3 DEF StartGame, Driver!Outcomes, Driver!From, table
  <2>5. late' = FALSE
    <3>1. roundIndex' = 0 /\ timeExpired' = [r \in Round |-> FALSE]
      BY <1>4, <2>1 DEF StartGame, StartRound
    <3>2. 0 \in Round
      BY RoundAssumption DEF Round
    <3> QED
      BY <3>1, <3>2 DEF late
  <2>6. Driver!Latches(table, "start-game", o) = FALSE
    BY <1>4 DEF Driver!Latches, table, StartGame
  <2> QED
    BY <2>3, <2>4, <2>5, <2>6, StepOfTable DEF Driver!Type
<1> QED
  BY <1>1, <1>2, <1>3, <1>4 DEF Selecting

\* Arming, presses and the buzz window (buzzing.ts).
LEMMA BuzzingPhases == GameInv /\ Buzzing => PhaseStep
<1> SUFFICES ASSUME GameInv, Buzzing PROVE PhaseStep
  OBVIOUS
<1>1. CASE ArmBuzzers
  <2>1. /\ Driver!Told("armed", Clocked("buzz-window", "buzz-window"))
               \in Driver!Outcomes(table, rules.clocks, "arm-buzzers")
        /\ Driver!Told("all-answering", {"everyone-answers-window"})
               \in Driver!Outcomes(table, rules.clocks, "arm-buzzers")
    BY <1>1, ClockedIsOn
    DEF ArmBuzzers, Driver!Outcomes, Driver!From, table, Driver!Rearmed
  <2>2. \/ /\ phase' = "all-answering"
           /\ Says(out', {"everyone-answers-window"}, "told")
        \/ /\ phase' = "armed"
           /\ Says(out', Clocked("buzz-window", "buzz-window"), "told")
    BY <1>1 DEF ArmBuzzers, Says, Driver!Kind, Clocked
  <2>3. \/ Answers("arm-buzzers", "all-answering", {"everyone-answers-window"}, "told")
        \/ Answers("arm-buzzers", "armed", Clocked("buzz-window", "buzz-window"), "told")
    BY <2>1, <2>2 DEF Answers, Driver!Told, Driver!Type
  <2>4. late' = late /\ rules' = rules
    BY <1>1 DEF ArmBuzzers, tableVars, boardVars, late
  <2> QED
    BY <2>3, <2>4, StepAnswers
<1>2. ASSUME NEW p, EarlyBuzz(p) \/ BuzzLocked(p) PROVE PhaseStep
  <2>1. Says(out', {}, "told")
    BY <1>2 DEF EarlyBuzz, BuzzLocked, Says, Driver!Kind
  <2> QED
    BY <1>2, <2>1, StepStays DEF EarlyBuzz, BuzzLocked, tableVars, boardVars, late
<1>3. ASSUME NEW p, BuzzWins(p) PROVE PhaseStep
  <2>1. Driver!Told("answering", {"answer-window"})
               \in Driver!Outcomes(table, rules.clocks, "buzz")
    BY <1>3 DEF BuzzWins, InTheRace, Driver!Outcomes, Driver!From, table
  <2>2. phase' = "answering" /\ Says(out', {"answer-window"}, "told")
    BY <1>3 DEF BuzzWins, Says, Driver!Kind
  <2>3. Answers("buzz", "answering", {"answer-window"}, "told")
    BY <2>1, <2>2 DEF Answers, Driver!Told, Driver!Type
  <2>4. late' = late /\ rules' = rules
    BY <1>3 DEF BuzzWins, tableVars, boardVars, late
  <2> QED
    BY <2>3, <2>4, StepAnswers
<1>4. CASE BuzzTimeout
  BY <1>4, NothingYet, CloseClueAnswers, StepCloses DEF BuzzTimeout, CluePhases
<1> QED
  BY <1>1, <1>2, <1>3, <1>4 DEF Buzzing

-----------------------------------------------------------------------------
\* Armed again, as the driver sees it.
Rearms == /\ phase' = "armed" /\ Says(out', Clocked("buzz-window", "buzz-window"), "told")
          /\ late' = late /\ rules' = rules

\* A miss closes the clue or arms it again (judging.ts).
LEMMA AfterMissAnswers ==
  ASSUME GameInv, phase \in CluePhases, NEW e, NEW lockOut, AfterMiss(e, lockOut)
  PROVE  Closes \/ Rearms
<1>1. Opens({"judged"}, {}, "told")
  BY DEF Opens, Driver!Kind
<1>2. CASE CloseClue(controlEntity, {"judged"})
  BY <1>1, <1>2, CloseClueAnswers
<1>3. CASE /\ phase' = "armed"
           /\ out' = {"judged", "buzzers-armed", "rebound-armed"}
                        \cup Clocked("buzz-window", "buzz-window")
           /\ UNCHANGED tableVars
  BY <1>3 DEF Rearms, Says, Driver!Kind, Clocked, tableVars, boardVars, late
<1> QED
  BY <1>2, <1>3 DEF AfterMiss

\* Armed again after a miss is a row of the verdict and of the answer clock.
LEMMA StepRearms ==
  ASSUME Rearms, phase = "answering", NEW type \in {"judge", "answer-timeout"}
  PROVE  PhaseStep
<1>1. Driver!Told("armed", Clocked("buzz-window", "buzz-window"))
        \in Driver!Outcomes(table, rules.clocks, type)
  <2>1. CASE type = "judge"
    BY <2>1, ClockedIsOn DEF Driver!Outcomes, Driver!From, table, Driver!Rearmed
  <2>2. CASE type = "answer-timeout"
    BY <2>2, ClockedIsOn DEF Driver!Outcomes, Driver!From, table, Driver!Rearmed
  <2> QED
    BY <2>1, <2>2
<1>2. Answers(type, "armed", Clocked("buzz-window", "buzz-window"), "told")
  BY <1>1 DEF Answers, Rearms, Driver!Told, Driver!Type
<1> QED
  BY <1>2, StepAnswers DEF Rearms

\* Verdicts, the answer clock, host awards and cancelled clues (judging.ts).
LEMMA JudgingPhases == GameInv /\ Judging => PhaseStep
<1> SUFFICES ASSUME GameInv, Judging PROVE PhaseStep
  OBVIOUS
<1>0. Opens({"judged"}, {}, "told")
  BY DEF Opens, Driver!Kind
<1>1. ASSUME NEW e, NEW stake, AfterCorrect(e, stake), phase \in CluePhases PROVE Closes
  BY <1>0, <1>1, CloseClueAnswers DEF AfterCorrect
<1>2. ASSUME NEW v, JudgeBuzz(v) PROVE PhaseStep
  <2>1. phase = "answering" /\ phase \in CluePhases
    BY <1>2 DEF JudgeBuzz, CluePhases
  <2>2. Closes \/ Rearms
    BY <1>1, <1>2, <2>1, AfterMissAnswers DEF JudgeBuzz
  <2> QED
    BY <2>1, <2>2, StepCloses, StepRearms
<1>3. ASSUME NEW v, JudgeWager(v) PROVE PhaseStep
  <2>1. phase = "wager-answering" /\ phase \in CluePhases
    BY <1>3 DEF JudgeWager, CluePhases
  <2>2. Closes
    BY <1>0, <1>1, <1>3, <2>1, CloseClueAnswers DEF JudgeWager
  <2> QED
    BY <2>1, <2>2, StepCloses
<1>4. CASE OverTime
  <2>1. Says(out', {}, "told")
    BY <1>4 DEF OverTime, Says, Driver!Kind
  <2> QED
    BY <1>4, <2>1, StepStays DEF OverTime, tableVars, boardVars, late
<1>5. CASE AnswerTimeoutBuzz
  <2>1. phase = "answering" /\ phase \in CluePhases
    BY <1>5 DEF AnswerTimeoutBuzz, CluePhases
  <2>2. Closes \/ Rearms
    BY <1>5, <2>1, AfterMissAnswers DEF AnswerTimeoutBuzz
  <2> QED
    BY <2>1, <2>2, StepCloses, StepRearms
<1>6. CASE AnswerTimeoutWager
  <2>1. phase = "wager-answering" /\ phase \in CluePhases
    BY <1>6 DEF AnswerTimeoutWager, CluePhases
  <2>2. Closes
    BY <1>0, <1>6, <2>1, CloseClueAnswers DEF AnswerTimeoutWager
  <2> QED
    BY <2>1, <2>2, StepCloses
<1>7. ASSUME NEW e, NEW v, HostAward(e, v) PROVE PhaseStep
  <2>1. phase \in {"reading", "armed"} /\ phase \in CluePhases
    BY <1>7 DEF HostAward, CluePhases
  <2>2. CASE AfterCorrect(e, Value(clue))
    BY <1>1, <2>1, <2>2, StepCloses
  <2>3. CASE out' = {"judged"} /\ UNCHANGED <<tableVars, phase>>
    <3>1. Says(out', {}, "told")
      BY <2>3 DEF Says, Driver!Kind
    <3> QED
      BY <2>3, <3>1, StepStays DEF tableVars, boardVars, late
  <2> QED
    BY <1>7, <2>2, <2>3 DEF HostAward
<1>8. CASE CancelClue
  <2>1. phase \in CluePhases /\ CloseClue(controlEntity, {})
    BY <1>8 DEF CancelClue
  <2> QED
    BY <2>1, NothingYet, CloseClueAnswers, StepCloses
<1> QED
  BY <1>2, <1>3, <1>4, <1>5, <1>6, <1>7, <1>8 DEF Judging

\* A wager, or the wager clock, lets the player answer.
LEMMA CommitAmountPhases ==
  ASSUME NEW amount, phase = "wagering", CommitAmount(amount)
  PROVE  PhaseStep
<1>1. Driver!Told("wager-answering", {}) \in Driver!Outcomes(table, rules.clocks, "wager-timeout")
  BY DEF Driver!Outcomes, Driver!From, table
<1>2. Says(out', {}, "told")
  BY DEF CommitAmount, Says, Driver!Kind
<1>3. Answers("wager-timeout", "wager-answering", {}, "told")
  BY <1>1, <1>2 DEF CommitAmount, Answers, Driver!Told, Driver!Type
<1> QED
  BY <1>3, StepAnswers DEF CommitAmount, tableVars, boardVars, late

\* The answers are closed by the last phone, by the host or by the clock.
LEMMA CloseEveryoneAnswersPhases ==
  ASSUME GameInv, phase = "all-answering", NEW s, NEW events, Opens(events, {}, "told"),
         CloseEveryoneAnswers(s, events)
  PROVE  PhaseStep
<1>1. Opens(events \cup {"answers-closed"}, {}, "told")
  BY DEF Opens, Driver!Kind
<1>2. CASE CloseClue(controlEntity, events \cup {"answers-closed"})
  <2>1. Closes
    BY <1>1, <1>2, CloseClueAnswers DEF CluePhases
  <2> QED
    BY <2>1, StepCloses
<1>3. CASE /\ phase' = "all-judging" /\ out' = events \cup {"answers-closed"}
           /\ UNCHANGED tableVars
  <2>1. Driver!Told("all-judging", {}) \in Driver!Outcomes(table, rules.clocks, "close-answers")
    BY DEF Driver!Outcomes, Driver!From, table
  <2>2. Says(out', {}, "told")
    BY <1>3 DEF Opens, Says, Driver!Kind
  <2>3. Answers("close-answers", "all-judging", {}, "told")
    BY <1>3, <2>1, <2>2 DEF Answers, Driver!Told, Driver!Type
  <2> QED
    BY <1>3, <2>3, StepAnswers DEF tableVars, boardVars, late
<1> QED
  BY <1>2, <1>3 DEF CloseEveryoneAnswers

\* Wager cells, typed answers and everyone-answers (wagering.ts, everyone-answers.ts).
LEMMA AnswersPhases == GameInv /\ (Wagering \/ Typing) => PhaseStep
<1> SUFFICES ASSUME GameInv, Wagering \/ Typing PROVE PhaseStep
  OBVIOUS
<1>1. CASE Wagering
  BY <1>1, CommitAmountPhases DEF Wagering, CommitWager, WagerTimeout
<1>2. ASSUME out' = {"answer-submitted"} \/ out' = {"judged"}, UNCHANGED <<tableVars, phase>>
      PROVE  PhaseStep
  <2>1. Says(out', {}, "told")
    BY <1>2 DEF Says, Driver!Kind
  <2> QED
    BY <1>2, <2>1, StepStays DEF tableVars, boardVars, late
<1>3. ASSUME NEW p, SubmitTypedAnswer(p) PROVE PhaseStep
  BY <1>2, <1>3 DEF SubmitTypedAnswer
<1>4. ASSUME NEW p, SubmitEveryoneAnswer(p) PROVE PhaseStep
  <2>1. Opens({"answer-submitted"}, {}, "told")
    BY DEF Opens, Driver!Kind
  <2> QED
    BY <1>2, <1>4, <2>1, CloseEveryoneAnswersPhases DEF SubmitEveryoneAnswer
<1>5. CASE CloseAnswers
  BY <1>5, NothingYet, CloseEveryoneAnswersPhases DEF CloseAnswers
<1>6. ASSUME NEW e, NEW v, JudgeSubmission(e, v) PROVE PhaseStep
  <2>1. CASE out' = {"judged"} /\ UNCHANGED <<tableVars, phase>>
    BY <1>2, <2>1
  <2>2. CASE \E control : CloseClue(control, {"judged"})
    <3>1. Opens({"judged"}, {}, "told") /\ phase = "all-judging" /\ phase \in CluePhases
      BY <1>6 DEF JudgeSubmission, Opens, Driver!Kind, CluePhases
    <3>2. Closes
      BY <2>2, <3>1, CloseClueAnswers
    <3> QED
      BY <3>1, <3>2, StepCloses
  <2> QED
    BY <1>6, <2>1, <2>2 DEF JudgeSubmission
<1> QED
  BY <1>1, <1>3, <1>4, <1>5, <1>6 DEF Typing

\* finishGame, from the break or after the last verdict of the final.
LEMMA StepFinishes ==
  ASSUME NEW sc, NEW events, Opens(events, {}, "told"), FinishGame(sc, events),
         late' = late, rules' = rules,
         \/ phase = "final-reveal"
         \/ phase = "round-break"
  PROVE  PhaseStep
<1>1. PICK o \in Driver!Finishes : Matches(o)
  BY FinishGameAnswers
<1>2. o.to \notin {"awaiting-selection", "reading"}
  BY <1>1 DEF Driver!Finishes, Driver!Outcome, Driver!Told
<1>3. CASE phase = "final-reveal"
  <2>1. o \in Driver!Outcomes(table, rules.clocks, "judge-entity")
    BY <1>1, <1>3 DEF Driver!Outcomes, Driver!From, table
  <2>2. late' = Driver!Latches(table, "judge-entity", o)
    BY <1>2, LatchStays
  <2> QED
    BY <1>1, <2>1, <2>2, StepOfTable DEF Driver!Type
<1>4. CASE phase = "round-break"
  <2>1. o \in Driver!Outcomes(table, rules.clocks, "proceed")
    BY <1>1, <1>4 DEF Driver!Outcomes, Driver!From, table
  <2>2. late' = Driver!Latches(table, "proceed", o)
    BY <1>2, LatchStays
  <2> QED
    BY <1>1, <2>1, <2>2, StepOfTable DEF Driver!Type
<1> QED
  BY <1>3, <1>4

\* Final wagers, writing and the reveal (final.ts).
LEMMA FinalRoundPhases == FinalRound => PhaseStep
<1> SUFFICES ASSUME FinalRound PROVE PhaseStep
  OBVIOUS
<1>0. ASSUME UNCHANGED boardSideVars PROVE late' = late /\ rules' = rules
  BY <1>0 DEF boardSideVars, standingVars, late
<1>1. ASSUME phase = "final-wagers", phase' = "final-writing", UNCHANGED boardSideVars,
             Says(out', {"final-writing"}, "told")
      PROVE  PhaseStep
  <2>1. Driver!Told("final-writing", {"final-writing"})
          \in Driver!Outcomes(table, rules.clocks, "final-wager-timeout")
    BY <1>1 DEF Driver!Outcomes, Driver!From, table, Driver!Writing
  <2>2. Answers("final-wager-timeout", "final-writing", {"final-writing"}, "told")
    BY <1>1, <2>1 DEF Answers, Driver!Told, Driver!Type
  <2> QED
    BY <1>0, <1>1, <2>2, StepAnswers
<1>2. ASSUME phase = "final-writing", phase' = "final-reveal", UNCHANGED boardSideVars,
             Says(out', {}, "told")
      PROVE  PhaseStep
  <2>1. Driver!Told("final-reveal", {})
          \in Driver!Outcomes(table, rules.clocks, "final-writing-timeout")
    BY <1>2 DEF Driver!Outcomes, Driver!From, table
  <2>2. Answers("final-writing-timeout", "final-reveal", {}, "told")
    BY <1>2, <2>1 DEF Answers, Driver!Told, Driver!Type
  <2> QED
    BY <1>0, <1>2, <2>2, StepAnswers
<1>3. ASSUME NEW e, NEW amount, CommitFinalWager(e, amount) PROVE PhaseStep
  <2>1. CASE phase' = "final-writing"
             /\ out' = {"final-wager-committed"} \cup WritingEvents
    <3>1. Says(out', {"final-writing"}, "told")
      BY <2>1 DEF WritingEvents, Says, Driver!Kind
    <3> QED
      BY <1>1, <1>3, <2>1, <3>1 DEF CommitFinalWager
  <2>2. CASE phase' = phase /\ out' = {"final-wager-committed"} \cup {}
    <3>1. Says(out', {}, "told")
      BY <2>2 DEF Says, Driver!Kind
    <3> QED
      BY <1>0, <1>3, <2>2, <3>1, StepStays DEF CommitFinalWager
  <2> QED
    BY <1>3, <2>1, <2>2 DEF CommitFinalWager
<1>4. CASE FinalWagerTimeout
  <2>1. Says(out', {"final-writing"}, "told")
    BY <1>4 DEF FinalWagerTimeout, WritingEvents, Says, Driver!Kind
  <2> QED
    BY <1>1, <1>4, <2>1 DEF FinalWagerTimeout
<1>5. ASSUME NEW answers, NEW events, StartReveal(answers, events), Opens(events, {}, "told")
      PROVE  Says(out', {}, "told") /\ phase' = "final-reveal"
  BY <1>5 DEF StartReveal, Says, Opens, Driver!Kind
<1>6. ASSUME NEW e, SubmitFinalAnswer(e) PROVE PhaseStep
  <2>1. CASE StartReveal(final.answers \cup {e}, {"final-answer-submitted"})
    <3>1. Opens({"final-answer-submitted"}, {}, "told")
      BY DEF Opens, Driver!Kind
    <3> QED
      BY <1>2, <1>5, <1>6, <2>1, <3>1 DEF SubmitFinalAnswer
  <2>2. CASE phase' = phase /\ out' = {"final-answer-submitted"}
    <3>1. Says(out', {}, "told")
      BY <2>2 DEF Says, Driver!Kind
    <3> QED
      BY <1>0, <1>6, <2>2, <3>1, StepStays DEF SubmitFinalAnswer
  <2> QED
    BY <1>6, <2>1, <2>2 DEF SubmitFinalAnswer
<1>7. CASE FinalWritingTimeout
  BY <1>2, <1>5, <1>7, NothingYet DEF FinalWritingTimeout
<1>8. ASSUME NEW e, NEW v, JudgeFinalEntity(e, v) PROVE PhaseStep
  <2>1. CASE FinishGame(scores', {"final-judged"})
    <3>1. Opens({"final-judged"}, {}, "told")
      BY DEF Opens, Driver!Kind
    <3> QED
      BY <1>0, <1>8, <2>1, <3>1, StepFinishes DEF JudgeFinalEntity
  <2>2. CASE phase' = phase /\ (\/ out' = {"final-judged"} \cup {"final-reveal-next"}
                               \/ out' = {"final-judged"} \cup {})
    <3>1. Says(out', {}, "told")
      BY <2>2 DEF Says, Driver!Kind
    <3> QED
      BY <1>0, <1>8, <2>2, <3>1, StepStays DEF JudgeFinalEntity
  <2> QED
    BY <1>8, <2>1, <2>2 DEF JudgeFinalEntity
<1> QED
  BY <1>3, <1>4, <1>6, <1>7, <1>8 DEF FinalRound

\* The final begins, is written at once or is skipped.
LEMMA StartFinalPhases ==
  ASSUME phase = "round-break", StartFinal, late' = late, rules' = rules
  PROVE  PhaseStep
<1>1. CASE FinishGame(scores, {"final-skipped"})
  <2>1. Opens({"final-skipped"}, {}, "told")
    BY DEF Opens, Driver!Kind
  <2> QED
    BY <1>1, <2>1, StepFinishes
<1>2. CASE phase' = "final-writing" /\ out' = {"final-wager-committed"} \cup WritingEvents
  <2>1. Driver!Told("final-writing", {"final-writing"})
          \in Driver!Outcomes(table, rules.clocks, "proceed")
    BY DEF Driver!Outcomes, Driver!From, table, Driver!Writing
  <2>2. Says(out', {"final-writing"}, "told")
    BY <1>2 DEF WritingEvents, Says, Driver!Kind
  <2>3. Answers("proceed", "final-writing", {"final-writing"}, "told")
    BY <1>2, <2>1, <2>2 DEF Answers, Driver!Told, Driver!Type
  <2> QED
    BY <2>3, StepAnswers
<1>3. CASE /\ phase' = "final-wagers"
           /\ out' = {"final-wagers-open"} \cup Clocked("wager-timer", "final-wager")
  <2>1. Driver!Told("final-wagers", Clocked("wager-timer", "final-wager"))
          \in Driver!Outcomes(table, rules.clocks, "proceed")
    BY ClockedIsOn DEF Driver!Outcomes, Driver!From, table, Driver!Wagers
  <2>2. Says(out', Clocked("wager-timer", "final-wager"), "told")
    BY <1>3 DEF Says, Driver!Kind, Clocked
  <2>3. Answers("proceed", "final-wagers", Clocked("wager-timer", "final-wager"), "told")
    BY <1>3, <2>1, <2>2 DEF Answers, Driver!Told, Driver!Type
  <2> QED
    BY <2>3, StepAnswers
<1> QED
  BY <1>1, <1>2, <1>3 DEF StartFinal

\* Rounds ended by the host or their clock, the break, the end (rounds.ts).
LEMMA StagingPhases == GameInv /\ Staging => PhaseStep
<1> SUFFICES ASSUME GameInv, Staging PROVE PhaseStep
  OBVIOUS
<1>0. /\ roundIndex \in Round /\ phase \in Phases /\ timeExpired \in [Round -> BOOLEAN]
      /\ LaterBoardsAreFresh /\ BreakNamesARound
  BY DEF GameInv, EngineInv, TypeInv, TypeOK, BoardInv
<1>1. ASSUME phase = "awaiting-selection", EndRound({}), late' = late, rules' = rules
      PROVE  PhaseStep
  <2>1. phase' = "round-break" /\ Says(out', {}, "told")
    BY <1>1, NothingYet, EndRoundAnswers
  <2>2. Driver!Told("round-break", {}) \in Driver!Outcomes(table, rules.clocks, "end-round")
    BY <1>1 DEF Driver!Outcomes, Driver!From, table, Driver!RoundEnds
  <2>3. Answers("end-round", "round-break", {}, "told")
    BY <1>1, <2>1, <2>2 DEF Answers, Driver!Told, Driver!Type
  <2> QED
    BY <1>1, <2>3, StepAnswers
<1>2. CASE HostEndsRound
  BY <1>1, <1>2 DEF HostEndsRound, standingVars, late
<1>3. CASE RoundTimeout
  <2>1. CASE phase = "awaiting-selection"
    BY <1>1, <1>3, <2>1 DEF RoundTimeout, standingVars, late, CluePhases
  <2>2. CASE phase \in CluePhases
    <3> DEFINE o == Driver!Outcome(phase, {}, "silent")
    <3>1. /\ timeExpired' = [timeExpired EXCEPT ![roundIndex] = TRUE] /\ out' = {}
          /\ phase' = phase /\ roundIndex' = roundIndex /\ rules' = rules
      BY <1>3, <2>2 DEF RoundTimeout, standingVars, CluePhases
    <3>2. late' = TRUE
      BY <1>0, <3>1 DEF late
    <3>3. phase \in Driver!OpenClue
      BY <2>2 DEF CluePhases, Driver!OpenClue
    <3>4. o \in Driver!Outcomes(table, rules.clocks, "round-timeout")
      BY <3>3 DEF Driver!Outcomes, Driver!From, table
    <3>5. Driver!Latches(table, "round-timeout", o) = TRUE
      BY <3>3 DEF Driver!Latches, table, Driver!OpenClue
    <3>6. Matches(o)
      BY <3>1 DEF Matches, Driver!Outcome, Says
    <3> HIDE DEF o
    <3> QED
      BY <3>2, <3>4, <3>5, <3>6, StepOfTable DEF Driver!Type
  <2> QED
    BY <1>3, <2>1, <2>2 DEF RoundTimeout
<1>4. CASE EndGame
  <2>1. /\ phase \in Driver!Phase \ {"lobby", "game-over"} /\ phase' = "game-over"
        /\ out' = {"game-over"} /\ late' = late /\ rules' = rules
    BY <1>0, <1>4 DEF EndGame, standingVars, late, Driver!Phase, Phases
  <2>2. Driver!Outcome("game-over", {}, "over")
          \in Driver!Outcomes(table, rules.clocks, "end-game")
    BY <2>1 DEF Driver!Outcomes, Driver!From, table
  <2>3. Answers("end-game", "game-over", {}, "over")
    BY <2>1, <2>2 DEF Answers, Says, Driver!Type, Driver!Kind
  <2> QED
    BY <2>1, <2>3, StepAnswers
<1>5. CASE Proceed
  <2>1. CASE breakNextStage = "round"
    <3>1. PICK e : StartRound(roundIndex + 1, e, hidden[roundIndex + 1], {})
      BY <1>5, <2>1 DEF Proceed
    <3>2. /\ phase = "round-break" /\ rules' = rules /\ timeExpired' = timeExpired
          /\ roundIndex' = roundIndex + 1
      BY <1>5, <3>1 DEF Proceed, standingVars, StartRound
    <3>3. PICK o \in Driver!RoundOpens(rules.clocks, "told") : Matches(o)
      BY <3>1, <3>2, NothingYet, StartRoundAnswers
    <3>4. o.to \in {"awaiting-selection", "reading"}
      BY <3>3 DEF Driver!RoundOpens, Driver!BoardWaits, Driver!ClueReads, Driver!Outcome,
                  Driver!Told
    <3>5. o \in Driver!Outcomes(table, rules.clocks, "proceed")
      BY <3>2, <3>3 DEF Driver!Outcomes, Driver!From, table
    <3>6. Driver!Latches(table, "proceed", o) = FALSE
      BY <3>2, <3>4 DEF Driver!Latches, table, Driver!OpenClue
    <3>7. late' = FALSE
      <4>1. roundIndex + 1 \in Round /\ roundIndex + 1 > roundIndex
        BY <1>0, <2>1, <3>2, RoundAssumption DEF BreakNamesARound, Round
      <4>2. ~timeExpired[roundIndex + 1]
        BY <1>0, <3>2, <4>1 DEF LaterBoardsAreFresh
      <4> QED
        BY <1>0, <3>2, <4>1, <4>2 DEF late
    <3> QED
      BY <3>3, <3>5, <3>6, <3>7, StepOfTable DEF Driver!Type
  <2>2. CASE breakNextStage # "round"
    <3>1. /\ phase = "round-break" /\ rules' = rules /\ late' = late
          /\ StartFinal \/ FinishGame(scores, {})
      BY <1>5, <2>2 DEF Proceed, standingVars, late
    <3> QED
      BY <3>1, NothingYet, StartFinalPhases, StepFinishes
  <2> QED
    BY <2>1, <2>2
<1> QED
  BY <1>2, <1>3, <1>4, <1>5 DEF Staging

\* Sudden death (judging.ts).
LEMMA SuddenDeathPhases == SuddenDeath => PhaseStep
<1> SUFFICES ASSUME SuddenDeath PROVE PhaseStep
  OBVIOUS
<1>0. ASSUME UNCHANGED boardSideVars PROVE late' = late /\ rules' = rules
  BY <1>0 DEF boardSideVars, standingVars, late
<1>1. CASE ArmTiebreaker
  <2>1. Driver!Told("tiebreaker-armed", Clocked("buzz-window", "buzz-window"))
          \in Driver!Outcomes(table, rules.clocks, "arm-buzzers")
    BY <1>1, ClockedIsOn DEF ArmTiebreaker, Driver!Outcomes, Driver!From, table
  <2>2. Says(out', Clocked("buzz-window", "buzz-window"), "told")
    BY <1>1 DEF ArmTiebreaker, Says, Driver!Kind, Clocked
  <2>3. Answers("arm-buzzers", "tiebreaker-armed", Clocked("buzz-window", "buzz-window"), "told")
    BY <1>1, <2>1, <2>2 DEF ArmTiebreaker, Answers, Driver!Told, Driver!Type
  <2> QED
    BY <1>0, <1>1, <2>3, StepAnswers DEF ArmTiebreaker
<1>2. ASSUME NEW p, TiebreakerBuzz(p) PROVE PhaseStep
  <2>1. Driver!Told("tiebreaker-answering", {}) \in Driver!Outcomes(table, rules.clocks, "buzz")
    BY <1>2 DEF TiebreakerBuzz, Driver!Outcomes, Driver!From, table
  <2>2. Says(out', {}, "told")
    BY <1>2 DEF TiebreakerBuzz, Says, Driver!Kind
  <2>3. Answers("buzz", "tiebreaker-answering", {}, "told")
    BY <1>2, <2>1, <2>2 DEF TiebreakerBuzz, Answers, Driver!Told, Driver!Type
  <2> QED
    BY <1>0, <1>2, <2>3, StepAnswers DEF TiebreakerBuzz
<1>3. CASE TiebreakerBuzzTimeout
  <2>1. Driver!Outcome("tiebreaker-reading", {}, "silent")
          \in Driver!Outcomes(table, rules.clocks, "buzz-timeout")
    BY <1>3 DEF TiebreakerBuzzTimeout, Driver!Outcomes, Driver!From, table
  <2>2. Answers("buzz-timeout", "tiebreaker-reading", {}, "silent")
    BY <1>3, <2>1 DEF TiebreakerBuzzTimeout, Answers, Says, Driver!Type
  <2> QED
    BY <1>0, <1>3, <2>2, StepAnswers DEF TiebreakerBuzzTimeout
<1>4. ASSUME NEW v, JudgeTiebreaker(v) PROVE PhaseStep
  <2>1. phase = "tiebreaker-answering" /\ UNCHANGED boardSideVars
    BY <1>4 DEF JudgeTiebreaker
  <2>2. /\ Driver!Outcome("game-over", {}, "over")
             \in Driver!Outcomes(table, rules.clocks, "judge")
        /\ Driver!Told("tiebreaker-armed", {}) \in Driver!Outcomes(table, rules.clocks, "judge")
        /\ Driver!Outcome("tiebreaker-reading", {}, "silent")
             \in Driver!Outcomes(table, rules.clocks, "judge")
    BY <2>1 DEF Driver!Outcomes, Driver!From, table, Driver!TiebreakerMissed
  <2>3. \/ phase' = "game-over" /\ out' = {"game-over"}
        \/ phase' = "tiebreaker-reading" /\ out' = {}
        \/ phase' = "tiebreaker-armed" /\ out' = {"buzzers-armed"}
    BY <1>4 DEF JudgeTiebreaker
  <2>4. \/ Answers("judge", "game-over", {}, "over")
        \/ Answers("judge", "tiebreaker-reading", {}, "silent")
        \/ Answers("judge", "tiebreaker-armed", {}, "told")
    BY <2>1, <2>2, <2>3 DEF Answers, Says, Driver!Told, Driver!Type, Driver!Kind
  <2> QED
    BY <1>0, <2>1, <2>4, StepAnswers
<1>5. CASE TiebreakerNextClue
  <2>1. Driver!Told("tiebreaker-reading", {})
          \in Driver!Outcomes(table, rules.clocks, "tiebreaker-next-clue")
    BY <1>5 DEF TiebreakerNextClue, Driver!Outcomes, Driver!From, table
  <2>2. Answers("tiebreaker-next-clue", "tiebreaker-reading", {}, "told")
    BY <1>5, <2>1 DEF TiebreakerNextClue, Answers, Says, Driver!Told, Driver!Type, Driver!Kind
  <2> QED
    BY <1>0, <1>5, <2>2, StepAnswers DEF TiebreakerNextClue
<1> QED
  BY <1>1, <1>2, <1>3, <1>4, <1>5 DEF SuddenDeath

\* Surgery moves no phase.
LEMMA SurgeryPhases == Surgery => PhaseStep
<1> SUFFICES ASSUME Surgery PROVE PhaseStep
  OBVIOUS
<1>1. /\ phase' = phase /\ late' = late /\ rules' = rules /\ out' = {"score-adjusted"}
  BY DEF Surgery, ScoreAdjust, ScoreSet, HostScores, boardSideVars, standingVars, late
<1>2. Says(out', {}, "told")
  BY <1>1 DEF Says, Driver!Kind
<1> QED
  BY <1>1, <1>2, StepStays

\* The engine never moves a phase, asks for a timer or starts and ends a game otherwise than the
\* table by which the room drives it: after every accepted action the events that
\* applyEngineActions reacts to are those of one row of EngineTable.  What RoomClock shows of the
\* room over the table it so shows of the room over the engine.
THEOREM EngineImplementsPhases == Spec => ImplementsPhases
<1>1. Init => Driver!Init
  <2> SUFFICES ASSUME Init PROVE Driver!Init
    OBVIOUS
  <2>1. rules \in RulesType
    BY RulesAssumption DEF Init
  <2>2. rules.clocks \subseteq Driver!Setting
    BY <2>1 DEF RulesType, Driver!Setting
  <2>3. timeExpired[roundIndex] = FALSE
    BY RoundAssumption DEF Init, Round
  <2>4. narration = "silent"
    BY DEF Init, narration
  <2> QED
    BY <2>2, <2>3, <2>4 DEF Init, Driver!Init
<1>2. GameInv /\ [Next]_vars => PhaseStep
  <2> SUFFICES ASSUME GameInv, [Next]_vars PROVE PhaseStep
    OBVIOUS
  <2>1. CASE UNCHANGED vars
    BY <2>1 DEF vars, PhaseStep, Driver!vars, narration, boardVars
  <2> QED
    BY <2>1, SeatingPhases, SelectingPhases, BuzzingPhases, JudgingPhases, AnswersPhases,
       FinalRoundPhases, StagingPhases, SuddenDeathPhases, SurgeryPhases DEF Next
<1> QED
  BY <1>1, <1>2, GameInvariant, PTL DEF Spec, ImplementsPhases, Driver!Spec, PhaseStep

=============================================================================
