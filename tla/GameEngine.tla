----------------------------- MODULE GameEngine ----------------------------
(***************************************************************************)
(* transition() of @jeopardy/engine without undo: any accepted action of   *)
(* the catalog (actions.ts), in any order the driver sends them.  Host,    *)
(* phones and timers are not told apart: whoever sends an action, the      *)
(* engine looks only at the phase and the fields.                          *)
(***************************************************************************)
EXTENDS ClueActions, StageActions

-----------------------------------------------------------------------------
(* One disjunct per action type; a type with several homes has one per home. *)

Seating ==
  \/ \E p \in Player, t \in Team \cup {None} : PlayerReturns(p, t)
  \/ \E p \in Player, t \in Team \cup {None} : PlayerJoins(p, t)
  \/ \E p \in Player : PlayerLeave(p)

Selecting ==
  \/ StartGame
  \/ \E c \in Cell, by \in Entity \cup {None} : SelectCell(c, by)
  \/ SelectionTimeout
  \/ \E c \in Cell : ReopenCell(c)

Buzzing ==
  \/ ArmBuzzers
  \/ \E p \in Player : EarlyBuzz(p)
  \/ \E p \in Player : BuzzWins(p)
  \/ \E p \in Player : BuzzLocked(p)
  \/ BuzzTimeout

Judging ==
  \/ \E v \in {"correct", "wrong", "no-penalty"} : JudgeBuzz(v)
  \/ \E v \in {"correct", "wrong", "no-penalty"} : JudgeWager(v)
  \/ OverTime
  \/ AnswerTimeoutBuzz
  \/ AnswerTimeoutWager
  \/ \E e \in Entity, v \in {"correct", "wrong"} : HostAward(e, v)
  \/ CancelClue

Wagering ==
  \/ \E amount \in WagerInputs : CommitWager(amount)
  \/ WagerTimeout

Typing ==
  \/ \E p \in Player : SubmitTypedAnswer(p)
  \/ \E p \in Player : SubmitEveryoneAnswer(p)
  \/ CloseAnswers
  \/ \E e \in Entity, v \in {"correct", "wrong"} : JudgeSubmission(e, v)

FinalRound ==
  \/ \E e \in Entity, amount \in WagerInputs : CommitFinalWager(e, amount)
  \/ FinalWagerTimeout
  \/ \E e \in Entity : SubmitFinalAnswer(e)
  \/ FinalWritingTimeout
  \/ \E e \in Entity, v \in {"correct", "wrong"} : JudgeFinalEntity(e, v)

Staging == HostEndsRound \/ RoundTimeout \/ EndGame \/ Proceed

SuddenDeath ==
  \/ ArmTiebreaker
  \/ \E p \in Player : TiebreakerBuzz(p)
  \/ TiebreakerBuzzTimeout
  \/ \E v \in {"correct", "wrong", "no-penalty"} : JudgeTiebreaker(v)
  \/ TiebreakerNextClue

Surgery ==
  \/ \E e \in Entity, delta \in ScoreInputs : ScoreAdjust(e, delta)
  \/ \E e \in Entity, score \in ScoreInputs : ScoreSet(e, score)

Next == Seating \/ Selecting \/ Buzzing \/ Judging \/ Wagering \/ Typing
          \/ FinalRound \/ Staging \/ SuddenDeath \/ Surgery

Spec == Init /\ [][Next]_vars

-----------------------------------------------------------------------------
(* Properties. *)

\* Every part of GameState has its declared type; every cell, entity and player it names
\* exists.
TypeOK ==
  /\ rules \in Rules
  /\ phase \in Phases
  /\ seat \in [Player -> Entity \cup {None}]
  /\ connected \subseteq Player
  /\ members \in [Team -> Seq(Player)]
  /\ captainRotation \in [Team -> 0 .. CaptainCycle - 1]
  /\ entityOrder \in Seq(Entity)
  /\ scores \in [Entity -> Int]
  /\ roundIndex \in Round
  /\ hidden \in [Round -> SUBSET Cell]
  /\ wagerCells \in [Round -> SUBSET Cell]
  /\ timeExpired \in [Round -> BOOLEAN]
  /\ controlEntity \in Entity \cup {None}
  /\ firstSelectorRoundOne \in Entity \cup {None}
  /\ clue \in Clue \cup {None}
  /\ breakNextStage \in {"round", "final", "game-over", None}
  /\ final \in Final \cup {None}
  /\ tiebreaker \in Tiebreaker \cup {None}
  /\ winners \in (SUBSET Entity) \cup {None}

\* A clue phase has a live clue on a still hidden cell of the current round, and every
\* other running phase has none: closeClue and presentClue never leave half a clue behind.
ClueMatchesPhase ==
  /\ phase \in CluePhases => /\ clue # None
                             /\ clue.round = roundIndex
                             /\ clue.cell \in hidden[roundIndex]
  /\ phase \notin CluePhases \cup {"game-over"} => clue = None

\* A board that waits for a selection has something to select and is not past its time
\* limit: a latched round-timeout, a reopened cell and an end-round never leave the room
\* in front of a board nobody can leave by playing.
SelectionIsPossible ==
  phase = "awaiting-selection" => hidden[roundIndex] # {} /\ ~timeExpired[roundIndex]

\* The one who holds the floor is seated and was allowed to take it: not barred from the
\* clue, not eliminated from the tiebreaker, and nobody holds it while buzzers are live.
FloorIsFair ==
  /\ phase = "answering" => /\ clue.buzzWinner # None
                            /\ seat[clue.buzzWinner] \in InOrder \ clue.lockedOut
  /\ phase \in {"reading", "armed"} => clue.buzzWinner = None
  /\ phase = "tiebreaker-answering" =>
       /\ tiebreaker.buzzWinner # None
       /\ seat[tiebreaker.buzzWinner] \in tiebreaker.participants \ tiebreaker.eliminated
  /\ phase = "tiebreaker-armed" => tiebreaker.buzzWinner = None

\* The roster, the seats and the scoring order agree: everyone seated scores for exactly one
\* entity, a team lists exactly the players seated on it, once each, and the order holds
\* each scoring entity once and nobody else, whoever joins late, leaves or returns.
Occurrences(p, t) == {i \in DOMAIN members[t] : members[t][i] = p}
RosterIsConsistent ==
  /\ \A p \in Player, t \in Team :
       Cardinality(Occurrences(p, t)) = IF seat[p] = t THEN 1 ELSE 0
  /\ \A p \in Player : seat[p] \in Team \cup {p, None}
  /\ \A p \in connected : seat[p] # None
  /\ InOrder = {seat[p] : p \in Player} \ {None}
  /\ Cardinality(InOrder) = Len(entityOrder)

\* Everyone-answers can always be brought to its end: while the window is open somebody has
\* yet to answer, and while the host judges some submission has no verdict.
CrowdCanFinish ==
  /\ phase = "all-answering" => InOrder \ Submitted # {}
  /\ phase = "all-judging" => Submitted \ (clue.correct \cup clue.wrong) # {}

\* A wager clue always has its bettor, and the stake is settled before the clue shows.
WagerIsSettled ==
  /\ phase \in {"wagering", "wager-answering"} =>
       clue.selectedBy # None /\ clue.selectedBy \in InOrder
  /\ phase = "wager-answering" => clue.wager # None

\* The final can always be played to its end: everyone eligible has a wager by the time
\* writing opens, and until the last verdict the reveal order names somebody to judge.
FinalCanFinish ==
  /\ phase \in FinalPhases => final # None /\ final.eligible # {}
  /\ phase \in {"final-writing", "final-reveal"} =>
       \A e \in final.eligible : final.wagers[e] # None
  /\ phase = "final-reveal" => \E e \in final.eligible : MayReveal(e)

\* Everyone whose score says so wins: unless the no-winner rule applies, a game that ends
\* outside sudden death crowns exactly the top of the final scores; a verdict of sudden death
\* crowns the one who holds the buzz, who was tied and has not missed since the clue was dealt.
CrownsTheTop ==
  [][(phase # "game-over" /\ phase' = "game-over") =>
       \/ winners' = {} /\ rules.noWinner /\ \A e \in InOrder : scores'[e] <= 0
       \/ winners' = {e \in InOrder : \A f \in InOrder : scores'[f] <= scores'[e]}
       \/ /\ phase = "tiebreaker-answering"
          /\ seat[tiebreaker.buzzWinner] \in tiebreaker.participants \ tiebreaker.eliminated
          /\ winners' = {seat[tiebreaker.buzzWinner]}]_vars

\* The engine implements the abstract race, on board clues and in sudden death.
raceStage == CASE phase \in {"reading", "tiebreaker-reading"} -> "dead"
               [] phase \in {"armed", "tiebreaker-armed"} -> "open"
               [] phase \in {"answering", "tiebreaker-answering"} -> "held"
               [] OTHER -> "off"
raceHolder == IF phase = "answering" THEN seat[clue.buzzWinner]
              ELSE IF phase = "tiebreaker-answering" THEN seat[tiebreaker.buzzWinner]
              ELSE None
raceBarred == IF phase \in {"reading", "armed", "answering"} THEN clue.lockedOut
              ELSE IF phase \in TiebreakerPhases THEN tiebreaker.eliminated
              ELSE {}
Race == INSTANCE BuzzRace WITH stage <- raceStage, holder <- raceHolder,
                               barred <- raceBarred
ImplementsRace == Race!Spec

\* To its driver the engine is a table of phases: where each action may lead, which timers it
\* asks for and which of its events the room reacts to (engine-glue.ts and the alarm book rest
\* on that table, and what RoomClock shows over it is shown of the engine).
narration == CASE out = {} -> "silent" [] "game-started" \in out -> "started"
               [] "game-over" \in out -> "over" [] OTHER -> "told"
Driver == INSTANCE EnginePhases WITH
            latched <- timeExpired[roundIndex], clocks <- rules.clocks,
            answer <- [sets |-> out \cap {"auto-arm", "selection-shot-clock", "buzz-window",
                                          "answer-window", "everyone-answers-window",
                                          "wager-entry", "final-wager", "final-writing",
                                          "round-time-limit"},
                       word |-> narration]
ImplementsPhases == Driver!Spec

=============================================================================
