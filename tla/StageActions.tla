---------------------------- MODULE StageActions ---------------------------
(***************************************************************************)
(* The handlers of packages/engine/src/transitions that move the game      *)
(* between its stages: rounds.ts, final.ts, the tiebreaker sides of        *)
(* buzzing.ts and judging.ts, and the host's score surgery (host.ts).      *)
(***************************************************************************)
EXTENDS EngineState

\* What every handler of this module leaves alone.
standingVars == <<rules, seatVars, captainRotation, hidden, wagerCells>>
\* What a handler of the final or the tiebreaker leaves alone besides.
boardSideVars == <<standingVars, roundIndex, timeExpired, controlEntity,
                   firstSelectorRoundOne, clue, breakNextStage>>

-----------------------------------------------------------------------------
(* The final round (final.ts). *)

\* zero-to-score, with a token stake for non-positive scores when everyone plays.
FinalMinimum == IF rules.fixedStake # None THEN rules.fixedStake ELSE 0
FinalMaximum(score) ==
  LET token == IF rules.everyoneEligible THEN rules.minimumWager ELSE 0
  IN  IF rules.fixedStake # None THEN rules.fixedStake
      ELSE IF score > token THEN score ELSE token

\* The writing opens with its clock.  A faulty variant opens it without.
WritingUntimed == {"final-writing-open"}
WritingEvents == {"final-writing-open", "final-writing"}

\* startFinal: nobody eligible skips straight to the finish, a fixed stake commits for
\* everyone and skips the wagers.
StartFinal ==
  LET eligible == IF rules.everyoneEligible THEN InOrder
                  ELSE {e \in InOrder : scores[e] > 0}
  IN  \/ /\ eligible = {}
         /\ FinishGame(scores, {"final-skipped"})
         /\ UNCHANGED final
      \/ /\ eligible # {}
         /\ final' = [eligible |-> eligible,
                      wagers |-> [e \in Entity |-> IF e \in eligible THEN rules.fixedStake
                                                   ELSE None],
                      answers |-> {}, prefinal |-> scores, individual |-> {},
                      batched |-> {}, judged |-> {}]
         /\ IF rules.fixedStake # None
              THEN /\ phase' = "final-writing"
                   /\ out' = {"final-wager-committed"} \cup WritingEvents
              ELSE /\ phase' = "final-wagers"
                   /\ out' = {"final-wagers-open"} \cup Clocked("wager-timer", "final-wager")
         /\ UNCHANGED <<tiebreaker, winners>>

\* A re-commit overwrites; the last missing wager opens the writing.
CommitFinalWager(e, amount) ==
  /\ phase = "final-wagers" /\ final # None
  /\ e \in final.eligible
  /\ FinalMinimum <= amount /\ amount <= FinalMaximum(final.prefinal[e])
  /\ LET wagers == [final.wagers EXCEPT ![e] = amount]
         complete == \A f \in final.eligible : wagers[f] # None
     IN  /\ final' = [final EXCEPT !.wagers = wagers]
         /\ phase' = IF complete THEN "final-writing" ELSE phase
         /\ out' = {"final-wager-committed"} \cup (IF complete THEN WritingEvents ELSE {})
  /\ UNCHANGED <<boardSideVars, scores, tiebreaker, winners>>

\* Silence wagers the minimum.  A faulty variant opens the writing with wagers missing.
FinalWagersUnfilled ==
  /\ phase = "final-wagers" /\ final # None
  /\ phase' = "final-writing"
  /\ out' = WritingEvents
  /\ UNCHANGED <<boardSideVars, scores, endVars>>
FinalWagerTimeout ==
  /\ phase = "final-wagers" /\ final # None
  /\ final' = [final EXCEPT !.wagers =
                [e \in Entity |-> IF e \in final.eligible /\ @[e] = None
                                    THEN FinalMinimum ELSE @[e]]]
  /\ phase' = "final-writing"
  /\ out' = WritingEvents \cup
            (IF \E e \in final.eligible : final.wagers[e] = None
               THEN {"final-wager-committed"} ELSE {})
  /\ UNCHANGED <<boardSideVars, scores, tiebreaker, winners>>

\* The reveal order: ascending pre-final score, ties by join order.
RevealsBefore(a, b) ==
  \/ final.prefinal[a] < final.prefinal[b]
  \/ final.prefinal[a] = final.prefinal[b] /\ IndexOf(a) < IndexOf(b)

TopContenders ==
  {e \in final.eligible :
     Cardinality({f \in final.eligible : RevealsBefore(e, f)}) < IndividualCount}

Individual ==
  CASE rules.reveal = "lowest-first" -> final.eligible
    [] rules.reveal = "leaderboard" -> {}
    [] OTHER -> IF Cardinality(final.eligible) < MinimumFieldToBatch
                  THEN final.eligible ELSE TopContenders

\* startReveal, with these answers in.
StartReveal(answers, events) ==
  LET individual == Individual
  IN  /\ phase' = "final-reveal"
      /\ final' = [final EXCEPT !.answers = answers, !.individual = individual,
                                !.batched = final.eligible \ individual]
      /\ out' = events \cup {"final-reveal-started"} \cup
                (IF individual = final.eligible THEN {"final-reveal-next"} ELSE {})

\* Overwrites are allowed until everyone is in.
SubmitFinalAnswer(e) ==
  /\ phase = "final-writing" /\ final # None
  /\ e \in final.eligible
  /\ LET answers == final.answers \cup {e}
     IN  IF final.eligible \subseteq answers
           THEN StartReveal(answers, {"final-answer-submitted"})
           ELSE /\ final' = [final EXCEPT !.answers = answers]
                /\ out' = {"final-answer-submitted"}
                /\ UNCHANGED phase
  /\ UNCHANGED <<boardSideVars, scores, tiebreaker, winners>>

FinalWritingTimeout ==
  /\ phase = "final-writing" /\ final # None
  /\ StartReveal(final.answers, {})
  /\ UNCHANGED <<boardSideVars, scores, tiebreaker, winners>>

\* The batch is judged first, in any order; then the individuals strictly in order.
MayReveal(e) ==
  LET batchLeft == final.batched \ final.judged
      left == final.individual \ final.judged
  IN  IF batchLeft # {} THEN e \in batchLeft
      ELSE e \in left /\ \A f \in left : f = e \/ RevealsBefore(e, f)

\* The score after a final verdict: the wager is always at risk.
FinalScore(e, verdict) ==
  LET wager == IF final.wagers[e] = None THEN 0 ELSE final.wagers[e]
  IN  IF verdict = "correct" THEN scores[e] + wager
      ELSE IF rules.penalty = "floor-at-zero" /\ scores[e] - wager < 0 THEN 0
      ELSE scores[e] - wager

JudgeFinalEntity(e, verdict) ==
  /\ phase = "final-reveal" /\ final # None
  /\ MayReveal(e)
  /\ Bounded(FinalScore(e, verdict))
  /\ scores' = [scores EXCEPT ![e] = FinalScore(e, verdict)]
  /\ LET judged == final.judged \cup {e}
         announced == Cardinality(final.batched \ final.judged) <= 1
                      /\ final.individual \ judged # {}
     IN  \/ /\ final.eligible \subseteq judged
            /\ final' = None
            /\ FinishGame(scores', {"final-judged"})
         \/ /\ ~(final.eligible \subseteq judged)
            /\ final' = [final EXCEPT !.judged = judged]
            /\ out' = {"final-judged"} \cup (IF announced THEN {"final-reveal-next"} ELSE {})
            /\ UNCHANGED <<phase, tiebreaker, winners>>
  /\ UNCHANGED boardSideVars

-----------------------------------------------------------------------------
(* Rounds (rounds.ts). *)

HostEndsRound ==
  /\ phase = "awaiting-selection"
  /\ EndRound({})
  /\ UNCHANGED <<standingVars, roundIndex, timeExpired, controlEntity,
                 firstSelectorRoundOne, scores, endVars>>

\* The wall clock.  Mid-clue the expiry latches, and that accepted action emits nothing.
RoundTimeout ==
  \/ /\ phase = "awaiting-selection"
     /\ EndRound({})
     /\ UNCHANGED <<standingVars, roundIndex, timeExpired, controlEntity,
                    firstSelectorRoundOne, scores, endVars>>
  \/ /\ phase \in CluePhases
     /\ timeExpired' = [timeExpired EXCEPT ![roundIndex] = TRUE]
     /\ out' = {}
     /\ UNCHANGED <<standingVars, phase, roundIndex, controlEntity,
                    firstSelectorRoundOne, clue, breakNextStage, scores, endVars>>

\* The host stops the game from anywhere: no tie rules, and an open clue or final stays
\* in the state unjudged.
EndGame ==
  /\ phase \notin {"lobby", "game-over"}
  /\ phase' = "game-over"
  /\ breakNextStage' = None
  /\ tiebreaker' = None
  /\ winners' = IF NobodyMayWin(scores) THEN {} ELSE Leaders(scores)
  /\ out' = {"game-over"}
  /\ UNCHANGED <<standingVars, roundIndex, timeExpired, controlEntity,
                 firstSelectorRoundOne, clue, scores, final>>

\* Leaving the break for whatever is next.
Proceed ==
  /\ phase = "round-break"
  /\ \/ /\ breakNextStage = "round"
        /\ \E e \in LaterSelectors :
             StartRound(roundIndex + 1, e, hidden[roundIndex + 1], {})
        /\ UNCHANGED endVars
     \/ /\ breakNextStage = "final"
        /\ StartFinal
        /\ breakNextStage' = None
        /\ UNCHANGED <<roundIndex, controlEntity, firstSelectorRoundOne, clue>>
     \/ /\ breakNextStage \notin {"round", "final"}
        /\ FinishGame(scores, {})
        /\ breakNextStage' = None
        /\ UNCHANGED <<roundIndex, controlEntity, firstSelectorRoundOne, clue, final>>
  /\ UNCHANGED <<standingVars, timeExpired, scores>>

-----------------------------------------------------------------------------
(* Sudden death. *)

ArmTiebreaker ==
  /\ phase = "tiebreaker-reading" /\ tiebreaker # None
  /\ phase' = "tiebreaker-armed"
  /\ tiebreaker' = [tiebreaker EXCEPT !.buzzWinner = None]
  /\ out' = {"buzzers-armed"} \cup Clocked("buzz-window", "buzz-window")
  /\ UNCHANGED <<boardSideVars, scores, final, winners>>

\* Who may still take the tiebreaker.
StillIn(e) == e \in tiebreaker.participants \ tiebreaker.eliminated

TiebreakerBuzz(p) ==
  /\ phase = "tiebreaker-armed" /\ tiebreaker # None
  /\ seat[p] # None /\ StillIn(seat[p])
  /\ tiebreaker.buzzWinner = None
  /\ phase' = "tiebreaker-answering"
  /\ tiebreaker' = [tiebreaker EXCEPT !.buzzWinner = p]
  /\ out' = {"buzz-won"}
  /\ UNCHANGED <<boardSideVars, scores, final, winners>>

\* A dead tiebreaker clue: eliminations reset, and nothing is emitted.
\* A faulty variant keeps the eliminations.
TiebreakerTimeoutKeepsOut ==
  /\ phase = "tiebreaker-armed" /\ tiebreaker # None
  /\ phase' = "tiebreaker-reading"
  /\ out' = {}
  /\ UNCHANGED <<boardSideVars, scores, endVars>>
TiebreakerBuzzTimeout ==
  /\ phase = "tiebreaker-armed" /\ tiebreaker # None
  /\ phase' = "tiebreaker-reading"
  /\ tiebreaker' = [tiebreaker EXCEPT !.eliminated = {}]
  /\ out' = {}
  /\ UNCHANGED <<boardSideVars, scores, final, winners>>

\* The verdict on a tiebreaker buzz; answer-timeout judges it wrong.  When everyone has
\* missed, the accepted action emits nothing.
JudgeTiebreaker(verdict) ==
  /\ phase = "tiebreaker-answering" /\ tiebreaker # None /\ tiebreaker.buzzWinner # None
  /\ LET e == seat[tiebreaker.buzzWinner]
         eliminated == tiebreaker.eliminated \cup (IF verdict = "wrong" THEN {e} ELSE {})
         everyoneMissed == tiebreaker.participants \subseteq eliminated
     IN  \/ /\ verdict = "correct"
            /\ phase' = "game-over"
            /\ tiebreaker' = None
            /\ winners' = {e}
            /\ out' = {"game-over"}
         \/ /\ verdict # "correct"
            /\ tiebreaker' = [tiebreaker EXCEPT !.eliminated = eliminated,
                                                !.buzzWinner = None]
            /\ phase' = IF everyoneMissed THEN "tiebreaker-reading" ELSE "tiebreaker-armed"
            /\ out' = IF everyoneMissed THEN {} ELSE {"buzzers-armed"}
            /\ UNCHANGED winners
  /\ UNCHANGED <<boardSideVars, scores, final>>

TiebreakerNextClue ==
  /\ phase \in {"tiebreaker-reading", "tiebreaker-armed"} /\ tiebreaker # None
  /\ phase' = "tiebreaker-reading"
  /\ tiebreaker' = [tiebreaker EXCEPT !.eliminated = {}, !.buzzWinner = None]
  /\ out' = {"tiebreaker-clue-dealt"}
  /\ UNCHANGED <<boardSideVars, scores, final, winners>>

-----------------------------------------------------------------------------
(* Score surgery by the host, in any phase (host.ts). *)

HostScores(e, score) ==
  /\ e \in InOrder
  /\ Bounded(score)
  /\ scores' = [scores EXCEPT ![e] = score]
  /\ out' = {"score-adjusted"}
  /\ UNCHANGED <<boardSideVars, phase, endVars>>

ScoreAdjust(e, delta) == HostScores(e, scores[e] + delta)
ScoreSet(e, score) == HostScores(e, score)

=============================================================================
