---------------------------- MODULE ClueActions ----------------------------
(***************************************************************************)
(* The handlers of packages/engine/src/transitions that seat players and   *)
(* play one clue: lobby.ts, selection.ts, buzzing.ts, judging.ts,          *)
(* wagering.ts and everyone-answers.ts.  A handler's rejections are the    *)
(* states its action is not enabled in.                                    *)
(***************************************************************************)
EXTENDS EngineState

\* What a handler that only touches the clue, the scores and the phase leaves alone.
tableVars == <<rules, seatVars, boardVars, hidden, captainRotation, controlEntity,
               firstSelectorRoundOne, breakNextStage, endVars>>
\* What a handler that only seats players leaves alone.
gameVars == <<rules, phase, boardVars, hidden, captainRotation, controlEntity,
              firstSelectorRoundOne, clue, breakNextStage, endVars>>

-----------------------------------------------------------------------------
(* Lobby and seating (lobby.ts). *)

\* The score a late entity starts from.
StartScores ==
  IF phase # "lobby" /\ rules.lateJoinScore = "match-lowest" /\ InOrder # {}
    THEN {scores[e] : e \in {f \in InOrder : \A g \in InOrder : scores[f] <= scores[g]}}
    ELSE {0}

\* A join opens a new scoring entity unless its team already has members.
\* A faulty variant: a team is taken to exist already.
SoloistsOnly(t) == t \notin Team
OpensEntity(t) == t \in Team => members[t] = <<>>

PlayerReturns(p, t) ==
  /\ t # None => TeamsOffered
  /\ TeamsRequired => t # None
  /\ seat[p] # None /\ p \notin connected
  /\ connected' = connected \cup {p}
  /\ out' = {"player-joined"}
  /\ UNCHANGED <<gameVars, seat, members, entityOrder, scores>>

PlayerJoins(p, t) ==
  LET e == IF t = None THEN p ELSE t
      late == phase # "lobby"
  IN  /\ t # None => TeamsOffered
      /\ TeamsRequired => t # None
      /\ seat[p] = None
      /\ late => rules.lateJoin
      /\ seat' = [seat EXCEPT ![p] = e]
      /\ connected' = connected \cup {p}
      /\ members' = [u \in Team |-> IF u = t THEN Append(members[u], p) ELSE members[u]]
      /\ \/ /\ OpensEntity(t)
            /\ entityOrder' = Append(entityOrder, e)
            /\ \E start \in StartScores : scores' = [scores EXCEPT ![e] = start]
            /\ out' = {"player-joined"} \cup
                      (IF late /\ rules.lateJoinScore = "host-prompt"
                         THEN {"late-join-score-needed"} ELSE {})
         \/ /\ ~OpensEntity(t)
            /\ out' = {"player-joined"}
            /\ UNCHANGED <<entityOrder, scores>>
      /\ UNCHANGED gameVars

\* Presence only: the seat, the score and the place in the order survive.
PlayerLeave(p) ==
  /\ p \in connected \cap Droppable
  /\ connected' = connected \ {p}
  /\ out' = {"player-left"}
  /\ UNCHANGED <<gameVars, seat, members, entityOrder, scores>>

StartGame ==
  /\ phase = "lobby" /\ entityOrder # <<>>
  /\ hidden' = [r \in Round |-> Cell]
  /\ wagerCells' \in WagerLayouts
  /\ timeExpired' = [r \in Round |-> FALSE]
  /\ \E e \in FirstSelectors : StartRound(0, e, Cell, {"game-started"})
  /\ UNCHANGED <<rules, seatVars, captainRotation, scores, endVars>>

-----------------------------------------------------------------------------
(* Selection (selection.ts). *)

\* by = None: the host selects on the room's behalf.
SelectCell(c, by) ==
  /\ phase = "awaiting-selection"
  /\ by # None => rules.nextSelector # "host-picks" /\ controlEntity = by
  /\ c \in hidden[roundIndex]
  /\ PresentClue(roundIndex, c, controlEntity, {})
  /\ UNCHANGED <<tableVars, scores>>

SelectionTimeout ==
  /\ phase = "awaiting-selection"
  /\ \E c \in hidden[roundIndex] : PresentClue(roundIndex, c, controlEntity, {})
  /\ UNCHANGED <<tableVars, scores>>

ReopenCell(c) ==
  /\ phase = "awaiting-selection"
  /\ c \notin hidden[roundIndex]
  /\ hidden' = [hidden EXCEPT ![roundIndex] = @ \cup {c}]
  /\ out' = {"cell-reopened"}
  /\ UNCHANGED <<rules, phase, seatVars, boardVars, captainRotation, controlEntity,
                 firstSelectorRoundOne, clue, breakNextStage, endVars, scores>>

-----------------------------------------------------------------------------
(* Arming and buzzing (buzzing.ts).  The tiebreaker's side of these handlers   *)
(* is in StageActions.                                                         *)

\* In everyone-answers mode the same gesture opens the answer window.
ArmBuzzers ==
  /\ phase = "reading" /\ clue # None
  /\ \/ /\ rules.everyone # "off"
        /\ phase' = "all-answering"
        /\ out' = {"answers-open", "everyone-answers-window"}
        /\ UNCHANGED clue
     \/ /\ rules.everyone = "off"
        /\ phase' = "armed"
        /\ clue' = [clue EXCEPT !.buzzWinner = None]
        /\ out' = {"buzzers-armed"} \cup Clocked("buzz-window", "buzz-window")
  /\ UNCHANGED <<tableVars, scores>>

EarlyKey(p) == IF TeamsOffered /\ rules.teamWidePenalty THEN seat[p] ELSE p

\* A press before the arm starts (or restarts) the presser's lockout.
EarlyBuzz(p) ==
  /\ phase = "reading" /\ clue # None
  /\ rules.earlyLockout
  /\ seat[p] # None
  /\ clue' = [clue EXCEPT !.earlyLocked = @ \cup {EarlyKey(p)}]
  /\ out' = {"early-buzz"}
  /\ UNCHANGED <<tableVars, phase, scores>>

\* Under rotating captains only the current captain of a team may buzz.
Captain(t) == members[t][(captainRotation[t] % Len(members[t])) + 1]
MayBuzz(p) ==
  (TeamsOffered /\ rules.rotatingCaptain /\ seat[p] \in Team) => p = Captain(seat[p])

\* A press the arming accepts.
InTheRace(p) ==
  /\ phase = "armed" /\ clue # None
  /\ seat[p] # None
  /\ clue.buzzWinner = None
  /\ seat[p] \notin clue.lockedOut
  /\ MayBuzz(p)

\* The first valid press of the arming wins it; a lockout on the presser has run out.
BuzzWins(p) ==
  /\ InTheRace(p)
  /\ phase' = "answering"
  /\ clue' = [clue EXCEPT !.buzzWinner = p]
  /\ out' = {"buzz-won", "answer-window"}
  /\ UNCHANGED <<tableVars, scores>>

\* The lockout is still running: the press restarts it.
BuzzLocked(p) ==
  /\ InTheRace(p)
  /\ EarlyKey(p) \in clue.earlyLocked
  /\ out' = {"early-buzz", "buzz-rejected"}
  /\ UNCHANGED <<tableVars, phase, clue, scores>>

\* Nobody rang in: a dead clue.
BuzzTimeout ==
  /\ phase = "armed" /\ clue # None
  /\ CloseClue(controlEntity, {})
  /\ UNCHANGED scores

-----------------------------------------------------------------------------
(* Adjudication (judging.ts). *)

\* Award the stake, pass control under last-correct, close the clue.
AfterCorrect(e, stake) ==
  /\ Bounded(scores[e] + stake)
  /\ scores' = [scores EXCEPT ![e] = @ + stake]
  /\ CloseClue(IF rules.nextSelector = "last-correct" THEN e ELSE controlEntity, {"judged"})

\* Who is out of the clue once e has missed.  A faulty variant locks out the last one only.
LastMisser(e, lockOut) == IF lockOut /\ rules.wrongLockedOut THEN {e} ELSE {}
LockedOutAfter(e, lockOut) ==
  clue.lockedOut \cup (IF lockOut /\ rules.wrongLockedOut THEN {e} ELSE {})

\* Lock the answerer out, then re-arm for the rest or let the clue die.
AfterMiss(e, lockOut) ==
  LET barred == LockedOutAfter(e, lockOut)
      rebounds == rules.rebound /\ InOrder \ barred # {}
  IN  \/ /\ ~rebounds
         /\ CloseClue(controlEntity, {"judged"})
      \/ /\ rebounds
         /\ phase' = "armed"
         /\ clue' = [clue EXCEPT !.lockedOut = barred, !.buzzWinner = None]
         /\ out' = {"judged", "buzzers-armed", "rebound-armed"}
                     \cup Clocked("buzz-window", "buzz-window")
         /\ UNCHANGED tableVars

ScoreBecomes(e, score) ==
  /\ Bounded(score)
  /\ scores' = [scores EXCEPT ![e] = score]

\* The verdict on a buzz winner.
JudgeBuzz(verdict) ==
  /\ phase = "answering" /\ clue # None /\ clue.buzzWinner # None
  /\ LET e == seat[clue.buzzWinner]
     IN  \/ verdict = "correct" /\ AfterCorrect(e, Value(clue))
         \/ /\ verdict = "wrong"
            /\ ScoreBecomes(e, AfterWrong(scores[e], Value(clue)))
            /\ AfterMiss(e, TRUE)
         \/ /\ verdict = "no-penalty"
            /\ AfterMiss(e, FALSE)
            /\ UNCHANGED scores

\* The verdict on a wager clue: the selector answered alone and keeps the pick.
JudgeWager(verdict) ==
  /\ phase = "wager-answering" /\ clue # None /\ clue.selectedBy # None /\ clue.wager # None
  /\ LET e == clue.selectedBy
     IN  \/ verdict = "correct" /\ AfterCorrect(e, clue.wager)
         \/ /\ verdict = "wrong"
            /\ ScoreBecomes(e, AfterWrong(scores[e], clue.wager))
            /\ CloseClue(controlEntity, {"judged"})
         \/ /\ verdict = "no-penalty"
            /\ CloseClue(controlEntity, {"judged"})
            /\ UNCHANGED scores

\* Under host-decides the clock informs and nothing moves.
OverTime ==
  /\ phase \in {"answering", "wager-answering"} /\ clue # None
  /\ phase = "answering" => clue.buzzWinner # None
  /\ phase = "wager-answering" => clue.selectedBy # None /\ clue.wager # None
  /\ rules.hostDecides
  /\ out' = {"answer-time-expired"}
  /\ UNCHANGED <<tableVars, phase, clue, scores>>

AnswerTimeoutBuzz ==
  /\ phase = "answering" /\ clue # None /\ clue.buzzWinner # None
  /\ ~rules.hostDecides
  /\ LET e == seat[clue.buzzWinner]
     IN  /\ ScoreBecomes(e, AfterTimeout(scores[e], Value(clue)))
         /\ AfterMiss(e, TRUE)

AnswerTimeoutWager ==
  /\ phase = "wager-answering" /\ clue # None /\ clue.selectedBy # None /\ clue.wager # None
  /\ ~rules.hostDecides
  /\ ScoreBecomes(clue.selectedBy, AfterTimeout(scores[clue.selectedBy], clue.wager))
  /\ CloseClue(controlEntity, {"judged"})

\* Manual mode: a wrong award deducts and locks out but leaves the clue open.
HostAward(e, verdict) ==
  /\ phase \in {"reading", "armed"} /\ clue # None
  /\ e \in InOrder
  /\ \/ verdict = "correct" /\ AfterCorrect(e, Value(clue))
     \/ /\ verdict = "wrong"
        /\ ScoreBecomes(e, AfterWrong(scores[e], Value(clue)))
        /\ clue' = [clue EXCEPT !.lockedOut =
                      @ \cup (IF rules.wrongLockedOut THEN {e} ELSE {})]
        /\ out' = {"judged"}
        /\ UNCHANGED <<tableVars, phase>>

CancelClue ==
  /\ phase \in CluePhases /\ clue # None
  /\ CloseClue(controlEntity, {})
  /\ UNCHANGED scores

-----------------------------------------------------------------------------
(* Wager cells (wagering.ts). *)

CommitAmount(amount) ==
  /\ clue' = [clue EXCEPT !.wager = amount]
  /\ phase' = "wager-answering"
  /\ out' = {"wager-committed", "clue-presented"}
  /\ UNCHANGED <<tableVars, scores>>

CommitWager(amount) ==
  /\ phase = "wagering" /\ clue # None /\ clue.selectedBy # None
  /\ rules.minimumWager <= amount /\ amount <= MaximumWager(scores[clue.selectedBy])
  /\ CommitAmount(amount)

WagerTimeout ==
  /\ phase = "wagering" /\ clue # None /\ clue.selectedBy # None
  /\ CommitAmount(rules.minimumWager)

-----------------------------------------------------------------------------
(* Typed answers and everyone-answers (judging.ts, everyone-answers.ts). *)

Submitted == {clue.submissions[i] : i \in DOMAIN clue.submissions}

\* closeEveryoneAnswers: with nothing in, the clue is dead.
CloseEveryoneAnswers(submissions, events) ==
  \/ /\ submissions = <<>>
     /\ CloseClue(controlEntity, events \cup {"answers-closed"})
  \/ /\ submissions # <<>>
     /\ phase' = "all-judging"
     /\ clue' = [clue EXCEPT !.submissions = submissions]
     /\ out' = events \cup {"answers-closed"}
     /\ UNCHANGED tableVars

\* The buzz winner's text is recorded for the host to judge.
SubmitTypedAnswer(p) ==
  /\ phase = "answering" /\ clue # None
  /\ rules.typed /\ seat[p] # None /\ clue.buzzWinner = p
  /\ clue' = [clue EXCEPT !.submissions =
                IF seat[p] \in Submitted THEN @ ELSE Append(@, seat[p])]
  /\ out' = {"answer-submitted"}
  /\ UNCHANGED <<tableVars, phase, scores>>

\* Everyone has answered.  A faulty variant waits for one answer too many.
OneMoreThanEveryone(submissions) == Len(submissions) > Len(entityOrder)
EveryoneIn(submissions) == Len(submissions) >= Len(entityOrder)

\* First submission per entity; the window closes by itself when every entity is in.
SubmitEveryoneAnswer(p) ==
  /\ phase = "all-answering" /\ clue # None
  /\ seat[p] # None /\ seat[p] \notin Submitted
  /\ LET submissions == Append(clue.submissions, seat[p])
     IN  \/ /\ EveryoneIn(submissions)
            /\ CloseEveryoneAnswers(submissions, {"answer-submitted"})
         \/ /\ ~EveryoneIn(submissions)
            /\ clue' = [clue EXCEPT !.submissions = submissions]
            /\ out' = {"answer-submitted"}
            /\ UNCHANGED <<tableVars, phase>>
  /\ UNCHANGED scores

\* close-answers by the host, or answer-timeout by the clock.
CloseAnswers ==
  /\ phase = "all-answering" /\ clue # None
  /\ CloseEveryoneAnswers(clue.submissions, {})
  /\ UNCHANGED scores

\* The verdict on one submission; a wrong one costs nothing.  The last verdict closes the
\* clue, and under last-correct the fastest correct entity takes control.
JudgeSubmission(e, verdict) ==
  LET correct == clue.correct \cup (IF verdict = "correct" THEN {e} ELSE {})
      wrong == clue.wrong \cup (IF verdict = "wrong" THEN {e} ELSE {})
      ranks == {i \in DOMAIN clue.submissions : clue.submissions[i] \in correct}
      fastest == clue.submissions[CHOOSE i \in ranks : \A j \in ranks : i <= j]
  IN  /\ phase = "all-judging" /\ clue # None
      /\ e \in Submitted /\ e \notin clue.correct \cup clue.wrong
      /\ \/ /\ verdict = "correct"
            /\ \E award \in Awards(Value(clue)) : ScoreBecomes(e, scores[e] + award)
         \/ verdict = "wrong" /\ UNCHANGED scores
      /\ \/ /\ Submitted \subseteq correct \cup wrong
            /\ CloseClue(IF rules.nextSelector = "last-correct" /\ ranks # {}
                           THEN fastest ELSE controlEntity, {"judged"})
         \/ /\ ~(Submitted \subseteq correct \cup wrong)
            /\ clue' = [clue EXCEPT !.correct = correct, !.wrong = wrong]
            /\ out' = {"judged"}
            /\ UNCHANGED <<tableVars, phase>>

=============================================================================
