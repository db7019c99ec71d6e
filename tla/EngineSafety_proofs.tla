-------------------------- MODULE EngineSafety_proofs -----------------------
(***************************************************************************)
(* The safety of GameEngine for every roster, board and settings record:   *)
(* the roster agrees with itself; what the game says about the entities on *)
(* it - who controls the board, bets, holds the floor, has yet to answer - *)
(* is about entities that are there; the final can be played to its end,   *)
(* sudden death stays among the tied, and the winner has the top score.    *)
(***************************************************************************)
EXTENDS GameEngine_proofs, FiniteSetTheorems

USE DEF Entity

-----------------------------------------------------------------------------
(* The roster.                                                                 *)

\* RosterIsConsistent without its counts: the member lists and the scoring order repeat
\* nobody.  This is the inductive form.
RosterInv ==
  /\ \A p \in Player, t \in Team :
       seat[p] = t <=> \E i \in DOMAIN members[t] : members[t][i] = p
  /\ \A t \in Team : \A i, j \in DOMAIN members[t] : members[t][i] = members[t][j] => i = j
  /\ \A p \in Player : seat[p] \in Team \cup {p, None}
  /\ \A p \in connected : seat[p] # None
  /\ InOrder = {seat[p] : p \in Player} \ {None}
  /\ \A i, j \in DOMAIN entityOrder : entityOrder[i] = entityOrder[j] => i = j

\* An empty lobby has an empty roster.
LEMMA RosterInit == Init => RosterInv
<1> SUFFICES ASSUME Init PROVE RosterInv
  OBVIOUS
<1>1. \A p \in Player : seat[p] = None
  BY DEF Init
<1>2. \A t \in Team : t # None /\ members[t] = <<>>
  BY NoneAssumption DEF Init
<1>3. entityOrder = <<>> /\ connected = {}
  BY DEF Init
<1>4. InOrder = {}
  BY <1>3 DEF InOrder
<1> QED
  BY <1>1, <1>2, <1>3, <1>4 DEF RosterInv

\* Every handler but the three of the lobby leaves the roster alone.
LEMMA OnlySeatingSeats ==
  ASSUME Selecting \/ Buzzing \/ Judging \/ Wagering \/ Typing \/ FinalRound \/ Staging
           \/ SuddenDeath \/ Surgery
  PROVE  UNCHANGED seatVars
<1>1. CASE Selecting
  BY <1>1 DEF Selecting, StartGame, SelectCell, SelectionTimeout, ReopenCell, tableVars
<1>2. CASE Buzzing
  BY <1>2 DEF Buzzing, ArmBuzzers, EarlyBuzz, BuzzWins, BuzzLocked, BuzzTimeout, CloseClue,
              tableVars
<1>3. CASE Judging
  BY <1>3 DEF Judging, JudgeBuzz, JudgeWager, OverTime, AnswerTimeoutBuzz,
              AnswerTimeoutWager, HostAward, CancelClue, AfterCorrect, AfterMiss, CloseClue,
              tableVars
<1>4. CASE Wagering
  BY <1>4 DEF Wagering, CommitWager, WagerTimeout, CommitAmount, tableVars
<1>5. CASE Typing
  BY <1>5 DEF Typing, SubmitTypedAnswer, SubmitEveryoneAnswer, CloseAnswers,
              JudgeSubmission, CloseEveryoneAnswers, CloseClue, tableVars
<1>6. CASE FinalRound
  BY <1>6 DEF FinalRound, CommitFinalWager, FinalWagerTimeout, SubmitFinalAnswer,
              FinalWritingTimeout, JudgeFinalEntity, boardSideVars, standingVars
<1>7. CASE Staging
  BY <1>7 DEF Staging, HostEndsRound, RoundTimeout, EndGame, Proceed, standingVars
<1>8. CASE SuddenDeath
  BY <1>8 DEF SuddenDeath, ArmTiebreaker, TiebreakerBuzz, TiebreakerBuzzTimeout,
              JudgeTiebreaker, TiebreakerNextClue, boardSideVars, standingVars
<1>9. CASE Surgery
  BY <1>9 DEF Surgery, ScoreAdjust, ScoreSet, HostScores, boardSideVars, standingVars
<1> QED
  BY <1>1, <1>2, <1>3, <1>4, <1>5, <1>6, <1>7, <1>8, <1>9

\* A roster nobody touches stays consistent.
LEMMA SameRoster == RosterInv /\ UNCHANGED seatVars => RosterInv'
  BY DEF RosterInv, InOrder, seatVars

\* A join seats a newcomer: on a team, at the end of its list, or alone; the scoring order
\* gains the entity exactly when nobody played for it yet.
LEMMA JoinRoster ==
  ASSUME TypeInv, RosterInv, NEW p \in Player, NEW t \in Team \cup {None}, PlayerJoins(p, t)
  PROVE  RosterInv'
<1> DEFINE e == IF t = None THEN p ELSE t
<1>0. /\ seat \in [Player -> Entity \cup {None}] /\ members \in [Team -> Seq(Player)]
      /\ entityOrder \in Seq(Entity) /\ connected \subseteq Player
      /\ None \notin Player /\ None \notin Team
  BY NoneAssumption DEF TypeInv, TypeOK
<1>1. /\ seat[p] = None /\ seat' = [seat EXCEPT ![p] = e]
      /\ connected' = connected \cup {p}
      /\ members' = [u \in Team |-> IF u = t THEN Append(members[u], p) ELSE members[u]]
      /\ \/ OpensEntity(t) /\ entityOrder' = Append(entityOrder, e)
         \/ ~OpensEntity(t) /\ entityOrder' = entityOrder
  BY DEF PlayerJoins
<1>2. e \in Entity /\ e # None /\ e \in Team \cup {p} /\ \A u \in Team : e = u <=> t = u
  BY <1>0, EntityAssumption
<1>3. seat'[p] = e /\ \A q \in Player \ {p} : seat'[q] = seat[q]
  BY <1>0, <1>1
<1> HIDE DEF e
<1>4. \A u \in Team \ {t} : members'[u] = members[u]
  BY <1>1
<1>5. ASSUME t \in Team
      PROVE  /\ Len(members[t]) \in Nat
             /\ DOMAIN members[t] = 1 .. Len(members[t])
             /\ DOMAIN members'[t] = 1 .. Len(members[t]) + 1
             /\ members'[t][Len(members[t]) + 1] = p
             /\ \A i \in DOMAIN members[t] : members'[t][i] = members[t][i]
  <2>1. members[t] \in Seq(Player) /\ members'[t] = Append(members[t], p)
    BY <1>0, <1>1, <1>5
  <2> QED
    BY <2>1
<1>6. \A u \in Team : \A i \in DOMAIN members[u] : members[u][i] # p
  BY <1>0, <1>1 DEF RosterInv
<1>7. \A q \in Player, u \in Team :
        seat'[q] = u <=> \E i \in DOMAIN members'[u] : members'[u][i] = q
  <2> SUFFICES ASSUME NEW q \in Player, NEW u \in Team
               PROVE  seat'[q] = u <=> \E i \in DOMAIN members'[u] : members'[u][i] = q
    OBVIOUS
  <2>1. CASE u # t
    <3>1. seat'[q] = u <=> seat[q] = u
      BY <1>0, <1>1, <1>2, <1>3, <2>1
    <3> QED
      BY <1>4, <2>1, <3>1 DEF RosterInv
  <2>2. CASE u = t /\ q = p
    BY <1>2, <1>3, <1>5, <2>2
  <2>3. CASE u = t /\ q # p
    <3>1. seat'[q] = u <=> \E i \in DOMAIN members[u] : members[u][i] = q
      BY <1>3, <2>3 DEF RosterInv
    <3> QED
      BY <1>5, <2>3, <3>1
  <2> QED
    BY <2>1, <2>2, <2>3
<1>8. \A u \in Team : \A i, j \in DOMAIN members'[u] : members'[u][i] = members'[u][j] => i = j
  <2> SUFFICES ASSUME NEW u \in Team, NEW i \in DOMAIN members'[u],
                      NEW j \in DOMAIN members'[u], members'[u][i] = members'[u][j]
               PROVE  i = j
    OBVIOUS
  <2>1. CASE u # t
    BY <1>4, <2>1 DEF RosterInv
  <2>2. CASE u = t
    BY <1>5, <1>6, <2>2 DEF RosterInv
  <2> QED
    BY <2>1, <2>2
<1>9. \A q \in Player : seat'[q] \in Team \cup {q, None}
  BY <1>2, <1>3 DEF RosterInv
<1>10. \A q \in connected' : seat'[q] # None
  BY <1>0, <1>1, <1>2, <1>3 DEF RosterInv
<1>11. {seat'[q] : q \in Player} \ {None} = (InOrder \cup {e})
  BY <1>1, <1>2, <1>3 DEF RosterInv
<1>12. CASE OpensEntity(t) /\ entityOrder' = Append(entityOrder, e)
  <2>1. e \notin InOrder
    <3>1. CASE t \in Team
      <4>1. e = t /\ members[t] = <<>>
        BY <1>2, <1>12, <3>1 DEF OpensEntity
      <4>2. \A q \in Player : seat[q] # t
        BY <3>1, <4>1 DEF RosterInv
      <4> QED
        BY <4>1, <4>2 DEF RosterInv
    <3>2. CASE t = None
      <4>1. e = p
        BY <3>2 DEF e
      <4>2. \A q \in Player : seat[q] # p
        BY <1>0, <1>1, EntityAssumption DEF RosterInv
      <4> QED
        BY <4>1, <4>2 DEF RosterInv
    <3> QED
      BY <3>1, <3>2
  <2>2. /\ Len(entityOrder) \in Nat /\ DOMAIN entityOrder = 1 .. Len(entityOrder)
        /\ DOMAIN entityOrder' = 1 .. Len(entityOrder) + 1
        /\ entityOrder'[Len(entityOrder) + 1] = e
        /\ \A i \in DOMAIN entityOrder : entityOrder'[i] = entityOrder[i]
    BY <1>0, <1>2, <1>12
  <2>3. InOrder' = InOrder \cup {e}
    BY <2>2 DEF InOrder
  <2>4. \A i, j \in DOMAIN entityOrder' : entityOrder'[i] = entityOrder'[j] => i = j
    BY <2>1, <2>2 DEF RosterInv, InOrder
  <2> QED
    BY <1>7, <1>8, <1>9, <1>10, <1>11, <2>3, <2>4 DEF RosterInv
<1>13. CASE ~OpensEntity(t) /\ entityOrder' = entityOrder
  <2>1. t \in Team /\ members[t] # <<>> /\ e = t
    BY <1>2, <1>13 DEF OpensEntity
  <2>2. members[t][1] \in Player /\ 1 \in DOMAIN members[t]
    BY <1>0, <2>1
  <2>3. e \in InOrder
    BY <1>2, <2>1, <2>2 DEF RosterInv
  <2> QED
    BY <1>7, <1>8, <1>9, <1>10, <1>11, <1>13, <2>3 DEF RosterInv, InOrder
<1> QED
  BY <1>1, <1>12, <1>13

\* Every step keeps the roster consistent.
LEMMA RosterStep == TypeInv /\ RosterInv /\ [Next]_vars => RosterInv'
<1> SUFFICES ASSUME TypeInv, RosterInv, [Next]_vars PROVE RosterInv'
  OBVIOUS
<1>1. ASSUME NEW p \in Player, NEW t \in Team \cup {None}, PlayerReturns(p, t)
      PROVE  RosterInv'
  BY <1>1 DEF PlayerReturns, RosterInv, InOrder
<1>2. ASSUME NEW p \in Player, PlayerLeave(p) PROVE RosterInv'
  BY <1>2 DEF PlayerLeave, RosterInv, InOrder
<1>3. CASE Seating
  BY <1>1, <1>2, <1>3, JoinRoster DEF Seating
<1>4. CASE Selecting \/ Buzzing \/ Judging \/ Wagering \/ Typing \/ FinalRound \/ Staging
             \/ SuddenDeath \/ Surgery
  BY <1>4, OnlySeatingSeats, SameRoster
<1>5. CASE UNCHANGED vars
  BY <1>5, SameRoster DEF vars, seatVars
<1> QED
  BY <1>3, <1>4, <1>5 DEF Next

\* A sequence that repeats nobody names as many as it is long.
LEMMA DistinctCount ==
  ASSUME NEW S, NEW s \in Seq(S), \A i, j \in DOMAIN s : s[i] = s[j] => i = j
  PROVE  /\ IsFiniteSet({s[i] : i \in DOMAIN s})
         /\ Cardinality({s[i] : i \in DOMAIN s}) = Len(s)
<1> DEFINE T == {s[i] : i \in DOMAIN s}
<1>1. Len(s) \in Nat /\ DOMAIN s = 1 .. Len(s)
  OBVIOUS
<1>2. IsFiniteSet(1 .. Len(s)) /\ Cardinality(1 .. Len(s)) = Len(s)
  BY <1>1, FS_Interval
<1>3. s \in Bijection(1 .. Len(s), T)
  <2>1. s \in [1 .. Len(s) -> T]
    BY <1>1
  <2> QED
    BY <1>1, <2>1 DEF Bijection, Injection, Surjection, IsInjective
<1> HIDE DEF T
<1>4. ExistsBijection(1 .. Len(s), T)
  BY <1>3 DEF ExistsBijection
<1>5. IsFiniteSet(T) /\ Cardinality(T) = Len(s)
  BY <1>2, <1>4, FS_Bijection
<1> QED
  BY <1>5 DEF T

\* The inductive form gives the counts.
LEMMA RosterCounts == TypeInv /\ RosterInv => RosterIsConsistent
<1> SUFFICES ASSUME TypeInv, RosterInv PROVE RosterIsConsistent
  OBVIOUS
<1>0. members \in [Team -> Seq(Player)] /\ entityOrder \in Seq(Entity)
  BY DEF TypeInv, TypeOK
<1>1. ASSUME NEW p \in Player, NEW t \in Team
      PROVE  Cardinality(Occurrences(p, t)) = IF seat[p] = t THEN 1 ELSE 0
  <2>1. CASE seat[p] = t
    <3>1. PICK i \in DOMAIN members[t] : members[t][i] = p
      BY <2>1 DEF RosterInv
    <3>2. Occurrences(p, t) = {i}
      BY <3>1 DEF Occurrences, RosterInv
    <3> QED
      BY <2>1, <3>2, FS_Singleton
  <2>2. CASE seat[p] # t
    <3>1. Occurrences(p, t) = {}
      BY <2>2 DEF Occurrences, RosterInv
    <3> QED
      BY <2>2, <3>1, FS_EmptySet
  <2> QED
    BY <2>1, <2>2
<1>2. Cardinality(InOrder) = Len(entityOrder)
  BY <1>0, DistinctCount DEF RosterInv, InOrder
<1> QED
  BY <1>1, <1>2 DEF RosterInv, RosterIsConsistent

\* The roster, the seats and the scoring order agree in every reachable state, for any
\* number of players and teams joining in any phase (lobby.ts).
THEOREM RosterAlwaysConsistent == Spec => []RosterIsConsistent
<1>1. Spec => []EngineInv
  BY EngineInvariant
<1>2. EngineInv /\ RosterInv /\ [Next]_vars => RosterInv'
  BY RosterStep DEF EngineInv
<1>3. EngineInv /\ RosterInv => RosterIsConsistent
  BY RosterCounts DEF EngineInv
<1> QED
  BY <1>1, <1>2, <1>3, RosterInit, PTL DEF Spec

-----------------------------------------------------------------------------
(* The board's side of the invariant: what it names and what a clue promises   *)
(* in the phase it is in.                                                      *)

\* A game that started has entities; control, the bettor and the submissions are theirs.
BoardNames ==
  /\ phase # "lobby" => entityOrder # <<>>
  /\ controlEntity \in InOrder \cup {None}
  /\ clue # None => clue.selectedBy \in InOrder \cup {None} /\ Submitted \subseteq InOrder

\* A wager clue has its bettor from the pick on, and its stake from the commit on.
StakeInv ==
  /\ phase \in {"wagering", "wager-answering"} => clue.selectedBy # None
  /\ phase = "wager-answering" => clue.wager # None

\* The board's half of FloorIsFair.
ClueFloor ==
  /\ phase = "answering" => /\ clue.buzzWinner # None
                            /\ seat[clue.buzzWinner] \in InOrder \ clue.lockedOut
  /\ phase \in {"reading", "armed"} => clue.buzzWinner = None

\* No verdict is in before the judging, no answer before the window opens, and an open
\* window has fewer answers than there are entities.
CrowdInv ==
  /\ clue # None /\ phase \notin {"all-judging", "game-over"} =>
       clue.correct = {} /\ clue.wrong = {}
  /\ phase = "reading" => clue.submissions = <<>>
  /\ phase = "all-answering" => Len(clue.submissions) < Len(entityOrder)
  /\ phase = "all-judging" => Submitted \ (clue.correct \cup clue.wrong) # {}

ClueInv == BoardNames /\ StakeInv /\ ClueFloor /\ CrowdInv

\* An empty lobby satisfies it.
LEMMA ClueInit == Init => ClueInv
  BY DEF Init, ClueInv, BoardNames, StakeInv, ClueFloor, CrowdInv

-----------------------------------------------------------------------------
(* What the flow spine leaves behind.                                          *)

\* After a deal: no clue is up, or a fresh one that `control` picked.
Dealt(control) ==
  \/ phase' \in {"awaiting-selection", "round-break"} /\ clue' = None
  \/ /\ phase' = "reading" \/ (phase' = "wagering" /\ control # None)
     /\ clue'.selectedBy = control
     /\ clue'.lockedOut = {} /\ clue'.buzzWinner = None /\ clue'.submissions = <<>>
     /\ clue'.correct = {} /\ clue'.wrong = {}

\* presentClue deals.
LEMMA PresentClueDeals ==
  ASSUME NEW r, NEW c, NEW control, NEW events, PresentClue(r, c, control, events)
  PROVE  Dealt(control) /\ phase' \in {"reading", "wagering"}
<1>1. /\ clue' = FreshClue(r, c, PlaysAsWager(r, c, control), control)
      /\ phase' = IF PlaysAsWager(r, c, control) THEN "wagering" ELSE "reading"
  BY DEF PresentClue
<1>2. PlaysAsWager(r, c, control) => control # None
  BY DEF PlaysAsWager
<1> QED
  BY <1>1, <1>2 DEF FreshClue, Dealt

\* closeClue deals, with control where it ends up, and touches neither seats nor endings.
LEMMA CloseClueDeals ==
  ASSUME TypeInv, NEW control \in InOrder \cup {None}, NEW events, CloseClue(control, events)
  PROVE  /\ Dealt(controlEntity') /\ controlEntity' \in InOrder \cup {None}
         /\ UNCHANGED <<rules, seatVars, endVars>>
<1> DEFINE r == clue.round
           left == hidden[r] \ {clue.cell}
           next == IF rules.nextSelector = "rotate" THEN NextInRotation(control) ELSE control
           narrated == events \cup {"clue-finished"}
                     \cup (IF rules.nextSelector = "rotate" THEN {"control-assigned"} ELSE {})
<1>1. next \in InOrder \cup {None}
  BY NextInRotationType DEF TypeInv, TypeOK
<1>2. controlEntity' = next /\ UNCHANGED <<rules, seatVars, endVars>>
  BY DEF CloseClue
<1>3. \/ EndRound(narrated)
      \/ PresentClue(r, SweepCell(left), next, narrated)
      \/ AwaitSelection(narrated)
  BY DEF CloseClue
<1> HIDE DEF r, left, next, narrated
<1>4. CASE EndRound(narrated)
  BY <1>1, <1>2, <1>4 DEF EndRound, Dealt
<1>5. CASE PresentClue(r, SweepCell(left), next, narrated)
  BY <1>1, <1>2, <1>5, PresentClueDeals
<1>6. CASE AwaitSelection(narrated)
  BY <1>1, <1>2, <1>6 DEF AwaitSelection, Dealt
<1> QED
  BY <1>3, <1>4, <1>5, <1>6

\* startRound deals, with control at the selector or nowhere.
LEMMA StartRoundDeals ==
  ASSUME NEW r, NEW selector \in InOrder \cup {None}, NEW cells, NEW events,
         StartRound(r, selector, cells, events)
  PROVE  Dealt(controlEntity') /\ controlEntity' \in InOrder \cup {None}
<1> DEFINE narrated == events \cup {"round-started", "control-assigned"}
                     \cup Clocked("round-time-limit", "round-time-limit")
<1>1. controlEntity' = IF rules.nextSelector = "auto-sweep" THEN None ELSE selector
  BY DEF StartRound
<1>2. CASE rules.nextSelector = "auto-sweep" /\ cells # {}
  <2>1. PresentClue(r, SweepCell(cells), None, narrated)
    BY <1>2 DEF StartRound
  <2> HIDE DEF narrated
  <2> QED
    BY <1>1, <1>2, <2>1, PresentClueDeals
<1>3. CASE ~(rules.nextSelector = "auto-sweep" /\ cells # {})
  BY <1>1, <1>3 DEF StartRound, AwaitSelection, Dealt
<1> QED
  BY <1>2, <1>3

\* A deal to a scoring entity re-establishes everything a clue promises.
LEMMA DealKeeps ==
  ASSUME ClueInv, entityOrder # <<>>, Dealt(controlEntity'),
         controlEntity' \in InOrder \cup {None}, UNCHANGED seatVars
  PROVE  ClueInv'
<1>1. InOrder' = InOrder /\ entityOrder' = entityOrder
  BY DEF InOrder, seatVars
<1>2. CASE phase' \in {"awaiting-selection", "round-break"} /\ clue' = None
  BY <1>1, <1>2 DEF ClueInv, BoardNames, StakeInv, ClueFloor, CrowdInv
<1>3. CASE /\ phase' = "reading" \/ (phase' = "wagering" /\ controlEntity' # None)
           /\ clue'.selectedBy = controlEntity'
           /\ clue'.lockedOut = {} /\ clue'.buzzWinner = None /\ clue'.submissions = <<>>
           /\ clue'.correct = {} /\ clue'.wrong = {}
  <2>1. Submitted' = {}
    BY <1>3 DEF Submitted
  <2> QED
    BY <1>1, <1>3, <2>1 DEF ClueInv, BoardNames, StakeInv, ClueFloor, CrowdInv
<1> QED
  BY <1>2, <1>3 DEF Dealt

\* closeClue therefore keeps the invariant.
LEMMA CloseClueKeeps ==
  ASSUME TypeInv, ClueInv, phase # "lobby", NEW control \in InOrder \cup {None}, NEW events,
         CloseClue(control, events)
  PROVE  ClueInv'
  BY CloseClueDeals, DealKeeps DEF ClueInv, BoardNames

\* A handler that leaves the clue, control and the phase alone keeps it.
LEMMA SameClue ==
  ClueInv /\ UNCHANGED <<phase, clue, controlEntity, seat, entityOrder>> => ClueInv'
  BY DEF ClueInv, BoardNames, StakeInv, ClueFloor, CrowdInv, InOrder, Submitted

\* So does one that leaves the clue phases with no clue up, or that ends the game.
LEMMA NoClueKeeps ==
  ASSUME ClueInv, phase # "lobby", UNCHANGED <<controlEntity, seatVars>>,
         phase' \notin CluePhases,
         clue' = None \/ (clue' = clue /\ phase' = "game-over")
  PROVE  ClueInv'
<1>1. /\ InOrder' = InOrder /\ entityOrder' = entityOrder /\ controlEntity' = controlEntity
      /\ clue' = clue => Submitted' = Submitted
  BY DEF InOrder, Submitted, seatVars
<1>2. BoardNames'
  BY <1>1 DEF ClueInv, BoardNames
<1>3. StakeInv' /\ ClueFloor'
  BY DEF StakeInv, ClueFloor, CluePhases
<1>4. CrowdInv'
  BY DEF CrowdInv, CluePhases
<1> QED
  BY <1>2, <1>3, <1>4 DEF ClueInv

-----------------------------------------------------------------------------
(* Every handler keeps the board's side.  One lemma per group of actions.      *)

\* Late joins only make the order longer, and whoever holds the floor keeps the seat.
LEMMA SeatingClue == TypeInv /\ RosterInv /\ BoardInv /\ ClueInv /\ Seating => ClueInv'
<1> SUFFICES ASSUME TypeInv, RosterInv, BoardInv, ClueInv, Seating PROVE ClueInv'
  OBVIOUS
<1>1. ASSUME NEW p \in Player, NEW t \in Team \cup {None}, PlayerReturns(p, t)
      PROVE  ClueInv'
  BY <1>1, SameClue DEF PlayerReturns, gameVars
<1>2. ASSUME NEW p \in Player, PlayerLeave(p) PROVE ClueInv'
  BY <1>2, SameClue DEF PlayerLeave, gameVars
<1>3. ASSUME NEW p \in Player, NEW t \in Team \cup {None}, PlayerJoins(p, t) PROVE ClueInv'
  <2> DEFINE e == IF t = None THEN p ELSE t
  <2>1. /\ entityOrder \in Seq(Entity) /\ seat \in [Player -> Entity \cup {None}]
        /\ e \in Entity
    BY DEF TypeInv, TypeOK
  <2>2. /\ seat' = [seat EXCEPT ![p] = e] /\ seat[p] = None
        /\ entityOrder' = Append(entityOrder, e) \/ entityOrder' = entityOrder
        /\ UNCHANGED <<phase, clue, controlEntity>>
    BY <1>3 DEF PlayerJoins, gameVars
  <2> HIDE DEF e
  <2>3. /\ InOrder \subseteq InOrder' /\ Len(entityOrder) <= Len(entityOrder')
        /\ entityOrder # <<>> => entityOrder' # <<>>
    BY <2>1, <2>2 DEF InOrder
  <2>4. \A q \in Player : seat[q] # None => seat'[q] = seat[q]
    BY <2>1, <2>2
  <2>5. Submitted' = Submitted
    BY <2>2 DEF Submitted
  <2>6. phase = "answering" => clue.buzzWinner \in Player /\ seat[clue.buzzWinner] # None
    <3>1. phase = "answering" => clue \in Clue
      BY DEF BoardInv, ClueMatchesPhase, CluePhases, TypeInv, TypeOK
    <3>2. None \notin InOrder
      BY <2>1, InOrderType, NoneAssumption
    <3> QED
      BY <3>1, <3>2 DEF ClueInv, ClueFloor, Clue
  <2>7. BoardNames' /\ StakeInv' /\ ClueFloor'
    BY <2>2, <2>3, <2>4, <2>5, <2>6 DEF ClueInv, BoardNames, StakeInv, ClueFloor
  <2>8. CrowdInv'
    <3>1. Len(entityOrder) \in Nat /\ Len(entityOrder') \in Nat
      BY <2>1, <2>2
    <3>2. phase = "all-answering" => Len(clue.submissions) \in Nat
      BY DEF BoardInv, ClueMatchesPhase, CluePhases, TypeInv, TypeOK, Clue
    <3> QED
      BY <2>2, <2>3, <2>5, <3>1, <3>2 DEF ClueInv, CrowdInv
  <2> QED
    BY <2>7, <2>8 DEF ClueInv
<1> QED
  BY <1>1, <1>2, <1>3 DEF Seating

\* Starting and picking deal; a reopened cell changes no clue.
LEMMA SelectingClue == TypeInv /\ ClueInv /\ Selecting => ClueInv'
<1> SUFFICES ASSUME TypeInv, ClueInv, Selecting PROVE ClueInv'
  OBVIOUS
<1>1. CASE StartGame
  <2>1. PICK e \in FirstSelectors : StartRound(0, e, Cell, {"game-started"})
    BY <1>1 DEF StartGame
  <2>2. e \in InOrder \cup {None}
    BY DEF FirstSelectors
  <2>3. entityOrder # <<>> /\ UNCHANGED seatVars
    BY <1>1 DEF StartGame
  <2> QED
    BY <2>1, <2>2, <2>3, StartRoundDeals, DealKeeps
<1>2. ASSUME NEW c \in Cell, PresentClue(roundIndex, c, controlEntity, {}),
             phase = "awaiting-selection", UNCHANGED tableVars
      PROVE  ClueInv'
  <2>1. Dealt(controlEntity') /\ controlEntity' \in InOrder \cup {None} /\ entityOrder # <<>>
    BY <1>2, PresentClueDeals DEF ClueInv, BoardNames, tableVars
  <2> QED
    BY <1>2, <2>1, DealKeeps DEF tableVars
<1>3. ASSUME NEW c \in Cell, NEW by \in Entity \cup {None}, SelectCell(c, by) PROVE ClueInv'
  BY <1>2, <1>3 DEF SelectCell
<1>4. CASE SelectionTimeout
  <2>1. hidden[roundIndex] \subseteq Cell
    BY DEF TypeInv, TypeOK
  <2> QED
    BY <1>2, <1>4, <2>1 DEF SelectionTimeout
<1>5. ASSUME NEW c \in Cell, ReopenCell(c) PROVE ClueInv'
  BY <1>5, SameClue DEF ReopenCell, seatVars
<1> QED
  BY <1>1, <1>3, <1>4, <1>5 DEF Selecting

\* The table left alone: the names only have to hold for the new clue.
LEMMA TableNames ==
  ASSUME ClueInv, UNCHANGED tableVars, phase # "lobby",
         clue' # None => clue'.selectedBy \in InOrder \cup {None} /\ Submitted' \subseteq InOrder
  PROVE  BoardNames' /\ InOrder' = InOrder /\ UNCHANGED <<seat, entityOrder, controlEntity>>
<1>1. InOrder' = InOrder /\ UNCHANGED <<seat, entityOrder, controlEntity>>
  BY DEF InOrder, tableVars, seatVars
<1> QED
  BY <1>1 DEF ClueInv, BoardNames

\* A seated press names a scoring entity.
LEMMA SeatScores ==
  ASSUME TypeInv, RosterInv, NEW p \in Player, seat[p] # None
  PROVE  seat[p] \in InOrder
  BY DEF RosterInv

\* Arming, pressing and the buzz window (buzzing.ts) keep the board's side.
LEMMA BuzzingClue == TypeInv /\ RosterInv /\ ClueInv /\ Buzzing => ClueInv'
<1> SUFFICES ASSUME TypeInv, RosterInv, ClueInv, Buzzing PROVE ClueInv'
  OBVIOUS
<1>0. clue # None => clue \in Clue
  BY DEF TypeInv, TypeOK
<1>1. CASE ArmBuzzers
  <2>1. /\ clue # None /\ phase = "reading" /\ UNCHANGED tableVars
        /\ clue.buzzWinner = None /\ clue.submissions = <<>>
        /\ clue.correct = {} /\ clue.wrong = {}
        /\ clue.selectedBy \in InOrder \cup {None} /\ Submitted \subseteq InOrder
        /\ entityOrder # <<>>
    BY <1>1 DEF ArmBuzzers, ClueInv, BoardNames, ClueFloor, CrowdInv
  <2>2. /\ phase' \in {"all-answering", "armed"}
        /\ clue' = clue \/ clue' = [clue EXCEPT !.buzzWinner = None]
    BY <1>1 DEF ArmBuzzers
  <2>3. /\ clue'.selectedBy = clue.selectedBy /\ clue'.submissions = <<>>
        /\ clue'.buzzWinner = None /\ clue'.correct = {} /\ clue'.wrong = {}
    BY <1>0, <2>1, <2>2 DEF Clue
  <2>4. Submitted' = Submitted
    BY <2>1, <2>3 DEF Submitted
  <2>5. BoardNames' /\ InOrder' = InOrder /\ UNCHANGED <<seat, entityOrder, controlEntity>>
    BY <2>1, <2>3, <2>4, TableNames
  <2>6. Len(entityOrder) > 0 /\ Len(<<>>) = 0
    BY <2>1 DEF TypeInv, TypeOK
  <2>7. StakeInv' /\ ClueFloor' /\ CrowdInv'
    BY <2>2, <2>3, <2>5, <2>6 DEF StakeInv, ClueFloor, CrowdInv
  <2> QED
    BY <2>5, <2>7 DEF ClueInv
<1>2. ASSUME NEW p \in Player, EarlyBuzz(p) PROVE ClueInv'
  <2>1. /\ clue # None /\ phase' = phase /\ phase = "reading" /\ UNCHANGED tableVars
        /\ clue' = [clue EXCEPT !.earlyLocked = @ \cup {EarlyKey(p)}]
    BY <1>2 DEF EarlyBuzz
  <2>2. /\ clue'.selectedBy = clue.selectedBy /\ clue'.submissions = clue.submissions
        /\ clue'.buzzWinner = clue.buzzWinner
        /\ clue'.correct = clue.correct /\ clue'.wrong = clue.wrong
    BY <1>0, <2>1 DEF Clue
  <2>3. Submitted' = Submitted
    BY <2>2 DEF Submitted
  <2>4. BoardNames'
    BY <2>1, <2>2, <2>3, TableNames DEF ClueInv, BoardNames
  <2>5. StakeInv' /\ ClueFloor' /\ CrowdInv'
    BY <2>1, <2>2 DEF ClueInv, StakeInv, ClueFloor, CrowdInv
  <2> QED
    BY <2>4, <2>5 DEF ClueInv
<1>3. ASSUME NEW p \in Player, BuzzWins(p) PROVE ClueInv'
  <2>1. /\ clue # None /\ phase' = "answering" /\ phase = "armed" /\ UNCHANGED tableVars
        /\ seat[p] # None /\ seat[p] \notin clue.lockedOut
        /\ clue' = [clue EXCEPT !.buzzWinner = p]
    BY <1>3 DEF BuzzWins, InTheRace
  <2>2. /\ clue'.selectedBy = clue.selectedBy /\ clue'.submissions = clue.submissions
        /\ clue'.buzzWinner = p /\ clue'.lockedOut = clue.lockedOut
        /\ clue'.correct = clue.correct /\ clue'.wrong = clue.wrong
    BY <1>0, <2>1 DEF Clue
  <2>3. Submitted' = Submitted
    BY <2>2 DEF Submitted
  <2>4. BoardNames' /\ InOrder' = InOrder /\ UNCHANGED <<seat, entityOrder, controlEntity>>
    BY <2>1, <2>2, <2>3, TableNames DEF ClueInv, BoardNames
  <2>5. ClueFloor'
    BY <2>1, <2>2, <2>4, SeatScores, NoneAssumption DEF ClueFloor
  <2>6. StakeInv' /\ CrowdInv'
    BY <2>1, <2>2 DEF ClueInv, StakeInv, CrowdInv
  <2> QED
    BY <2>4, <2>5, <2>6 DEF ClueInv
<1>4. ASSUME NEW p \in Player, BuzzLocked(p) PROVE ClueInv'
  BY <1>4, SameClue DEF BuzzLocked, tableVars, seatVars
<1>5. CASE BuzzTimeout
  <2>1. phase # "lobby" /\ controlEntity \in InOrder \cup {None} /\ CloseClue(controlEntity, {})
    BY <1>5 DEF BuzzTimeout, ClueInv, BoardNames
  <2> QED
    BY <2>1, CloseClueKeeps
<1> QED
  BY <1>1, <1>2, <1>3, <1>4, <1>5 DEF Buzzing

\* A miss reopens the race with nobody holding it, or closes the clue.
LEMMA AfterMissClue ==
  ASSUME TypeInv, ClueInv, phase = "answering", clue # None, NEW e \in Entity, NEW lockOut,
         AfterMiss(e, lockOut)
  PROVE  ClueInv'
<1>0. clue \in Clue /\ controlEntity \in InOrder \cup {None}
  BY DEF TypeInv, TypeOK, ClueInv, BoardNames
<1>1. CASE CloseClue(controlEntity, {"judged"})
  BY <1>0, <1>1, CloseClueKeeps
<1>2. CASE /\ phase' = "armed" /\ UNCHANGED tableVars
           /\ clue' = [clue EXCEPT !.lockedOut = LockedOutAfter(e, lockOut),
                                   !.buzzWinner = None]
  <2>1. /\ clue'.selectedBy = clue.selectedBy /\ clue'.submissions = clue.submissions
        /\ clue'.buzzWinner = None
        /\ clue'.correct = clue.correct /\ clue'.wrong = clue.wrong
    BY <1>0, <1>2 DEF Clue
  <2>2. Submitted' = Submitted
    BY <2>1 DEF Submitted
  <2>3. BoardNames'
    BY <1>2, <2>1, <2>2, TableNames DEF ClueInv, BoardNames
  <2>4. StakeInv' /\ ClueFloor' /\ CrowdInv'
    BY <1>2, <2>1 DEF ClueInv, StakeInv, ClueFloor, CrowdInv
  <2> QED
    BY <2>3, <2>4 DEF ClueInv
<1> QED
  BY <1>1, <1>2 DEF AfterMiss

\* The verdicts of the host and of the clock (judging.ts) keep the board's side.
LEMMA JudgingClue == TypeInv /\ RosterInv /\ ClueInv /\ Judging => ClueInv'
<1> SUFFICES ASSUME TypeInv, RosterInv, ClueInv, Judging PROVE ClueInv'
  OBVIOUS
<1>0. /\ clue # None => clue \in Clue
      /\ controlEntity \in InOrder \cup {None}
      /\ seat \in [Player -> Entity \cup {None}]
      /\ InOrder \subseteq Entity
  BY InOrderType DEF TypeInv, TypeOK, ClueInv, BoardNames
<1>1. ASSUME phase = "answering", clue # None, clue.buzzWinner # None
      PROVE  seat[clue.buzzWinner] \in InOrder
  BY <1>1 DEF ClueInv, ClueFloor
<1>2. ASSUME phase = "wager-answering", clue # None, clue.selectedBy # None
      PROVE  clue.selectedBy \in InOrder
  BY <1>2 DEF ClueInv, BoardNames
<1>3. ASSUME NEW e \in InOrder, NEW stake, phase # "lobby", AfterCorrect(e, stake)
      PROVE  ClueInv'
  <2>1. PICK control \in InOrder \cup {None} : CloseClue(control, {"judged"})
    BY <1>0, <1>3 DEF AfterCorrect
  <2> QED
    BY <1>3, <2>1, CloseClueKeeps
<1>4. ASSUME NEW v, JudgeBuzz(v) PROVE ClueInv'
  <2>1. seat[clue.buzzWinner] \in InOrder /\ seat[clue.buzzWinner] \in Entity
    BY <1>0, <1>1, <1>4 DEF JudgeBuzz
  <2>2. phase = "answering" /\ clue # None
    BY <1>4 DEF JudgeBuzz
  <2>3. \/ AfterCorrect(seat[clue.buzzWinner], Value(clue))
        \/ AfterMiss(seat[clue.buzzWinner], TRUE)
        \/ AfterMiss(seat[clue.buzzWinner], FALSE)
    BY <1>4 DEF JudgeBuzz
  <2> QED
    BY <1>3, <2>1, <2>2, <2>3, AfterMissClue
<1>5. ASSUME NEW v, JudgeWager(v) PROVE ClueInv'
  <2>1. clue.selectedBy \in InOrder /\ phase # "lobby"
    BY <1>2, <1>5 DEF JudgeWager
  <2>2. AfterCorrect(clue.selectedBy, clue.wager) \/ CloseClue(controlEntity, {"judged"})
    BY <1>5 DEF JudgeWager
  <2> QED
    BY <1>0, <1>3, <2>1, <2>2, CloseClueKeeps
<1>6. CASE OverTime
  BY <1>6, SameClue DEF OverTime, tableVars, seatVars
<1>7. CASE AnswerTimeoutBuzz
  <2>1. seat[clue.buzzWinner] \in InOrder
    BY <1>1, <1>7 DEF AnswerTimeoutBuzz
  <2> QED
    BY <1>0, <1>7, <2>1, AfterMissClue DEF AnswerTimeoutBuzz
<1>8. CASE AnswerTimeoutWager
  BY <1>0, <1>8, CloseClueKeeps DEF AnswerTimeoutWager
<1>9. ASSUME NEW e \in Entity, NEW v, HostAward(e, v) PROVE ClueInv'
  <2>1. phase \in {"reading", "armed"} /\ clue # None /\ e \in InOrder
    BY <1>9 DEF HostAward
  <2>2. CASE AfterCorrect(e, Value(clue))
    BY <1>3, <2>1, <2>2
  <2>3. CASE /\ clue' = [clue EXCEPT !.lockedOut =
                          @ \cup (IF rules.wrongLockedOut THEN {e} ELSE {})]
             /\ UNCHANGED <<tableVars, phase>>
    <3>1. /\ clue'.selectedBy = clue.selectedBy /\ clue'.submissions = clue.submissions
          /\ clue'.buzzWinner = clue.buzzWinner
          /\ clue'.correct = clue.correct /\ clue'.wrong = clue.wrong
      BY <1>0, <2>1, <2>3 DEF Clue
    <3>2. Submitted' = Submitted
      BY <3>1 DEF Submitted
    <3>3. BoardNames'
      BY <2>1, <2>3, <3>1, <3>2, TableNames DEF ClueInv, BoardNames
    <3>4. StakeInv' /\ ClueFloor' /\ CrowdInv'
      BY <2>1, <2>3, <3>1 DEF ClueInv, StakeInv, ClueFloor, CrowdInv
    <3> QED
      BY <3>3, <3>4 DEF ClueInv
  <2> QED
    BY <1>9, <2>2, <2>3 DEF HostAward
<1>10. CASE CancelClue
  <2>1. phase # "lobby" /\ CloseClue(controlEntity, {})
    BY <1>10 DEF CancelClue, CluePhases
  <2> QED
    BY <1>0, <2>1, CloseClueKeeps
<1> QED
  BY <1>4, <1>5, <1>6, <1>7, <1>8, <1>9, <1>10 DEF Judging

\* A committed stake is a number; the timeout commits the minimum (wagering.ts).
LEMMA WageringClue == TypeInv /\ ClueInv /\ Wagering => ClueInv'
<1> SUFFICES ASSUME TypeInv, ClueInv, Wagering PROVE ClueInv'
  OBVIOUS
<1>0. rules.minimumWager \in Int /\ WagerInputs \subseteq Int
  BY RulesAssumption, InputAssumption DEF TypeInv, TypeOK, RulesType
<1>1. PICK amount \in Int : CommitAmount(amount) /\ phase = "wagering" /\ clue # None
  BY <1>0 DEF Wagering, CommitWager, WagerTimeout
<1>2. /\ clue \in Clue /\ clue' = [clue EXCEPT !.wager = amount]
      /\ phase' = "wager-answering" /\ UNCHANGED tableVars /\ amount # None
  BY <1>1, NoneAssumption DEF CommitAmount, TypeInv, TypeOK
<1>3. /\ clue'.selectedBy = clue.selectedBy /\ clue'.submissions = clue.submissions
      /\ clue'.wager = amount
      /\ clue'.correct = clue.correct /\ clue'.wrong = clue.wrong
  BY <1>2 DEF Clue
<1>4. Submitted' = Submitted
  BY <1>3 DEF Submitted
<1>5. BoardNames'
  BY <1>1, <1>2, <1>3, <1>4, TableNames DEF ClueInv, BoardNames
<1>6. StakeInv' /\ ClueFloor' /\ CrowdInv'
  BY <1>1, <1>2, <1>3 DEF ClueInv, StakeInv, ClueFloor, CrowdInv
<1> QED
  BY <1>5, <1>6 DEF ClueInv

\* closeEveryoneAnswers closes the clue or hands the submissions to the host, unjudged.
LEMMA CloseEveryoneAnswersClue ==
  ASSUME TypeInv, ClueInv, phase = "all-answering", clue # None,
         NEW s \in Seq(InOrder), NEW events, CloseEveryoneAnswers(s, events)
  PROVE  ClueInv'
<1>0. /\ clue \in Clue /\ controlEntity \in InOrder \cup {None}
      /\ clue.correct = {} /\ clue.wrong = {}
  BY DEF TypeInv, TypeOK, ClueInv, BoardNames, CrowdInv
<1>1. CASE CloseClue(controlEntity, events \cup {"answers-closed"})
  BY <1>0, <1>1, CloseClueKeeps
<1>2. CASE /\ s # <<>> /\ phase' = "all-judging" /\ UNCHANGED tableVars
           /\ clue' = [clue EXCEPT !.submissions = s]
  <2>1. /\ clue'.selectedBy = clue.selectedBy /\ clue'.submissions = s
        /\ clue'.correct = {} /\ clue'.wrong = {}
    BY <1>0, <1>2 DEF Clue
  <2>2. Submitted' \subseteq InOrder
    BY <2>1 DEF Submitted
  <2>3. s[1] \in Submitted'
    BY <1>2, <2>1 DEF Submitted
  <2>4. BoardNames'
    BY <1>0, <1>2, <2>1, <2>2, TableNames DEF ClueInv, BoardNames
  <2>5. StakeInv' /\ ClueFloor' /\ CrowdInv'
    BY <1>2, <2>1, <2>3 DEF StakeInv, ClueFloor, CrowdInv
  <2> QED
    BY <2>4, <2>5 DEF ClueInv
<1> QED
  BY <1>1, <1>2 DEF CloseEveryoneAnswers

\* The submissions so far are a sequence of scoring entities.
LEMMA SubmissionsScore ==
  ASSUME TypeInv, ClueInv, clue # None
  PROVE  clue.submissions \in Seq(InOrder)
<1>1. clue.submissions \in Seq(Entity) /\ Submitted \subseteq InOrder
  BY DEF TypeInv, TypeOK, Clue, ClueInv, BoardNames
<1> QED
  BY <1>1 DEF Submitted

\* Typed answers and everyone-answers keep the board's side; control goes to one who
\* submitted.
LEMMA TypingClue == TypeInv /\ RosterInv /\ ClueInv /\ Typing => ClueInv'
<1> SUFFICES ASSUME TypeInv, RosterInv, ClueInv, Typing PROVE ClueInv'
  OBVIOUS
<1>0. /\ clue # None => clue \in Clue
      /\ controlEntity \in InOrder \cup {None}
  BY DEF TypeInv, TypeOK, ClueInv, BoardNames
<1>1. ASSUME NEW p \in Player, SubmitTypedAnswer(p) PROVE ClueInv'
  <2>1. /\ phase = "answering" /\ phase' = phase /\ clue # None /\ UNCHANGED tableVars
        /\ seat[p] \in InOrder
        /\ clue' = [clue EXCEPT !.submissions =
                      IF seat[p] \in Submitted THEN @ ELSE Append(@, seat[p])]
    BY <1>1, SeatScores DEF SubmitTypedAnswer
  <2>2. /\ clue'.selectedBy = clue.selectedBy /\ clue'.buzzWinner = clue.buzzWinner
        /\ clue'.lockedOut = clue.lockedOut
        /\ clue'.submissions \in {clue.submissions, Append(clue.submissions, seat[p])}
        /\ clue'.correct = clue.correct /\ clue'.wrong = clue.wrong
    BY <1>0, <2>1 DEF Clue
  <2>3. clue'.submissions \in Seq(InOrder)
    BY <2>1, <2>2, SubmissionsScore
  <2>4. Submitted' \subseteq InOrder
    BY <2>3 DEF Submitted
  <2>5. BoardNames' /\ InOrder' = InOrder /\ UNCHANGED <<seat, entityOrder, controlEntity>>
    BY <2>1, <2>2, <2>4, TableNames DEF ClueInv, BoardNames
  <2>6. StakeInv' /\ ClueFloor' /\ CrowdInv'
    BY <2>1, <2>2, <2>5 DEF ClueInv, StakeInv, ClueFloor, CrowdInv
  <2> QED
    BY <2>5, <2>6 DEF ClueInv
<1>2. ASSUME NEW p \in Player, SubmitEveryoneAnswer(p) PROVE ClueInv'
  <2> DEFINE s == Append(clue.submissions, seat[p])
  <2>1. /\ phase = "all-answering" /\ clue # None /\ seat[p] \in InOrder
        /\ clue.correct = {} /\ clue.wrong = {}
    BY <1>2, SeatScores DEF SubmitEveryoneAnswer, ClueInv, CrowdInv
  <2>2. s \in Seq(InOrder)
    BY <2>1, SubmissionsScore
  <2>3. \/ CloseEveryoneAnswers(s, {"answer-submitted"})
        \/ /\ ~EveryoneIn(s) /\ clue' = [clue EXCEPT !.submissions = s]
           /\ UNCHANGED <<tableVars, phase>>
    BY <1>2 DEF SubmitEveryoneAnswer
  <2> HIDE DEF s
  <2>4. CASE ~EveryoneIn(s) /\ clue' = [clue EXCEPT !.submissions = s]
               /\ UNCHANGED <<tableVars, phase>>
    <3>1. /\ clue'.selectedBy = clue.selectedBy /\ clue'.submissions = s
          /\ clue'.correct = {} /\ clue'.wrong = {}
      BY <1>0, <2>1, <2>4 DEF Clue
    <3>2. Submitted' \subseteq InOrder
      BY <2>2, <3>1 DEF Submitted
    <3>3. BoardNames' /\ UNCHANGED entityOrder
      BY <2>1, <2>4, <3>1, <3>2, TableNames DEF ClueInv, BoardNames
    <3>4. Len(s) < Len(entityOrder)
      BY <2>2, <2>4 DEF EveryoneIn, TypeInv, TypeOK
    <3>5. StakeInv' /\ ClueFloor' /\ CrowdInv'
      BY <2>1, <2>4, <3>1, <3>3, <3>4 DEF StakeInv, ClueFloor, CrowdInv
    <3> QED
      BY <3>3, <3>5 DEF ClueInv
  <2> QED
    BY <2>1, <2>2, <2>3, <2>4, CloseEveryoneAnswersClue
<1>3. CASE CloseAnswers
  BY <1>3, SubmissionsScore, CloseEveryoneAnswersClue DEF CloseAnswers
<1>4. ASSUME NEW e \in Entity, NEW v, JudgeSubmission(e, v) PROVE ClueInv'
  <2> DEFINE correct == clue.correct \cup (IF v = "correct" THEN {e} ELSE {})
             wrong == clue.wrong \cup (IF v = "wrong" THEN {e} ELSE {})
             ranks == {i \in DOMAIN clue.submissions : clue.submissions[i] \in correct}
             least == CHOOSE i \in ranks : \A j \in ranks : i <= j
             fastest == clue.submissions[least]
  <2>1. /\ phase = "all-judging" /\ clue # None
        /\ \/ CloseClue(IF rules.nextSelector = "last-correct" /\ ranks # {}
                          THEN fastest ELSE controlEntity, {"judged"})
           \/ /\ ~(Submitted \subseteq correct \cup wrong)
              /\ clue' = [clue EXCEPT !.correct = correct, !.wrong = wrong]
              /\ UNCHANGED <<tableVars, phase>>
    BY <1>4 DEF JudgeSubmission
  <2>2. ranks # {} => fastest \in InOrder
    <3>1. clue.submissions \in Seq(InOrder) /\ ranks \in SUBSET Nat
      BY <1>0, <2>1, SubmissionsScore
    <3>2. ranks # {} => least \in ranks
      <4> HIDE DEF correct
      <4> QED BY <3>1, LeastIndex
    <3>3. ranks \subseteq DOMAIN clue.submissions
      OBVIOUS
    <3>4. \A i \in DOMAIN clue.submissions : clue.submissions[i] \in InOrder
      BY <3>1, ElementOfSeq
    <3> HIDE DEF ranks, least
    <3> QED
      BY <3>2, <3>3, <3>4
  <2> HIDE DEF correct, wrong, ranks, least, fastest
  <2>3. CASE CloseClue(IF rules.nextSelector = "last-correct" /\ ranks # {}
                         THEN fastest ELSE controlEntity, {"judged"})
    BY <1>0, <2>1, <2>2, <2>3, CloseClueKeeps
  <2>4. CASE /\ ~(Submitted \subseteq correct \cup wrong)
             /\ clue' = [clue EXCEPT !.correct = correct, !.wrong = wrong]
             /\ UNCHANGED <<tableVars, phase>>
    <3>1. /\ clue'.selectedBy = clue.selectedBy /\ clue'.submissions = clue.submissions
          /\ clue'.correct = correct /\ clue'.wrong = wrong
      BY <1>0, <2>1, <2>4 DEF Clue
    <3>2. Submitted' = Submitted
      BY <3>1 DEF Submitted
    <3>3. BoardNames'
      BY <2>1, <2>4, <3>1, <3>2, TableNames DEF ClueInv, BoardNames
    <3>4. StakeInv' /\ ClueFloor' /\ CrowdInv'
      BY <2>1, <2>4, <3>1, <3>2 DEF StakeInv, ClueFloor, CrowdInv
    <3> QED
      BY <3>3, <3>4 DEF ClueInv
  <2> QED
    BY <2>1, <2>3, <2>4
<1> QED
  BY <1>1, <1>2, <1>3, <1>4 DEF Typing

\* A phase of the final or of sudden death, and surgery, keep the board's side: no clue is up.
LEMMA BoardSideClue ==
  ASSUME ClueInv, BoardInv, FinalRound \/ SuddenDeath \/ Surgery
  PROVE  ClueInv'
<1>1. CASE Surgery
  BY <1>1, SameClue DEF Surgery, ScoreAdjust, ScoreSet, HostScores, boardSideVars,
                        standingVars, seatVars
<1>2. CASE FinalRound \/ SuddenDeath
  <2>1. UNCHANGED <<controlEntity, clue, seatVars>>
    BY <1>2 DEF FinalRound, CommitFinalWager, FinalWagerTimeout, SubmitFinalAnswer,
                FinalWritingTimeout, JudgeFinalEntity, SuddenDeath, ArmTiebreaker,
                TiebreakerBuzz, TiebreakerBuzzTimeout, JudgeTiebreaker, TiebreakerNextClue,
                boardSideVars, standingVars
  <2>2. phase \in FinalPhases \cup TiebreakerPhases
    BY <1>2 DEF FinalRound, CommitFinalWager, FinalWagerTimeout, SubmitFinalAnswer,
                FinalWritingTimeout, JudgeFinalEntity, SuddenDeath, ArmTiebreaker,
                TiebreakerBuzz, TiebreakerBuzzTimeout, JudgeTiebreaker, TiebreakerNextClue,
                FinalPhases, TiebreakerPhases
  <2>3. phase' \in FinalPhases \cup TiebreakerPhases \cup {"game-over"}
    <3>1. CASE FinalRound
      <4>1. phase' \in {phase, "final-writing", "final-reveal", "game-over",
                        "tiebreaker-reading"}
        <5>1. ASSUME NEW e, NEW amount, CommitFinalWager(e, amount)
              PROVE  phase' \in {phase, "final-writing"}
          BY <5>1 DEF CommitFinalWager
        <5>2. ASSUME NEW e, SubmitFinalAnswer(e) PROVE phase' \in {phase, "final-reveal"}
          BY <5>2 DEF SubmitFinalAnswer, StartReveal
        <5>3. ASSUME NEW e, NEW v, JudgeFinalEntity(e, v)
              PROVE  phase' \in {phase, "game-over", "tiebreaker-reading"}
          BY <5>3 DEF JudgeFinalEntity, FinishGame
        <5> QED
          BY <3>1, <5>1, <5>2, <5>3
          DEF FinalRound, FinalWagerTimeout, FinalWritingTimeout, StartReveal
      <4> QED
        BY <2>2, <4>1 DEF FinalPhases, TiebreakerPhases
    <3>2. CASE SuddenDeath
      BY <3>2 DEF SuddenDeath, ArmTiebreaker, TiebreakerBuzz, TiebreakerBuzzTimeout,
                  JudgeTiebreaker, TiebreakerNextClue, TiebreakerPhases
    <3> QED
      BY <1>2, <3>1, <3>2
  <2>4. clue = None /\ phase # "lobby" /\ phase' \notin CluePhases
    BY <2>2, <2>3 DEF BoardInv, ClueMatchesPhase, FinalPhases, TiebreakerPhases, CluePhases
  <2> QED
    BY <2>1, <2>4, NoClueKeeps
<1> QED
  BY <1>1, <1>2

\* Ending rounds and the game, and leaving the break (rounds.ts).
LEMMA StagingClue == TypeInv /\ BoardInv /\ ClueInv /\ Staging => ClueInv'
<1> SUFFICES ASSUME TypeInv, BoardInv, ClueInv, Staging PROVE ClueInv'
  OBVIOUS
<1>1. ASSUME phase # "lobby", EndRound({}), UNCHANGED <<controlEntity, seatVars>>
      PROVE  ClueInv'
  BY <1>1, NoClueKeeps DEF EndRound, CluePhases
<1>2. CASE HostEndsRound
  BY <1>1, <1>2 DEF HostEndsRound, standingVars
<1>3. CASE RoundTimeout
  <2>1. CASE EndRound({}) /\ phase = "awaiting-selection"
    BY <1>1, <1>3, <2>1 DEF RoundTimeout, standingVars
  <2>2. CASE UNCHANGED <<phase, clue, controlEntity, seatVars>>
    BY <2>2, SameClue DEF seatVars
  <2> QED
    BY <1>3, <2>1, <2>2 DEF RoundTimeout, standingVars
<1>4. CASE EndGame
  BY <1>4, NoClueKeeps DEF EndGame, standingVars, CluePhases
<1>5. CASE Proceed
  <2>1. clue = None /\ phase = "round-break" /\ UNCHANGED seatVars
    BY <1>5 DEF Proceed, BoardInv, ClueMatchesPhase, CluePhases, standingVars
  <2>2. CASE \E e \in LaterSelectors :
               StartRound(roundIndex + 1, e, hidden[roundIndex + 1], {})
    <3>1. PICK e \in LaterSelectors :
                 StartRound(roundIndex + 1, e, hidden[roundIndex + 1], {})
      BY <2>2
    <3>2. e \in InOrder \cup {None}
      BY DEF LaterSelectors, FirstSelectors
    <3>3. Dealt(controlEntity') /\ controlEntity' \in InOrder \cup {None}
      BY <3>1, <3>2, StartRoundDeals
    <3> QED
      BY <2>1, <3>3, DealKeeps DEF ClueInv, BoardNames
  <2>3. CASE /\ StartFinal \/ FinishGame(scores, {})
             /\ UNCHANGED <<controlEntity, clue>>
    <3>1. phase' \in FinalPhases \cup {"game-over", "tiebreaker-reading"}
      BY <2>3 DEF StartFinal, FinishGame, FinalPhases
    <3>2. phase' \notin CluePhases
      BY <3>1 DEF FinalPhases, CluePhases
    <3> QED
      BY <2>1, <2>3, <3>2, NoClueKeeps
  <2> QED
    BY <1>5, <2>2, <2>3 DEF Proceed
<1> QED
  BY <1>2, <1>3, <1>4, <1>5 DEF Staging

\* Every step keeps the board's side.
LEMMA ClueStep == EngineInv /\ RosterInv /\ ClueInv /\ [Next]_vars => ClueInv'
<1> SUFFICES ASSUME EngineInv, RosterInv, ClueInv, [Next]_vars PROVE ClueInv'
  OBVIOUS
<1>1. TypeInv /\ BoardInv
  BY DEF EngineInv
<1>2. CASE UNCHANGED vars
  BY <1>2, SameClue DEF vars
<1> QED
  BY <1>1, <1>2, SeatingClue, SelectingClue, BuzzingClue, JudgingClue, WageringClue,
     TypingClue, BoardSideClue, StagingClue DEF Next

\* Everything the board's side rests on, in every reachable state.
THEOREM BoardSideInvariant == Spec => [](EngineInv /\ RosterInv /\ ClueInv)
<1>1. Spec => []EngineInv
  BY EngineInvariant
<1>2. EngineInv /\ RosterInv /\ [Next]_vars => RosterInv'
  BY RosterStep DEF EngineInv
<1> QED
  BY <1>1, <1>2, RosterInit, ClueInit, ClueStep, PTL DEF Spec

\* A wager clue always has a bettor who scores, and a stake before it shows, whatever layout
\* was drawn and however control moved before (wagering.ts, flow.ts).
THEOREM WagerAlwaysSettled == Spec => []WagerIsSettled
<1>1. EngineInv /\ ClueInv => WagerIsSettled
  BY DEF EngineInv, BoardInv, ClueMatchesPhase, CluePhases, ClueInv, BoardNames, StakeInv,
         WagerIsSettled
<1> QED
  BY <1>1, BoardSideInvariant, PTL

-----------------------------------------------------------------------------
(* The final's and sudden death's side of the invariant.                       *)

\* Whoever they name scores.
EndNames ==
  /\ final # None => final.eligible \subseteq InOrder
  /\ tiebreaker # None => tiebreaker.participants \subseteq InOrder

\* Sudden death's half of FloorIsFair.
TieFloor ==
  /\ phase \in TiebreakerPhases => tiebreaker # None
  /\ phase = "tiebreaker-answering" =>
       /\ tiebreaker.buzzWinner # None
       /\ seat[tiebreaker.buzzWinner] \in tiebreaker.participants \ tiebreaker.eliminated
  /\ phase = "tiebreaker-armed" => tiebreaker.buzzWinner = None

\* A final has its field, every wager by the time writing opens, and until the last verdict
\* somebody of the field who is announced in the batch or alone and has none yet.
FinalInv ==
  /\ phase \in FinalPhases => final # None /\ final.eligible # {}
  /\ phase \in {"final-wagers", "final-writing"} => final.judged = {}
  /\ phase \in {"final-writing", "final-reveal"} =>
       \A e \in final.eligible : final.wagers[e] # None
  /\ phase = "final-reveal" => /\ final.individual \cup final.batched = final.eligible
                               /\ ~(final.eligible \subseteq final.judged)

EndInv == EndNames /\ TieFloor /\ FinalInv

\* An empty lobby satisfies it.
LEMMA EndInit == Init => EndInv
  BY DEF Init, EndInv, EndNames, TieFloor, FinalInv, TiebreakerPhases, FinalPhases

\* What the handlers of the board and of surgery do to it: nothing.
LEMMA SameEnd ==
  ASSUME EndInv, UNCHANGED <<seat, entityOrder, final, tiebreaker>>,
         phase' = phase \/ phase' \notin FinalPhases \cup TiebreakerPhases
  PROVE  EndInv'
  BY DEF EndInv, EndNames, TieFloor, FinalInv, InOrder, FinalPhases, TiebreakerPhases

\* finishGame opens sudden death among the leaders, or leaves it as it was.
LEMMA FinishGameEnd ==
  ASSUME TypeInv, EndInv, NEW sc, NEW events, FinishGame(sc, events),
         UNCHANGED <<seat, entityOrder>>, final' = None \/ final' = final
  PROVE  EndInv'
<1> DEFINE fresh == [participants |-> Leaders(sc), eliminated |-> {}, buzzWinner |-> None]
<1>1. /\ phase' \in {"game-over", "tiebreaker-reading"}
      /\ tiebreaker' = tiebreaker \/ tiebreaker' = fresh
      /\ phase' = "tiebreaker-reading" => tiebreaker' = fresh
  BY DEF FinishGame
<1>2. InOrder' = InOrder /\ Leaders(sc) \subseteq InOrder /\ InOrder \subseteq Entity
  BY InOrderType DEF Leaders, InOrder, TypeInv, TypeOK
<1>3. fresh \in Tiebreaker /\ fresh.participants = Leaders(sc)
  BY <1>2 DEF Tiebreaker
<1> HIDE DEF fresh
<1>4. fresh # None
  BY <1>3, NoneAssumption
<1>5. EndNames'
  BY <1>1, <1>2, <1>3 DEF EndInv, EndNames
<1>6. TieFloor'
  BY <1>1, <1>4 DEF TieFloor, TiebreakerPhases
<1>7. FinalInv'
  BY <1>1 DEF FinalInv, FinalPhases
<1> QED
  BY <1>5, <1>6, <1>7 DEF EndInv

\* A late join leaves the field and the tied as they are, and holders keep their seats.
LEMMA SeatingEnd == TypeInv /\ EndInv /\ Seating => EndInv'
<1> SUFFICES ASSUME TypeInv, EndInv, Seating PROVE EndInv'
  OBVIOUS
<1>1. ASSUME NEW p \in Player, NEW t \in Team \cup {None}, PlayerReturns(p, t)
      PROVE  EndInv'
  BY <1>1, SameEnd DEF PlayerReturns, gameVars, endVars
<1>2. ASSUME NEW p \in Player, PlayerLeave(p) PROVE EndInv'
  BY <1>2, SameEnd DEF PlayerLeave, gameVars, endVars
<1>3. ASSUME NEW p \in Player, NEW t \in Team \cup {None}, PlayerJoins(p, t) PROVE EndInv'
  <2> DEFINE e == IF t = None THEN p ELSE t
  <2>1. /\ entityOrder \in Seq(Entity) /\ seat \in [Player -> Entity \cup {None}]
        /\ e \in Entity /\ tiebreaker \in Tiebreaker \cup {None}
    BY DEF TypeInv, TypeOK
  <2>2. /\ seat' = [seat EXCEPT ![p] = e] /\ seat[p] = None
        /\ entityOrder' = Append(entityOrder, e) \/ entityOrder' = entityOrder
        /\ UNCHANGED <<phase, final, tiebreaker>>
    BY <1>3 DEF PlayerJoins, gameVars, endVars
  <2> HIDE DEF e
  <2>3. InOrder \subseteq InOrder'
    BY <2>1, <2>2 DEF InOrder
  <2>4. \A q \in Player : seat[q] # None => seat'[q] = seat[q]
    BY <2>1, <2>2
  <2>5. phase = "tiebreaker-answering" =>
          tiebreaker.buzzWinner \in Player /\ seat[tiebreaker.buzzWinner] # None
    <3>1. phase = "tiebreaker-answering" => tiebreaker \in Tiebreaker
      BY <2>1 DEF EndInv, TieFloor, TiebreakerPhases
    <3> QED
      BY <3>1, NoneAssumption DEF EndInv, TieFloor, Tiebreaker
  <2>6. EndNames'
    BY <2>2, <2>3 DEF EndInv, EndNames
  <2>7. TieFloor'
    BY <2>2, <2>4, <2>5 DEF EndInv, TieFloor
  <2>8. FinalInv'
    BY <2>2 DEF EndInv, FinalInv
  <2> QED
    BY <2>6, <2>7, <2>8 DEF EndInv
<1> QED
  BY <1>1, <1>2, <1>3 DEF Seating

\* A clue that closes leaves the phases of the final and of sudden death alone.
LEMMA CloseClueEnd ==
  ASSUME EndInv, NEW control, NEW events, CloseClue(control, events)
  PROVE  EndInv'
<1>1. /\ phase' \in {"round-break", "reading", "wagering", "awaiting-selection"}
      /\ UNCHANGED <<seat, entityOrder, final, tiebreaker>>
  BY DEF CloseClue, EndRound, PresentClue, AwaitSelection, seatVars, endVars
<1>2. phase' \notin FinalPhases \cup TiebreakerPhases
  BY <1>1 DEF FinalPhases, TiebreakerPhases
<1> QED
  BY <1>1, <1>2, SameEnd

\* So does a handler of the clue that leaves the table alone.
LEMMA TableEnd ==
  ASSUME EndInv, UNCHANGED tableVars, phase' \in CluePhases \/ phase' = phase
  PROVE  EndInv'
  BY SameEnd DEF tableVars, seatVars, endVars, CluePhases, FinalPhases, TiebreakerPhases

\* The handlers of a clue (selection.ts, buzzing.ts, judging.ts, wagering.ts,
\* everyone-answers.ts) touch no ending.
LEMMA ClueEnd ==
  EndInv /\ (Selecting \/ Buzzing \/ Judging \/ Wagering \/ Typing) => EndInv'
<1> SUFFICES ASSUME EndInv, Selecting \/ Buzzing \/ Judging \/ Wagering \/ Typing
             PROVE  EndInv'
  OBVIOUS
<1>1. CASE StartGame
  <2>1. /\ phase' \in {"awaiting-selection", "reading", "wagering"}
        /\ UNCHANGED <<seat, entityOrder, final, tiebreaker>>
    BY <1>1 DEF StartGame, StartRound, PresentClue, AwaitSelection, seatVars, endVars
  <2>2. phase' \notin FinalPhases \cup TiebreakerPhases
    BY <2>1 DEF FinalPhases, TiebreakerPhases
  <2> QED
    BY <2>1, <2>2, SameEnd
<1>2. CASE Selecting /\ ~StartGame
  <2>1. ASSUME NEW c, PresentClue(roundIndex, c, controlEntity, {}), UNCHANGED tableVars
        PROVE  EndInv'
    BY <2>1, TableEnd DEF PresentClue, CluePhases
  <2>2. ASSUME NEW c \in Cell, ReopenCell(c) PROVE EndInv'
    BY <2>2, SameEnd DEF ReopenCell, seatVars, endVars
  <2> QED
    BY <1>2, <2>1, <2>2 DEF Selecting, SelectCell, SelectionTimeout
<1>3. CASE Buzzing
  BY <1>3, CloseClueEnd, TableEnd
  DEF Buzzing, ArmBuzzers, EarlyBuzz, BuzzWins, BuzzLocked, BuzzTimeout, CluePhases
<1>4. ASSUME NEW e, NEW lockOut, AfterMiss(e, lockOut) PROVE EndInv'
  BY <1>4, CloseClueEnd, TableEnd DEF AfterMiss, CluePhases
<1>5. ASSUME NEW e, NEW stake, AfterCorrect(e, stake) PROVE EndInv'
  BY <1>5, CloseClueEnd DEF AfterCorrect
<1>6. CASE Judging
  BY <1>4, <1>5, <1>6, CloseClueEnd, TableEnd
  DEF Judging, JudgeBuzz, JudgeWager, OverTime, AnswerTimeoutBuzz, AnswerTimeoutWager,
      HostAward, CancelClue
<1>7. CASE Wagering
  BY <1>7, TableEnd DEF Wagering, CommitWager, WagerTimeout, CommitAmount, CluePhases
<1>8. ASSUME NEW s, NEW events, CloseEveryoneAnswers(s, events) PROVE EndInv'
  BY <1>8, CloseClueEnd, TableEnd DEF CloseEveryoneAnswers, CluePhases
<1>9. CASE Typing
  BY <1>8, <1>9, CloseClueEnd, TableEnd
  DEF Typing, SubmitTypedAnswer, SubmitEveryoneAnswer, CloseAnswers, JudgeSubmission
<1> QED
  BY <1>1, <1>2, <1>3, <1>6, <1>7, <1>9

\* The contenders revealed one by one are of the field.
LEMMA IndividualInField == Individual \subseteq final.eligible
  BY DEF Individual, TopContenders

\* Opening the reveal splits the field into the batch and the individuals.
LEMMA StartRevealEnd ==
  ASSUME TypeInv, EndInv, phase = "final-writing", final # None,
         NEW answers \in SUBSET Entity, NEW events, StartReveal(answers, events),
         UNCHANGED <<seat, entityOrder, tiebreaker>>
  PROVE  EndInv'
<1>1. final \in Final /\ InOrder' = InOrder
  BY DEF TypeInv, TypeOK, InOrder
<1>2. /\ final' = [final EXCEPT !.answers = answers, !.individual = Individual,
                                !.batched = final.eligible \ Individual]
      /\ phase' = "final-reveal"
  BY DEF StartReveal
<1>3. /\ final'.eligible = final.eligible /\ final'.wagers = final.wagers
      /\ final'.judged = final.judged /\ final'.individual = Individual
      /\ final'.batched = final.eligible \ Individual
  BY <1>1, <1>2 DEF Final
<1>4. final' # None
  BY <1>1, StartRevealType, NoneAssumption
<1>5. FinalInv'
  BY <1>2, <1>3, <1>4, IndividualInField DEF EndInv, FinalInv, FinalPhases
<1>6. EndNames' /\ TieFloor'
  BY <1>1, <1>2, <1>3 DEF EndInv, EndNames, TieFloor, TiebreakerPhases
<1> QED
  BY <1>5, <1>6 DEF EndInv

\* Wagers, answers and verdicts (final.ts) keep the final playable.
LEMMA FinalRoundEnd == TypeInv /\ EndInv /\ FinalRound => EndInv'
<1> SUFFICES ASSUME TypeInv, EndInv, FinalRound PROVE EndInv'
  OBVIOUS
<1>0. TypeOK /\ (final # None => final \in Final) /\ None \notin Int
  BY NoneAssumption DEF TypeInv, TypeOK
<1>00. \A f \in Final : f # None
  BY NoneAssumption
<1>1. ASSUME NEW e \in Entity, NEW amount \in WagerInputs, CommitFinalWager(e, amount)
      PROVE  EndInv'
  <2> DEFINE wagers == [final.wagers EXCEPT ![e] = amount]
  <2>1. /\ phase = "final-wagers" /\ final # None
        /\ UNCHANGED <<seat, entityOrder, tiebreaker>>
        /\ final' = [final EXCEPT !.wagers = wagers]
        /\ phase' = IF \A f \in final.eligible : wagers[f] # None THEN "final-writing"
                    ELSE phase
    BY <1>1 DEF CommitFinalWager, boardSideVars, standingVars, seatVars
  <2> HIDE DEF wagers
  <2>2. /\ final'.eligible = final.eligible /\ final'.wagers = wagers
        /\ final'.judged = final.judged
    BY <1>0, <2>1 DEF Final
  <2>3. final' # None
    <3>1. wagers \in [Entity -> Int \cup {None}]
      BY <1>0, <2>1, InputAssumption DEF Final, wagers
    <3>2. final' \in Final
      BY <1>0, <2>1, <3>1 DEF Final
    <3> QED
      BY <1>00, <3>2
  <2>4. FinalInv'
    BY <2>1, <2>2, <2>3 DEF EndInv, FinalInv, FinalPhases
  <2>5. EndNames' /\ TieFloor'
    BY <2>1, <2>2 DEF EndInv, EndNames, TieFloor, TiebreakerPhases, InOrder
  <2> QED
    BY <2>4, <2>5 DEF EndInv
<1>2. CASE FinalWagerTimeout
  <2> DEFINE wagers == [e \in Entity |-> IF e \in final.eligible /\ final.wagers[e] = None
                                           THEN FinalMinimum ELSE final.wagers[e]]
  <2>1. /\ phase = "final-wagers" /\ phase' = "final-writing" /\ final # None
        /\ UNCHANGED <<seat, entityOrder, tiebreaker>>
        /\ final' = [final EXCEPT !.wagers = wagers]
    BY <1>2 DEF FinalWagerTimeout, boardSideVars, standingVars, seatVars
  <2>2. final.eligible \subseteq Entity /\ FinalMinimum \in Int
    BY <1>0, <2>1, StakeType DEF Final
  <2>3. \A e \in final.eligible : wagers[e] # None
    BY <1>0, <2>2
  <2>4. wagers \in [Entity -> Int \cup {None}]
    BY <1>0, <2>1, <2>2 DEF Final
  <2> HIDE DEF wagers
  <2>5. /\ final'.eligible = final.eligible /\ final'.wagers = wagers
        /\ final'.judged = final.judged /\ final' # None
    <3>1. final' \in Final
      BY <1>0, <2>1, <2>4 DEF Final
    <3> QED
      BY <1>0, <1>00, <2>1, <3>1 DEF Final
  <2>6. FinalInv'
    BY <2>1, <2>3, <2>5 DEF EndInv, FinalInv, FinalPhases
  <2>7. EndNames' /\ TieFloor'
    BY <2>1, <2>5 DEF EndInv, EndNames, TieFloor, TiebreakerPhases, InOrder
  <2> QED
    BY <2>6, <2>7 DEF EndInv
<1>3. ASSUME NEW e \in Entity, SubmitFinalAnswer(e) PROVE EndInv'
  <2> DEFINE answers == final.answers \cup {e}
  <2>1. /\ phase = "final-writing" /\ final # None
        /\ UNCHANGED <<seat, entityOrder, tiebreaker>>
        /\ \/ StartReveal(answers, {"final-answer-submitted"})
           \/ final' = [final EXCEPT !.answers = answers] /\ phase' = phase
    BY <1>3 DEF SubmitFinalAnswer, boardSideVars, standingVars, seatVars
  <2>2. answers \in SUBSET Entity
    BY <1>0, <2>1 DEF Final
  <2> HIDE DEF answers
  <2>3. CASE StartReveal(answers, {"final-answer-submitted"})
    BY <2>1, <2>2, <2>3, StartRevealEnd
  <2>4. CASE final' = [final EXCEPT !.answers = answers] /\ phase' = phase
    <3>1. final' \in Final
      BY <1>0, <2>1, <2>2, <2>4 DEF Final
    <3>2. /\ final'.eligible = final.eligible /\ final'.wagers = final.wagers
          /\ final'.judged = final.judged /\ final' # None
      BY <1>0, <1>00, <2>1, <2>4, <3>1 DEF Final
    <3>3. FinalInv'
      BY <2>1, <2>4, <3>2 DEF EndInv, FinalInv, FinalPhases
    <3>4. EndNames' /\ TieFloor'
      BY <2>1, <2>4, <3>2 DEF EndInv, EndNames, TieFloor, TiebreakerPhases, InOrder
    <3> QED
      BY <3>3, <3>4 DEF EndInv
  <2> QED
    BY <2>1, <2>3, <2>4
<1>4. CASE FinalWritingTimeout
  <2>1. /\ phase = "final-writing" /\ final # None /\ StartReveal(final.answers, {})
        /\ UNCHANGED <<seat, entityOrder, tiebreaker>>
    BY <1>4 DEF FinalWritingTimeout, boardSideVars, standingVars, seatVars
  <2>2. final.answers \in SUBSET Entity
    BY <1>0, <2>1 DEF Final
  <2> QED
    BY <2>1, <2>2, StartRevealEnd
<1>5. ASSUME NEW e \in Entity, NEW v, JudgeFinalEntity(e, v) PROVE EndInv'
  <2> DEFINE judged == final.judged \cup {e}
  <2>1. /\ phase = "final-reveal" /\ final # None /\ UNCHANGED <<seat, entityOrder>>
        /\ \/ final' = None /\ FinishGame(scores', {"final-judged"})
           \/ /\ ~(final.eligible \subseteq judged)
              /\ final' = [final EXCEPT !.judged = judged]
              /\ UNCHANGED <<phase, tiebreaker>>
    BY <1>5 DEF JudgeFinalEntity, boardSideVars, standingVars, seatVars
  <2>2. judged \in SUBSET Entity
    BY <1>0, <2>1 DEF Final
  <2> HIDE DEF judged
  <2>3. CASE final' = None /\ FinishGame(scores', {"final-judged"})
    BY <2>1, <2>3, FinishGameEnd
  <2>4. CASE /\ ~(final.eligible \subseteq judged)
             /\ final' = [final EXCEPT !.judged = judged]
             /\ UNCHANGED <<phase, tiebreaker>>
    <3>1. final' \in Final
      BY <1>0, <2>1, <2>2, <2>4 DEF Final
    <3>2. /\ final'.eligible = final.eligible /\ final'.wagers = final.wagers
          /\ final'.individual = final.individual /\ final'.batched = final.batched
          /\ final'.judged = judged /\ final' # None
      BY <1>0, <1>00, <2>1, <2>4, <3>1 DEF Final
    <3>3. FinalInv'
      BY <2>1, <2>4, <3>2 DEF EndInv, FinalInv, FinalPhases
    <3>4. EndNames' /\ TieFloor'
      BY <2>1, <2>4, <3>2 DEF EndInv, EndNames, TieFloor, TiebreakerPhases, InOrder
    <3> QED
      BY <3>3, <3>4 DEF EndInv
  <2> QED
    BY <2>1, <2>3, <2>4
<1> QED
  BY <1>1, <1>2, <1>3, <1>4, <1>5 DEF FinalRound

\* startFinal fields scoring entities, with the stake in when it is fixed.
LEMMA StartFinalEnd ==
  ASSUME TypeInv, EndInv, StartFinal, UNCHANGED <<seat, entityOrder>>
  PROVE  EndInv'
<1> DEFINE eligible == IF rules.everyoneEligible THEN InOrder
                       ELSE {e \in InOrder : scores[e] > 0}
           wagers == [e \in Entity |-> IF e \in eligible THEN rules.fixedStake ELSE None]
<1>1. CASE FinishGame(scores, {"final-skipped"}) /\ UNCHANGED final
  BY <1>1, FinishGameEnd
<1>2. CASE /\ eligible # {}
           /\ final' = [eligible |-> eligible, wagers |-> wagers, answers |-> {},
                        prefinal |-> scores, individual |-> {}, batched |-> {}, judged |-> {}]
           /\ phase' = IF rules.fixedStake # None THEN "final-writing" ELSE "final-wagers"
           /\ UNCHANGED tiebreaker
  <2>1. eligible \subseteq InOrder /\ InOrder \subseteq Entity
    BY InOrderType DEF TypeInv, TypeOK
  <2>2. rules.fixedStake \in Int \cup {None} /\ scores \in [Entity -> Int]
    BY StakeType DEF TypeInv, TypeOK
  <2>3. rules.fixedStake # None => \A e \in eligible : wagers[e] # None
    BY <2>1
  <2> HIDE DEF eligible
  <2>4. wagers \in [Entity -> Int \cup {None}]
    BY <2>2
  <2> HIDE DEF wagers
  <2>5. final' \in Final
    BY <1>2, <2>1, <2>2, <2>4 DEF Final
  <2>6. /\ final' # None /\ final'.eligible = eligible /\ final'.wagers = wagers
        /\ final'.judged = {}
    BY <1>2, <2>5, NoneAssumption
  <2>7. phase' \in {"final-writing", "final-wagers"}
    BY <1>2
  <2>8. FinalInv'
    BY <1>2, <2>3, <2>6, <2>7 DEF FinalInv, FinalPhases
  <2>9. EndNames' /\ TieFloor'
    BY <1>2, <2>1, <2>6, <2>7 DEF EndInv, EndNames, TieFloor, TiebreakerPhases, InOrder
  <2> QED
    BY <2>8, <2>9 DEF EndInv
<1> QED
  BY <1>1, <1>2 DEF StartFinal

\* Rounds, the break and the host's stop (rounds.ts).
LEMMA StagingEnd == TypeInv /\ EndInv /\ Staging => EndInv'
<1> SUFFICES ASSUME TypeInv, EndInv, Staging PROVE EndInv'
  OBVIOUS
<1>1. CASE HostEndsRound \/ RoundTimeout
  <2>1. /\ phase' = phase \/ phase' = "round-break"
        /\ UNCHANGED <<seat, entityOrder, final, tiebreaker>>
    BY <1>1 DEF HostEndsRound, RoundTimeout, EndRound, standingVars, seatVars, endVars
  <2>2. phase' = phase \/ phase' \notin FinalPhases \cup TiebreakerPhases
    BY <2>1 DEF FinalPhases, TiebreakerPhases
  <2> QED
    BY <2>1, <2>2, SameEnd
<1>2. CASE EndGame
  <2>1. /\ phase' = "game-over" /\ tiebreaker' = None
        /\ UNCHANGED <<seat, entityOrder, final>>
    BY <1>2 DEF EndGame, standingVars, seatVars
  <2> QED
    BY <2>1 DEF EndInv, EndNames, TieFloor, FinalInv, InOrder, FinalPhases,
                TiebreakerPhases
<1>3. CASE Proceed
  <2>1. UNCHANGED <<seat, entityOrder>>
    BY <1>3 DEF Proceed, standingVars, seatVars
  <2>2. CASE (\E e \in LaterSelectors :
                StartRound(roundIndex + 1, e, hidden[roundIndex + 1], {}))
             /\ UNCHANGED endVars
    <3>1. phase' \in {"awaiting-selection", "reading", "wagering"}
      BY <2>2 DEF StartRound, PresentClue, AwaitSelection
    <3>2. phase' \notin FinalPhases \cup TiebreakerPhases
      BY <3>1 DEF FinalPhases, TiebreakerPhases
    <3> QED
      BY <2>1, <2>2, <3>2, SameEnd DEF endVars
  <2>3. CASE StartFinal
    BY <2>1, <2>3, StartFinalEnd
  <2>4. CASE FinishGame(scores, {}) /\ UNCHANGED final
    BY <2>1, <2>4, FinishGameEnd
  <2> QED
    BY <1>3, <2>2, <2>3, <2>4 DEF Proceed
<1> QED
  BY <1>1, <1>2, <1>3 DEF Staging

\* Sudden death (the tiebreaker sides of buzzing.ts and judging.ts).
LEMMA SuddenDeathEnd == TypeInv /\ EndInv /\ SuddenDeath => EndInv'
<1> SUFFICES ASSUME TypeInv, EndInv, SuddenDeath PROVE EndInv'
  OBVIOUS
<1>1. /\ phase \in TiebreakerPhases /\ tiebreaker # None /\ UNCHANGED <<seat, entityOrder, final>>
      /\ phase' \in TiebreakerPhases \cup {"game-over"}
  BY DEF SuddenDeath, ArmTiebreaker, TiebreakerBuzz, TiebreakerBuzzTimeout, JudgeTiebreaker,
         TiebreakerNextClue, TiebreakerPhases, boardSideVars, standingVars, seatVars
<1>2. /\ tiebreaker \in Tiebreaker /\ None \notin Tiebreaker
  BY <1>1, NoneAssumption DEF TypeInv, TypeOK
<1>3. FinalInv'
  BY <1>1 DEF FinalInv, FinalPhases, TiebreakerPhases
<1> DEFINE Kept == tiebreaker' \in Tiebreaker /\ tiebreaker'.participants = tiebreaker.participants
<1>4. ASSUME Kept, phase' \in {"tiebreaker-reading", "tiebreaker-armed"},
             phase' = "tiebreaker-armed" => tiebreaker'.buzzWinner = None
      PROVE  EndInv'
  <2>1. TieFloor'
    BY <1>2, <1>4 DEF TieFloor
  <2>2. EndNames'
    BY <1>1, <1>4 DEF EndInv, EndNames, InOrder
  <2> QED
    BY <1>3, <2>1, <2>2 DEF EndInv
<1>5. CASE ArmTiebreaker
  <2>1. /\ tiebreaker' = [tiebreaker EXCEPT !.buzzWinner = None]
        /\ phase' = "tiebreaker-armed"
    BY <1>5 DEF ArmTiebreaker
  <2>2. Kept /\ tiebreaker'.buzzWinner = None
    BY <1>2, <2>1 DEF Tiebreaker
  <2> QED
    BY <1>4, <2>1, <2>2
<1>6. ASSUME NEW p \in Player, TiebreakerBuzz(p) PROVE EndInv'
  <2>1. /\ tiebreaker' = [tiebreaker EXCEPT !.buzzWinner = p]
        /\ phase' = "tiebreaker-answering"
        /\ seat[p] \in tiebreaker.participants \ tiebreaker.eliminated
    BY <1>6 DEF TiebreakerBuzz, StillIn
  <2>2. /\ Kept /\ tiebreaker'.buzzWinner = p
        /\ tiebreaker'.eliminated = tiebreaker.eliminated
    BY <1>2, <2>1 DEF Tiebreaker
  <2>3. TieFloor'
    BY <1>1, <1>2, <2>1, <2>2, NoneAssumption DEF TieFloor
  <2>4. EndNames'
    BY <1>1, <2>2 DEF EndInv, EndNames, InOrder
  <2> QED
    BY <1>3, <2>3, <2>4 DEF EndInv
<1>7. CASE TiebreakerBuzzTimeout
  <2>1. /\ tiebreaker' = [tiebreaker EXCEPT !.eliminated = {}]
        /\ phase' = "tiebreaker-reading"
    BY <1>7 DEF TiebreakerBuzzTimeout
  <2>2. Kept
    BY <1>2, <2>1 DEF Tiebreaker
  <2> QED
    BY <1>4, <2>1, <2>2
<1>8. ASSUME NEW v, JudgeTiebreaker(v) PROVE EndInv'
  <2> DEFINE e == seat[tiebreaker.buzzWinner]
             eliminated == tiebreaker.eliminated \cup (IF v = "wrong" THEN {e} ELSE {})
  <2>1. \/ phase' = "game-over" /\ tiebreaker' = None
        \/ /\ tiebreaker' = [tiebreaker EXCEPT !.eliminated = eliminated,
                                               !.buzzWinner = None]
           /\ phase' \in {"tiebreaker-reading", "tiebreaker-armed"}
    BY <1>8 DEF JudgeTiebreaker
  <2>2. e \in Entity
    BY <1>2, <1>8 DEF JudgeTiebreaker, TypeInv, TypeOK, HoldersAreSeated, Seated, Tiebreaker
  <2>3. eliminated \in SUBSET Entity
    BY <1>2, <2>2 DEF Tiebreaker
  <2> HIDE DEF e, eliminated
  <2>4. CASE phase' = "game-over" /\ tiebreaker' = None
    BY <1>1, <1>3, <2>4 DEF EndInv, EndNames, TieFloor, InOrder, TiebreakerPhases
  <2>5. CASE /\ tiebreaker' = [tiebreaker EXCEPT !.eliminated = eliminated,
                                                 !.buzzWinner = None]
             /\ phase' \in {"tiebreaker-reading", "tiebreaker-armed"}
    <3>1. Kept /\ tiebreaker'.buzzWinner = None
      BY <1>2, <2>3, <2>5 DEF Tiebreaker
    <3> QED
      BY <1>4, <2>5, <3>1
  <2> QED
    BY <2>1, <2>4, <2>5
<1>9. CASE TiebreakerNextClue
  <2>1. /\ tiebreaker' = [tiebreaker EXCEPT !.eliminated = {}, !.buzzWinner = None]
        /\ phase' = "tiebreaker-reading"
    BY <1>9 DEF TiebreakerNextClue
  <2>2. Kept
    BY <1>2, <2>1 DEF Tiebreaker
  <2> QED
    BY <1>4, <2>1, <2>2
<1> QED
  BY <1>5, <1>6, <1>7, <1>8, <1>9 DEF SuddenDeath

\* Every step keeps the endings' side.
LEMMA EndStep == TypeInv /\ EndInv /\ [Next]_vars => EndInv'
<1> SUFFICES ASSUME TypeInv, EndInv, [Next]_vars PROVE EndInv'
  OBVIOUS
<1>1. CASE Surgery
  BY <1>1, SameEnd DEF Surgery, ScoreAdjust, ScoreSet, HostScores, boardSideVars,
                       standingVars, seatVars, endVars
<1>2. CASE UNCHANGED vars
  BY <1>2, SameEnd DEF vars
<1> QED
  BY <1>1, <1>2, SeatingEnd, ClueEnd, FinalRoundEnd, StagingEnd, SuddenDeathEnd DEF Next

-----------------------------------------------------------------------------
(* The theorems.                                                               *)

\* The whole inductive invariant of the game.
GameInv == EngineInv /\ RosterInv /\ ClueInv /\ EndInv

\* One step keeps it.
LEMMA GameInvStep == GameInv /\ [Next]_vars => GameInv'
  BY EngineInvStep, RosterStep, ClueStep, EndStep DEF GameInv, EngineInv

\* It holds in every reachable state.
THEOREM GameInvariant == Spec => []GameInv
<1>1. Init => GameInv
  BY TypeInit, BoardInit, RosterInit, ClueInit, EndInit DEF GameInv, EngineInv
<1> QED
  BY <1>1, GameInvStep, PTL DEF Spec

\* Nobody ever holds the floor, on the board or in sudden death, who is not seated, was
\* barred or had been eliminated; and nobody holds it while the buzzers are live.
THEOREM FloorAlwaysFair == Spec => []FloorIsFair
<1>1. GameInv => FloorIsFair
  BY DEF GameInv, ClueInv, ClueFloor, EndInv, TieFloor, FloorIsFair
<1> QED
  BY <1>1, GameInvariant, PTL

\* A sequence names no more than it is long.
LEMMA NamesFewer ==
  ASSUME NEW S, NEW s \in Seq(S)
  PROVE  /\ IsFiniteSet({s[i] : i \in DOMAIN s})
         /\ Cardinality({s[i] : i \in DOMAIN s}) <= Len(s)
<1> DEFINE T == {s[i] : i \in DOMAIN s}
<1>1. Len(s) \in Nat /\ DOMAIN s = 1 .. Len(s)
  OBVIOUS
<1>2. IsFiniteSet(1 .. Len(s)) /\ Cardinality(1 .. Len(s)) = Len(s)
  BY <1>1, FS_Interval
<1>3. s \in Surjection(1 .. Len(s), T)
  BY <1>1 DEF Surjection
<1> HIDE DEF T
<1>4. IsFiniteSet(T) /\ Cardinality(T) <= Len(s)
  BY <1>2, <1>3, FS_Surjection
<1> QED
  BY <1>4 DEF T

\* Everyone-answers can always be brought to its end (everyone-answers.ts): an open window
\* has somebody yet to answer, an open judging some submission yet to judge.
THEOREM CrowdAlwaysFinishes == Spec => []CrowdCanFinish
<1>1. GameInv => CrowdCanFinish
  <2> SUFFICES ASSUME GameInv PROVE CrowdCanFinish
    OBVIOUS
  <2>1. phase = "all-judging" => Submitted \ (clue.correct \cup clue.wrong) # {}
    BY DEF GameInv, ClueInv, CrowdInv
  <2>2. ASSUME phase = "all-answering" PROVE InOrder \ Submitted # {}
    <3>1. /\ clue.submissions \in Seq(Entity) /\ entityOrder \in Seq(Entity)
          /\ \A i, j \in DOMAIN entityOrder : entityOrder[i] = entityOrder[j] => i = j
          /\ Len(clue.submissions) < Len(entityOrder)
      BY <2>2 DEF GameInv, EngineInv, TypeInv, TypeOK, BoardInv, ClueMatchesPhase,
                  CluePhases, Clue, RosterInv, ClueInv, CrowdInv
    <3>2. IsFiniteSet(Submitted) /\ Cardinality(Submitted) <= Len(clue.submissions)
      BY <3>1, NamesFewer DEF Submitted
    <3>3. IsFiniteSet(InOrder) /\ Cardinality(InOrder) = Len(entityOrder)
      BY <3>1, DistinctCount DEF InOrder
    <3>4. /\ Len(clue.submissions) \in Nat /\ Len(entityOrder) \in Nat
          /\ Cardinality(Submitted) \in Nat
      BY <3>1, <3>2, FS_CardinalityType
    <3>5. ~(InOrder \subseteq Submitted)
      <4> SUFFICES ASSUME InOrder \subseteq Submitted PROVE FALSE
        OBVIOUS
      <4>1. Cardinality(InOrder) <= Cardinality(Submitted)
        BY <3>2, FS_Subset
      <4> QED
        BY <3>1, <3>2, <3>3, <3>4, <4>1
    <3> QED
      BY <3>5
  <2> QED
    BY <2>1, <2>2 DEF CrowdCanFinish
<1> QED
  BY <1>1, GameInvariant, PTL

\* Integers indexed by an initial segment of the naturals have a lower bound: by the least
\* segment that has none.
LEMMA LowerBound ==
  ASSUME NEW n \in Nat, NEW f, \A i \in 1 .. n : f[i] \in Int
  PROVE  \E m \in Int : \A i \in 1 .. n : m <= f[i]
<1> DEFINE Bad == {k \in 0 .. n : \A m \in Int : \E i \in 1 .. k : ~(m <= f[i])}
<1> SUFFICES ASSUME Bad # {} PROVE FALSE
  <2>1. n \notin Bad
    OBVIOUS
  <2> QED
    BY <2>1
<1> DEFINE k == CHOOSE i \in Bad : \A j \in Bad : i <= j
<1>1. Bad \in SUBSET Nat
  OBVIOUS
<1>2. k \in Bad
  <2> HIDE DEF Bad
  <2> QED BY <1>1, LeastIndex
<1>3. \A j \in Bad : k <= j
  <2>1. \E i \in Bad : \A j \in Bad : i <= j
    <3> HIDE DEF Bad
    <3> QED BY <1>1, LeastMember
  <2> QED
    BY <2>1
<1>4. k \in 0 .. n /\ \A m \in Int : \E i \in 1 .. k : ~(m <= f[i])
  BY <1>2
<1> HIDE DEF k
<1>5. k # 0
  BY <1>4
<1>6. k - 1 \in 0 .. n /\ k - 1 \notin Bad /\ k \in 1 .. n
  <2>1. k - 1 \in 0 .. n /\ k \in 1 .. n /\ ~(k <= k - 1)
    BY <1>4, <1>5
  <2> HIDE DEF Bad
  <2> QED BY <1>3, <2>1
<1>7. PICK m \in Int : \A i \in 1 .. k - 1 : m <= f[i]
  BY <1>6
<1>8. \A i \in 1 .. k : i = k \/ i \in 1 .. k - 1
  BY <1>4
<1>9. CASE m <= f[k]
  BY <1>4, <1>7, <1>8, <1>9
<1>10. CASE ~(m <= f[k])
  <2>1. f[k] \in Int /\ f[k] <= m /\ \A i \in 1 .. k - 1 : f[i] \in Int
    BY <1>6, <1>10
  <2>2. \A i \in 1 .. k : f[k] <= f[i]
    BY <1>7, <1>8, <2>1
  <2> QED
    BY <1>4, <2>1, <2>2
<1> QED
  BY <1>9, <1>10

\* Of entities of the order, one is revealed before all others: the first in the order among
\* those with the least score before the final.
LEMMA FirstToReveal ==
  ASSUME entityOrder \in Seq(Entity), final \in Final, NEW S \in SUBSET InOrder, S # {}
  PROVE  \E e \in S : \A f \in S : f = e \/ RevealsBefore(e, f)
<1> DEFINE n == Len(entityOrder)
           score == [i \in 1 .. n |-> final.prefinal[entityOrder[i]]]
<1>1. /\ n \in Nat /\ DOMAIN entityOrder = 1 .. n
      /\ \A i \in 1 .. n : entityOrder[i] \in Entity
      /\ InOrder = {entityOrder[i] : i \in 1 .. n}
  BY DEF InOrder
<1>2. final.prefinal \in [Entity -> Int] /\ S \subseteq Entity
  BY <1>1 DEF Final
<1> HIDE DEF n
<1>3. \A i \in 1 .. n : score[i] \in Int
  BY <1>1, <1>2
<1>4. PICK m \in Int : \A i \in 1 .. n : m <= score[i]
  <2> HIDE DEF score
  <2> QED BY <1>1, <1>3, LowerBound
<1>5. \A e \in S : m <= final.prefinal[e]
  BY <1>1, <1>4
<1> DEFINE Above == {final.prefinal[e] - m : e \in S}
<1>6. PICK a \in Above : \A b \in Above : a <= b
  <2>1. Above \in SUBSET Nat /\ Above # {}
    BY <1>2, <1>5
  <2> HIDE DEF Above
  <2> QED BY <2>1, LeastMember
<1> DEFINE Lowest == {e \in S : \A f \in S : final.prefinal[e] <= final.prefinal[f]}
<1>7. Lowest # {}
  <2>1. PICK e \in S : a = final.prefinal[e] - m
    BY <1>6
  <2>2. \A f \in S : final.prefinal[e] - m <= final.prefinal[f] - m
    BY <1>6, <2>1
  <2>3. final.prefinal[e] \in Int /\ \A f \in S : final.prefinal[f] \in Int
    BY <1>2
  <2>4. \A f \in S : final.prefinal[e] <= final.prefinal[f]
    BY <2>2, <2>3
  <2> QED
    BY <2>4
<1>8. \A e \in InOrder : IndexOf(e) \in 1 .. n /\ entityOrder[IndexOf(e)] = e
  BY <1>1 DEF IndexOf
<1> DEFINE Places == {IndexOf(e) : e \in Lowest}
<1>9. PICK i \in Places : \A j \in Places : i <= j
  <2>1. Places \in SUBSET Nat /\ Places # {}
    <3>1. Lowest \subseteq InOrder
      OBVIOUS
    <3> HIDE DEF Lowest
    <3> QED BY <1>1, <1>7, <1>8, <3>1
  <2> HIDE DEF Places
  <2> QED BY <2>1, LeastMember
<1>10. PICK e \in Lowest : i = IndexOf(e)
  BY <1>9
<1>11. ASSUME NEW f \in S, f # e PROVE RevealsBefore(e, f)
  <2>1. /\ final.prefinal[e] <= final.prefinal[f]
        /\ final.prefinal[e] \in Int /\ final.prefinal[f] \in Int
    BY <1>2
  <2>2. CASE final.prefinal[e] < final.prefinal[f]
    BY <2>2 DEF RevealsBefore
  <2>3. CASE final.prefinal[e] = final.prefinal[f]
    <3>1. f \in Lowest
      BY <2>3
    <3>2. IndexOf(e) <= IndexOf(f)
      BY <1>9, <1>10, <3>1
    <3>3. IndexOf(e) # IndexOf(f) /\ IndexOf(e) \in Int /\ IndexOf(f) \in Int
      BY <1>8, <1>11
    <3>4. IndexOf(e) < IndexOf(f)
      BY <3>2, <3>3
    <3> QED
      BY <2>3, <3>4 DEF RevealsBefore
  <2> QED
    BY <2>1, <2>2, <2>3
<1> QED
  BY <1>11

\* The final can always be played to its end (final.ts): the field is there, every wager is
\* in by the time writing opens, and until the last verdict somebody may be revealed, however
\* many play, whatever they score and whoever joined late.
THEOREM FinalAlwaysFinishes == Spec => []FinalCanFinish
<1>1. GameInv => FinalCanFinish
  <2> SUFFICES ASSUME GameInv PROVE FinalCanFinish
    OBVIOUS
  <2>1. FinalInv /\ EndNames
    BY DEF GameInv, EndInv
  <2>2. ASSUME phase = "final-reveal" PROVE \E e \in final.eligible : MayReveal(e)
    <3> DEFINE batchLeft == final.batched \ final.judged
               left == final.individual \ final.judged
    <3>1. /\ entityOrder \in Seq(Entity) /\ final \in Final
          /\ final.eligible \subseteq InOrder
          /\ final.individual \cup final.batched = final.eligible
          /\ ~(final.eligible \subseteq final.judged)
      BY <2>1, <2>2 DEF GameInv, EngineInv, TypeInv, TypeOK, FinalInv, FinalPhases, EndNames
    <3>2. CASE batchLeft # {}
      BY <3>1, <3>2 DEF MayReveal
    <3>3. CASE batchLeft = {}
      <4>1. left # {} /\ left \subseteq final.eligible /\ left \subseteq InOrder
        BY <3>1, <3>3
      <4>2. PICK e \in left : \A f \in left : f = e \/ RevealsBefore(e, f)
        <5> HIDE DEF left
        <5> QED BY <3>1, <4>1, FirstToReveal
      <4> QED
        BY <3>3, <4>1, <4>2 DEF MayReveal
    <3> QED
      BY <3>2, <3>3
  <2> QED
    BY <2>1, <2>2 DEF FinalInv, FinalCanFinish
<1> QED
  BY <1>1, GameInvariant, PTL

\* finishGame, as the rule that crowns.
Crowned ==
  \/ winners' = {} /\ rules.noWinner /\ \A e \in InOrder : scores'[e] <= 0
  \/ winners' = {e \in InOrder : \A f \in InOrder : scores'[f] <= scores'[e]}
  \/ /\ phase = "tiebreaker-answering"
     /\ seat[tiebreaker.buzzWinner] \in tiebreaker.participants \ tiebreaker.eliminated
     /\ winners' = {seat[tiebreaker.buzzWinner]}

\* finishGame crowns by the scores it is called with.
LEMMA FinishGameCrowns ==
  ASSUME NEW events, FinishGame(scores', events), phase' = "game-over"
  PROVE  Crowned
  BY DEF FinishGame, NobodyMayWin, Leaders, Crowned

\* A step that ends the game crowns the top of the final scores, in sudden death the one of the
\* tied who holds the buzz, or nobody where the rules allow it: in all four places that end a game (standings.ts, flow.ts,
\* judging.ts, rounds.ts).
THEOREM AlwaysCrownsTheTop == Spec => CrownsTheTop
<1>1. GameInv /\ [Next]_vars => [(phase # "game-over" /\ phase' = "game-over") => Crowned]_vars
  <2> SUFFICES ASSUME GameInv, Next, phase # "game-over", phase' = "game-over" PROVE Crowned
    OBVIOUS
  <2>1. CASE Seating
    BY <2>1 DEF Seating, PlayerReturns, PlayerJoins, PlayerLeave, gameVars
  <2>2. ASSUME NEW control, NEW events, CloseClue(control, events) PROVE FALSE
    BY <2>2 DEF CloseClue, EndRound, PresentClue, AwaitSelection
  <2>3. CASE Selecting
    BY <2>3 DEF Selecting, StartGame, StartRound, SelectCell, SelectionTimeout, ReopenCell,
                PresentClue, AwaitSelection
  <2>4. CASE Buzzing
    BY <2>2, <2>4 DEF Buzzing, ArmBuzzers, EarlyBuzz, BuzzWins, BuzzLocked, BuzzTimeout
  <2>5. CASE Judging
    BY <2>2, <2>5 DEF Judging, JudgeBuzz, JudgeWager, OverTime, AnswerTimeoutBuzz,
                      AnswerTimeoutWager, HostAward, CancelClue, AfterCorrect, AfterMiss
  <2>6. CASE Wagering
    BY <2>6 DEF Wagering, CommitWager, WagerTimeout, CommitAmount
  <2>7. CASE Typing
    BY <2>2, <2>7 DEF Typing, SubmitTypedAnswer, SubmitEveryoneAnswer, CloseAnswers,
                      JudgeSubmission, CloseEveryoneAnswers
  <2>8. CASE FinalRound
    <3>1. ASSUME NEW e, NEW v, JudgeFinalEntity(e, v) PROVE Crowned
      BY <3>1, FinishGameCrowns DEF JudgeFinalEntity
    <3>2. ASSUME NEW e, NEW amount, CommitFinalWager(e, amount) PROVE FALSE
      BY <3>2 DEF CommitFinalWager
    <3>3. ASSUME NEW e, SubmitFinalAnswer(e) PROVE FALSE
      BY <3>3 DEF SubmitFinalAnswer, StartReveal
    <3> QED
      BY <2>8, <3>1, <3>2, <3>3
      DEF FinalRound, FinalWagerTimeout, FinalWritingTimeout, StartReveal
  <2>9. CASE Staging
    <3>1. CASE HostEndsRound \/ RoundTimeout
      BY <3>1 DEF HostEndsRound, RoundTimeout, EndRound
    <3>2. CASE EndGame
      BY <3>2 DEF EndGame, Crowned, NobodyMayWin, Leaders
    <3>3. CASE Proceed
      <4>1. scores' = scores
        BY <3>3 DEF Proceed
      <4>2. ASSUME NEW events, FinishGame(scores, events) PROVE Crowned
        BY <4>1, <4>2, FinishGameCrowns
      <4>3. ASSUME StartFinal PROVE Crowned
        BY <4>2, <4>3 DEF StartFinal
      <4>4. ASSUME NEW r, NEW e, NEW cells, NEW events, StartRound(r, e, cells, events)
            PROVE  FALSE
        BY <4>4 DEF StartRound, PresentClue, AwaitSelection
      <4> QED
        BY <3>3, <4>2, <4>3, <4>4 DEF Proceed
    <3> QED
      BY <2>9, <3>1, <3>2, <3>3 DEF Staging
  <2>10. CASE SuddenDeath
    <3>1. /\ phase = "tiebreaker-answering" /\ tiebreaker # None
          /\ winners' = {seat[tiebreaker.buzzWinner]}
      BY <2>10 DEF SuddenDeath, ArmTiebreaker, TiebreakerBuzz, TiebreakerBuzzTimeout,
                   JudgeTiebreaker, TiebreakerNextClue
    <3> QED
      BY <3>1 DEF GameInv, EndInv, TieFloor, Crowned
  <2>11. CASE Surgery
    BY <2>11 DEF Surgery, ScoreAdjust, ScoreSet, HostScores
  <2> QED
    BY <2>1, <2>3, <2>4, <2>5, <2>6, <2>7, <2>8, <2>9, <2>10, <2>11 DEF Next
<1>2. Spec => [][(phase # "game-over" /\ phase' = "game-over") => Crowned]_vars
  BY <1>1, GameInvariant, PTL DEF Spec
<1> QED
  BY <1>2, PTL DEF CrownsTheTop, Crowned

=============================================================================
