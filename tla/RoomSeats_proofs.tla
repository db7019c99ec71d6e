-------------------------- MODULE RoomSeats_proofs -------------------------
(***************************************************************************)
(* Proofs about RoomSeats: its types, who leads a team and how long, who   *)
(* counts as connected, and that engine and roster agree on the seats.     *)
(***************************************************************************)
EXTENDS RoomSeats, FiniteSetTheorems, SequenceTheorems, TLAPS

-----------------------------------------------------------------------------
(* Names, successors and the log. *)

\* A player, a team and the marks for nobody and for a solo seat are never confused.
LEMMA Names ==
  /\ \A p \in Player : p \in Nat /\ p # None
  /\ \A t \in Team \cup {None} : Seat(t) # None
  /\ \A t \in Team : Seat(t) = t /\ t # None /\ t # Solo
  /\ Seat(None) = Solo
<1>1. \A p \in Player : p \in Nat
  BY BoundsAssumption DEF Player
<1>2. /\ \A p \in Player : p # None
      /\ \A t \in Team : t # None /\ t # Solo
      /\ None # Solo
  BY NamesAssumption
<1> QED
  BY <1>1, <1>2, Zenon DEF Seat

\* pickSuccessor names a connected member other than the one who goes, or nobody.
LEMMA SuccessorIsThere ==
  ASSUME TypeOK, NEW t, NEW p, NEW q \in Successors(t, p)
  PROVE  q = None \/ (q \in Members(t) /\ q \in connected /\ q # p /\ q \in Player)
<1>1. q = None \/ q \in Candidates(t, p)
  BY DEF Successors
<1>2. roster \subseteq Player
  BY BoundsAssumption DEF TypeOK, Player
<1> QED
  BY <1>1, <1>2 DEF Candidates, Members

\* A window on the end of a sequence holds nothing that the sequence does not.
LEMMA Windowed ==
  ASSUME NEW S, NEW s \in Seq(S), NEW m \in 1 .. Len(s) + 1
  PROVE  /\ SubSeq(s, m, Len(s)) \in Seq(S)
         /\ \A i \in DOMAIN SubSeq(s, m, Len(s)) : \E j \in DOMAIN s : SubSeq(s, m, Len(s))[i] = s[j]
<1>1. Len(s) \in Nat /\ DOMAIN s = 1 .. Len(s)
  BY LenProperties
<1>2. m \in Int /\ Len(s) \in Int /\ \A i \in m .. Len(s) : s[i] \in S
  BY <1>1, ElementOfSeq
<1>3. /\ SubSeq(s, m, Len(s)) \in Seq(S)
      /\ Len(SubSeq(s, m, Len(s))) = IF m <= Len(s) THEN Len(s) - m + 1 ELSE 0
      /\ \A i \in 1 .. Len(s) - m + 1 : SubSeq(s, m, Len(s))[i] = s[m + i - 1]
  BY <1>2, SubSeqProperties
<1>4. DOMAIN SubSeq(s, m, Len(s)) = 1 .. Len(s) - m + 1
  <2>1. Len(SubSeq(s, m, Len(s))) = Len(s) - m + 1
    BY <1>1, <1>3
  <2> QED
    BY <1>3, <2>1, LenProperties
<1>5. ASSUME NEW i \in 1 .. Len(s) - m + 1
      PROVE  \E j \in DOMAIN s : SubSeq(s, m, Len(s))[i] = s[j]
  <2>1. m + i - 1 \in DOMAIN s
    BY <1>1, <1>2
  <2> QED
    BY <1>3, <2>1
<1> QED
  BY <1>3, <1>4, <1>5

\* What Logs leaves in the log was in it or is one of the states added.
LEMMA LogsKeeps ==
  ASSUME TypeOK, NEW before \in Seq(Engine), Logs(before)
  PROVE  /\ log' \in Seq(Engine)
         /\ \A i \in DOMAIN log' : \/ \E j \in DOMAIN log : log'[i] = log[j]
                                   \/ \E j \in DOMAIN before : log'[i] = before[j]
<1>0. PICK l : l = log \o before
  OBVIOUS
<1>1. l \in Seq(Engine) /\ Len(l) = Len(log) + Len(before)
      /\ \A i \in 1 .. Len(log) + Len(before) :
           l[i] = IF i <= Len(log) THEN log[i] ELSE before[i - Len(log)]
  BY <1>0, ConcatProperties DEF TypeOK
<1>2. log' \in Seq(Engine) /\ \A i \in DOMAIN log' : \E j \in DOMAIN l : log'[i] = l[j]
  <2>1. Len(l) \in Nat
    BY <1>1, LenProperties
  <2>2. PICK m \in 1 .. Len(l) + 1 : log' = SubSeq(l, m, Len(l))
    <3>1. (IF Len(l) > UndoDepth THEN Len(l) - UndoDepth + 1 ELSE 1) \in 1 .. Len(l) + 1
      BY <2>1, BoundsAssumption
    <3> QED
      BY <1>0, <3>1 DEF Logs
  <2> QED
    BY <1>1, <2>2, Windowed
<1>3. ASSUME NEW j \in DOMAIN l
      PROVE  \/ \E k \in DOMAIN log : l[j] = log[k]
             \/ \E k \in DOMAIN before : l[j] = before[k]
  <2>1. /\ Len(log) \in Nat /\ DOMAIN log = 1 .. Len(log)
        /\ Len(before) \in Nat /\ DOMAIN before = 1 .. Len(before)
        /\ DOMAIN l = 1 .. Len(log) + Len(before)
    BY <1>1, LenProperties DEF TypeOK
  <2>2. CASE j <= Len(log)
    BY <1>1, <2>1, <2>2
  <2>3. CASE j > Len(log)
    <3>1. j - Len(log) \in DOMAIN before
      BY <2>1, <2>3
    <3> QED
      BY <1>1, <2>1, <2>3, <3>1
  <2> QED
    BY <2>1, <2>2, <2>3
<1> QED
  BY <1>2, <1>3

-----------------------------------------------------------------------------
(* Types. *)

\* Where the stragglers go: fresh teams, one each.
LEMMA SoloTeams ==
  ASSUME NEW home \in Naming(Stragglers, Fresh), NEW t \in {home[p] : p \in Stragglers}
  PROVE  LET owner == CHOOSE p \in Stragglers : home[p] = t
         IN  owner \in Stragglers /\ home[owner] = t /\ t \in Fresh
BY DEF Naming

\* Only who has no team is a straggler.
LEMMA StragglersAreTeamless ==
  Stragglers \subseteq {p \in roster : team[p] = None}
BY DEF Stragglers, Teamless

\* Seating the first n of them leaves a state of the engine.
LEMMA SeatedToTyped ==
  ASSUME TypeOK, NEW n, NEW homes \in [Player -> Team \cup {None}]
  PROVE  SeatedTo(n, homes) \in Engine
BY DEF SeatedTo, TypeOK, Engine, Seat

\* There are finitely many to seat.
LEMMA SeatedCounted ==
  ASSUME TypeOK, NEW homes
  PROVE  Cardinality(Seated(homes)) \in Nat
<1>1. IsFiniteSet(1 .. minted)
  BY FS_Interval DEF TypeOK
<1>2. Seated(homes) \subseteq 1 .. minted
  BY DEF Seated, TypeOK
<1> QED
  BY <1>1, <1>2, FS_Subset, FS_CardinalityType

\* A new seat has the next number, and is connected by one socket.
LEMMA MintTyped ==
  ASSUME TypeOK, NEW p \in Player, NEW t \in Team \cup {None}, Mint(p, t)
  PROVE  /\ minted' \in 0 .. MintBound /\ roster' \subseteq 1 .. minted'
         /\ connected' \subseteq roster'
         /\ team' \in [Player -> Team \cup {None}]
         /\ sockets' \in [Player -> 0 .. SocketBound]
<1>1. minted \in Nat /\ minted' = minted + 1 /\ p = minted + 1 /\ minted' \in 0 .. MintBound
  BY BoundsAssumption DEF Mint, TypeOK, Player
<1>2. roster' \subseteq 1 .. minted' /\ connected' \subseteq roster'
  BY <1>1 DEF Mint, TypeOK
<1>3. 1 \in 0 .. SocketBound
  BY BoundsAssumption
<1> QED
  BY <1>1, <1>2, <1>3 DEF Mint, TypeOK

\* The engine's side of a join.
LEMMA EngineTakesTyped ==
  ASSUME TypeOK, NEW p \in Player, NEW t \in Team \cup {None}, EngineTakes(p, t)
  PROVE  engine' \in Engine /\ log' \in Seq(Engine) /\ lifecycle' = lifecycle
<1>1. CASE lifecycle = "active"
  <2>1. engine' = [engine EXCEPT !.seat[p] = Seat(t)] /\ Logs(<<engine>>) /\ lifecycle' = lifecycle
    BY <1>1 DEF EngineTakes, Becomes
  <2>2. engine' \in Engine
    BY <2>1 DEF TypeOK, Engine, Seat
  <2>3. <<engine>> \in Seq(Engine)
    BY DEF TypeOK
  <2> QED
    BY <2>1, <2>2, <2>3, LogsKeeps
<1>2. CASE lifecycle # "active"
  BY <1>2 DEF EngineTakes, game, TypeOK
<1> QED
  BY <1>1, <1>2

\* The crown passes to a player or to nobody.
LEMMA PassesOnTyped ==
  ASSUME TypeOK, NEW t \in Teams, NEW p, PassesOn(t, p)
  PROVE  /\ DOMAIN leader' = Teams /\ leader' \in [Teams -> Player \cup {None}]
         /\ succession' \in [Team -> Player \cup {None}] /\ crownedAway' \subseteq Team
<1>1. PICK q \in Successors(t, p) :
        /\ leader' = [leader EXCEPT ![t] = q]
        /\ succession' = [succession EXCEPT ![t] = None]
        /\ crownedAway' = crownedAway \ {t}
  BY DEF PassesOn
<1>2. q \in Player \cup {None}
  BY SuccessorIsThere
<1> QED
  BY <1>1, <1>2 DEF TypeOK, Teams

\* What a join writes besides the team it founds.
LEMMA JoinTyped ==
  ASSUME TypeOK, NEW p \in Player, NEW t \in Team \cup {None},
         Mint(p, t), EngineTakes(p, t), UNCHANGED settings,
         \/ UNCHANGED crowns
         \/ t # None /\ leader' = Grow(t, p) /\ UNCHANGED <<succession, crownedAway>>
  PROVE  TypeOK'
<1>1. /\ leader' \in [DOMAIN leader' -> Player \cup {None}] /\ DOMAIN leader' \subseteq Team
      /\ crownedAway' \subseteq Team /\ succession' \in [Team -> Player \cup {None}]
  BY DEF TypeOK, crowns, Grow, Teams
<1>2. mode' = mode /\ lateJoin' = lateJoin
  BY DEF settings
<1> QED
  BY <1>1, <1>2, MintTyped, EngineTakesTyped DEF TypeOK, Teams

\* The start of the game, with the teams it makes and the states it logs.
LEMMA StartTyped ==
  ASSUME TypeOK, StartGame
  PROVE  TypeOK'
<1>1. PICK home \in Naming(Stragglers, Fresh) :
        LET homes == [p \in Player |-> IF p \in Stragglers THEN home[p] ELSE team[p]]
            count == Cardinality(Seated(homes))
            full == SeatedTo(count, homes)
            starts == engine.phase = "lobby" /\ \E p \in Player : full.seat[p] # None
        IN /\ team' = homes
           /\ leader' = [t \in Teams \cup {home[p] : p \in Stragglers} |->
                           IF t \in Teams THEN leader[t]
                           ELSE CHOOSE p \in Stragglers : home[p] = t]
           /\ engine' = IF starts THEN [full EXCEPT !.phase = "playing"] ELSE full
           /\ Logs([i \in 1 .. (IF starts THEN count + 1 ELSE count) |-> SeatedTo(i - 1, homes)])
           /\ lifecycle' = IF starts THEN "active" ELSE lifecycle
           /\ crownedAway' = crownedAway \cup {home[p] : p \in Stragglers \ connected}
           /\ UNCHANGED <<settings, minted, roster, connected, sockets, succession>>
  BY Zenon DEF StartGame
<1> DEFINE homes == [p \in Player |-> IF p \in Stragglers THEN home[p] ELSE team[p]]
           count == Cardinality(Seated(homes))
           full == SeatedTo(count, homes)
           starts == engine.phase = "lobby" /\ \E p \in Player : full.seat[p] # None
           before == [i \in 1 .. (IF starts THEN count + 1 ELSE count) |-> SeatedTo(i - 1, homes)]
<1>2. Stragglers \subseteq Player /\ Fresh \subseteq Team /\ home \in [Stragglers -> Fresh]
  BY StragglersAreTeamless, BoundsAssumption DEF TypeOK, Player, Fresh, Naming
<1>3. homes \in [Player -> Team \cup {None}]
  BY <1>2 DEF TypeOK
<1>4. full \in Engine /\ before \in Seq(Engine)
  <2>1. count \in Nat
    BY SeatedCounted
  <2>2. \A i \in 1 .. (IF starts THEN count + 1 ELSE count) : SeatedTo(i - 1, homes) \in Engine
    BY <1>3, SeatedToTyped
  <2>3. (IF starts THEN count + 1 ELSE count) \in Nat
    BY <2>1
  <2>4. full \in Engine
    BY <1>3, SeatedToTyped
  <2> HIDE DEF homes, count, starts, full
  <2> QED
    BY <2>2, <2>3, <2>4
<1>5. engine' \in Engine
  BY <1>1, <1>4 DEF Engine
<1>6. log' \in Seq(Engine)
  BY <1>1, <1>4, LogsKeeps
<1>7. leader' \in [DOMAIN leader' -> Player \cup {None}] /\ DOMAIN leader' \subseteq Team
  <2>1. DOMAIN leader' = Teams \cup {home[p] : p \in Stragglers}
    BY <1>1
  <2>2. \A t \in Teams : leader'[t] \in Player \cup {None}
    BY <1>1 DEF TypeOK
  <2>3. ASSUME NEW t \in {home[p] : p \in Stragglers}, t \notin Teams
        PROVE  leader'[t] \in Player
    <3>1. leader'[t] = CHOOSE p \in Stragglers : home[p] = t
      BY <1>1, <2>3
    <3> QED
      BY <1>2, <3>1, SoloTeams
  <2>4. \A t \in DOMAIN leader' : leader'[t] \in Player \cup {None}
    BY <2>1, <2>2, <2>3
  <2>5. DOMAIN leader' \subseteq Team
    BY <1>2, <2>1 DEF TypeOK
  <2>6. leader' = [t \in DOMAIN leader' |-> leader'[t]]
    BY <1>1
  <2> QED
    BY <2>4, <2>5, <2>6
<1>8. crownedAway' \subseteq Team /\ team' \in [Player -> Team \cup {None}]
  BY <1>1, <1>2, <1>3 DEF TypeOK
<1>9. lifecycle' \in {"lobby", "active", "ended"}
  BY <1>1 DEF TypeOK
<1>10. UNCHANGED <<mode, lateJoin, minted, roster, connected, sockets, succession>>
  BY <1>1 DEF settings
<1> QED
  BY <1>5, <1>6, <1>7, <1>8, <1>9, <1>10 DEF TypeOK, Teams

\* An empty room.
LEMMA TypeInit == Init => TypeOK
<1> SUFFICES ASSUME Init PROVE TypeOK
  OBVIOUS
<1>1. minted \in 0 .. MintBound /\ sockets \in [Player -> 0 .. SocketBound]
  BY BoundsAssumption DEF Init
<1>2. Teams = {} /\ leader \in [Teams -> Player \cup {None}]
  BY DEF Init, Teams
<1>3. engine \in Engine /\ log \in Seq(Engine)
  BY DEF Init, Engine
<1> QED
  BY <1>1, <1>2, <1>3 DEF Init, TypeOK

\* Every action of the room.
LEMMA TypeStep ==
  ASSUME TypeOK, [Next]_vars
  PROVE  TypeOK'
<1> USE DEF Teams
<1>1. ASSUME NEW p \in Player, JoinAlone(p) PROVE TypeOK'
  BY <1>1, JoinTyped, Zenon DEF JoinAlone
<1>2. ASSUME NEW p \in Player, NEW t \in Team, JoinTeam(p, t) PROVE TypeOK'
  BY <1>2, JoinTyped, Zenon DEF JoinTeam
<1>3. ASSUME NEW p \in Player, NEW t \in Team, JoinFounding(p, t) \/ JoinAsSoloTeam(p, t)
      PROVE  TypeOK'
  <2>1. t # None
    BY Names
  <2> QED
    BY <1>3, <2>1, JoinTyped DEF JoinFounding, JoinAsSoloTeam, Founds
<1>4. ASSUME NEW p \in Player, Resume(p) PROVE TypeOK'
  BY <1>4, BoundsAssumption DEF Resume, TypeOK, settings, game
<1>5. ASSUME NEW p \in Player, CloseOne(p) \/ CloseLast(p) PROVE TypeOK'
  <2>1. sockets' \in [Player -> 0 .. SocketBound]
    <3>1. sockets[p] \in 0 .. SocketBound
      BY DEF TypeOK
    <3>2. CASE CloseOne(p)
      <4>1. sockets[p] - 1 \in 0 .. SocketBound /\ sockets' = [sockets EXCEPT ![p] = sockets[p] - 1]
        BY <3>1, <3>2, BoundsAssumption DEF CloseOne
      <4> QED
        BY <4>1 DEF TypeOK
    <3>3. CASE CloseLast(p)
      <4>1. 0 \in 0 .. SocketBound /\ sockets' = [sockets EXCEPT ![p] = 0]
        BY <3>3, BoundsAssumption DEF CloseLast
      <4> QED
        BY <4>1 DEF TypeOK
    <3> QED
      BY <1>5, <3>2, <3>3
  <2>2. connected' \subseteq roster /\ crownedAway' \subseteq Team
        /\ succession' \in [Team -> Player \cup {None}] /\ leader' = leader
    BY <1>5 DEF CloseOne, CloseLast, TypeOK, crowns
  <2> QED
    BY <1>5, <2>1, <2>2 DEF CloseOne, CloseLast, TypeOK, settings, game
<1>6. ASSUME NEW p \in Player, RemovePlayer(p) PROVE TypeOK'
  <2>1. engine' \in Engine /\ log' \in Seq(Engine)
    BY <1>6 DEF RemovePlayer, TypeOK, game
  <2>2. /\ DOMAIN leader' = Teams /\ leader' \in [Teams -> Player \cup {None}]
        /\ succession' \in [Team -> Player \cup {None}] /\ crownedAway' \subseteq Team
    <3>1. CASE team[p] # None /\ Leads(team[p], p)
      BY <1>6, <3>1, PassesOnTyped, Zenon DEF RemovePlayer, Leads
    <3>2. CASE ~(team[p] # None /\ Leads(team[p], p))
      BY <1>6, <3>2 DEF RemovePlayer, TypeOK
    <3> QED
      BY <3>1, <3>2
  <2> QED
    BY <1>6, <2>1, <2>2, BoundsAssumption DEF RemovePlayer, TypeOK, settings, game
<1>7. ASSUME NEW p \in Player, TeamKick(p) PROVE TypeOK'
  <2>1. /\ DOMAIN leader' = Teams /\ leader' \in [Teams -> Player \cup {None}]
        /\ succession' \in [Team -> Player \cup {None}] /\ crownedAway' \subseteq Team
    <3>1. CASE team[p] # None /\ Leads(team[p], p)
      BY <1>7, <3>1, PassesOnTyped, Zenon DEF TeamKick, Detach, Leads
    <3>2. CASE ~(team[p] # None /\ Leads(team[p], p))
      BY <1>7, <3>2 DEF TeamKick, Detach, TypeOK
    <3> QED
      BY <3>1, <3>2
  <2> QED
    BY <1>7, <2>1 DEF TeamKick, TypeOK, settings, game
<1>8. ASSUME NEW p \in Player, TeamHandoff(p) PROVE TypeOK'
  BY <1>8 DEF TeamHandoff, TypeOK, settings, seats, game, Crowned
<1>9. ASSUME NEW p \in Player, NEW t \in Team, TeamCreate(p, t) PROVE TypeOK'
  <2>1. /\ DOMAIN leader' \subseteq Team /\ leader' \in [DOMAIN leader' -> Player \cup {None}]
        /\ succession' \in [Team -> Player \cup {None}] /\ crownedAway' \subseteq Team
    <3>1. CASE team[p] # None /\ Leads(team[p], p)
      <4>1. PICK q \in Successors(team[p], p) :
              /\ leader' = [Grow(t, p) EXCEPT ![team[p]] = q]
              /\ succession' = [succession EXCEPT ![team[p]] = None]
              /\ crownedAway' = crownedAway \ {team[p]}
        BY <1>9, <3>1 DEF TeamCreate
      <4>2. q \in Player \cup {None}
        BY SuccessorIsThere
      <4> QED
        BY <4>1, <4>2 DEF TypeOK, Grow
    <3>2. CASE ~(team[p] # None /\ Leads(team[p], p))
      BY <1>9, <3>2 DEF TeamCreate, TypeOK, Grow
    <3> QED
      BY <3>1, <3>2
  <2> QED
    BY <1>9, <2>1 DEF TeamCreate, TypeOK, settings, game
<1>10. ASSUME NEW p \in Player, NEW t \in Team, TeamJoin(p, t) PROVE TypeOK'
  <2>1. PICK q \in (IF team[p] # None /\ Leads(team[p], p) THEN Successors(team[p], p) ELSE {p}),
              old \in {team[p]} :
          LET passed == IF q = p THEN leader ELSE [leader EXCEPT ![old] = q]
          IN  /\ leader' = IF passed[t] = None THEN [passed EXCEPT ![t] = p] ELSE passed
              /\ succession' = IF q = p THEN succession ELSE [succession EXCEPT ![old] = None]
              /\ crownedAway' = IF passed[t] = None THEN Crowned(t, p, p \notin connected)
                                ELSE IF q = p THEN crownedAway ELSE crownedAway \ {old}
    BY <1>10, Zenon DEF TeamJoin
  <2>2. q \in Player \cup {None}
    BY SuccessorIsThere
  <2>3. /\ DOMAIN leader' = Teams /\ leader' \in [Teams -> Player \cup {None}]
        /\ succession' \in [Team -> Player \cup {None}] /\ crownedAway' \subseteq Team
    BY <2>1, <2>2 DEF TypeOK, Crowned
  <2> QED
    BY <1>10, <2>3 DEF TeamJoin, TypeOK, settings, game
<1>11. ASSUME NEW t \in Team, SuccessionDue(t) PROVE TypeOK'
  <2>1. /\ DOMAIN leader' = Teams /\ leader' \in [Teams -> Player \cup {None}]
        /\ succession' \in [Team -> Player \cup {None}] /\ crownedAway' \subseteq Team
    <3>1. CASE Leads(t, succession[t]) /\ succession[t] \notin connected
      <4>1. PICK q \in Successors(t, leader[t]) : leader' = [leader EXCEPT ![t] = q]
        BY <1>11, <3>1 DEF SuccessionDue
      <4>2. q \in Player \cup {None}
        BY SuccessorIsThere
      <4> QED
        BY <1>11, <3>1, <4>1, <4>2 DEF SuccessionDue, TypeOK
    <3>2. CASE ~(Leads(t, succession[t]) /\ succession[t] \notin connected)
      BY <1>11, <3>2 DEF SuccessionDue, TypeOK
    <3> QED
      BY <3>1, <3>2
  <2> QED
    BY <1>11, <2>1 DEF SuccessionDue, TypeOK, settings, seats, game
<1>12. ASSUME NEW p \in Player, PlayerLeaves(p) PROVE TypeOK'
  <2>1. engine' = engine /\ Logs(<<engine>>) /\ <<engine>> \in Seq(Engine)
    BY <1>12 DEF PlayerLeaves, Becomes, TypeOK
  <2>2. log' \in Seq(Engine)
    BY <2>1, LogsKeeps
  <2> QED
    BY <1>12, <2>1, <2>2 DEF PlayerLeaves, TypeOK, settings, seats, crowns
<1>13. ASSUME EndGame PROVE TypeOK'
  <2>1. Logs(<<engine>>) /\ <<engine>> \in Seq(Engine)
    BY <1>13 DEF EndGame, Becomes, TypeOK
  <2>2. log' \in Seq(Engine)
    BY <2>1, LogsKeeps
  <2> QED
    BY <1>13, <2>2 DEF EndGame, Becomes, TypeOK, Engine, settings, seats, crowns
<1>14. ASSUME Undo PROVE TypeOK'
  <2>1. Len(log) \in Nat \ {0} /\ DOMAIN log = 1 .. Len(log)
    BY <1>14, EmptySeq, LenProperties DEF Undo, TypeOK
  <2>2. engine' \in Engine
    BY <1>14, <2>1, ElementOfSeq DEF Undo, TypeOK
  <2>3. log' \in Seq(Engine)
    <3>1. 1 \in Int /\ Len(log) - 1 \in Int /\ \A i \in 1 .. Len(log) - 1 : log[i] \in Engine
      BY <2>1, ElementOfSeq DEF TypeOK
    <3> QED
      BY <1>14, <3>1, SubSeqProperties DEF Undo
  <2> QED
    BY <1>14, <2>2, <2>3 DEF Undo, TypeOK, settings, seats, crowns
<1>15. ASSUME CloseRoom PROVE TypeOK'
  BY <1>15 DEF CloseRoom, TypeOK, settings, seats, crowns
<1>16. CASE UNCHANGED vars
  BY <1>16 DEF vars, TypeOK, settings, seats, crowns, game
<1> QED
  BY <1>1, <1>2, <1>3, <1>4, <1>5, <1>6, <1>7, <1>8, <1>9, <1>10, <1>11, <1>12, <1>13,
     <1>14, <1>15, <1>16, StartTyped DEF Next

-----------------------------------------------------------------------------
(* Leaders. *)

\* What the four invariants say together: each of them rests on the others.
LeadInv == /\ LeaderIsMember /\ SuccessionNamesTheLeader
           /\ AbsentLeaderIsTimed /\ ConnectedIsAttached

\* Without teams there is nobody to lead.
LEMMA LeadInit == Init => LeadInv
<1> SUFFICES ASSUME Init PROVE LeadInv
  OBVIOUS
<1>1. Teams = {} /\ roster = {} /\ connected = {} /\ \A t \in Team : succession[t] = None
  BY DEF Init, Teams
<1> QED
  BY <1>1 DEF LeadInv, LeaderIsMember, SuccessionNamesTheLeader, AbsentLeaderIsTimed,
              ConnectedIsAttached

\* A new player is on no team's record.
LEMMA NewcomerIsNew ==
  ASSUME TypeOK, NEW p \in Player, NEW t, Mint(p, t)
  PROVE  p \notin roster /\ p \notin connected
BY BoundsAssumption DEF TypeOK, Mint, Player

\* A newcomer leads the team it founds, and disturbs no other.
LEMMA JoinLeads ==
  ASSUME TypeOK, LeadInv, NEW p \in Player, NEW t \in Team \cup {None}, Mint(p, t),
         \/ (t = None \/ t \in Teams) /\ UNCHANGED crowns
         \/ t \in Fresh /\ leader' = Grow(t, p) /\ UNCHANGED <<succession, crownedAway>>
  PROVE  LeadInv'
<1> USE DEF Teams, Members
<1>1. p \notin roster /\ p \notin connected
  BY NewcomerIsNew
<1>2. /\ roster' = roster \cup {p} /\ connected' = connected \cup {p}
      /\ team' = [team EXCEPT ![p] = t] /\ sockets' = [sockets EXCEPT ![p] = 1]
  BY DEF Mint
<1>3. ConnectedIsAttached'
  BY <1>1, <1>2, BoundsAssumption DEF LeadInv, ConnectedIsAttached, TypeOK
<1>4. \A q \in roster : q # p /\ team'[q] = team[q]
  BY <1>1, <1>2, BoundsAssumption DEF TypeOK, Player
<1>5. team'[p] = t
  BY <1>2 DEF TypeOK
<1>6. \A u \in Teams : leader[u] # None => leader[u] \in roster /\ team[leader[u]] = u
  BY DEF LeadInv, LeaderIsMember
<1>7. CASE (t = None \/ t \in Teams) /\ UNCHANGED crowns
  <2>1. LeaderIsMember'
    BY <1>2, <1>4, <1>5, <1>6, <1>7 DEF LeadInv, LeaderIsMember, crowns
  <2>2. SuccessionNamesTheLeader'
    BY <1>7 DEF LeadInv, SuccessionNamesTheLeader, crowns
  <2>3. AbsentLeaderIsTimed'
    BY <1>2, <1>4, <1>6, <1>7 DEF LeadInv, AbsentLeaderIsTimed, crowns
  <2> QED
    BY <1>3, <2>1, <2>2, <2>3 DEF LeadInv
<1>8. CASE t \in Fresh /\ leader' = Grow(t, p) /\ UNCHANGED <<succession, crownedAway>>
  <2>1. /\ t \in Team /\ t \notin Teams /\ DOMAIN leader' = Teams \cup {t} /\ leader'[t] = p
        /\ \A u \in Teams : leader'[u] = leader[u]
    BY <1>8 DEF Grow, Fresh
  <2>2. succession[t] = None
    BY <2>1 DEF LeadInv, SuccessionNamesTheLeader
  <2>3. LeaderIsMember'
    BY <1>2, <1>4, <1>5, <1>6, <2>1, Names DEF LeadInv, LeaderIsMember
  <2>4. SuccessionNamesTheLeader'
    BY <1>8, <2>1, <2>2 DEF LeadInv, SuccessionNamesTheLeader
  <2>5. AbsentLeaderIsTimed'
    BY <1>2, <1>4, <1>6, <1>8, <2>1, <2>2 DEF LeadInv, AbsentLeaderIsTimed
  <2> QED
    BY <1>3, <2>3, <2>4, <2>5 DEF LeadInv
<1> QED
  BY <1>7, <1>8

\* Whoever is back has no succession pending.
LEMMA ResumeLeads ==
  ASSUME TypeOK, LeadInv, NEW p \in Player, Resume(p)
  PROVE  LeadInv'
<1> USE DEF Teams, Members
<1>1. /\ leader' = leader /\ roster' = roster /\ team' = team /\ crownedAway' = crownedAway
      /\ connected' = connected \cup {p} /\ p \in roster
      /\ sockets' = [sockets EXCEPT ![p] = sockets[p] + 1]
      /\ succession' = [t \in Team |-> IF succession[t] = p THEN None ELSE succession[t]]
  BY DEF Resume
<1>2. LeaderIsMember'
  BY <1>1 DEF LeadInv, LeaderIsMember
<1>3. SuccessionNamesTheLeader'
  BY <1>1 DEF LeadInv, SuccessionNamesTheLeader
<1>4. AbsentLeaderIsTimed'
  <2> SUFFICES ASSUME NEW t \in Teams, leader[t] # None, t \notin crownedAway
               PROVE  leader[t] \in connected' <=> succession'[t] = None
    BY <1>1 DEF AbsentLeaderIsTimed
  <2>1. t \in Team /\ (leader[t] \in connected <=> succession[t] = None)
    BY DEF LeadInv, AbsentLeaderIsTimed, TypeOK
  <2>2. succession[t] # None => succession[t] = leader[t]
    BY <2>1 DEF LeadInv, SuccessionNamesTheLeader
  <2> QED
    BY <1>1, <2>1, <2>2
<1>5. ConnectedIsAttached'
  <2>1. sockets[p] \in Nat
    BY BoundsAssumption DEF TypeOK
  <2> QED
    BY <1>1, <2>1 DEF LeadInv, ConnectedIsAttached, TypeOK
<1> QED
  BY <1>2, <1>3, <1>4, <1>5 DEF LeadInv

\* Whoever goes with the last socket has one, for each team led.
LEMMA CloseLeads ==
  ASSUME TypeOK, LeadInv, NEW p \in Player, CloseOne(p) \/ CloseLast(p)
  PROVE  LeadInv'
<1> USE DEF Teams, Members
<1>0. leader' = leader /\ roster' = roster /\ team' = team
  BY DEF CloseOne, CloseLast, crowns
<1>1. LeaderIsMember'
  BY <1>0 DEF LeadInv, LeaderIsMember
<1>2. CASE CloseOne(p)
  <2>1. sockets[p] \in Nat /\ sockets[p] > 1 /\ sockets' = [sockets EXCEPT ![p] = sockets[p] - 1]
    BY <1>2, BoundsAssumption DEF CloseOne, TypeOK
  <2>2. ConnectedIsAttached'
    BY <1>0, <1>2, <2>1 DEF CloseOne, LeadInv, ConnectedIsAttached, TypeOK
  <2>3. SuccessionNamesTheLeader' /\ AbsentLeaderIsTimed'
    BY <1>2 DEF CloseOne, crowns, LeadInv, SuccessionNamesTheLeader, AbsentLeaderIsTimed
  <2> QED
    BY <1>1, <2>2, <2>3 DEF LeadInv
<1>3. CASE CloseLast(p)
  <2>1. /\ connected' = connected \ {p} /\ sockets' = [sockets EXCEPT ![p] = 0]
        /\ succession' = [t \in Team |-> IF Leads(t, p) THEN p ELSE succession[t]]
        /\ crownedAway' = {t \in crownedAway : leader[t] # p}
        /\ p \in roster /\ sockets[p] = 1
    BY <1>3 DEF CloseLast
  <2>2. ConnectedIsAttached'
    BY <1>0, <2>1 DEF LeadInv, ConnectedIsAttached, TypeOK
  <2>3. SuccessionNamesTheLeader'
    BY <1>0, <2>1 DEF LeadInv, SuccessionNamesTheLeader, Leads
  <2>4. AbsentLeaderIsTimed'
    <3> SUFFICES ASSUME NEW t \in Teams, leader[t] # None, t \notin crownedAway'
                 PROVE  leader[t] \in connected' <=> succession'[t] = None
      BY <1>0 DEF AbsentLeaderIsTimed
    <3>1. t \in Team
      BY DEF TypeOK
    <3>2. CASE leader[t] = p
      BY <2>1, <3>1, <3>2, Names DEF Leads
    <3>3. CASE leader[t] # p
      <4>1. t \notin crownedAway
        BY <2>1, <3>3
      <4> QED
        BY <2>1, <3>1, <3>3, <4>1 DEF LeadInv, AbsentLeaderIsTimed, Leads
    <3> QED
      BY <3>2, <3>3
  <2> QED
    BY <1>1, <2>2, <2>3, <2>4 DEF LeadInv
<1> QED
  BY <1>2, <1>3

\* Leaving a team, in the room or with it, takes no crown along.
LEMMA DetachLeads ==
  ASSUME TypeOK, LeadInv, NEW p \in roster, Detach(p), team' = [team EXCEPT ![p] = None],
         \/ UNCHANGED <<roster, connected, sockets>>
         \/ /\ roster' = roster \ {p} /\ connected' = connected \ {p}
            /\ sockets' = [sockets EXCEPT ![p] = 0]
  PROVE  LeadInv'
<1> USE DEF Teams, Members
<1>0. p \in Player
  BY BoundsAssumption DEF TypeOK, Player
<1>1. ConnectedIsAttached'
  <2>1. CASE UNCHANGED <<roster, connected, sockets>>
    BY <2>1 DEF LeadInv, ConnectedIsAttached
  <2>2. CASE /\ roster' = roster \ {p} /\ connected' = connected \ {p}
             /\ sockets' = [sockets EXCEPT ![p] = 0]
    <3>1. \A q \in roster' : sockets'[q] = sockets[q]
      BY <2>2, BoundsAssumption DEF TypeOK
    <3> QED
      BY <2>2, <3>1 DEF LeadInv, ConnectedIsAttached
  <2> QED
    BY <2>1, <2>2
<1>2. /\ \A q \in roster \ {p} : q \in roster' /\ team'[q] = team[q]
      /\ \A q \in roster \ {p} : q \in connected' <=> q \in connected
      /\ p \in roster' => team'[p] = None
      /\ roster' \subseteq roster /\ team'[p] = None
  BY <1>0, BoundsAssumption DEF TypeOK
<1>3. \A t \in Teams : leader[t] # None => leader[t] \in roster /\ team[leader[t]] = t
  BY DEF LeadInv, LeaderIsMember
<1>4. CASE team[p] # None /\ Leads(team[p], p)
  <2>1. PICK q \in Successors(team[p], p) :
          /\ leader' = [leader EXCEPT ![team[p]] = q]
          /\ succession' = [succession EXCEPT ![team[p]] = None]
          /\ crownedAway' = crownedAway \ {team[p]}
    BY <1>4 DEF Detach, PassesOn
  <2>2. q = None \/ (q \in roster /\ team[q] = team[p] /\ q \in connected /\ q # p)
    BY SuccessorIsThere
  <2>3. team[p] \in Teams /\ leader[team[p]] = p /\ Teams \subseteq Team
        /\ DOMAIN leader' = Teams
        /\ leader'[team[p]] = q /\ succession'[team[p]] = None
        /\ \A t \in Team \ {team[p]} : succession'[t] = succession[t]
        /\ \A u \in Teams \ {team[p]} : leader'[u] = leader[u]
    BY <1>4, <2>1 DEF Leads, TypeOK
  <2>4. LeaderIsMember'
    <3>1. \A t \in Teams : leader'[t] # None => leader'[t] \in roster' /\ team'[leader'[t]] = t
      BY <1>2, <1>3, <2>2, <2>3
    <3>2. \A r \in roster' : team'[r] # None => team'[r] \in DOMAIN leader'
      BY <1>2, <2>3 DEF LeadInv, LeaderIsMember
    <3> QED
      BY <2>3, <3>1, <3>2 DEF LeaderIsMember
  <2>5. SuccessionNamesTheLeader'
    BY <2>3 DEF LeadInv, SuccessionNamesTheLeader
  <2>6. AbsentLeaderIsTimed'
    <3> SUFFICES ASSUME NEW t \in Teams, leader'[t] # None, t \notin crownedAway'
                 PROVE  leader'[t] \in connected' <=> succession'[t] = None
      BY <2>3 DEF AbsentLeaderIsTimed
    <3>1. CASE t = team[p]
      BY <1>2, <2>2, <2>3, <3>1
    <3>2. CASE t # team[p]
      <4>1. leader[t] # None /\ t \notin crownedAway /\ leader[t] \in roster \ {p}
        BY <1>3, <2>1, <2>3, <3>2
      <4> QED
        BY <1>2, <2>3, <3>2, <4>1 DEF LeadInv, AbsentLeaderIsTimed
    <3> QED
      BY <3>1, <3>2
  <2> QED
    BY <1>1, <2>4, <2>5, <2>6 DEF LeadInv
<1>5. CASE ~(team[p] # None /\ Leads(team[p], p))
  <2>1. leader' = leader /\ succession' = succession /\ crownedAway' = crownedAway
    BY <1>5 DEF Detach
  <2>2. \A t \in Teams : leader[t] # None => leader[t] \in roster \ {p}
    <3> SUFFICES ASSUME NEW t \in Teams, leader[t] = p, p # None PROVE FALSE
      BY <1>3
    <3>1. team[p] = t /\ t # None
      BY <1>3, Names DEF TypeOK
    <3> QED
      BY <1>5, <3>1 DEF Leads
  <2>3. LeaderIsMember'
    <3>1. \A t \in Teams : leader[t] # None => leader[t] \in roster' /\ team'[leader[t]] = t
      BY <1>2, <1>3, <2>2
    <3>2. \A r \in roster' : team'[r] # None => team'[r] \in Teams
      BY <1>2 DEF LeadInv, LeaderIsMember
    <3> QED
      BY <2>1, <3>1, <3>2 DEF LeaderIsMember
  <2>4. SuccessionNamesTheLeader'
    BY <2>1 DEF LeadInv, SuccessionNamesTheLeader
  <2>5. AbsentLeaderIsTimed'
    BY <1>2, <2>1, <2>2 DEF LeadInv, AbsentLeaderIsTimed
  <2> QED
    BY <1>1, <2>3, <2>4, <2>5 DEF LeadInv
<1> QED
  BY <1>4, <1>5

\* The crown is handed to a member, and what was pending is forgotten.
LEMMA HandoffLeads ==
  ASSUME TypeOK, LeadInv, NEW p \in Player, TeamHandoff(p)
  PROVE  LeadInv'
<1> USE DEF Teams, Members
<1>1. /\ p \in roster /\ team[p] \in Teams /\ Teams \subseteq Team
      /\ leader' = [leader EXCEPT ![team[p]] = p]
      /\ succession' = [succession EXCEPT ![team[p]] = None]
      /\ crownedAway' = Crowned(team[p], p, p \notin connected)
      /\ UNCHANGED <<roster, team, connected, sockets>>
  BY DEF TeamHandoff, seats, LeadInv, LeaderIsMember, TypeOK
<1>2. /\ DOMAIN leader' = Teams /\ leader'[team[p]] = p /\ succession'[team[p]] = None
      /\ \A t \in Team \ {team[p]} : succession'[t] = succession[t]
      /\ \A t \in Teams \ {team[p]} : leader'[t] = leader[t]
      /\ \A t \in Team \ {team[p]} : t \in crownedAway' <=> t \in crownedAway
      /\ p \notin connected => team[p] \in crownedAway'
  BY <1>1 DEF Crowned, TypeOK
<1>3. LeaderIsMember'
  BY <1>1, <1>2 DEF LeadInv, LeaderIsMember
<1>4. SuccessionNamesTheLeader'
  BY <1>1, <1>2 DEF LeadInv, SuccessionNamesTheLeader
<1>5. AbsentLeaderIsTimed'
  BY <1>1, <1>2 DEF LeadInv, AbsentLeaderIsTimed
<1>6. ConnectedIsAttached'
  BY <1>1 DEF LeadInv, ConnectedIsAttached
<1> QED
  BY <1>3, <1>4, <1>5, <1>6 DEF LeadInv

\* The founder leads the new team and leaves the old one with a successor.
LEMMA CreateLeads ==
  ASSUME TypeOK, LeadInv, NEW p \in Player, NEW t \in Team, TeamCreate(p, t)
  PROVE  LeadInv'
<1> USE DEF Teams, Members
<1>1. /\ p \in roster /\ sockets[p] > 0 /\ t \notin Teams /\ Teams \subseteq Team
      /\ team' = [team EXCEPT ![p] = t] /\ UNCHANGED <<roster, connected, sockets>>
  BY DEF TeamCreate, Fresh, TypeOK
<1>2. ConnectedIsAttached' /\ p \in connected'
  BY <1>1 DEF LeadInv, ConnectedIsAttached
<1>3. /\ \A q \in roster \ {p} : team'[q] = team[q]
      /\ team'[p] = t
  BY <1>1, BoundsAssumption DEF TypeOK
<1>4. \A u \in Teams : leader[u] # None => leader[u] \in roster /\ team[leader[u]] = u
  BY DEF LeadInv, LeaderIsMember
<1>5. succession[t] = None
  BY <1>1 DEF LeadInv, SuccessionNamesTheLeader
<1>6. \A u \in Teams \cup {t} : Grow(t, p)[u] = IF u = t THEN p ELSE leader[u]
  BY DEF Grow
<1>7. CASE team[p] # None /\ Leads(team[p], p)
  <2>1. PICK q \in Successors(team[p], p) :
          /\ leader' = [Grow(t, p) EXCEPT ![team[p]] = q]
          /\ succession' = [succession EXCEPT ![team[p]] = None]
          /\ crownedAway' = crownedAway \ {team[p]}
    BY <1>7 DEF TeamCreate
  <2>2. q = None \/ (q \in roster /\ team[q] = team[p] /\ q \in connected /\ q # p)
    BY SuccessorIsThere
  <2>3. /\ team[p] \in Teams /\ leader[team[p]] = p /\ team[p] # t
        /\ DOMAIN leader' = Teams \cup {t}
        /\ leader'[team[p]] = q /\ succession'[team[p]] = None /\ leader'[t] = p
        /\ \A u \in Team \ {team[p]} : succession'[u] = succession[u]
        /\ \A u \in Teams \ {team[p]} : leader'[u] = leader[u]
    BY <1>1, <1>6, <1>7, <2>1 DEF Leads, TypeOK, Grow
  <2>4. \A u \in Teams \ {team[p]} : leader[u] # None => leader[u] \in roster \ {p}
    BY <1>4, <2>3
  <2>5. LeaderIsMember'
    <3>1. \A u \in Teams \cup {t} :
            leader'[u] # None => leader'[u] \in roster /\ team'[leader'[u]] = u
      BY <1>1, <1>3, <1>4, <2>2, <2>3, <2>4
    <3>2. \A r \in roster : team'[r] # None => team'[r] \in Teams \cup {t}
      BY <1>3 DEF LeadInv, LeaderIsMember
    <3> QED
      BY <1>1, <2>3, <3>1, <3>2 DEF LeaderIsMember
  <2>6. SuccessionNamesTheLeader'
    BY <1>1, <1>5, <2>3 DEF LeadInv, SuccessionNamesTheLeader
  <2>7. AbsentLeaderIsTimed'
    BY <1>1, <1>2, <1>5, <2>1, <2>2, <2>3 DEF LeadInv, AbsentLeaderIsTimed
  <2> QED
    BY <1>2, <2>5, <2>6, <2>7 DEF LeadInv
<1>8. CASE ~(team[p] # None /\ Leads(team[p], p))
  <2>1. leader' = Grow(t, p) /\ succession' = succession /\ crownedAway' = crownedAway
    BY <1>8 DEF TeamCreate
  <2>2. /\ DOMAIN leader' = Teams \cup {t} /\ leader'[t] = p
        /\ \A u \in Teams : leader'[u] = leader[u]
    BY <1>1, <1>6, <2>1 DEF Grow
  <2>3. \A u \in Teams : leader[u] # None => leader[u] \in roster \ {p}
    <3> SUFFICES ASSUME NEW u \in Teams, leader[u] = p, p # None PROVE FALSE
      BY <1>4
    <3>1. team[p] = u /\ u # None
      BY <1>1, <1>4, Names
    <3> QED
      BY <1>8, <3>1 DEF Leads
  <2>4. LeaderIsMember'
    <3>1. \A u \in Teams \cup {t} :
            leader'[u] # None => leader'[u] \in roster /\ team'[leader'[u]] = u
      BY <1>1, <1>3, <1>4, <2>2, <2>3
    <3>2. \A r \in roster : team'[r] # None => team'[r] \in Teams \cup {t}
      BY <1>3 DEF LeadInv, LeaderIsMember
    <3> QED
      BY <1>1, <2>2, <3>1, <3>2 DEF LeaderIsMember
  <2>5. SuccessionNamesTheLeader'
    BY <1>1, <1>5, <2>1, <2>2 DEF LeadInv, SuccessionNamesTheLeader
  <2>6. AbsentLeaderIsTimed'
    BY <1>1, <1>2, <1>5, <2>1, <2>2 DEF LeadInv, AbsentLeaderIsTimed
  <2> QED
    BY <1>2, <2>4, <2>5, <2>6 DEF LeadInv
<1> QED
  BY <1>7, <1>8

\* A player moved to another team passes a crown on, and is crowned where nobody leads.
LEMMA MoveLeads ==
  ASSUME TypeOK, LeadInv, NEW p \in Player, NEW t \in Team, TeamJoin(p, t)
  PROVE  LeadInv'
<1> USE DEF Teams, Members
<1>1. /\ p \in roster /\ t \in Teams /\ Teams \subseteq Team
      /\ team' = [team EXCEPT ![p] = t] /\ UNCHANGED <<roster, connected, sockets>>
  BY DEF TeamJoin, TypeOK
<1>2. PICK q \in (IF team[p] # None /\ Leads(team[p], p) THEN Successors(team[p], p) ELSE {p}),
            old \in {team[p]} :
        LET passed == IF q = p THEN leader ELSE [leader EXCEPT ![old] = q]
        IN  /\ leader' = IF passed[t] = None THEN [passed EXCEPT ![t] = p] ELSE passed
            /\ succession' = IF q = p THEN succession ELSE [succession EXCEPT ![old] = None]
            /\ crownedAway' = IF passed[t] = None THEN Crowned(t, p, p \notin connected)
                              ELSE IF q = p THEN crownedAway ELSE crownedAway \ {old}
  BY Zenon DEF TeamJoin
<1>3. /\ \A r \in roster \ {p} : team'[r] = team[r]
      /\ team'[p] = t /\ p # None
  BY <1>1, Names, BoundsAssumption DEF TypeOK
<1>4. \A u \in Teams : leader[u] # None => leader[u] \in roster /\ team[leader[u]] = u
  BY DEF LeadInv, LeaderIsMember
<1>5. ConnectedIsAttached'
  BY <1>1 DEF LeadInv, ConnectedIsAttached
\* Who leads once p has left its team: p nowhere.
<1>6. PICK passed :
        /\ passed \in [Teams -> Player \cup {None}]
        /\ leader' = IF passed[t] = None THEN [passed EXCEPT ![t] = p] ELSE passed
        /\ \A u \in Teams : passed[u] # None =>
             passed[u] \in roster \ {p} /\ team[passed[u]] = u
        /\ \A u \in Teams : succession'[u] # None => passed[u] = succession'[u]
        /\ \A u \in Team \ Teams : succession'[u] = None
        /\ \A u \in Teams : (passed[u] # None /\ passed[u] # leader[u]) =>
             passed[u] \in connected /\ succession'[u] = None
        /\ \A u \in Teams : passed[u] = leader[u] => succession'[u] = succession[u]
        /\ passed[t] = None => crownedAway' = Crowned(t, p, p \notin connected)
        /\ \A u \in Teams : (u \notin crownedAway' /\ u \in crownedAway) =>
             (u = t /\ passed[t] = None) \/ passed[u] # leader[u]
  <2>1. CASE team[p] # None /\ Leads(team[p], p)
    <3>1. q = None \/ (q \in roster /\ team[q] = team[p] /\ q \in connected /\ q # p /\ q \in Player)
      BY <1>2, <2>1, SuccessorIsThere
    <3>2. q # p
      BY <1>3, <3>1
    <3>3. PICK passed : passed = [leader EXCEPT ![team[p]] = q]
      OBVIOUS
    <3>4. /\ leader' = IF passed[t] = None THEN [passed EXCEPT ![t] = p] ELSE passed
          /\ succession' = [succession EXCEPT ![team[p]] = None]
          /\ crownedAway' = IF passed[t] = None THEN Crowned(t, p, p \notin connected)
                            ELSE crownedAway \ {team[p]}
      BY <1>2, <3>2, <3>3
    <3>5. /\ team[p] \in Teams /\ leader[team[p]] = p
          /\ passed \in [Teams -> Player \cup {None}] /\ passed[team[p]] = q
          /\ succession'[team[p]] = None
          /\ \A u \in Teams \ {team[p]} : passed[u] = leader[u]
          /\ \A u \in Team \ {team[p]} : succession'[u] = succession[u]
      BY <1>1, <2>1, <3>1, <3>3, <3>4 DEF Leads, TypeOK
    <3>6. \A u \in Teams \ {team[p]} : leader[u] # p
      BY <1>3, <1>4
    <3>7. \A u \in Teams : passed[u] # None =>
             passed[u] \in roster \ {p} /\ team[passed[u]] = u
      BY <1>4, <3>1, <3>5, <3>6
    <3>8. /\ \A u \in Teams : succession'[u] # None => passed[u] = succession'[u]
          /\ \A u \in Team \ Teams : succession'[u] = None
      BY <1>1, <3>5 DEF LeadInv, SuccessionNamesTheLeader
    <3>9. /\ \A u \in Teams : (passed[u] # None /\ passed[u] # leader[u]) =>
               passed[u] \in connected /\ succession'[u] = None
          /\ \A u \in Teams : passed[u] = leader[u] => succession'[u] = succession[u]
      BY <1>1, <3>1, <3>2, <3>5
    <3>10. \A u \in Teams : (u \notin crownedAway' /\ u \in crownedAway) =>
             (u = t /\ passed[t] = None) \/ passed[u] # leader[u]
      BY <3>2, <3>4, <3>5 DEF Crowned
    <3> QED
      BY <3>2, <3>4, <3>5, <3>7, <3>8, <3>9, <3>10
  <2>2. CASE ~(team[p] # None /\ Leads(team[p], p))
    <3>1. q = p
      BY <1>2, <2>2
    <3>2. /\ leader' = IF leader[t] = None THEN [leader EXCEPT ![t] = p] ELSE leader
          /\ succession' = succession
          /\ crownedAway' = IF leader[t] = None THEN Crowned(t, p, p \notin connected)
                            ELSE crownedAway
      BY <1>2, <3>1
    <3>3. \A u \in Teams : leader[u] # p
      <4> SUFFICES ASSUME NEW u \in Teams, leader[u] = p PROVE FALSE
        OBVIOUS
      <4>1. team[p] = u /\ u # None
        BY <1>1, <1>3, <1>4, Names
      <4> QED
        BY <2>2, <4>1 DEF Leads
    <3>4. leader \in [Teams -> Player \cup {None}]
      BY DEF TypeOK
    <3>5. /\ \A u \in Teams : succession[u] # None => leader[u] = succession[u]
          /\ \A u \in Team \ Teams : succession[u] = None
      BY <1>1 DEF LeadInv, SuccessionNamesTheLeader
    <3>6. \A u \in Teams : (u \notin crownedAway' /\ u \in crownedAway) =>
             u = t /\ leader[t] = None
      BY <3>2 DEF Crowned
    <3> QED
      BY <1>4, <3>2, <3>3, <3>4, <3>5, <3>6
  <2> QED
    BY <2>1, <2>2
<1>7. DOMAIN leader' = Teams /\ \A u \in Teams : leader'[u] = IF u = t /\ passed[t] = None THEN p
                                                              ELSE passed[u]
  BY <1>1, <1>6
<1>8. LeaderIsMember'
  <2>1. \A u \in Teams : leader'[u] # None => leader'[u] \in roster /\ team'[leader'[u]] = u
    BY <1>1, <1>3, <1>6, <1>7
  <2>2. \A r \in roster : team'[r] # None => team'[r] \in Teams
    BY <1>1, <1>3 DEF LeadInv, LeaderIsMember
  <2> QED
    BY <1>1, <1>7, <2>1, <2>2 DEF LeaderIsMember
<1>9. SuccessionNamesTheLeader'
  BY <1>1, <1>6, <1>7 DEF SuccessionNamesTheLeader
<1>10. AbsentLeaderIsTimed'
  <2> SUFFICES ASSUME NEW u \in Teams, leader'[u] # None, u \notin crownedAway'
               PROVE  leader'[u] \in connected <=> succession'[u] = None
    BY <1>1, <1>7 DEF AbsentLeaderIsTimed
  <2>1. CASE u = t /\ passed[t] = None
    <3>1. p \in connected
      BY <1>1, <1>6, <2>1 DEF Crowned
    <3> QED
      BY <1>6, <1>7, <2>1, <3>1
  <2>2. CASE ~(u = t /\ passed[t] = None)
    <3>1. leader'[u] = passed[u]
      BY <1>7, <2>2
    <3>2. CASE passed[u] # leader[u]
      BY <1>6, <3>1, <3>2
    <3>3. CASE passed[u] = leader[u]
      <4>1. u \notin crownedAway
        BY <1>6, <2>2, <3>3
      <4> QED
        BY <1>6, <3>1, <3>3, <4>1 DEF LeadInv, AbsentLeaderIsTimed
    <3> QED
      BY <3>2, <3>3
  <2> QED
    BY <2>1, <2>2
<1> QED
  BY <1>5, <1>8, <1>9, <1>10 DEF LeadInv

\* The grace over, the crown passes on or stays with a leader who is back.
LEMMA SuccessionLeads ==
  ASSUME TypeOK, LeadInv, NEW t \in Team, SuccessionDue(t)
  PROVE  LeadInv'
<1> USE DEF Teams, Members
<1>1. /\ succession[t] # None /\ succession' = [succession EXCEPT ![t] = None]
      /\ UNCHANGED <<roster, team, connected, sockets>>
  BY DEF SuccessionDue, seats
<1>2. t \in Teams /\ leader[t] = succession[t] /\ Teams \subseteq Team
  BY <1>1 DEF LeadInv, SuccessionNamesTheLeader, TypeOK
<1>3. succession'[t] = None /\ \A u \in Team \ {t} : succession'[u] = succession[u]
  BY <1>1 DEF TypeOK
<1>4. ConnectedIsAttached'
  BY <1>1 DEF LeadInv, ConnectedIsAttached
<1>5. CASE leader[t] \notin connected
  <2>1. PICK q \in Successors(t, leader[t]) :
          leader' = [leader EXCEPT ![t] = q] /\ crownedAway' = crownedAway \ {t}
    BY <1>2, <1>5 DEF SuccessionDue, Leads
  <2>2. q = None \/ (q \in roster /\ team[q] = t /\ q \in connected)
    BY SuccessorIsThere
  <2>3. DOMAIN leader' = Teams /\ leader'[t] = q /\ \A u \in Teams \ {t} : leader'[u] = leader[u]
    BY <1>2, <2>1 DEF TypeOK
  <2>4. LeaderIsMember'
    BY <1>1, <2>2, <2>3 DEF LeadInv, LeaderIsMember
  <2>5. SuccessionNamesTheLeader'
    BY <1>3, <2>3 DEF LeadInv, SuccessionNamesTheLeader
  <2>6. AbsentLeaderIsTimed'
    BY <1>1, <1>2, <1>3, <2>1, <2>2, <2>3 DEF LeadInv, AbsentLeaderIsTimed
  <2> QED
    BY <1>4, <2>4, <2>5, <2>6 DEF LeadInv
<1>6. CASE leader[t] \in connected
  <2>1. leader' = leader /\ crownedAway' = crownedAway
    BY <1>2, <1>6 DEF SuccessionDue, Leads
  <2>2. LeaderIsMember'
    BY <1>1, <2>1 DEF LeadInv, LeaderIsMember
  <2>3. SuccessionNamesTheLeader'
    BY <1>3, <2>1 DEF LeadInv, SuccessionNamesTheLeader
  <2>4. AbsentLeaderIsTimed'
    BY <1>1, <1>2, <1>3, <1>6, <2>1 DEF LeadInv, AbsentLeaderIsTimed
  <2> QED
    BY <1>4, <2>2, <2>3, <2>4 DEF LeadInv
<1> QED
  BY <1>5, <1>6

\* A straggler leads the team of one that the start makes of it.
LEMMA StartLeads ==
  ASSUME TypeOK, LeadInv, StartGame
  PROVE  LeadInv'
<1> USE DEF Teams, Members
<1>1. PICK home \in Naming(Stragglers, Fresh) :
        /\ team' = [p \in Player |-> IF p \in Stragglers THEN home[p] ELSE team[p]]
        /\ leader' = [t \in Teams \cup {home[p] : p \in Stragglers} |->
                        IF t \in Teams THEN leader[t]
                        ELSE CHOOSE p \in Stragglers : home[p] = t]
        /\ crownedAway' = crownedAway \cup {home[p] : p \in Stragglers \ connected}
        /\ UNCHANGED <<roster, connected, sockets, succession>>
  BY Zenon DEF StartGame
<1>2. /\ Stragglers \subseteq {p \in roster : team[p] = None} /\ roster \subseteq Player
      /\ Teams \subseteq Team /\ home \in [Stragglers -> Fresh]
      /\ \A p, q \in Stragglers : home[p] = home[q] => p = q
  BY StragglersAreTeamless, BoundsAssumption DEF TypeOK, Player, Naming
<1>3. /\ \A p \in roster \ Stragglers : team'[p] = team[p]
      /\ \A p \in Stragglers : team'[p] = home[p] /\ home[p] \in Fresh
  BY <1>1, <1>2
<1>4. \A t \in Teams : leader[t] # None => leader[t] \in roster \ Stragglers /\ team[leader[t]] = t
  <2>1. \A t \in Teams : t # None
    BY <1>2, Names
  <2> QED
    BY <1>2, <2>1 DEF LeadInv, LeaderIsMember
<1>5. /\ DOMAIN leader' = Teams \cup {home[p] : p \in Stragglers}
      /\ \A t \in Teams : leader'[t] = leader[t]
  BY <1>1
<1>6. \A t \in {home[p] : p \in Stragglers} :
        t \in Fresh /\ leader'[t] \in Stragglers /\ home[leader'[t]] = t
  <2> SUFFICES ASSUME NEW t \in {home[p] : p \in Stragglers}
               PROVE  t \in Fresh /\ leader'[t] \in Stragglers /\ home[leader'[t]] = t
    OBVIOUS
  <2>1. t \in Fresh
    BY <1>2
  <2>2. leader'[t] = CHOOSE p \in Stragglers : home[p] = t
    BY <1>1, <2>1 DEF Fresh
  <2> QED
    BY <2>1, <2>2, SoloTeams
<1>7. ConnectedIsAttached'
  BY <1>1 DEF LeadInv, ConnectedIsAttached
<1>8. LeaderIsMember'
  <2>1. \A t \in DOMAIN leader' : leader'[t] # None => leader'[t] \in roster /\ team'[leader'[t]] = t
    BY <1>2, <1>3, <1>4, <1>5, <1>6
  <2>2. \A p \in roster : team'[p] # None => team'[p] \in DOMAIN leader'
    BY <1>3, <1>5 DEF LeadInv, LeaderIsMember
  <2>3. roster' = roster
    BY <1>1
  <2>4. \A t \in DOMAIN leader' : leader'[t] # None => leader'[t] \in {p \in roster' : team'[p] = t}
    BY <2>1, <2>3
  <2> QED
    BY <2>2, <2>3, <2>4, Zenon DEF LeaderIsMember
<1>9. SuccessionNamesTheLeader'
  BY <1>1, <1>5 DEF LeadInv, SuccessionNamesTheLeader
<1>10. AbsentLeaderIsTimed'
  <2> SUFFICES ASSUME NEW t \in DOMAIN leader', leader'[t] # None, t \notin crownedAway'
               PROVE  leader'[t] \in connected <=> succession[t] = None
    BY <1>1 DEF AbsentLeaderIsTimed
  <2>1. CASE t \in Teams
    BY <1>1, <1>5, <2>1 DEF LeadInv, AbsentLeaderIsTimed
  <2>2. CASE t \in {home[p] : p \in Stragglers}
    <3>1. succession[t] = None
      BY <1>6, <2>2 DEF LeadInv, SuccessionNamesTheLeader, Fresh
    <3>2. leader'[t] \in connected
      <4>1. leader'[t] \in Stragglers /\ home[leader'[t]] = t
        BY <1>6, <2>2
      <4>2. t \notin {home[p] : p \in Stragglers \ connected}
        BY <1>1
      <4> QED
        BY <4>1, <4>2, Zenon
    <3> QED
      BY <3>1, <3>2
  <2> QED
    BY <1>5, <2>1, <2>2
<1> QED
  BY <1>7, <1>8, <1>9, <1>10 DEF LeadInv

\* Every action of the room keeps its leaders right.
LEMMA LeadStep ==
  ASSUME TypeOK, LeadInv, [Next]_vars
  PROVE  LeadInv'
<1>1. ASSUME NEW p \in Player, JoinAlone(p) PROVE LeadInv'
  BY <1>1, JoinLeads, Zenon DEF JoinAlone
<1>2. ASSUME NEW p \in Player, NEW t \in Team, JoinTeam(p, t) PROVE LeadInv'
  BY <1>2, JoinLeads, Zenon DEF JoinTeam
<1>3. ASSUME NEW p \in Player, NEW t \in Team, JoinFounding(p, t) \/ JoinAsSoloTeam(p, t)
      PROVE  LeadInv'
  BY <1>3, JoinLeads DEF JoinFounding, JoinAsSoloTeam, Founds
<1>4. ASSUME NEW p \in Player, RemovePlayer(p) PROVE LeadInv'
  BY <1>4, DetachLeads, Zenon DEF RemovePlayer, Detach
<1>5. ASSUME NEW p \in Player, TeamKick(p) PROVE LeadInv'
  BY <1>5, DetachLeads, Zenon DEF TeamKick
<1>6. CASE EndGame \/ Undo \/ CloseRoom \/ UNCHANGED vars \/ \E p \in Player : PlayerLeaves(p)
  <2>1. UNCHANGED <<roster, team, connected, sockets, leader, succession, crownedAway>>
    BY <1>6 DEF EndGame, Undo, CloseRoom, PlayerLeaves, vars, seats, crowns
  <2> QED
    BY <2>1 DEF LeadInv, LeaderIsMember, SuccessionNamesTheLeader, AbsentLeaderIsTimed,
                ConnectedIsAttached, Teams, Members
<1> QED
  BY <1>1, <1>2, <1>3, <1>4, <1>5, <1>6, ResumeLeads, CloseLeads, HandoffLeads, CreateLeads,
     MoveLeads, SuccessionLeads, StartLeads DEF Next

-----------------------------------------------------------------------------
(* Engine and roster agree on the seats. *)

\* An engine state fits a roster: nobody sits in it for a team not their own, nobody who has
\* yet to join sits, nobody sits alone where teams are required, and while open nobody sits.
Fits(e, members, homes, count, open) ==
  /\ \A p \in members : e.seat[p] \in {None, Seat(homes[p])}
  /\ \A p \in Player : e.seat[p] # None => p <= count
  /\ mode = "teams" => \A p \in Player : e.seat[p] # Solo
  /\ open => e.phase = "lobby" /\ \A p \in Player : e.seat[p] = None

\* Undo brings back what is in the log, so the log fits too.
Kept == {engine} \cup {log[i] : i \in DOMAIN log}
SeatInv == \A e \in Kept : Fits(e, roster, team, minted, lifecycle = "lobby")

\* What can be the engine later is what it is, what it was, or what was added to the log.
LEMMA KeptStep ==
  ASSUME TypeOK, NEW before \in Seq(Engine), Logs(before), NEW e \in Kept'
  PROVE  e = engine' \/ e \in Kept \/ \E j \in DOMAIN before : e = before[j]
<1>1. CASE e = engine'
  BY <1>1
<1>2. CASE e # engine'
  <2>1. PICK i \in DOMAIN log' : e = log'[i]
    BY <1>2 DEF Kept
  <2>2. \/ \E j \in DOMAIN log : log'[i] = log[j]
        \/ \E j \in DOMAIN before : log'[i] = before[j]
    BY LogsKeeps
  <2> QED
    BY <2>1, <2>2 DEF Kept
<1> QED
  BY <1>1, <1>2

\* The same with the engine's own state added, as every engine action adds it.
LEMMA BecomesKeeps ==
  ASSUME TypeOK, NEW e0, Becomes(e0), NEW e \in Kept'
  PROVE  e = e0 \/ e \in Kept
<1>1. <<engine>> \in Seq(Engine) /\ DOMAIN <<engine>> = {1} /\ <<engine>>[1] = engine
  BY DEF TypeOK
<1>2. Logs(<<engine>>) /\ engine' = e0
  BY DEF Becomes
<1>3. e = engine' \/ e \in Kept \/ \E j \in DOMAIN <<engine>> : e = <<engine>>[j]
  BY <1>1, <1>2, KeptStep
<1> QED
  BY <1>1, <1>2, <1>3 DEF Kept

\* Whatever is kept is a state of the engine.
LEMMA KeptTyped ==
  ASSUME TypeOK
  PROVE  \A e \in Kept : e \in Engine
<1>1. \A i \in DOMAIN log : log[i] \in Engine
  BY ElementOfSeq, LenProperties DEF TypeOK
<1> QED
  BY <1>1 DEF Kept, TypeOK

\* Nobody has a seat before the first join.
LEMMA SeatInit == Init => SeatInv
<1> SUFFICES ASSUME Init PROVE SeatInv
  OBVIOUS
<1>1. Kept = {engine} /\ \A p \in Player : engine.seat[p] = None
  BY DEF Init, Kept
<1>2. None # Solo
  BY NamesAssumption
<1> QED
  BY <1>1, <1>2 DEF Init, SeatInv, Fits

\* A newcomer has a seat nowhere yet, and gets that of its team.
LEMMA JoinFits ==
  ASSUME TypeOK, SeatInv, NEW p \in Player, NEW t \in Team \cup {None},
         Mint(p, t), EngineTakes(p, t), UNCHANGED settings,
         lifecycle = "active" /\ t = None => mode = "mixed"
  PROVE  SeatInv'
<1>1. /\ minted \in Nat /\ p = minted + 1 /\ minted' = p /\ roster' = roster \cup {p}
      /\ team' = [team EXCEPT ![p] = t] /\ mode' = mode
      /\ \A q \in roster : q \in Player /\ q <= minted /\ q # p
      /\ \A q \in Player : q \in Nat
  BY Names, BoundsAssumption DEF Mint, TypeOK, settings, Player
<1>2. team \in [Player -> Team \cup {None}] /\ roster \subseteq Player
  BY <1>1 DEF TypeOK
<1>3. ASSUME NEW e \in Kept
      PROVE  /\ e.seat[p] = None
             /\ \A q \in roster' : e.seat[q] \in {None, Seat(team'[q])}
             /\ \A q \in Player : e.seat[q] # None => q <= minted'
             /\ mode = "teams" => \A q \in Player : e.seat[q] # Solo
             /\ lifecycle = "lobby" => e.phase = "lobby" /\ \A q \in Player : e.seat[q] = None
  <2>1. Fits(e, roster, team, minted, lifecycle = "lobby")
    BY <1>3 DEF SeatInv
  <2>2. e.seat[p] = None
    BY <1>1, <2>1 DEF Fits
  <2>3. \A q \in roster : team'[q] = team[q]
    BY <1>1, <1>2
  <2> QED
    BY <1>1, <2>1, <2>2, <2>3 DEF Fits
<1>4. CASE lifecycle = "active"
  <2>1. Becomes([engine EXCEPT !.seat[p] = Seat(t)]) /\ lifecycle' = lifecycle
    BY <1>4 DEF EngineTakes
  <2>2. ASSUME NEW e \in Kept' PROVE e = [engine EXCEPT !.seat[p] = Seat(t)] \/ e \in Kept
    BY <2>1, <2>2, BecomesKeeps
  <2>3. engine \in Kept /\ engine \in Engine
    BY DEF Kept, TypeOK
  <2>4. ASSUME NEW e, e = [engine EXCEPT !.seat[p] = Seat(t)]
        PROVE  Fits(e, roster, team, minted, lifecycle = "lobby")'
    <3>1. e.seat = [engine.seat EXCEPT ![p] = Seat(t)]
      BY <2>3, <2>4 DEF Engine
    <3>2. e.seat[p] = Seat(t) /\ \A q \in Player \ {p} : e.seat[q] = engine.seat[q]
      BY <2>3, <3>1 DEF Engine
    <3>3. mode = "teams" => Seat(t) # Solo
      BY <1>4, Names
    <3>4. team'[p] = t
      BY <1>1, <1>2
    <3>5. \A q \in roster' : e.seat[q] \in {None, Seat(team'[q])}
      BY <1>1, <1>2, <1>3, <2>3, <3>2, <3>4
    <3>6. \A q \in Player : e.seat[q] # None => q <= minted'
      BY <1>1, <1>3, <2>3, <3>2
    <3>7. mode = "teams" => \A q \in Player : e.seat[q] # Solo
      BY <1>3, <2>3, <3>2, <3>3
    <3> QED
      BY <1>1, <1>4, <2>1, <3>5, <3>6, <3>7 DEF Fits
  <2>5. ASSUME NEW e \in Kept PROVE Fits(e, roster, team, minted, lifecycle = "lobby")'
    BY <1>1, <1>3, <1>4, <2>1, <2>5 DEF Fits
  <2> QED
    BY <2>2, <2>4, <2>5 DEF SeatInv
<1>5. CASE lifecycle # "active"
  <2>1. Kept' = Kept /\ lifecycle' = lifecycle
    BY <1>5 DEF EngineTakes, game, Kept
  <2>2. ASSUME NEW e \in Kept PROVE Fits(e, roster, team, minted, lifecycle = "lobby")'
    BY <1>1, <1>3, <2>1, <2>2 DEF Fits
  <2> QED
    BY <2>1, <2>2 DEF SeatInv
<1> QED
  BY <1>4, <1>5


\* The start seats everybody for the team they are in by then, and nobody sits in the room's
\* lobby afterwards unless the game started.
LEMMA StartFits ==
  ASSUME TypeOK, SeatInv, StartGame
  PROVE  SeatInv'
<1>1. PICK home \in Naming(Stragglers, Fresh) :
        LET homes == [p \in Player |-> IF p \in Stragglers THEN home[p] ELSE team[p]]
            count == Cardinality(Seated(homes))
            full == SeatedTo(count, homes)
            starts == engine.phase = "lobby" /\ \E p \in Player : full.seat[p] # None
        IN /\ team' = homes
           /\ engine' = IF starts THEN [full EXCEPT !.phase = "playing"] ELSE full
           /\ Logs([i \in 1 .. (IF starts THEN count + 1 ELSE count) |-> SeatedTo(i - 1, homes)])
           /\ lifecycle' = IF starts THEN "active" ELSE lifecycle
           /\ UNCHANGED <<mode, minted, roster>>
  BY Zenon DEF StartGame, settings
<1> DEFINE homes == [p \in Player |-> IF p \in Stragglers THEN home[p] ELSE team[p]]
           count == Cardinality(Seated(homes))
           full == SeatedTo(count, homes)
           starts == engine.phase = "lobby" /\ \E p \in Player : full.seat[p] # None
           last == IF starts THEN count + 1 ELSE count
           before == [i \in 1 .. last |-> SeatedTo(i - 1, homes)]
<1>2. /\ Stragglers \subseteq {p \in roster : team[p] = None}
      /\ Stragglers # {} => mode = "teams"
      /\ roster \subseteq Player /\ \A p \in roster : p <= minted
      /\ home \in [Stragglers -> Team]
  <2>1. Stragglers # {} => mode = "teams"
    BY DEF Stragglers
  <2>2. roster \subseteq Player /\ \A p \in roster : p <= minted
    BY BoundsAssumption DEF TypeOK, Player
  <2>3. home \in [Stragglers -> Team]
    BY DEF Naming, Fresh
  <2> QED
    BY <2>1, <2>2, <2>3, StragglersAreTeamless
<1>3. /\ homes \in [Player -> Team \cup {None}]
      /\ \A p \in roster \ Stragglers : homes[p] = team[p]
  BY <1>2 DEF TypeOK
<1>4. count \in Nat /\ last \in Nat
  BY SeatedCounted
<1>5. engine \in Kept /\ engine \in Engine
  BY DEF Kept, TypeOK
<1> HIDE DEF homes
\* Nobody kept in the log sits where the move of a straggler would make it wrong.
<1>6. ASSUME NEW e \in Kept
      PROVE  /\ \A p \in roster : e.seat[p] \in {None, Seat(homes[p])}
             /\ \A p \in Player : e.seat[p] # None => p <= minted
             /\ mode = "teams" => \A p \in Player : e.seat[p] # Solo
             /\ lifecycle = "lobby" => e.phase = "lobby" /\ \A p \in Player : e.seat[p] = None
  <2>1. Fits(e, roster, team, minted, lifecycle = "lobby")
    BY <1>6 DEF SeatInv
  <2>2. ASSUME NEW p \in Stragglers PROVE e.seat[p] = None
    <3>1. p \in roster /\ p \in Player /\ team[p] = None /\ mode = "teams"
      BY <1>2
    <3>2. Seat(team[p]) = Solo
      BY <3>1, Names
    <3> QED
      BY <2>1, <3>1, <3>2 DEF Fits
  <2>3. \A p \in roster \ Stragglers : e.seat[p] \in {None, Seat(homes[p])}
    BY <1>3, <2>1 DEF Fits
  <2> QED
    BY <2>1, <2>2, <2>3 DEF Fits
<1>7. ASSUME NEW n
      PROVE  LET e == SeatedTo(n, homes)
             IN  /\ e.phase = engine.phase
                 /\ \A p \in roster : e.seat[p] \in {None, Seat(homes[p])}
                 /\ \A p \in Player : e.seat[p] # None => p <= minted
                 /\ mode = "teams" => \A p \in Player : e.seat[p] # Solo
                 /\ \A p \in Player \ Seated(homes) : e.seat[p] = engine.seat[p]
  <2> DEFINE e == SeatedTo(n, homes)
  <2>1. /\ e.phase = engine.phase
        /\ \A p \in Player : e.seat[p] = IF p \in Seated(homes) /\ Cardinality({q \in Seated(homes) : q < p}) < n
                                           THEN Seat(homes[p]) ELSE engine.seat[p]
    BY <1>5 DEF SeatedTo, Engine
  <2>2. \A p \in Seated(homes) : p \in roster /\ (mode = "teams" => homes[p] # None)
    BY DEF Seated
  <2>3. ASSUME NEW p \in Seated(homes), mode = "teams" PROVE Seat(homes[p]) # Solo
    <3>1. homes[p] \in Team
      BY <1>2, <1>3, <2>2, <2>3
    <3> QED
      BY <3>1, Names
  <2> HIDE DEF e
  <2>4. \A p \in roster : e.seat[p] \in {None, Seat(homes[p])}
    BY <1>2, <1>5, <1>6, <2>1
  <2>5. \A p \in Player : e.seat[p] # None => p <= minted
    BY <1>2, <1>5, <1>6, <2>1, <2>2
  <2>6. mode = "teams" => \A p \in Player : e.seat[p] # Solo
    BY <1>5, <1>6, <2>1, <2>3
  <2> QED
    BY <2>1, <2>4, <2>5, <2>6 DEF e
\* A room that stays in its lobby had nobody to seat.
<1>8. ASSUME lifecycle = "lobby", ~starts PROVE Seated(homes) = {}
  <2>1. engine.phase = "lobby" /\ \A p \in Player : full.seat[p] = None
    BY <1>5, <1>6, <1>8
  <2>2. ASSUME NEW p \in Seated(homes) PROVE FALSE
    <3> DEFINE S == Seated(homes)
               earlier == {q \in S : q < p}
    <3>1. IsFiniteSet(S)
      <4>1. S \subseteq roster /\ roster \subseteq 1 .. minted /\ minted \in 0 .. MintBound
        BY DEF Seated, TypeOK
      <4>2. IsFiniteSet(1 .. minted)
        BY <4>1, BoundsAssumption, FS_Interval
      <4> QED
        BY <4>1, <4>2, FS_Subset
    <3>2. p \in roster /\ p \in Player /\ p \in Nat
      BY <1>2, Names DEF Seated
    <3>3. IsFiniteSet(S \ {p}) /\ Cardinality(S \ {p}) = Cardinality(S) - 1
      BY <3>1, FS_RemoveElement
    <3>4. earlier \subseteq S \ {p}
      BY <3>2
    <3>5. Cardinality(earlier) <= Cardinality(S \ {p}) /\ Cardinality(earlier) \in Nat
      BY <3>3, <3>4, FS_Subset, FS_CardinalityType
    <3>6. Cardinality(earlier) < count
      BY <1>4, <3>3, <3>5
    <3>7. full.seat[p] = Seat(homes[p])
      BY <1>5, <3>2, <3>6 DEF SeatedTo, Engine
    <3>8. Seat(homes[p]) # None
      BY <1>3, <3>2, Names
    <3> QED
      BY <2>1, <3>2, <3>7, <3>8
  <2> QED
    BY <2>2
<1>9. /\ team' = homes /\ UNCHANGED <<mode, minted, roster>>
      /\ engine' = IF starts THEN [full EXCEPT !.phase = "playing"] ELSE full
      /\ Logs(before)
      /\ lifecycle' = IF starts THEN "active" ELSE lifecycle
  BY <1>1 DEF homes
<1>10. before \in Seq(Engine) /\ DOMAIN before = 1 .. last
  <2>1. \A i \in 1 .. last : SeatedTo(i - 1, homes) \in Engine
    BY <1>3, SeatedToTyped
  <2> HIDE DEF last
  <2> QED
    BY <1>4, <2>1
<1>11. lifecycle' = "lobby" => lifecycle = "lobby" /\ ~starts
  BY <1>9
<1> HIDE DEF starts, last, full, count
<1>12. ASSUME NEW e \in Kept PROVE Fits(e, roster, team, minted, lifecycle = "lobby")'
  BY <1>6, <1>9, <1>11, <1>12 DEF Fits
<1>13. ASSUME NEW n PROVE Fits(SeatedTo(n, homes), roster, homes, minted, lifecycle' = "lobby")
  <2>1. lifecycle' = "lobby" => \A p \in Player : SeatedTo(n, homes).seat[p] = None
    <3>1. lifecycle' = "lobby" => \A p \in Player : p \notin Seated(homes) /\ engine.seat[p] = None
      BY <1>5, <1>6, <1>8, <1>11
    <3> QED
      BY <1>7, <3>1
  <2>2. lifecycle' = "lobby" => SeatedTo(n, homes).phase = "lobby"
    BY <1>5, <1>6, <1>7, <1>11
  <2> QED
    BY <1>7, <2>1, <2>2 DEF Fits
<1>14. ASSUME NEW e, NEW n, e = SeatedTo(n, homes)
       PROVE  Fits(e, roster, team, minted, lifecycle = "lobby")'
  BY <1>9, <1>13, <1>14 DEF Fits
<1>15. ASSUME NEW e, e = engine' PROVE Fits(e, roster, team, minted, lifecycle = "lobby")'
  <2>1. CASE starts
    <3>1. Fits(full, roster, homes, minted, lifecycle' = "lobby")
      BY <1>13 DEF full
    <3>2. e.seat = full.seat /\ lifecycle' # "lobby"
      <4>1. full \in Engine
        BY <1>3, SeatedToTyped DEF full
      <4> QED
        BY <1>9, <1>15, <2>1, <4>1 DEF Engine
    <3> QED
      BY <1>9, <3>1, <3>2 DEF Fits
  <2>2. CASE ~starts
    BY <1>9, <1>14, <1>15, <2>2 DEF full
  <2> QED
    BY <2>1, <2>2
<1>16. ASSUME NEW e \in Kept' PROVE Fits(e, roster, team, minted, lifecycle = "lobby")'
  <2>1. e = engine' \/ e \in Kept \/ \E j \in DOMAIN before : e = before[j]
    BY <1>9, <1>10, <1>16, KeptStep
  <2>2. \A j \in DOMAIN before : before[j] = SeatedTo(j - 1, homes)
    BY <1>10
  <2> HIDE DEF before
  <2> QED
    BY <1>12, <1>14, <1>15, <2>1, <2>2
<1> QED
  BY <1>16 DEF SeatInv

\* A state that fits goes on fitting while fewer are in the roster, and while teams change only
\* in the room's lobby.
LEMMA KeptFits ==
  ASSUME TypeOK, SeatInv, NEW e \in Kept, UNCHANGED <<mode, minted>>, roster' \subseteq roster,
         lifecycle = "lobby" \/ \A p \in roster' : team'[p] = team[p],
         lifecycle' = "lobby" => lifecycle = "lobby"
  PROVE  Fits(e, roster, team, minted, lifecycle = "lobby")'
<1>1. Fits(e, roster, team, minted, lifecycle = "lobby")
  BY DEF SeatInv
<1>2. roster' \subseteq Player
  BY BoundsAssumption DEF TypeOK, Player
<1>3. \A p \in roster' : e.seat[p] \in {None, Seat(team'[p])}
  <2>1. CASE lifecycle = "lobby"
    BY <1>1, <1>2, <2>1 DEF Fits
  <2>2. CASE lifecycle # "lobby"
    BY <1>1, <2>2 DEF Fits
  <2> QED
    BY <2>1, <2>2
<1> QED
  BY <1>1, <1>3 DEF Fits

\* Every action keeps engine and roster in agreement.
LEMMA SeatStep ==
  ASSUME TypeOK, SeatInv, [Next]_vars
  PROVE  SeatInv'
<1>1. ASSUME NEW p \in Player, JoinAlone(p) PROVE SeatInv'
  BY <1>1, JoinFits DEF JoinAlone
<1>2. ASSUME NEW p \in Player, NEW t \in Team,
             JoinTeam(p, t) \/ JoinFounding(p, t) \/ JoinAsSoloTeam(p, t)
      PROVE  SeatInv'
  <2>1. t # None
    BY Names
  <2> QED
    BY <1>2, <2>1, JoinFits DEF JoinTeam, JoinFounding, JoinAsSoloTeam
<1>3. ASSUME NEW p \in Player, PlayerLeaves(p) \/ RemovePlayer(p) PROVE SeatInv'
  <2>1. ASSUME NEW e \in Kept' PROVE e \in Kept
    <3>1. CASE PlayerLeaves(p)
      <4>1. Becomes(engine) /\ engine \in Kept
        BY <3>1 DEF PlayerLeaves, Kept
      <4> QED
        BY <2>1, <4>1, BecomesKeeps
    <3>2. CASE RemovePlayer(p)
      BY <2>1, <3>2 DEF RemovePlayer, Kept, game
    <3> QED
      BY <1>3, <3>1, <3>2
  <2>2. /\ UNCHANGED <<mode, minted, lifecycle>> /\ roster' \subseteq roster
        /\ \A q \in roster' : team'[q] = team[q]
    <3>1. CASE PlayerLeaves(p)
      BY <3>1 DEF PlayerLeaves, settings, seats
    <3>2. CASE RemovePlayer(p)
      BY <3>2, BoundsAssumption DEF RemovePlayer, settings, game, TypeOK, Player
    <3> QED
      BY <1>3, <3>1, <3>2
  <2> QED
    BY <2>1, <2>2, KeptFits DEF SeatInv
<1>4. CASE EndGame
  <2>1. Becomes([engine EXCEPT !.phase = "over"]) /\ UNCHANGED <<mode, minted, roster, team>>
        /\ lifecycle' = "ended"
    BY <1>4 DEF EndGame, settings, seats
  <2>2. engine \in Kept /\ engine \in Engine
    BY DEF Kept, TypeOK
  <2>3. ASSUME NEW e \in Kept PROVE Fits(e, roster, team, minted, lifecycle = "lobby")'
    BY <2>1, <2>3, KeptFits
  <2>4. ASSUME NEW e \in Kept' PROVE e = [engine EXCEPT !.phase = "over"] \/ e \in Kept
    BY <2>1, <2>4, BecomesKeeps
  <2>5. Fits(engine, roster, team, minted, lifecycle = "lobby")
    BY <2>2 DEF SeatInv
  <2>6. ASSUME NEW e, e = [engine EXCEPT !.phase = "over"]
        PROVE  Fits(e, roster, team, minted, lifecycle = "lobby")'
    <3>1. e.seat = engine.seat
      BY <2>2, <2>6 DEF Engine
    <3> QED
      BY <2>1, <2>5, <3>1 DEF Fits
  <2> QED
    BY <2>3, <2>4, <2>6 DEF SeatInv
<1>5. CASE Undo
  <2>1. Len(log) \in Nat \ {0} /\ DOMAIN log = 1 .. Len(log)
    BY <1>5, EmptySeq, LenProperties DEF Undo, TypeOK
  <2>2. engine' \in Kept
    BY <1>5, <2>1 DEF Undo, Kept
  <2>3. \A i \in DOMAIN log' : log'[i] \in Kept
    <3>1. 1 \in Int /\ Len(log) - 1 \in Int /\ \A i \in 1 .. Len(log) - 1 : log[i] \in Engine
      BY <2>1, ElementOfSeq DEF TypeOK
    <3>2. /\ log' \in Seq(Engine) /\ Len(log') = Len(log) - 1
          /\ \A i \in 1 .. Len(log) - 1 : log'[i] = log[i]
      BY <1>5, <2>1, <3>1, SubSeqProperties DEF Undo
    <3>3. DOMAIN log' = 1 .. Len(log) - 1
      BY <3>2, LenProperties
    <3> QED
      BY <2>1, <3>2, <3>3 DEF Kept
  <2>4. \A e \in Kept' : e \in Kept
    BY <2>2, <2>3 DEF Kept
  <2>5. UNCHANGED <<mode, minted, roster, team, lifecycle>>
    BY <1>5 DEF Undo, settings, seats
  <2> QED
    BY <2>4, <2>5, KeptFits DEF SeatInv
<1>6. CASE (\E p \in Player : Resume(p) \/ CloseOne(p) \/ CloseLast(p) \/ TeamHandoff(p))
           \/ (\E t \in Team : SuccessionDue(t)) \/ CloseRoom \/ UNCHANGED vars
  <2>1. /\ UNCHANGED <<mode, minted, roster, team, engine, log>>
        /\ lifecycle' = "lobby" => lifecycle = "lobby"
    BY <1>6 DEF Resume, CloseOne, CloseLast, TeamHandoff, SuccessionDue, CloseRoom, vars,
                settings, seats, game
  <2> QED
    BY <2>1, KeptFits DEF SeatInv, Kept
<1>7. CASE \/ \E p \in Player : TeamKick(p)
           \/ \E p \in Player, t \in Team : TeamCreate(p, t) \/ TeamJoin(p, t)
  <2>1. UNCHANGED <<mode, minted, roster, engine, log, lifecycle>> /\ lifecycle = "lobby"
    BY <1>7 DEF TeamKick, TeamCreate, TeamJoin, settings, game
  <2> QED
    BY <2>1, KeptFits DEF SeatInv, Kept
<1> QED
  BY <1>1, <1>2, <1>3, <1>4, <1>5, <1>6, <1>7, StartFits DEF Next

\* What is kept fits, so the engine does.
LEMMA SeatInvSeats ==
  ASSUME SeatInv
  PROVE  SeatsAgree
BY DEF SeatInv, Fits, Kept, SeatsAgree

-----------------------------------------------------------------------------
(* The theorems. *)

\* Every state of a room's seats is well-typed: nobody is connected who is not in the roster,
\* and no seat is given to a player who never joined (handleJoin, removePlayer).
THEOREM TypeCorrect == Spec => []TypeOK
<1>1. TypeOK /\ [Next]_vars => TypeOK'
  BY TypeStep
<1> QED
  BY <1>1, TypeInit, PTL DEF Spec

\* Who leads, for how long, and who counts as there, all in one invariant.
LEMMA LeadCorrect == Spec => []LeadInv
<1>1. TypeOK /\ LeadInv /\ [Next]_vars => LeadInv'
  BY LeadStep
<1> QED
  BY <1>1, TypeCorrect, LeadInit, PTL DEF Spec

\* Whoever leads a team, and so may administer it (authorizeTeamAdministration), is one of its
\* members and is there, on the clock or crowned in absence; an alarm of a succession never takes
\* the crown from somebody it was not set for.  In rooms of any size.
THEOREM LeadershipAlwaysSound == Spec => []LeadershipIsSound
<1>1. LeadInv => LeadershipIsSound
  BY DEF LeadInv, LeadershipIsSound
<1> QED
  BY <1>1, LeadCorrect, PTL

\* The roster's presence is that of the sockets (onClose, seatHasOtherConnections).
THEOREM ConnectedAreAttached == Spec => []ConnectedIsAttached
<1>1. LeadInv => ConnectedIsAttached
  BY DEF LeadInv
<1> QED
  BY <1>1, LeadCorrect, PTL

\* Engine and roster agree on every seat through joins, repeated starts and undo: a press is
\* never for a team other than the one the engine seats its player in.
THEOREM SeatsAlwaysAgree == Spec => []SeatsAgree
<1>1. TypeOK /\ SeatInv /\ [Next]_vars => SeatInv'
  BY SeatStep
<1>2. SeatInv => SeatsAgree
  BY SeatInvSeats
<1> QED
  BY <1>1, <1>2, TypeCorrect, SeatInit, PTL DEF Spec

=============================================================================
