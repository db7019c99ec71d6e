------------------------------ MODULE RoomSeats -----------------------------
(***************************************************************************)
(* The room's roster, its teams and their leaders, and the seats they have *)
(* in the engine: join, resume, a socket's close, leave and kick, the team *)
(* tier, start-game with its stragglers, undo, and leadership succession   *)
(* (game-room-do.ts).                                                      *)
(*                                                                         *)
(* A player is the number of its seat id: ids are minted in order, so the  *)
(* order of numbers is that of joinedAt.  Every handler stores all that it *)
(* changes here, so memory and storage are one.                            *)
(***************************************************************************)
EXTENDS Integers, FiniteSets, Sequences

CONSTANTS
  MintBound,    \* bound: how many players ever join
  Team,         \* the team ids that can be minted
  TeamCap,      \* limits.team.teamMaxCount
  RosterCap,    \* the smaller of settings.maxPlayers and limits.room.playerHardCap
  SocketBound,  \* bound: sockets of one player at a time
  UndoDepth,    \* bound: how many actions back the log is kept
  None, Solo

Player == 1 .. MintBound

ASSUME BoundsAssumption == /\ MintBound \in Nat /\ TeamCap \in Nat /\ RosterCap \in Nat
                           /\ SocketBound \in Nat \ {0} /\ UndoDepth \in Nat
ASSUME NamesAssumption == /\ None \notin Player \cup Team /\ Solo \notin Team \cup {None}
                          /\ Team \cap Player = {}

VARIABLES
  mode,         \* settings.teams.playerMode: "teams" (required) or "mixed" (offered)
  lateJoin,     \* settings.join.lateJoinAllowed
  minted,       \* meta.playerCounter
  roster,       \* the players with a seat in the room
  team,         \* roster[p].teamId
  connected,    \* roster[p].connected
  sockets,      \* how many connections carry the seat
  leader,       \* teams[t].leaderPlayerId; its domain is the teams that exist
  succession,   \* schedule.successions[t].leaderPlayerId
  lifecycle,    \* meta.lifecycle
  engine,       \* what the engine knows: [phase, seat]
  log,          \* the engine before each of its last actions
  crownedAway   \* history: the teams whose leader was absent when crowned

settings == <<mode, lateJoin>>
seats == <<minted, roster, team, connected, sockets>>
crowns == <<leader, succession, crownedAway>>
game == <<lifecycle, engine, log>>
vars == <<settings, seats, crowns, game>>

Teams == DOMAIN leader
Members(t) == {p \in roster : team[p] = t}

-----------------------------------------------------------------------------
(* Shared steps. *)

Grow(t, p) == [u \in Teams \cup {t} |-> IF u = t THEN p ELSE leader[u]]
Fresh == Team \ Teams

\* pickSuccessor: the longest-tenured connected member, or nobody.
Candidates(t, p) == {q \in Members(t) \ {p} : q \in connected}
Successors(t, p) ==
  IF Candidates(t, p) = {} THEN {None}
  ELSE {q \in Candidates(t, p) : \A r \in Candidates(t, p) : q <= r}

\* The team that p leads, of those it leaves, passes to its successor.
PassesOn(t, p) ==
  \E q \in Successors(t, p) :
    /\ leader' = [leader EXCEPT ![t] = q]
    /\ succession' = [succession EXCEPT ![t] = None]
    /\ crownedAway' = crownedAway \ {t}
Leads(t, p) == t \in Teams /\ leader[t] = p

\* transition: the state before each accepted action goes to the log.
Logs(before) ==
  LET l == log \o before
  IN  log' = SubSeq(l, IF Len(l) > UndoDepth THEN Len(l) - UndoDepth + 1 ELSE 1, Len(l))
Becomes(e) == engine' = e /\ Logs(<<engine>>)
Seat(t) == IF t = None THEN Solo ELSE t

Mint(p, t) ==
  /\ p = minted + 1 /\ p \in Player /\ minted' = p
  /\ Cardinality(roster) < RosterCap
  /\ roster' = roster \cup {p}
  /\ team' = [team EXCEPT ![p] = t]
  /\ connected' = connected \cup {p}
  /\ sockets' = [sockets EXCEPT ![p] = 1]

-----------------------------------------------------------------------------
(* handleJoin: the team intent, then the seat.  In a running game the engine decides first. *)

\* A game that takes no late joiners refuses, unless an undo brought it back to its lobby.
EngineTakes(p, t) ==
  IF lifecycle = "active"
    THEN /\ engine.phase = "lobby" \/ lateJoin
         /\ Becomes([engine EXCEPT !.seat[p] = Seat(t)])
         /\ UNCHANGED lifecycle
    ELSE UNCHANGED game

JoinAlone(p) ==
  /\ lifecycle = "active" => mode = "mixed"
  /\ Mint(p, None) /\ EngineTakes(p, None)
  /\ UNCHANGED <<settings, crowns>>

\* The leader of a leaderless team is not set here.  A lock is left out: the team's leader and
\* the host put it on and take it off at will, so any team may be open.
JoinTeam(p, t) ==
  /\ t \in Teams
  /\ Mint(p, t) /\ EngineTakes(p, t)
  /\ UNCHANGED <<settings, crowns>>

Founds(p, t) ==
  /\ t \in Fresh
  /\ leader' = Grow(t, p)
  /\ UNCHANGED <<succession, crownedAway>>
JoinFounding(p, t) ==
  /\ Cardinality(Teams) < TeamCap
  /\ Founds(p, t) /\ Mint(p, t) /\ EngineTakes(p, t)
  /\ UNCHANGED settings

\* A straggler in a running game becomes a team of one; the cap on teams is not asked.
JoinAsSoloTeam(p, t) ==
  /\ lifecycle = "active" /\ mode = "teams"
  /\ Founds(p, t) /\ Mint(p, t) /\ EngineTakes(p, t)
  /\ UNCHANGED settings

\* handleResume, on a new socket
Resume(p) ==
  /\ p \in roster /\ sockets[p] < SocketBound
  /\ sockets' = [sockets EXCEPT ![p] = @ + 1]
  /\ connected' = connected \cup {p}
  /\ succession' = [t \in Team |-> IF succession[t] = p THEN None ELSE succession[t]]
  /\ UNCHANGED <<settings, minted, roster, team, leader, crownedAway, game>>

\* As CloseOne, but nobody looks for the seat's other sockets.
CloseAny(p) ==
  /\ sockets[p] > 1
  /\ sockets' = [sockets EXCEPT ![p] = @ - 1] /\ connected' = connected \ {p}
  /\ UNCHANGED <<settings, minted, roster, team, crowns, game>>
\* onClose of one of the seat's sockets
CloseOne(p) ==
  /\ sockets[p] > 1
  /\ sockets' = [sockets EXCEPT ![p] = @ - 1]
  /\ UNCHANGED <<settings, minted, roster, team, connected, crowns, game>>
CloseLast(p) ==
  /\ p \in roster /\ sockets[p] = 1
  /\ sockets' = [sockets EXCEPT ![p] = 0]
  /\ connected' = connected \ {p}
  /\ succession' = [t \in Team |-> IF Leads(t, p) THEN p ELSE succession[t]]
  /\ crownedAway' = {t \in crownedAway : leader[t] # p}
  /\ UNCHANGED <<settings, minted, roster, team, leader, game>>

\* removePlayer, for a leave and a kick: the engine is told first, and keeps the seat.  Then the
\* database is awaited, and anything may come in between.
PlayerLeaves(p) ==
  /\ p \in roster /\ engine.seat[p] # None
  /\ Becomes(engine)
  /\ UNCHANGED <<settings, seats, crowns, lifecycle>>
\* The roster and the team are edited after that, or at once when the engine has p as absent
\* (a flag that this model leaves out).
RemovePlayer(p) ==
  /\ p \in roster
  /\ roster' = roster \ {p}
  /\ team' = [team EXCEPT ![p] = None]
  /\ connected' = connected \ {p}
  /\ sockets' = [sockets EXCEPT ![p] = 0]
  /\ IF team[p] # None /\ Leads(team[p], p) THEN PassesOn(team[p], p)
     ELSE UNCHANGED <<leader, succession, crownedAway>>
  /\ UNCHANGED <<settings, minted, game>>

-----------------------------------------------------------------------------
(* The team tier: membership is edited in the lobby only. *)

\* detachFromTeam
Detach(p) ==
  IF team[p] # None /\ Leads(team[p], p) THEN PassesOn(team[p], p)
  ELSE UNCHANGED <<leader, succession, crownedAway>>

\* handleTeamCreate
TeamCreate(p, t) ==
  /\ p \in roster /\ sockets[p] > 0 /\ lifecycle = "lobby"
  /\ t \in Fresh /\ Cardinality(Teams) < TeamCap
  /\ IF team[p] # None /\ Leads(team[p], p)
       THEN \E q \in Successors(team[p], p) :
              /\ leader' = [Grow(t, p) EXCEPT ![team[p]] = q]
              /\ succession' = [succession EXCEPT ![team[p]] = None]
              /\ crownedAway' = crownedAway \ {team[p]}
       ELSE leader' = Grow(t, p) /\ UNCHANGED <<succession, crownedAway>>
  /\ team' = [team EXCEPT ![p] = t]
  /\ UNCHANGED <<settings, minted, roster, connected, sockets, game>>

\* handleTeamJoin: the host may seat anybody, past a lock too; p leaves its team first.
Crowned(t, p, absent) == IF absent THEN crownedAway \cup {t} ELSE crownedAway \ {t}
TeamJoin(p, t) ==
  /\ p \in roster /\ lifecycle = "lobby" /\ t \in Teams
  /\ \E q \in (IF team[p] # None /\ Leads(team[p], p) THEN Successors(team[p], p) ELSE {p}),
          old \in {team[p]} :
       LET passed == IF q = p THEN leader ELSE [leader EXCEPT ![old] = q]
       IN  /\ leader' = IF passed[t] = None THEN [passed EXCEPT ![t] = p] ELSE passed
           /\ succession' = IF q = p THEN succession ELSE [succession EXCEPT ![old] = None]
           /\ crownedAway' = IF passed[t] = None THEN Crowned(t, p, p \notin connected)
                             ELSE IF q = p THEN crownedAway ELSE crownedAway \ {old}
  /\ team' = [team EXCEPT ![p] = t]
  /\ UNCHANGED <<settings, minted, roster, connected, sockets, game>>

\* As TeamKick, but in every phase of the room.
KickAnytime(p) ==
  /\ p \in roster /\ team[p] # None
  /\ Detach(p)
  /\ team' = [team EXCEPT ![p] = None]
  /\ UNCHANGED <<settings, minted, roster, connected, sockets, game>>
\* handleTeamKick, by the leader or the host
TeamKick(p) ==
  /\ p \in roster /\ team[p] # None /\ lifecycle = "lobby"
  /\ Detach(p)
  /\ team' = [team EXCEPT ![p] = None]
  /\ UNCHANGED <<settings, minted, roster, connected, sockets, game>>

\* As TeamHandoff, but a succession pending for the last leader stays pending.
HandoffOnTheClock(p) ==
  /\ p \in roster /\ team[p] # None
  /\ leader' = [leader EXCEPT ![team[p]] = p]
  /\ UNCHANGED <<settings, seats, game, succession, crownedAway>>
\* handleTeamHandoff, by the leader or the host, in any phase
TeamHandoff(p) ==
  /\ p \in roster /\ team[p] # None
  /\ leader' = [leader EXCEPT ![team[p]] = p]
  /\ succession' = [succession EXCEPT ![team[p]] = None]
  /\ crownedAway' = Crowned(team[p], p, p \notin connected)
  /\ UNCHANGED <<settings, seats, game>>

\* onAlarm, the grace of one team's leader over
SuccessionDue(t) ==
  /\ succession[t] # None
  /\ succession' = [succession EXCEPT ![t] = None]
  /\ IF Leads(t, succession[t]) /\ succession[t] \notin connected
       THEN /\ \E q \in Successors(t, leader[t]) : leader' = [leader EXCEPT ![t] = q]
            /\ crownedAway' = crownedAway \ {t}
       ELSE UNCHANGED <<leader, crownedAway>>
  /\ UNCHANGED <<settings, seats, game>>

-----------------------------------------------------------------------------
(* start-game: stragglers become teams of one while the cap on teams allows, then the roster *)
(* is seated in the engine, then the game starts.  A repeated start only seats.              *)

Teamless == {p \in roster : team[p] = None}
Stragglers ==
  IF mode = "teams"
    THEN {p \in Teamless : Cardinality(Teams) + Cardinality({q \in Teamless : q < p}) < TeamCap}
    ELSE {}

\* a fresh team for each of new
Naming(new, names) ==
  {f \in [new -> names] : \A p, q \in new : f[p] = f[q] => p = q}

Seated(homes) ==
  {p \in roster : /\ engine.seat[p] = None
                  /\ mode = "teams" => homes[p] # None
                  /\ engine.phase = "lobby" \/ lateJoin}
\* The engine once the first n of them are seated, in the order they joined.
SeatedTo(n, homes) ==
  [engine EXCEPT !.seat = [p \in Player |->
     IF p \in Seated(homes) /\ Cardinality({q \in Seated(homes) : q < p}) < n
       THEN Seat(homes[p]) ELSE engine.seat[p]]]
StartGame ==
  \E home \in Naming(Stragglers, Fresh) :
    LET homes == [p \in Player |-> IF p \in Stragglers THEN home[p] ELSE team[p]]
        count == Cardinality(Seated(homes))
        full == SeatedTo(count, homes)
        starts == engine.phase = "lobby" /\ \E p \in Player : full.seat[p] # None
    IN /\ team' = homes
       /\ leader' = [t \in Teams \cup {home[p] : p \in Stragglers} |->
                       IF t \in Teams THEN leader[t]
                       ELSE CHOOSE p \in Stragglers : home[p] = t]
       /\ engine' = IF starts THEN [full EXCEPT !.phase = "playing"] ELSE full
       /\ Logs([i \in 1 .. (IF starts THEN count + 1 ELSE count) |-> SeatedTo(i - 1, homes)])
       /\ lifecycle' = IF starts THEN "active" ELSE lifecycle
       /\ crownedAway' = crownedAway \cup {home[p] : p \in Stragglers \ connected}
       /\ UNCHANGED <<settings, minted, roster, connected, sockets, succession>>

\* An action that ends the game, by a relay or a timer.
EndGame ==
  /\ engine.phase = "playing"
  /\ Becomes([engine EXCEPT !.phase = "over"])
  /\ lifecycle' = "ended"
  /\ UNCHANGED <<settings, seats, crowns>>

\* undo takes back one engine action; roster and lifecycle stay.
Undo ==
  /\ log # <<>>
  /\ engine' = log[Len(log)]
  /\ log' = SubSeq(log, 1, Len(log) - 1)
  /\ UNCHANGED <<settings, seats, crowns, lifecycle>>

\* closeRoom
CloseRoom ==
  /\ lifecycle # "ended"
  /\ lifecycle' = "ended"
  /\ UNCHANGED <<settings, seats, crowns, engine, log>>

-----------------------------------------------------------------------------

Init ==
  /\ mode \in {"teams", "mixed"} /\ lateJoin \in BOOLEAN
  /\ minted = 0 /\ roster = {} /\ connected = {}
  /\ team = [p \in Player |-> None]
  /\ sockets = [p \in Player |-> 0]
  /\ leader = [t \in {} |-> None] /\ crownedAway = {}
  /\ succession = [t \in Team |-> None]
  /\ lifecycle = "lobby"
  /\ engine = [phase |-> "lobby", seat |-> [p \in Player |-> None]]
  /\ log = <<>>

Next ==
  \/ \E p \in Player :
       \/ JoinAlone(p) \/ Resume(p) \/ CloseOne(p) \/ CloseLast(p)
       \/ PlayerLeaves(p) \/ RemovePlayer(p) \/ TeamKick(p) \/ TeamHandoff(p)
  \/ \E p \in Player, t \in Team :
       \/ JoinTeam(p, t) \/ JoinFounding(p, t) \/ JoinAsSoloTeam(p, t)
       \/ TeamCreate(p, t) \/ TeamJoin(p, t)
  \/ \E t \in Team : SuccessionDue(t)
  \/ StartGame \/ EndGame \/ Undo \/ CloseRoom

Spec == Init /\ [][Next]_vars

-----------------------------------------------------------------------------
(* Properties. *)

Engine == [phase : {"lobby", "playing", "over"}, seat : [Player -> Team \cup {Solo, None}]]
TypeOK ==
  /\ mode \in {"teams", "mixed"} /\ lateJoin \in BOOLEAN
  /\ minted \in 0 .. MintBound /\ roster \subseteq 1 .. minted /\ connected \subseteq roster
  /\ team \in [Player -> Team \cup {None}]
  /\ sockets \in [Player -> 0 .. SocketBound]
  /\ Teams \subseteq Team /\ leader \in [Teams -> Player \cup {None}]
  /\ crownedAway \subseteq Team
  /\ succession \in [Team -> Player \cup {None}]
  /\ lifecycle \in {"lobby", "active", "ended"}
  /\ engine \in Engine /\ log \in Seq(Engine)

\* Whoever may rename, lock, kick for or hand on a team is one of its members, through every
\* order of joins, moves, kicks, hand-offs, departures and successions
\* (authorizeTeamAdministration trusts leaderPlayerId); every member's team exists.
LeaderIsMember ==
  /\ \A t \in Teams : leader[t] # None => leader[t] \in Members(t)
  /\ \A p \in roster : team[p] # None => team[p] \in Teams

\* A pending succession is about the present leader: the alarm never takes the crown from
\* somebody who got it meanwhile.
SuccessionNamesTheLeader ==
  \A t \in Team : succession[t] # None => t \in Teams /\ leader[t] = succession[t]

\* A leader who went away is on the clock: unless crowned while absent (a hand-off, or a move
\* by the host), an absent leader has a succession pending, and a present one has none.
AbsentLeaderIsTimed ==
  \A t \in Teams : (leader[t] # None /\ t \notin crownedAway) =>
                     (leader[t] \in connected <=> succession[t] = None)

\* A team never has a leader who cannot lead it, nor one who is gone for good: whoever holds the
\* crown is a member, and is there, on the clock, or was crowned in absence; no succession is
\* about anybody else.
LeadershipIsSound == LeaderIsMember /\ SuccessionNamesTheLeader /\ AbsentLeaderIsTimed

\* The roster knows who is there: a seat counts as connected exactly while a socket carries it.
ConnectedIsAttached == connected = {p \in roster : sockets[p] > 0}

\* Engine and roster agree whom a player scores for: the entity of a press is computed from
\* the roster (handleAction), that of a seat by the engine, through late joins, repeated
\* starts, undo and reopened rooms.
SeatsAgree ==
  \A p \in roster : engine.seat[p] \in {None, Seat(team[p])}

\* "An emptied team keeps existing with a null leader (first joiner becomes leader)"
\* (detachFromTeam): whoever is first to enter an empty team leads it.
FirstJoinerLeads ==
  [][\A t \in Teams : (Members(t) = {} /\ Members(t)' # {}) => leader'[t] # None]_vars

=============================================================================
