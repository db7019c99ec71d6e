----------------------------- MODULE RoomClient -----------------------------
(***************************************************************************)
(* One phone and its room over connections that drop: dialing, join and    *)
(* resume, the session token and its stash, snapshots, batches and their   *)
(* versions, and the closes that end it (ws-room-store.svelte.ts,          *)
(* room-socket.ts, join-hand-off.ts; the room's half is game-room-do.ts).  *)
(*                                                                         *)
(* A connection delivers in order while it lasts.  The phone may lose it   *)
(* before the room does; what was sent may still arrive then.  Only this   *)
(* phone's seats are modelled; a token is the number of its seat.          *)
(***************************************************************************)
EXTENDS Integers, Sequences, FiniteSets

CONSTANTS
  DialBound,    \* bound: how often the phone dials
  SeatBound,    \* bound: how many seats are minted for it
  BatchBound,   \* bound: how many batches the game has
  None

ASSUME BoundsAssumption == {DialBound, SeatBound, BatchBound} \subseteq Nat \ {0}
ASSUME NoneAssumption == None \notin Nat

VARIABLES
  phone,    \* the store: [conn, open, wants, token, me, done, retry, version, shown], and a
            \* history: answered, whether the room said no on this connection since the last Join
  stash,    \* the session token in this tab's sessionStorage
  dials,    \* how many connections were made: each is a number
  up,       \* up[c]: what the phone sent on c and the room has not handled
  down,     \* what the room sent on the phone's connection and it has not handled
  served,   \* served[c]: None when the room has no such connection, else Unjoined or a seat
  room,     \* [seats, minted, version, there]
  told      \* history: the last batch that was sent with the state it produced

vars == <<phone, stash, dials, up, down, served, room, told>>

Conn == 1 .. DialBound
Seat == 1 .. SeatBound
Unjoined == 0

-----------------------------------------------------------------------------
(* The wire. *)

\* One shape for all: what it is, and the seat, version, reason or code it carries.
Msg(type, about) == [type |-> type, about |-> about]
Attached(c) == served[c] \in Seat

Joined == phone.conn # None /\ Attached(phone.conn)

\* What is said to conns, and what to all others that are joined: the phone hears it on its own
\* connection, and not on a lost one.
Tells(conns, msgs, others) ==
  down' = IF phone.conn \in conns THEN down \o msgs
          ELSE IF Joined THEN down \o others ELSE down

\* A batch as joined connections hear it.  An event has the state that the batch produced; a
\* win is told by itself before the events of its batch, and a tiebreaker's win has no others.
Event == Msg("event", room.version + 1)
Win == Msg("buzz-won", room.version + 1)
BoardWin == <<Win, Event>>
BareWin == <<Win>>
\* What a join, a leave or a kick is told as: in a running game a batch, in a lobby nothing.
Presence == {<<>>, <<Event>>}

\* A batch moves the version.
Bumped(batch) == IF batch = <<>> THEN room.version ELSE room.version + 1
Carries(batch) ==
  /\ batch # <<>> => room.version < BatchBound
  /\ told' = IF Event \in {batch[i] : i \in DOMAIN batch} THEN room.version + 1 ELSE told

Snapshot(version) == Msg("snapshot", version)
\* As Welcome, but the game is not told.
WelcomeOnly(seat, version) == <<Msg("welcome", seat)>>
Welcome(seat, version) == <<Msg("welcome", seat), Snapshot(version)>>
Refusal(reason, code) == <<Msg("refused", reason), Msg("close", code)>>

-----------------------------------------------------------------------------
(* The room. *)

Consumed(c) == up' = [up EXCEPT ![c] = Tail(@)]
Answers(c, msg) == Tells({c}, <<msg>>, <<>>) /\ UNCHANGED <<served, room, told>>
TurnsAway(c, reason, code) ==
  /\ Tells({c}, Refusal(reason, code), <<>>)
  /\ served' = [served EXCEPT ![c] = None]
  /\ UNCHANGED <<room, told>>
Seats(c, seat, batch) ==
  /\ Carries(batch)
  /\ served' = [served EXCEPT ![c] = seat]
  /\ Tells({c}, Welcome(seat, Bumped(batch)) \o batch, batch)

\* A new seat, for whoever asks.
Mints(c, batch) ==
  /\ room.minted < SeatBound
  /\ Seats(c, room.minted + 1, batch)
  /\ room' = [room EXCEPT !.minted = @ + 1, !.seats = @ \cup {room.minted + 1},
                           !.version = Bumped(batch)]

\* handleJoin, as a player: a seat is minted, or the room is full or takes nobody,
\* or the join cannot be as it is (its team is locked, gone, one too many): then the phone may
\* ask again on the same connection.
HandleJoin(c) ==
  IF Attached(c) THEN Answers(c, Msg("error", "already joined"))
  ELSE \/ \E batch \in Presence : Mints(c, batch)
       \/ TurnsAway(c, "room-full", 4409)
       \/ TurnsAway(c, "late-join-disabled", 4403)
       \/ Answers(c, Msg("refused", "team-locked"))
       \/ Answers(c, Msg("error", "rejected"))

\* handleResume
HandleResume(c, token) ==
  IF Attached(c) THEN Answers(c, Msg("error", "already joined"))
  ELSE IF token \in room.seats THEN Seats(c, token, <<>>) /\ UNCHANGED room
  ELSE TurnsAway(c, "bad-session-token", 4401)

HandleSync(c) ==
  Answers(c, IF Attached(c) THEN Snapshot(room.version) ELSE Msg("error", "not-joined"))

\* handleLeave: the seat is removed, unless it is gone, and the connection closed normally; the
\* batch is told before, also to the one who leaves.
HandleLeave(c) ==
  IF ~Attached(c) THEN Answers(c, Msg("error", "not-joined"))
  ELSE \E batch \in Presence :
         /\ served[c] \notin room.seats => batch = <<>>
         /\ Carries(batch)
         /\ room' = [room EXCEPT !.seats = @ \ {served[c]}, !.version = Bumped(batch)]
         /\ Tells({c}, batch \o <<Msg("close", 1000)>>, batch)
         /\ served' = [served EXCEPT ![c] = None]

\* onMessage
Handle(c) ==
  /\ served[c] # None /\ up[c] # <<>> /\ Consumed(c)
  /\ LET m == Head(up[c])
     IN  CASE m.type = "join" -> HandleJoin(c)
           [] m.type = "resume" -> HandleResume(c, m.about)
           [] m.type = "sync" -> HandleSync(c)
           [] m.type = "leave" -> HandleLeave(c)
  /\ UNCHANGED <<phone, stash, dials>>

\* broadcastEngineEvents, after any other action of the game
Batch(batch) ==
  /\ room.there /\ Carries(batch)
  /\ room' = [room EXCEPT !.version = Bumped(batch)]
  /\ Tells({}, <<>>, batch)
  /\ UNCHANGED <<phone, stash, dials, up, served>>

\* Connections the room closes, each told why first; others hear the batch.
Closes(conns, reason, batch) ==
  /\ Carries(batch)
  /\ Tells(conns, <<Msg("room-closed", reason), Msg("close", 4000)>>, batch)
  /\ served' = [c \in Conn |-> IF c \in conns THEN None ELSE served[c]]
HandleKickPlayer(seat) ==
  /\ seat \in room.seats
  /\ \E batch \in Presence :
       /\ Closes({c \in Conn : served[c] = seat}, "kicked", batch)
       /\ room' = [room EXCEPT !.seats = @ \ {seat}, !.version = Bumped(batch)]
  /\ UNCHANGED <<phone, stash, dials, up>>
\* closeRoom, and the wipe of an expired room
CloseRoom(wiped) ==
  /\ room.there
  /\ Closes({c \in Conn : served[c] # None}, IF wiped THEN "expired" ELSE "host-closed", <<>>)
  /\ room' = IF wiped THEN [room EXCEPT !.there = FALSE, !.seats = {}] ELSE room
  /\ UNCHANGED <<phone, stash, dials, up>>

\* onClose: the room notices that the phone is gone.
Notices(c) ==
  /\ served[c] # None /\ c # phone.conn /\ up[c] = <<>>
  /\ served' = [served EXCEPT ![c] = None]
  /\ UNCHANGED <<phone, stash, dials, up, down, room, told>>

-----------------------------------------------------------------------------
(* The phone. *)

\* sendMessage, on a phone p: nothing leaves before the connection is open.
Sends(p, msgs) ==
  up' = IF p.conn # None /\ p.open THEN [up EXCEPT ![p.conn] = @ \o msgs] ELSE up

\* a new store, and what it knows of the room
NewStore(token) ==
  [conn |-> None, open |-> FALSE, wants |-> FALSE, token |-> token, me |-> None,
   done |-> FALSE, retry |-> TRUE, answered |-> FALSE, version |-> -1, shown |-> -1]

\* connect, at once or when the reconnect timer fires
Dial ==
  /\ phone.retry /\ dials < DialBound
  /\ dials' = dials + 1
  /\ phone' = [phone EXCEPT !.conn = dials + 1, !.open = FALSE, !.retry = FALSE]
  /\ down' = <<>>
  /\ UNCHANGED <<stash, up, served, room, told>>

\* As OpeningMove, but the name is tried before the token.
OpeningJoin ==
  IF phone.wants THEN <<Msg("join", None)>>
  ELSE IF phone.token # None THEN <<Msg("resume", phone.token)>> ELSE <<>>
\* As OpeningMove, but a join that was under way is not made again.
OpeningResume == IF phone.token # None THEN <<Msg("resume", phone.token)>> ELSE <<>>
\* handleOpen: resume, or join, or wait for the player; a code without a room is refused
OpeningMove ==
  IF phone.token # None THEN <<Msg("resume", phone.token)>>
  ELSE IF phone.wants THEN <<Msg("join", None)>> ELSE <<>>
Open ==
  /\ phone.conn # None /\ ~phone.open
  /\ phone' = [phone EXCEPT !.open = TRUE]
  /\ Sends(phone', OpeningMove)
  /\ IF room.there
       THEN served' = [served EXCEPT ![phone.conn] = Unjoined] /\ UNCHANGED down
       ELSE Tells({phone.conn}, Refusal("no-such-room", 4404), <<>>) /\ UNCHANGED served
  /\ UNCHANGED <<stash, dials, room, told>>

\* handleClose: 44xx is final, everything else walks the ladder.
isTerminalCloseCode(code) == code >= 4400 /\ code < 4500
HandleClose(p, code) ==
  LET over == p.done \/ isTerminalCloseCode(code)
  IN  [p EXCEPT !.conn = None, !.open = FALSE, !.done = over, !.retry = ~over,
                !.answered = FALSE]

\* As Welcomed, but the phone keeps a name it had.
WelcomedAsBefore(p, seat) ==
  [p EXCEPT !.token = seat, !.me = IF p.token # None THEN @ ELSE seat]
Welcomed(p, seat) == [p EXCEPT !.me = seat, !.token = seat]
Refused(p, reason) ==
  IF reason = "bad-session-token"
    THEN [p EXCEPT !.answered = TRUE, !.token = None, !.me = None]
    ELSE [p EXCEPT !.answered = TRUE]
Closed(p, reason) ==
  IF reason = "kicked" THEN [p EXCEPT !.done = TRUE, !.token = None, !.me = None]
  ELSE [p EXCEPT !.done = TRUE]

noteVersion(p, version) == [p EXCEPT !.version = IF version > @ THEN version ELSE @]
\* As Won, but the version is left for the event to tell.
WonUnnoted(p, version) == p
\* of a buzz-won: no state comes with it
Won(p, version) == noteVersion(p, version)
applyEventBatch(p, version) == [noteVersion(p, version) EXCEPT !.shown = version]
Gapped(m) == m.type = "event" /\ phone.version >= 0 /\ m.about > phone.version + 1

\* apply
Applied(m) ==
  CASE m.type = "welcome" -> Welcomed(phone, m.about)
    [] m.type = "refused" -> Refused(phone, m.about)
    [] m.type = "snapshot" -> [phone EXCEPT !.version = m.about, !.shown = m.about]
    [] m.type = "event" -> applyEventBatch(phone, m.about)
    [] m.type = "buzz-won" -> Won(phone, m.about)
    [] m.type = "room-closed" -> Closed(phone, m.about)
    [] m.type = "error" -> [phone EXCEPT !.answered = TRUE]
    [] m.type = "close" -> HandleClose(phone, m.about)
Receive ==
  /\ phone.conn # None /\ down # <<>>
  /\ LET m == Head(down)
     IN  /\ phone' = Applied(m)
         /\ stash' = phone'.token
         /\ IF Gapped(m) THEN Sends(phone, <<Msg("sync", None)>>) ELSE UNCHANGED up
         /\ down' = IF m.type = "close" THEN <<>> ELSE Tail(down)
  /\ UNCHANGED <<dials, served, room, told>>

\* Of what was sent on a lost connection a first part may still arrive.
StillArrives(c) ==
  \E n \in 0 .. Len(up[c]) : up' = [up EXCEPT ![c] = SubSeq(@, 1, n)]
Loses(next) ==
  /\ phone.conn # None /\ dials < DialBound
  /\ StillArrives(phone.conn)
  /\ phone' = next /\ down' = <<>>
  /\ UNCHANGED <<stash, dials, served, room, told>>
Drop == Loses(HandleClose(phone, 1006))
\* The tab is reloaded: a new store, of the same stash.
Reload == Loses(NewStore(stash))

\* join: the player presses the button, which is there until the phone is seated; again if the
\* room said no.
Join ==
  /\ phone.me = None /\ (phone.wants => phone.answered)
  /\ phone' = [phone EXCEPT !.wants = TRUE, !.answered = FALSE]
  /\ Sends(phone, <<Msg("join", None)>>)
  /\ UNCHANGED <<stash, dials, down, served, room, told>>
Leave ==
  /\ phone.me # None
  /\ phone' = [phone EXCEPT !.wants = FALSE, !.token = None, !.me = None]
  /\ stash' = None
  /\ Sends(phone, <<Msg("leave", None)>>)
  /\ UNCHANGED <<dials, down, served, room, told>>

-----------------------------------------------------------------------------

Init ==
  /\ phone = NewStore(None) /\ stash = None /\ dials = 0
  /\ up = [c \in Conn |-> <<>>] /\ down = <<>>
  /\ served = [c \in Conn |-> None]
  /\ room = [seats |-> {}, minted |-> 0, version |-> 0, there |-> TRUE]
  /\ told = 0

Next ==
  \/ \E c \in Conn : Handle(c) \/ Notices(c)
  \/ Batch(<<Event>>) \/ Batch(BoardWin) \/ Batch(BareWin)
  \/ \E seat \in Seat : HandleKickPlayer(seat)
  \/ \E wiped \in BOOLEAN : CloseRoom(wiped)
  \/ Dial \/ Open \/ Receive \/ Drop \/ Reload \/ Join \/ Leave

Spec == Init /\ [][Next]_vars
\* Timers fire, sockets open, and on a connection that lasts both ends are heard.
FairSpec ==
  /\ Spec /\ WF_vars(Dial) /\ WF_vars(Open) /\ WF_vars(Receive)
  /\ \A c \in Conn : WF_vars(Handle(c))

-----------------------------------------------------------------------------
(* Properties. *)

UpType == {"join", "resume", "sync", "leave"}
DownType ==
  {"welcome", "snapshot", "event", "buzz-won", "refused", "room-closed", "close", "error"}
TypeOK ==
  /\ phone.conn \in Conn \cup {None} /\ {phone.token, phone.me, stash} \subseteq Seat \cup {None}
  /\ {phone.open, phone.wants, phone.done, phone.retry, phone.answered, room.there}
       \subseteq BOOLEAN
  /\ {phone.version, phone.shown} \subseteq -1 .. BatchBound
  /\ dials \in 0 .. DialBound /\ served \in [Conn -> Seat \cup {Unjoined, None}]
  /\ \A c \in Conn : \A i \in DOMAIN up[c] : up[c][i].type \in UpType
  /\ \A i \in DOMAIN down : down[i].type \in DownType
  /\ room.seats \subseteq 1 .. room.minted /\ room.minted <= SeatBound
  /\ told \in 0 .. room.version /\ room.version <= BatchBound

\* Once nothing is on its way on a seat's connection, the phone has the room's version and its
\* screen is no older than the last state that was sent, through drops, reloads and late joins
\* (broadcastEngineEvents, welcomePlayer, apply).  A tiebreaker's win is a batch without a state:
\* it moves the version and leaves the screen.
Quiet(c) == c # None /\ phone.open /\ Attached(c) /\ up[c] = <<>> /\ down = <<>>
CaughtUp == Quiet(phone.conn) => phone.version = room.version /\ phone.shown >= told

\* "stateVersion gaps mean a missed message" (docs/STATUS.md:50), and on a connection that
\* delivers in order none is missed: whatever batches, wins, joins and reconnections came before,
\* the phone never takes the next event for one, which would have every phone ask for a snapshot.
NoFalseGaps == phone.conn # None /\ down # <<>> => ~Gapped(Head(down))

\* The phone and the room agree whose seat the connection is (a press is scored for it).
SameSeat ==
  (Quiet(phone.conn) /\ phone.token # None) =>
     phone.token = served[phone.conn] /\ phone.me = phone.token /\ stash = phone.token

\* "The room hands back the same seat" (docs/design/user-flows.md:81): a token whose seat is
\* still there is never traded for another, only given up by leaving.
SeatIsKept ==
  [][(phone.token \in room.seats /\ phone'.token # phone.token) => Leave]_vars

\* A phone that holds a token comes back to its seat, or learns that there is none; one that asked
\* for a seat has it, or was told on this connection why not (or the bound on dials is spent).
Wants == (phone.wants \/ phone.token # None) /\ ~phone.done
Seated == phone.me # None /\ phone.conn # None /\ served[phone.conn] = phone.me
Spent == phone.retry /\ dials = DialBound
ToldNo == phone.answered /\ phone.token = None
ComesBack == Wants ~> (Seated \/ ToldNo \/ ~Wants \/ Spent)

=============================================================================
