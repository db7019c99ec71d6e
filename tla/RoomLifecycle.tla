---------------------------- MODULE RoomLifecycle ---------------------------
(***************************************************************************)
(* One room code's life: creation, connections, the empty-room grace, idle *)
(* expiry and the wipe (game-room-do.ts), and the lobby row that mirrors   *)
(* it: written by the room (registry-writer.ts) and by the web Worker      *)
(* (room-registry.ts, routes/api/rooms), each write best effort.           *)
(*                                                                         *)
(* A statement to D1 is on its way until it lands or fails, in any order;  *)
(* it does one of the two within a minute, the unit of time.  The room is  *)
(* public throughout.                                                      *)
(***************************************************************************)
EXTENDS Integers, FiniteSets

CONSTANTS
  IdleExpiry,    \* limits.room.idleExpiryMs
  Grace,         \* limits.room.emptyRoomGraceMs
  Lag,           \* the minute by which activity is persisted late
  SocketBound,   \* bound: sockets at a time
  None

ASSUME TimesAssumption ==
  /\ Lag \in Nat \ {0} /\ Grace \in Nat \ {0} /\ IdleExpiry \in Nat
  /\ IdleExpiry > Lag /\ IdleExpiry > Grace /\ SocketBound \in Nat \ {0}
Phase == {"lobby", "active", "ended"}
ASSUME NoneAssumption == None \notin Nat \cup Phase

VARIABLES
  lifecycle,   \* meta.lifecycle, None while there is no room
  emptyAt,     \* schedule.emptyRoomAt, as the time left to it
  age,         \* since meta.lastActivityAt: [mem, stored], and since lastPersistedActivity
  sockets,     \* how many connections the room has
  alarm,       \* the time left to the runtime alarm, None when it is not set
  synced,      \* whether lastRegistrySyncAt lies within this minute
  row,         \* the lobby row
  writes,      \* the statements on their way
  silence,     \* history: the time since the last activity
  vacant,      \* history: for how long nobody has been connected
  visited,     \* history: somebody was connected once
  closed,      \* history: closed by the host or the grace, and not started again since
  failed       \* history: a statement about this room failed

life == <<lifecycle, emptyAt>>
times == <<age, alarm>>
registry == <<row, writes, synced>>
history == <<silence, vacant, visited, closed, failed>>
vars == <<life, times, sockets, registry, history>>

Exists == lifecycle # None
Less(n) == IF n \in {0, None} THEN n ELSE n - 1
More(n, bound) == IF n < bound THEN n + 1 ELSE n

-----------------------------------------------------------------------------
(* The registry. *)

Write(op, phase, expires) == [op |-> op, phase |-> phase, expires |-> expires]
Upsert == Write("upsert", "lobby", IdleExpiry)
Delete == Write("delete", None, None)
\* The close that awaits it: by the host in the room, by DELETE /api/rooms/<CODE>, by the grace.
End(closer) == Write("end", closer, None)
Ends == {w \in writes : w.op = "end"}
\* A report is made of a room that was just heard of.
Report(phase) == Write("touch", phase, IdleExpiry)
Statement ==
  {Upsert, Delete} \cup {End(c) : c \in {"host", "request", "expired"}}
                  \cup {Report(p) : p \in Phase}

\* As Landed, but a report lists an ended room again.
LandedAnew(w, r) ==
  IF w.op \in {"upsert", "touch"}
    THEN [phase |-> w.phase, ended |-> FALSE, expires |-> w.expires]
  ELSE IF r = None \/ w.op = "delete" THEN None
  ELSE [r EXCEPT !.phase = "ended", !.ended = TRUE]
\* upsertSql, touchSql, endSql, deleteSql: all but the first change a row that is there.
Landed(w, r) ==
  IF w.op = "upsert" THEN [phase |-> "lobby", ended |-> FALSE, expires |-> w.expires]
  ELSE IF r = None \/ w.op = "delete" THEN None
  ELSE IF w.op = "touch" THEN [r EXCEPT !.phase = w.phase, !.expires = w.expires]
  ELSE [r EXCEPT !.phase = "ended", !.ended = TRUE]

\* listSql
Listed(r) == r # None /\ ~r.ended /\ r.phase \in {"lobby", "active"} /\ r.expires > 0

\* syncRegistry: once a minute at least; within the minute the five seconds may have passed.
Syncs(force) ==
  /\ \/ writes' = writes \cup {Report(lifecycle')}
     \/ synced /\ ~force /\ writes' = writes
  /\ synced' = TRUE

-----------------------------------------------------------------------------
(* The room's own steps. *)

\* As NextWake, but a minute after the room has expired.
NextWakeAfter(idle, empty) ==
  IF empty # None /\ empty < IdleExpiry - idle THEN empty ELSE IdleExpiry + Lag - idle
\* nextWakeAt, as far as it is about the room as a whole
NextWake(idle, empty) ==
  IF empty # None /\ empty < IdleExpiry - idle THEN empty ELSE IdleExpiry - idle

\* As Touches, but activity alone is never stored.
TouchesInMemory(stores) ==
  /\ age' = [mem |-> 0, stored |-> IF stores THEN 0 ELSE age.stored, lag |-> age.lag]
  /\ silence' = 0
\* touchActivity; stores says that the handler persists the metadata besides.
Touches(stores) ==
  /\ age' = [mem |-> 0,
             stored |-> IF stores \/ age.lag > Lag THEN 0 ELSE age.stored,
             lag |-> IF age.lag > Lag THEN 0 ELSE age.lag]
  /\ silence' = 0

\* POST /initialize, for POST /api/rooms
Initialize ==
  /\ ~Exists
  /\ lifecycle' = "lobby" /\ emptyAt' = None
  /\ age' = [mem |-> 0, stored |-> 0, lag |-> 0] /\ alarm' = IdleExpiry
  /\ writes' = writes \cup {Upsert}
  /\ silence' = 0 /\ vacant' = 0 /\ visited' = FALSE /\ closed' = FALSE
  /\ failed' = FALSE /\ synced' = FALSE
  /\ UNCHANGED <<sockets, row>>

\* onConnect.  The code is told when the creating request is answered: the row's first.
Connect ==
  /\ Exists /\ Upsert \notin writes /\ sockets < SocketBound
  /\ sockets' = sockets + 1
  /\ Touches(FALSE)
  /\ emptyAt' = None
  /\ alarm' = IF emptyAt # None THEN NextWake(0, None) ELSE alarm
  /\ vacant' = 0 /\ visited' = TRUE
  /\ UNCHANGED <<lifecycle, registry, closed, failed>>

\* As Departure, but the alarm is left as it is.
DepartureUnheard(left) ==
  /\ emptyAt' = IF left = 0 /\ lifecycle # "ended" /\ emptyAt = None THEN Grace ELSE emptyAt
  /\ UNCHANGED alarm
\* As Departure, but of whoever leaves first.
DepartureOfOne(left) ==
  IF lifecycle # "ended" /\ emptyAt = None
    THEN emptyAt' = Grace /\ alarm' = NextWake(age.mem, Grace)
    ELSE UNCHANGED <<emptyAt, alarm>>
\* As Departure, but a game that runs is not thought vacant.
DepartureFromLobby(left) ==
  IF left = 0 /\ lifecycle = "lobby" /\ emptyAt = None
    THEN emptyAt' = Grace /\ alarm' = NextWake(age.mem, Grace)
    ELSE UNCHANGED <<emptyAt, alarm>>
\* noteDeparture, of the socket that closes
Departure(left) ==
  IF left = 0 /\ lifecycle # "ended" /\ emptyAt = None
    THEN emptyAt' = Grace /\ alarm' = NextWake(age.mem, Grace)
    ELSE UNCHANGED <<emptyAt, alarm>>
Disconnect ==
  /\ sockets > 0
  /\ sockets' = sockets - 1
  /\ Departure(sockets - 1)
  /\ UNCHANGED <<lifecycle, age, registry, history>>

\* A message that is not for the engine: most store something, some change the roster.
Message ==
  /\ sockets > 0 /\ UNCHANGED lifecycle
  /\ \E stores \in BOOLEAN : Touches(stores)
  /\ \/ UNCHANGED <<writes, synced>>
     \/ Syncs(FALSE)
  /\ UNCHANGED <<emptyAt, alarm, sockets, row, vacant, visited, closed, failed>>

\* applyEngineActions with events.  The engine may start in any room, a closed one too, and be
\* over in any: undo takes it back (RoomClock says when).
Batch(word) ==
  /\ lifecycle' = CASE word = "game-started" -> "active" [] word = "game-over" -> "ended"
                    [] OTHER -> lifecycle
  /\ closed' = (closed /\ word # "game-started")
  /\ age' = [mem |-> 0, stored |-> 0, lag |-> 0] /\ silence' = 0
  /\ alarm' = NextWake(0, emptyAt)
  /\ Syncs(word \in {"game-started", "game-over"})
  /\ UNCHANGED <<emptyAt, sockets, row, vacant, visited, failed>>
Play == sockets > 0 /\ \E word \in {"game-started", "game-over", "other"} : Batch(word)

\* handleCloseRoom, after its message's touch, and the /close request, which is none
CloseRoom(closer) ==
  /\ Exists /\ lifecycle' = "ended" /\ closed' = TRUE
  /\ writes' = writes \cup {End(closer)}
HostCloses ==
  /\ sockets > 0 /\ CloseRoom("host") /\ Touches(TRUE)
  /\ UNCHANGED <<emptyAt, alarm, sockets, row, synced, vacant, visited, failed>>
CloseRequest ==
  /\ Upsert \notin writes /\ CloseRoom("request")
  /\ age' = [age EXCEPT !.stored = age.mem]
  /\ UNCHANGED <<emptyAt, alarm, sockets, row, synced, silence, vacant, visited, failed>>

\* onAlarm: idle expiry, then the grace, then what else is due.
Expired == age.mem >= IdleExpiry
Wipe ==
  /\ Exists /\ alarm = 0 /\ Expired
  /\ lifecycle' = None /\ emptyAt' = None /\ alarm' = None /\ sockets' = 0
  /\ writes' = writes \cup {Delete}
  /\ UNCHANGED <<age, row, synced, history>>
GraceOver ==
  /\ Exists /\ alarm = 0 /\ ~Expired /\ emptyAt = 0
  /\ emptyAt' = None
  /\ IF sockets = 0
       THEN /\ CloseRoom("expired") /\ alarm' = None
            /\ age' = [age EXCEPT !.stored = age.mem]
       ELSE /\ alarm' = NextWake(age.mem, None)
            /\ UNCHANGED <<lifecycle, age, writes, closed>>
  /\ UNCHANGED <<sockets, row, synced, silence, vacant, visited, failed>>
\* As WakeForNothing, but the alarm is not set again.
WakeAndSleep ==
  /\ Exists /\ alarm = 0 /\ ~Expired /\ emptyAt # 0
  /\ alarm' = None
  /\ UNCHANGED <<life, age, sockets, registry, history>>
WakeForNothing ==
  /\ Exists /\ alarm = 0 /\ ~Expired /\ emptyAt # 0
  /\ alarm' = NextWake(age.mem, emptyAt)
  /\ UNCHANGED <<life, age, sockets, registry, history>>
Ring == Wipe \/ GraceOver \/ WakeForNothing
\* An engine timer is due (a game that runs plays on without anybody).
EngineTimer ==
  /\ lifecycle \in {"active", "ended"} /\ ~Expired /\ emptyAt # 0
  /\ \E word \in {"game-over", "other"} : Batch(word)

\* A statement lands or fails, and the handler that awaits it goes on: a close shuts every
\* socket, the grace's sets the alarm again, DELETE deletes the row.
Resolve(w) ==
  /\ w \in writes
  /\ \/ row' = Landed(w, row) /\ failed' = failed
     \/ row' = row /\ failed' = TRUE
  /\ writes' = (writes \ {w}) \cup (IF w = End("request") THEN {Delete} ELSE {})
  /\ IF w.op = "end" /\ Exists
       THEN /\ sockets' = 0
            /\ emptyAt' = IF sockets > 0 /\ lifecycle # "ended" THEN Grace ELSE emptyAt
            /\ alarm' = IF w = End("expired") \/ emptyAt' # emptyAt
                          THEN NextWake(age.mem, emptyAt') ELSE alarm
       ELSE UNCHANGED <<sockets, emptyAt, alarm>>
  /\ UNCHANGED <<lifecycle, age, synced, silence, vacant, visited, closed>>

\* sweepExpiredRooms, when any room is created
Sweep ==
  /\ row # None /\ row.expires = 0
  /\ row' = None
  /\ UNCHANGED <<life, times, sockets, writes, synced, history>>

\* Between two messages the instance may leave memory; load reads storage.
Evict ==
  /\ Exists /\ writes = {}
  /\ age' = [age EXCEPT !.mem = age.stored, !.lag = age.stored]
  /\ synced' = FALSE
  /\ UNCHANGED <<life, alarm, sockets, row, writes, history>>

\* The alarm may be late; statements are not.
Tick ==
  /\ writes = {}
  /\ age' = [mem |-> More(age.mem, IdleExpiry), stored |-> More(age.stored, IdleExpiry),
             lag |-> More(age.lag, Lag + 1)]
  /\ emptyAt' = Less(emptyAt) /\ alarm' = Less(alarm)
  /\ row' = IF row = None THEN None ELSE [row EXCEPT !.expires = Less(@)]
  /\ synced' = FALSE
  /\ silence' = More(silence, IdleExpiry)
  /\ vacant' = IF sockets = 0 THEN More(vacant, Grace) ELSE 0
  /\ UNCHANGED <<lifecycle, sockets, writes, visited, closed, failed>>

-----------------------------------------------------------------------------

Init ==
  /\ lifecycle = None /\ emptyAt = None
  /\ age = [mem |-> 0, stored |-> 0, lag |-> 0] /\ alarm = None
  /\ sockets = 0
  /\ row = None /\ writes = {} /\ synced = FALSE
  /\ silence = 0 /\ vacant = 0 /\ visited = FALSE /\ closed = FALSE /\ failed = FALSE

Next ==
  \/ Initialize \/ Connect \/ Disconnect \/ Message \/ Play \/ HostCloses \/ CloseRequest
  \/ Ring \/ EngineTimer \/ Sweep \/ Evict \/ Tick
  \/ \E w \in Statement : Resolve(w)

Spec == Init /\ [][Next]_vars
\* Time passes, a due alarm is run; statements take milliseconds and messages are rate limited
\* (admitMessage), so again and again none is on its way.
FairSpec == Spec /\ SF_vars(Tick) /\ WF_vars(Ring) /\ []<>(writes = {})

-----------------------------------------------------------------------------
(* Properties. *)

Time(bound) == (0 .. bound) \cup {None}
TypeOK ==
  /\ lifecycle \in Phase \cup {None} /\ emptyAt \in Time(Grace)
  /\ age \in [mem : 0 .. IdleExpiry, stored : 0 .. IdleExpiry, lag : 0 .. IdleExpiry]
  /\ sockets \in 0 .. SocketBound /\ alarm \in Time(IdleExpiry)
  /\ row \in {None} \cup [phase : Phase, ended : BOOLEAN, expires : 0 .. IdleExpiry]
  /\ writes \subseteq Statement
  /\ silence \in 0 .. IdleExpiry /\ vacant \in 0 .. Grace
  /\ {synced, visited, closed, failed} \subseteq BOOLEAN

\* A room is wiped only after its silence: whatever activity an eviction forgot, at most Lag
\* is missing from the two hours ("worst case a room expires <60s early", touchActivity).
WipedAfterSilence ==
  [][(Exists /\ lifecycle' = None) => silence + Lag >= IdleExpiry]_vars

\* The alarm is never slept through: it rings by the end of the grace and of the idle time,
\* after every reconnection, eviction and late write (rescheduleAlarm).
AlarmCoversRoom ==
  (Exists /\ End("expired") \notin writes) =>
    /\ alarm # None /\ alarm <= IdleExpiry - silence
    /\ emptyAt # None => alarm <= emptyAt

\* The grace runs exactly while nobody is there: a room that is not over and was left by
\* everybody is being counted down, from the moment the last socket closed, and no occupied
\* room is (noteDeparture, onConnect, closeRoom's own closing of sockets).
GraceIsVacancy ==
  /\ emptyAt # None => sockets = 0 /\ (emptyAt > 0 => vacant = Grace - emptyAt)
  /\ (Exists /\ lifecycle # "ended" /\ visited /\ sockets = 0) => emptyAt # None

\* "A row nobody ever cleaned up delists itself" (registry-writer.ts): whatever failed, the
\* lobby advertises a code that names no room for Lag at the longest.
DeadRoomsDelist ==
  (~Exists /\ row # None /\ Upsert \notin writes) => row.expires <= Lag

\* A room that was closed leaves the lobby, whatever reports of its play were still on their
\* way, unless a statement about it failed.
ClosedIsDelisted ==
  (Exists /\ closed /\ lifecycle = "ended" /\ writes = {} /\ ~failed) => ~Listed(row)

\* Everybody gone, the room is closed, or somebody comes back.
VacantRoomsClose ==
  (Exists /\ visited /\ sockets = 0) ~> (lifecycle \in {"ended", None} \/ sockets > 0)

\* A room that falls silent is heard of again, or its code is freed.
SilentRoomsGo == (Exists /\ silence > 0) ~> (~Exists \/ silence = 0)

=============================================================================
