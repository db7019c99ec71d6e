------------------------------ MODULE RoomClock -----------------------------
(***************************************************************************)
(* The room as the engine's clock: the alarm book, the one runtime alarm,  *)
(* pause and resume, "skip the wait", undo, and what an eviction forgets   *)
(* (game-room-do.ts, room/engine-glue.ts, room/storage.ts).  The engine is *)
(* EngineTable.                                                            *)
(*                                                                         *)
(* A deadline is kept as the time left until it, zero once it has passed,  *)
(* in memory and in storage alike: what the code stores is the deadline.   *)
(***************************************************************************)
EXTENDS EngineTable, SequencesExt

CONSTANTS
  Lengths,     \* the time each kind of timer is set for
  UndoDepth,   \* bound: how many actions back the log is kept
  None

ASSUME LengthsAssumption == Lengths \in [Kind -> Nat \ {0}]
ASSUME UndoDepthAssumption == UndoDepth \in Nat
ASSUME NoneAssumption == None \notin Nat

VARIABLES
  mem,         \* this.room: [game, log, book, paused, lifecycle]
  stored,      \* the same in ctx.storage
  clocks,      \* room.setup: the settings timers that are not null
  alarm,       \* the time left to the runtime alarm, None when no engine timer is awaited
  owed,        \* history: the unpaused time each timer of the book has still to run
  setPaused    \* history: the timers of the book set while the room was paused

vars == <<mem, stored, clocks, alarm, owed, setPaused>>

-----------------------------------------------------------------------------
(* The alarm book: entries in the order their kinds were inserted. *)

Entry(kind) == [kind |-> kind, left |-> Lengths[kind], remaining |-> None]
Kinds(book) == {book[i].kind : i \in DOMAIN book}

\* As SetTimer, but a kind that is there already is entered again.
SetTimerTwice(book, kind) == Append(book, Entry(kind))
\* An assignment keeps the place of a kind that is there already.
SetTimer(book, kind) ==
  IF kind \in Kinds(book)
    THEN [i \in DOMAIN book |-> IF book[i].kind = kind THEN Entry(kind) ELSE book[i]]
    ELSE Append(book, Entry(kind))
SetTimerOf(book, kinds) == IF kinds = {} THEN book ELSE SetTimer(book, CHOOSE k \in kinds : TRUE)
\* startRound asks for the round's clock first; no action asks for two timers besides it.
SetTimers(book, kinds) ==
  SetTimerOf(SetTimerOf(book, kinds \cap {"round-time-limit"}), kinds \ {"round-time-limit"})
\* What is left of the book, in its order.
Only(book, kinds) ==
  LET kept[n \in 0 .. Len(book)] ==
        IF n = 0 THEN <<>>
        ELSE IF book[n].kind \in kinds THEN Append(kept[n - 1], book[n]) ELSE kept[n - 1]
  IN  kept[Len(book)]
Without(book, kinds) == Only(book, Kind \ kinds)

timerExpiryAction ==
  [k \in Kind |->
     CASE k = "auto-arm" -> "arm-buzzers"
       [] k = "selection-shot-clock" -> "selection-timeout"
       [] k = "buzz-window" -> "buzz-timeout"
       [] k \in {"answer-window", "everyone-answers-window"} -> "answer-timeout"
       [] k = "wager-entry" -> "wager-timeout"
       [] k = "final-wager" -> "final-wager-timeout"
       [] k = "final-writing" -> "final-writing-timeout"
       [] k = "round-time-limit" -> "round-timeout"]

timersByPhase ==
  [p \in Phase |->
     (CASE p \in {"reading", "tiebreaker-reading"} -> {"auto-arm"}
        [] p = "awaiting-selection" -> {"selection-shot-clock"}
        [] p \in {"armed", "tiebreaker-armed"} -> {"buzz-window"}
        [] p \in {"answering", "wager-answering", "tiebreaker-answering"} -> {"answer-window"}
        [] p = "wagering" -> {"wager-entry"}
        [] p = "all-answering" -> {"everyone-answers-window"}
        [] p = "final-wagers" -> {"final-wager"}
        [] p = "final-writing" -> {"final-writing"}
        [] OTHER -> {})
     \cup (IF p \in OpenClue \cup {"awaiting-selection", "round-break"}
             THEN {"round-time-limit"} ELSE {})]
\* As Pruned, but nothing is waited for between the rounds.
PrunedInBreak(m) ==
  [m EXCEPT !.book = Without(@, IF m.game.phase = "round-break" THEN Kind
                                ELSE Kind \ timersByPhase[m.game.phase])]
Pruned(m) == [m EXCEPT !.book = Without(@, Kind \ timersByPhase[m.game.phase])]

\* As NextWake, but the book is taken to be in order.
NextWakeFirst(m) == IF m.paused \/ m.book = <<>> THEN None ELSE Head(m.book).left
\* As NextWake, but what is overdue is thought to have rung.
NextWakeAhead(m) ==
  LET ahead == {m.book[i].left : i \in DOMAIN m.book} \ {0}
  IN  IF m.paused \/ ahead = {} THEN None ELSE Min(ahead)
\* nextWakeAt, of the engine's timers: a paused room contributes none.
NextWake(m) ==
  IF m.paused \/ m.book = <<>> THEN None ELSE Min({m.book[i].left : i \in DOMAIN m.book})

-----------------------------------------------------------------------------
(* applyEngineActions.  A result is the memory after the actions so far,   *)
(* whether one of them was narrated, and the timers they set.              *)

Untouched(m) == [m |-> m, told |-> FALSE, set |-> {}]
Logged(m) ==
  LET log == Append(m.log, m.game)
  IN  SubSeq(log, Max({1, Len(log) - UndoDepth + 1}), Len(log))
\* As Lifecycle, but the game's end is not the room's.
LifecycleStarts(m, word) == IF word = "started" THEN "active" ELSE m.lifecycle
Lifecycle(m, word) ==
  CASE word = "started" -> "active" [] word = "over" -> "ended" [] OTHER -> m.lifecycle

Take(r, type, o) ==
  [m |-> [r.m EXCEPT !.game = After(r.m.game, type, o), !.log = Logged(r.m),
                     !.book = SetTimers(r.m.book, o.sets),
                     !.lifecycle = Lifecycle(r.m, o.word)],
   told |-> r.told \/ o.word # "silent",
   set |-> r.set \cup o.sets]
Undone(r) ==
  [r EXCEPT !.m.game = Last(r.m.log), !.m.log = Front(r.m.log), !.told = TRUE]

Applied(r, type) ==
  IF type = "undo"
    THEN IF r.m.log = <<>> THEN {r} ELSE {Undone(r)}
    ELSE LET outcomes == Outcomes(r.m.game, clocks, type)
         IN  IF outcomes = {} THEN {r} ELSE {Take(r, type, o) : o \in outcomes}

\* The actions of a batch one after the other; each is accepted or rejected by itself.
Further(results, type) == UNION {Applied(r, type) : r \in results}
Batch(m, types) ==
  LET after[n \in 0 .. Len(types)] ==
        IF n = 0 THEN {Untouched(m)} ELSE Further(after[n - 1], types[n])
  IN  after[Len(types)]

\* What is narrated is pruned, stored and given to the alarm; what is not stays in memory.
Settle(r) ==
  /\ mem' = IF r.told THEN Pruned(r.m) ELSE r.m
  /\ owed' = [k \in Kind |-> IF k \notin Kinds(mem'.book) THEN 0
                             ELSE IF k \in r.set THEN Lengths[k] ELSE owed[k]]
  /\ setPaused' = Kinds(mem'.book) \cap
                     (IF mem.paused THEN setPaused \cup r.set ELSE setPaused \ r.set)

-----------------------------------------------------------------------------
(* The handlers. *)

\* A relayed action, or one the room makes of a player who leaves or returns.
Act(type) ==
  \E r \in Batch(mem, <<type>>) :
    /\ r # Untouched(mem)
    /\ Settle(r)
    /\ IF r.told THEN stored' = mem' /\ alarm' = NextWake(mem') ELSE UNCHANGED <<stored, alarm>>
    /\ UNCHANGED clocks

\* handleJoin, into a running game: the engine seats a new player, one more action in its log and
\* nothing else to the clocks.  The result is stored as it is: no pruning, no alarm.
LateJoin ==
  /\ mem.lifecycle = "active"
  /\ mem' = [mem EXCEPT !.log = Logged(mem)]
  /\ stored' = [stored EXCEPT !.game = mem.game, !.log = mem'.log, !.lifecycle = mem.lifecycle]
  /\ UNCHANGED <<clocks, alarm, owed, setPaused>>

\* handleSetPause
Frozen(e) == [e EXCEPT !.remaining = e.left]
\* As Thawed, but the deadline stays where it was.
ThawedInPlace(e) == [e EXCEPT !.remaining = None]
Thawed(e) == IF e.remaining = None THEN e ELSE [e EXCEPT !.left = e.remaining, !.remaining = None]
SetPause ==
  /\ mem' = [mem EXCEPT !.paused = ~@,
                        !.book = [i \in DOMAIN @ |-> IF mem.paused THEN Thawed(@[i])
                                                                  ELSE Frozen(@[i])]]
  /\ stored' = [stored EXCEPT !.paused = mem'.paused, !.book = mem'.book,
                              !.lifecycle = mem'.lifecycle]
  /\ alarm' = NextWake(mem')
  /\ UNCHANGED <<clocks, owed, setPaused>>

\* handleExpireTimer: walk the book by deadline until an expiry is narrated.  What is left
\* without a narration is only taken out of the stored book; the alarm stays as it was.
ByDeadline(book) ==
  {walk \in SetToSeqs({book[i] : i \in DOMAIN book}) :
     \A i, j \in DOMAIN walk : i < j => walk[i].left <= walk[j].left}
Forced(r, e) ==
  IF r.told THEN {r}
  ELSE Applied([r EXCEPT !.m.book = Without(@, {e.kind})], timerExpiryAction[e.kind])
Walked(m, walk) ==
  LET after[n \in 0 .. Len(walk)] ==
        IF n = 0 THEN {Untouched(m)} ELSE UNION {Forced(r, walk[n]) : r \in after[n - 1]}
  IN  after[Len(walk)]
Skip ==
  /\ mem.book # <<>>
  /\ \E walk \in ByDeadline(mem.book) :
       \E r \in Walked(mem, walk) :
         /\ Settle(r)
         /\ IF r.told
              THEN stored' = mem' /\ alarm' = NextWake(mem')
              ELSE stored' = [stored EXCEPT !.book = mem'.book] /\ UNCHANGED alarm
  /\ UNCHANGED clocks

\* onAlarm: every entry that is due is taken out and its action dispatched, in one batch.
DueKinds ==
  IF mem.paused THEN <<>>
  ELSE LET late == {i \in DOMAIN mem.book : mem.book[i].left = 0}
           due == Only(mem.book, {mem.book[i].kind : i \in late})
       IN  [i \in DOMAIN due |-> due[i].kind]
OnAlarm ==
  /\ \E r \in Batch([mem EXCEPT !.book = Without(@, Range(DueKinds))],
                    [i \in DOMAIN DueKinds |-> timerExpiryAction[DueKinds[i]]]) :
       /\ Settle(r)
       /\ stored' = IF r.told THEN mem' ELSE [stored EXCEPT !.book = mem'.book]
  /\ alarm' = NextWake(mem')
  /\ UNCHANGED clocks
Ring == alarm = 0 /\ OnAlarm
\* The alarm rings early: for a succession, held presses, an empty or an idle room.
OtherWake == alarm # 0 /\ OnAlarm

\* handleUpdateGameRules: of the timers, the buzz window may be put in or taken out.
UpdateRules ==
  /\ clocks' = IF "buzz-window" \in clocks THEN clocks \ {"buzz-window"}
               ELSE clocks \cup {"buzz-window"}
  /\ UNCHANGED <<mem, stored, alarm, owed, setPaused>>

\* As CloseRoom, but nothing is stored.
CloseInMemory ==
  /\ mem.lifecycle # "ended"
  /\ mem' = [mem EXCEPT !.lifecycle = "ended"]
  /\ UNCHANGED <<stored, clocks, alarm, owed, setPaused>>
\* closeRoom stores the metadata alone.
CloseRoom ==
  /\ mem.lifecycle # "ended"
  /\ mem' = [mem EXCEPT !.lifecycle = "ended"]
  /\ stored' = [stored EXCEPT !.lifecycle = "ended"]
  /\ UNCHANGED <<clocks, alarm, owed, setPaused>>

\* The instance hibernates, or is evicted, between two messages; load reads storage.
Evict ==
  /\ mem # stored
  /\ mem' = stored
  /\ UNCHANGED <<stored, clocks, alarm, owed, setPaused>>

Less(n) == IF n \in {0, None} THEN n ELSE n - 1
Later(book) == [i \in DOMAIN book |-> [book[i] EXCEPT !.left = Less(@)]]
Tick ==
  /\ mem' = [mem EXCEPT !.book = Later(@)]
  /\ stored' = [stored EXCEPT !.book = Later(@)]
  /\ alarm' = Less(alarm)
  /\ owed' = IF mem.paused THEN owed ELSE [k \in Kind |-> Less(owed[k])]
  /\ UNCHANGED <<clocks, setPaused>>

-----------------------------------------------------------------------------

NewRoom == [game |-> NewGame, log |-> <<>>, book |-> <<>>, paused |-> FALSE,
            lifecycle |-> "lobby"]
Init ==
  /\ mem = NewRoom /\ stored = NewRoom
  /\ clocks \in {{}, Setting}
  /\ alarm = None
  /\ owed = [k \in Kind |-> 0]
  /\ setPaused = {}

Next ==
  \/ \E type \in Type \cup {"undo"} : Act(type)
  \/ LateJoin \/ SetPause \/ Skip \/ Ring \/ OtherWake \/ UpdateRules \/ CloseRoom \/ Evict \/ Tick

Spec == Init /\ [][Next]_vars
\* An alarm that is due is run (the platform runs it at least once).
FairSpec == Spec /\ WF_vars(Ring)

-----------------------------------------------------------------------------
(* Properties. *)

Memory ==
  [game : Engine, log : Seq(Engine), paused : BOOLEAN,
   lifecycle : {"lobby", "active", "ended"},
   book : Seq([kind : Kind, left : Nat, remaining : Nat \cup {None}])]
TypeOK ==
  /\ mem \in Memory /\ stored \in Memory
  /\ clocks \subseteq Setting /\ alarm \in Nat \cup {None}
  /\ owed \in [Kind -> Nat] /\ setPaused \subseteq Kind
  /\ \A m \in {mem, stored} : Cardinality(Kinds(m.book)) = Len(m.book)

\* No deadline is slept through: in a room that is not paused the runtime alarm rings no later
\* than any entry of the book, whatever was skipped, undone, resumed or evicted before
\* (rescheduleAlarm after every change of the book, nextWakeAt).
AlarmCoversBook ==
  ~mem.paused => \A i \in DOMAIN mem.book : alarm # None /\ alarm <= mem.book[i].left

\* A pause holds every timer that was running: over any number of pauses, evictions and
\* resumes a timer that was set while the room ran has exactly the unpaused time left that it
\* is owed (handleSetPause).
Left(e) == IF mem.paused THEN e.remaining ELSE e.left
PauseHoldsRunningTimers ==
  \A i \in DOMAIN mem.book :
    mem.book[i].kind \notin setPaused => Left(mem.book[i]) = owed[mem.book[i].kind]

\* "Every running timer keeps the time it had left and resumes with it, so a break never
\* expires the clue somebody was mid-answer on" (docs/design/user-flows.md:85).  A timer that
\* is set during the break does not: a press relayed while the room is paused starts one.
BreakExpiresNothing ==
  ~mem.paused => \A i \in DOMAIN mem.book : mem.book[i].left = owed[mem.book[i].kind]

\* An eviction forgets nothing that was narrated: book, pause, lifecycle and phase come back as
\* they were; lost is only the round clock's latch, or the last miss of a tiebreaker clue, the
\* two actions that the engine accepts without an event.
TiebreakerClue == {"tiebreaker-reading", "tiebreaker-armed", "tiebreaker-answering"}
EvictionForgetsOnlySilence ==
  [][Evict => /\ mem'.book = mem.book /\ mem'.paused = mem.paused
              /\ mem'.lifecycle = mem.lifecycle
              /\ \/ mem'.game.phase = mem.game.phase
                 \/ {mem'.game.phase, mem.game.phase} \subseteq TiebreakerClue]_vars

\* A clock the present phase waits for leaves the book only by ringing, never in a pause, or
\* because the host skips the wait: no pruning, undo or eviction takes it away.
ClocksLeaveByRinging ==
  [][\A i \in DOMAIN mem.book :
       LET e == mem.book[i]
       IN  (e.kind \notin Kinds(mem'.book) /\ e.kind \in timersByPhase[mem'.game.phase])
             => Skip \/ (~mem.paused /\ e.left = 0)]_vars

\* The room's lifecycle keeps up with the game through undo and eviction: teams are edited in
\* the lobby only (teamEditsAllowed), so the room must not think itself in the lobby while a
\* game runs; and a game that is over has ended the room.
LifecycleKeepsUp ==
  /\ mem.lifecycle = "lobby" => mem.game.phase = "lobby"
  /\ mem.game.phase = "game-over" => mem.lifecycle = "ended"

\* Every overdue timer is acted on: all that are due are dispatched, or the host skips, pauses,
\* sets them again or moves on - no order of skips, resumes and evictions leaves a room asleep on a
\* clock that has run out.
Overdue ==
  ~mem.paused /\ \E i \in DOMAIN mem.book : mem.book[i].left = 0
EveryTimerRings == Overdue ~> ~Overdue

=============================================================================
