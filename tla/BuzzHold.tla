------------------------------ MODULE BuzzHold -----------------------------
(***************************************************************************)
(* Buzz latency compensation: while an arming is open the room holds the   *)
(* presses, ranks them by credited reaction time, and hands them to the    *)
(* engine when the deadline fires or before any other action               *)
(* (apps/realtime/src/game-room-do.ts, room/arm-window.ts, and             *)
(* packages/protocol/src/room/buzz-fairness.ts).                           *)
(*                                                                         *)
(* A handler of the room runs to its end before the next one starts, with  *)
(* one exception: the registry write that ends applyEngineActions is an    *)
(* await on another service, during which messages are delivered.  Of the  *)
(* engine only what the race needs is kept: every player is an entity of   *)
(* its own, and a clue is dead, open, held or over (GameEngine has the     *)
(* rest).  Phones are honest; networks delay messages at will but keep     *)
(* each phone's in order.                                                  *)
(***************************************************************************)
EXTENDS Integers, Sequences, FiniteSets

CONSTANTS
  Player,        \* phones with a seat
  Wired,         \* phones that acknowledge an arming and time their press
  None,
  Cap,           \* limits.buzz.maxCompensationMs
  Window,        \* settings.buzzing.compensationWindowMs, 0 when compensation is off
  SampleMax,     \* limits.buzz.roundTripSampleMaxMs
  Lockout,       \* settings.buzzing.earlyBuzzLockoutMs
  Horizon,       \* bound: the clock stops here
  ArmBound,      \* bound: armings of the game
  PressBound     \* bound: presses of the game

ASSUME ClockAssumption == /\ Cap \in Nat /\ Window \in Nat /\ SampleMax \in Nat
                          /\ Lockout \in Nat /\ Horizon \in Nat
ASSUME BoundAssumption == ArmBound \in Nat /\ PressBound \in Nat
ASSUME PhoneAssumption == Wired \subseteq Player /\ None \notin Nat /\ None \notin Player

VARIABLES
  now,           \* the room's clock
  stage,         \* the engine's phase: between clues, reading, armed or answering
  winner,        \* clue.buzzWinner
  lockedOut,     \* clue.lockedOutEntities
  lockedUntil,   \* clue.earlyLockedUntil, 0 when absent
  window,        \* room.armWindow; its adjudicateAt is also schedule.buzzAdjudicateAt
  stored,        \* the arm window as storage holds it
  feed,          \* presses being handed to the engine, one after the other
  job,           \* the running handler: what follows its feed
  parked,        \* the action of a handler that awaits the registry, or None
  uplink,        \* uplink[p]: messages of p on their way, oldest first
  seen,          \* seen[p]: the last arming p has heard of, and when it painted it
  pressed,       \* presses so far
  ruling         \* history: how the buzz that is being answered was won

engineVars == <<stage, winner, lockedOut, lockedUntil>>
phoneVars == <<uplink, seen, pressed>>
roomVars == <<window, stored, feed, job, parked>>
vars == <<now, engineVars, roomVars, phoneVars, ruling>>

Stages == {"between", "reading", "armed", "answering"}
Time == Nat
Press == [player : Player, arrivalAt : Time, claim : Nat \cup {None}, sequence : Nat]
ArmWindow == [armId : Nat, armedAt : Time, roundTrips : [Player -> Nat \cup {None}],
              pending : Seq(Press), adjudicateAt : Time \cup {None}]
\* What a handler goes on to do once the held presses are resolved: a relayed press, a host
\* action, or nothing when the deadline woke the room.
HostActions == {"arm-buzzers", "buzz-timeout", "correct", "wrong", "no-penalty",
                "select-cell", "score-adjust"}
Act == [type : HostActions \cup {"none"}, player : {None}, at : {0}]
         \cup [type : {"buzz"}, player : Player, at : Time]
Do(type) == [type |-> type, player |-> None, at |-> 0]
\* accepted: the feed has emitted events; lead: the best credit among the presses fed.
Job == [feeding : BOOLEAN, act : Act, accepted : BOOLEAN, lead : Nat]
Idle == [feeding |-> FALSE, act |-> Do("none"), accepted |-> FALSE, lead |-> 0]
Message == [type : {"ack", "press"}, armId : Nat, elapsed : Nat]
\* How the buzz was won: its credit, at the deadline or not, and ranked first or not.
Ruling == [credit : Nat, onTime : BOOLEAN, first : BOOLEAN]
NoRuling == [credit |-> 0, onTime |-> FALSE, first |-> FALSE]

-----------------------------------------------------------------------------
(* The ordering arithmetic (buzz-fairness.ts). *)

Lesser(a, b) == IF a <= b THEN a ELSE b
Greater(a, b) == IF a >= b THEN a ELSE b

\* An unmeasured connection is credited nothing.
Allowance(roundTrip) == IF roundTrip = None THEN 0 ELSE Lesser(roundTrip, Cap)

\* creditedReactionMs.  A faulty variant: the network is not given back.
ByArrival(observed, claim, roundTrip) == observed
CreditedReaction(observed, claim, roundTrip) ==
  Lesser(Greater(IF claim = None THEN 0 ELSE claim, observed - Allowance(roundTrip)), observed)

\* adjudicationDeadlineMs.  A faulty variant closes on the leader's own reaction.
DeadlineAtLeader(best) == best
AdjudicationDeadline(best) == best + Cap

-----------------------------------------------------------------------------
(* The arm window (arm-window.ts). *)

NoTrips == [p \in Player |-> None]
OpenArmWindow(armId) ==
  [armId |-> armId, armedAt |-> now, roundTrips |-> NoTrips, pending |-> <<>>,
   adjudicateAt |-> None]

Observed(w, t) == Greater(t - w.armedAt, 0)
Credit(w, x) == CreditedReaction(Observed(w, x.arrivalAt), x.claim, w.roundTrips[x.player])
Held(w) == {w.pending[i] : i \in DOMAIN w.pending}

\* orderBuzzesByFairness: credited reaction, then arrival.
RankedBefore(w, x, y) ==
  \/ Credit(w, x) < Credit(w, y)
  \/ Credit(w, x) = Credit(w, y) /\ x.sequence < y.sequence
\* The press time an adjudicated buzz is stamped with.
StampedAt(w, x) == Lesser(w.armedAt + Credit(w, x), x.arrivalAt)

\* recordRoundTrip: the first acknowledgement counts, an absurd sample does not.
RecordRoundTrip(w, p) ==
  LET sample == now - w.armedAt
  IN  IF w.roundTrips[p] = None /\ 0 <= sample /\ sample <= SampleMax
        THEN [w EXCEPT !.roundTrips[p] = sample] ELSE w

BestCredit(w) == CHOOSE c \in {Credit(w, x) : x \in Held(w)} :
                   \A x \in Held(w) : c <= Credit(w, x)

\* queueBuzz: hold the press and recompute when to stop waiting.
\* A faulty variant keeps the deadline the pen had, which is none for its first press.
QueueWithoutDeadline(w, x) == [w EXCEPT !.pending = Append(@, x)]
QueueBuzz(w, x) ==
  LET held == [w EXCEPT !.pending = Append(@, x)]
      byFairness == w.armedAt + AdjudicationDeadline(BestCredit(held))
      byWindow == held.pending[1].arrivalAt + Window
      deadline == Lesser(byFairness, byWindow)
  IN  [held EXCEPT !.adjudicateAt =
         IF w.adjudicateAt = None THEN deadline ELSE Lesser(w.adjudicateAt, deadline)]

Emptied(w) == [w EXCEPT !.pending = <<>>, !.adjudicateAt = None]

-----------------------------------------------------------------------------
(* The phones and the network. *)

Send(p, message) == uplink' = [uplink EXCEPT ![p] = Append(@, message)]

\* The arm-window broadcast reaches p, any time later; a wired phone acknowledges at once.
HearArming(p) ==
  /\ ~job.feeding
  /\ seen[p].armId < window.armId
  /\ seen' = [seen EXCEPT ![p] = [armId |-> window.armId, paintedAt |-> None]]
  /\ IF p \in Wired
       THEN Send(p, [type |-> "ack", armId |-> window.armId, elapsed |-> 0])
       ELSE UNCHANGED uplink
  /\ UNCHANGED <<now, engineVars, roomVars, pressed, ruling>>

\* markArmedPainted: the first time the hot button is on the screen.
Paint(p) ==
  /\ ~job.feeding
  /\ p \in Wired /\ seen[p].armId # 0 /\ seen[p].paintedAt = None
  /\ seen' = [seen EXCEPT ![p].paintedAt = now]
  /\ UNCHANGED <<now, engineVars, roomVars, uplink, pressed, ruling>>

\* A thumb, at any time; a phone that has painted its arming says how long after that was.
PressButton(p) ==
  /\ ~job.feeding
  /\ pressed < PressBound
  /\ pressed' = pressed + 1
  /\ Send(p, IF seen[p].paintedAt # None
               THEN [type |-> "press", armId |-> seen[p].armId,
                     elapsed |-> now - seen[p].paintedAt]
               ELSE [type |-> "press", armId |-> 0, elapsed |-> 0])
  /\ UNCHANGED <<now, engineVars, roomVars, seen, ruling>>

Tick ==
  /\ ~job.feeding
  /\ now < Horizon
  /\ now' = now + 1
  /\ UNCHANGED <<engineVars, roomVars, phoneVars, ruling>>

-----------------------------------------------------------------------------
(* The engine's side of the race (transitions/buzzing.ts, judging.ts). *)

\* The press of p is refused without a trace.  A faulty variant forgets who has missed.
RefusedUnlessOpen(p) ==
  stage \in {"between", "answering"} \/ (stage = "reading" /\ Lockout = 0)
Refused(p) ==
  \/ stage = "between" \/ stage = "answering"
  \/ stage = "reading" /\ Lockout = 0
  \/ stage = "armed" /\ p \in lockedOut
\* Made at time t, it starts or restarts the early-buzz lockout of p.
TooEarly(p, t) ==
  /\ ~Refused(p)
  /\ stage = "reading" \/ t < lockedUntil[p]

\* handleBuzz
EngineBuzz(p, t) ==
  \/ /\ Refused(p)
     /\ UNCHANGED engineVars
  \/ /\ TooEarly(p, t)
     /\ lockedUntil' = [lockedUntil EXCEPT ![p] = t + Lockout]
     /\ UNCHANGED <<stage, winner, lockedOut>>
  \/ /\ ~Refused(p) /\ ~TooEarly(p, t)
     /\ stage' = "answering"
     /\ winner' = p
     /\ UNCHANGED <<lockedOut, lockedUntil>>

\* buzzers-armed, out of reading or after a miss: a fresh window.
Armed ==
  /\ stage' = "armed" /\ winner' = None
  /\ window' = OpenArmWindow(window.armId + 1)
  /\ stored' = window'

Misses(barred) ==
  /\ lockedOut' = barred
  /\ IF Player \ barred # {}
       THEN Armed
       ELSE stage' = "between" /\ winner' = None /\ stored' = window /\ UNCHANGED window

\* The action of the handler reaches the engine; a rejected one changes nothing.
Accepts(act) ==
  CASE act.type = "arm-buzzers" -> stage = "reading"
    [] act.type = "buzz-timeout" -> stage = "armed"
    [] act.type \in {"correct", "wrong", "no-penalty"} -> stage = "answering"
    [] act.type = "select-cell" -> stage = "between"
    [] OTHER -> FALSE

Apply(act) ==
  /\ \/ /\ act.type = "buzz"
        /\ EngineBuzz(act.player, act.at)
        /\ stored' = IF Refused(act.player) THEN stored ELSE window
        /\ UNCHANGED window
     \/ /\ act.type = "score-adjust"
        /\ stored' = window
        /\ UNCHANGED <<engineVars, window>>
     \/ /\ act.type \notin {"buzz", "score-adjust"} /\ ~Accepts(act)
        /\ UNCHANGED <<engineVars, window, stored>>
     \/ /\ act.type = "arm-buzzers" /\ Accepts(act)
        /\ Armed
        /\ UNCHANGED <<lockedOut, lockedUntil>>
     \/ /\ act.type \in {"buzz-timeout", "correct"} /\ Accepts(act)
        /\ stage' = "between" /\ winner' = None /\ stored' = window
        /\ UNCHANGED <<lockedOut, lockedUntil, window>>
     \/ /\ act.type \in {"wrong", "no-penalty"} /\ Accepts(act)
        /\ Misses(IF act.type = "wrong" THEN lockedOut \cup {winner} ELSE lockedOut)
        /\ UNCHANGED lockedUntil
     \/ /\ act.type = "select-cell" /\ Accepts(act)
        /\ stage' = "reading" /\ stored' = window
        /\ lockedOut' = {} /\ lockedUntil' = [p \in Player |-> 0]
        /\ UNCHANGED <<winner, window>>
  /\ ruling' = IF stage = "answering" /\ stage' = "answering" THEN ruling ELSE NoRuling

-----------------------------------------------------------------------------
(* The room's handlers (game-room-do.ts). *)

HoldingOpen == Window > 0 /\ stage = "armed"
Arrives(p, type) == ~job.feeding /\ uplink[p] # <<>> /\ Head(uplink[p]).type = type
Consume(p) == uplink' = [uplink EXCEPT ![p] = Tail(@)]

\* handleArmAck: not persisted; an acknowledgement of an earlier arming proves nothing.
HearAck(p) ==
  /\ Arrives(p, "ack")
  /\ window' = IF Head(uplink[p]).armId = window.armId THEN RecordRoundTrip(window, p)
               ELSE window
  /\ Consume(p)
  /\ UNCHANGED <<now, engineVars, stored, feed, job, parked, seen, pressed, ruling>>

\* holdBuzz: a claim about another arming is dropped.
HoldBuzz(p) ==
  /\ Arrives(p, "press") /\ HoldingOpen
  /\ now + Window <= Horizon
  /\ LET message == Head(uplink[p])
     IN  window' = QueueBuzz(window,
           [player |-> p, arrivalAt |-> now, sequence |-> Len(window.pending),
            claim |-> IF message.armId = window.armId THEN message.elapsed ELSE None])
  /\ stored' = window'
  /\ Consume(p)
  /\ UNCHANGED <<now, engineVars, feed, job, parked, seen, pressed, ruling>>

\* flushArmWindow, then the handler's own action.  The pen is emptied and stored empty
\* before the engine hears of the presses.
\* A faulty variant lets the action overtake the held presses.
ActFirst(act) ==
  /\ ~job.feeding
  /\ Apply(act)
  /\ UNCHANGED <<feed, job>>
FlushThen(act) ==
  /\ ~job.feeding
  /\ \/ /\ window.pending = <<>>
        /\ Apply(act)
        /\ UNCHANGED <<feed, job>>
     \/ /\ window.pending # <<>>
        /\ feed' = Held(window)
        /\ window' = Emptied(window)
        /\ stored' = window'
        /\ job' = [feeding |-> TRUE, act |-> act, accepted |-> FALSE,
                   lead |-> BestCredit(window)]
        /\ UNCHANGED <<engineVars, ruling>>

\* The loop of applyEngineActions over the ranked presses.
FeedEngine ==
  /\ job.feeding
  /\ \E x \in feed :
       /\ \A y \in feed : x = y \/ RankedBefore(window, x, y)
       /\ EngineBuzz(x.player, StampedAt(window, x))
       /\ feed' = feed \ {x}
       /\ job' = [job EXCEPT !.accepted = @ \/ ~Refused(x.player)]
       /\ ruling' = IF stage' = "answering" /\ stage # "answering"
                      THEN [credit |-> Credit(window, x), onTime |-> job.act.type = "none",
                            first |-> Credit(window, x) = job.lead]
                      ELSE ruling
  /\ UNCHANGED <<now, window, stored, parked, phoneVars>>

\* The presses are resolved: the action goes on at once, or the registry write that ends an
\* accepted batch makes the handler wait.  Registry writes are throttled, so one waits at
\* most.
FinishFlush ==
  /\ job.feeding /\ feed = {}
  /\ job' = Idle
  /\ \/ /\ Apply(job.act)
        /\ UNCHANGED parked
     \/ /\ job.accepted /\ parked = None
        /\ parked' = job.act
        /\ UNCHANGED <<engineVars, window, stored, ruling>>
  /\ UNCHANGED <<now, feed, phoneVars>>

\* The registry has answered: the handler goes on with the action it had read before.
Resume ==
  /\ ~job.feeding /\ parked # None
  /\ Apply(parked)
  /\ parked' = None
  /\ UNCHANGED <<now, feed, job, phoneVars>>

\* handleAction with a buzz that is not held: dead buzzers, or compensation off.
RelayBuzz(p) ==
  /\ Arrives(p, "press") /\ ~HoldingOpen
  /\ FlushThen([type |-> "buzz", player |-> p, at |-> now])
  /\ Consume(p)
  /\ UNCHANGED <<now, parked, seen, pressed>>

\* handleAction, handleExpireTimer or a due engine timer: any other action, any time.  One the
\* engine rejects is also an alarm that rings for something else.
Request(type) ==
  /\ type \in {"arm-buzzers", "wrong", "no-penalty"} => window.armId < ArmBound
  /\ FlushThen(Do(type))
  /\ UNCHANGED <<now, parked, phoneVars>>

\* onAlarm, at the buzz deadline or later.
AlarmRings ==
  /\ window.adjudicateAt # None /\ window.adjudicateAt <= now
  /\ FlushThen(Do("none"))
  /\ UNCHANGED <<now, parked, phoneVars>>

\* Hibernation between two messages: memory is what storage holds.
Evict ==
  /\ ~job.feeding /\ parked = None
  /\ window' = stored
  /\ UNCHANGED <<now, engineVars, stored, feed, job, parked, phoneVars, ruling>>

-----------------------------------------------------------------------------

Init ==
  /\ now = 0
  /\ stage = "between" /\ winner = None
  /\ lockedOut = {} /\ lockedUntil = [p \in Player |-> 0]
  /\ window = OpenArmWindow(0) /\ stored = window      \* no arming yet
  /\ feed = {} /\ job = Idle /\ parked = None
  /\ uplink = [p \in Player |-> <<>>]
  /\ seen = [p \in Player |-> [armId |-> 0, paintedAt |-> None]]
  /\ pressed = 0
  /\ ruling = NoRuling

Next ==
  \/ Tick
  \/ \E p \in Player : HearArming(p)
  \/ \E p \in Player : Paint(p)
  \/ \E p \in Player : PressButton(p)
  \/ \E p \in Player : HearAck(p)
  \/ \E p \in Player : HoldBuzz(p)
  \/ \E p \in Player : RelayBuzz(p)
  \/ \E type \in HostActions : Request(type)
  \/ AlarmRings
  \/ FeedEngine
  \/ FinishFlush
  \/ Resume
  \/ Evict

Spec == Init /\ [][Next]_vars

\* Time passes, an alarm set is eventually run, a handler runs on.
Fairness == /\ WF_vars(Tick) /\ WF_vars(AlarmRings)
            /\ WF_vars(FeedEngine) /\ WF_vars(FinishFlush) /\ WF_vars(Resume)
FairSpec == Spec /\ Fairness

-----------------------------------------------------------------------------
(* Properties. *)

TypeOK ==
  /\ now \in Time
  /\ stage \in Stages /\ winner \in Player \cup {None}
  /\ lockedOut \subseteq Player /\ lockedUntil \in [Player -> Time]
  /\ window \in ArmWindow /\ stored \in ArmWindow
  /\ feed \subseteq Press /\ job \in Job /\ parked \in Act \cup {None}
  /\ uplink \in [Player -> Seq(Message)]
  /\ seen \in [Player -> [armId : Nat, paintedAt : Time \cup {None}]]
  /\ pressed \in Nat
  /\ ruling \in Ruling

\* "The clamp is the entire security argument": whatever the network did, of two held presses
\* whose connections took the same time for the acknowledgement and for the press, and no
\* longer than the cap, the one with the shorter reaction is handed to the engine first.
Steady(w, x) == /\ x.claim # None /\ w.roundTrips[x.player] # None
                /\ w.roundTrips[x.player] = Observed(w, x.arrivalAt) - x.claim
                /\ w.roundTrips[x.player] <= Cap
FastestThumbFirst ==
  \A x, y \in Held(window) \cup feed :
    Steady(window, x) /\ Steady(window, y) /\ RankedBefore(window, x, y)
      => x.claim <= y.claim

\* What a press on its way would be credited if it arrived now.
CreditOnArrival(p, message) ==
  CreditedReaction(Observed(window, now),
                   IF message.armId = window.armId THEN message.elapsed ELSE None,
                   window.roundTrips[p])
PressesOnTheWay(p) ==
  {uplink[p][i] : i \in {j \in DOMAIN uplink[p] : uplink[p][j].type = "press"}}

\* "No later arrival could still win" (adjudicationDeadlineMs): when the deadline crowns the
\* press ranked first and the window is not below the cap, no press on its way would have
\* been ranked ahead of it.
RaceWasDecided ==
  /\ Cap <= Window /\ stage = "answering"
  /\ ruling.onTime /\ ruling.first
  => \A p \in Player : \A message \in PressesOnTheWay(p) :
       ruling.credit <= CreditOnArrival(p, message)

\* "A buzz is the one frame in this product that must never be dropped" (arm-window.ts): a
\* held press leaves the pen only for the engine, whatever arms, closes or is evicted.
HeldUntilFed ==
  [][\A x \in Held(window) : x \in Held(window)' \cup feed']_vars

\* A pen with a press in it has a deadline no later than the host's window after its first
\* press, and both survive an eviction.
PenHasDeadline ==
  /\ window.adjudicateAt = None <=> window.pending = <<>>
  /\ window.pending # <<>> => window.adjudicateAt <= window.pending[1].arrivalAt + Window
  /\ stored.pending = window.pending /\ stored.adjudicateAt = window.adjudicateAt

\* Every held press is ruled on: the pen is emptied again and again.
EveryPressIsRuledOn == window.pending # <<>> ~> window.pending = <<>>

\* "A host's no takers or an expiring buzz-window timer must never resolve a clue whose
\* presses are still in the holding pen" (flushArmWindow).
NoTakersIsTrue ==
  [][stage = "armed" /\ stage' = "between" => window.pending = <<>>]_vars

\* However the room reorders presses, the race it runs is the abstract one.
raceStage == CASE stage = "between" -> "off" [] stage = "reading" -> "dead"
               [] stage = "armed" -> "open" [] OTHER -> "held"
raceBarred == IF stage = "between" THEN {} ELSE lockedOut
Race == INSTANCE BuzzRace WITH Entity <- Player, stage <- raceStage, holder <- winner,
                               barred <- raceBarred
KeepsTheRace == Race!Spec

=============================================================================
