-------------------------- MODULE BuzzHold_proofs --------------------------
(***************************************************************************)
(* Proofs about BuzzHold for any number of phones, any cap, window,        *)
(* lockout and network, and any length of game.                            *)
(***************************************************************************)
EXTENDS BuzzHold, TLAPS, WellFoundedInduction

-----------------------------------------------------------------------------
(* The ordering arithmetic. *)

\* The credited reaction never exceeds what the room observed, and the network is given back
\* up to the cap and no further (creditedReactionMs).
LEMMA CreditBounds ==
  ASSUME NEW observed \in Nat, NEW claim \in Nat \cup {None}, NEW rt \in Nat \cup {None}
  PROVE  /\ CreditedReaction(observed, claim, rt) \in Nat
         /\ CreditedReaction(observed, claim, rt) <= observed
         /\ observed - Cap <= CreditedReaction(observed, claim, rt)
<1>1. Allowance(rt) \in Nat /\ Allowance(rt) <= Cap
  BY ClockAssumption, PhoneAssumption DEF Allowance, Lesser
<1> QED
  BY <1>1, ClockAssumption, PhoneAssumption DEF CreditedReaction, Lesser, Greater

\* A round trip measured later can only lower the credit of a press already held.
LEMMA MeasuringLowers ==
  ASSUME NEW observed \in Nat, NEW claim \in Nat \cup {None}, NEW rt \in Nat
  PROVE  CreditedReaction(observed, claim, rt) <= CreditedReaction(observed, claim, None)
<1>1. Allowance(rt) \in Nat /\ Allowance(None) = 0
  BY ClockAssumption, PhoneAssumption DEF Allowance, Lesser
<1> QED
  BY <1>1, ClockAssumption, PhoneAssumption DEF CreditedReaction, Lesser, Greater

\* A connection that is as slow for the press as for the acknowledgement is credited the
\* reaction its phone measured.
LEMMA SteadyIsExact ==
  ASSUME NEW observed \in Nat, NEW claim \in Nat, NEW rt \in Nat,
         rt = observed - claim, rt <= Cap
  PROVE  CreditedReaction(observed, claim, rt) = claim
BY ClockAssumption, PhoneAssumption DEF CreditedReaction, Allowance, Lesser, Greater

\* What a held press is credited.
LEMMA CreditType ==
  ASSUME NEW w \in ArmWindow, NEW x \in Press
  PROVE  /\ Observed(w, x.arrivalAt) \in Nat
         /\ Credit(w, x) \in Nat
         /\ Credit(w, x) <= Observed(w, x.arrivalAt)
<1>1. Observed(w, x.arrivalAt) \in Nat
  BY DEF Observed, Greater, ArmWindow, Press, Time
<1>2. x.claim \in Nat \cup {None} /\ w.roundTrips[x.player] \in Nat \cup {None}
  BY DEF ArmWindow, Press
<1> QED
  BY <1>1, <1>2, CreditBounds DEF Credit

\* What the pen holds are presses.
LEMMA HeldArePresses ==
  ASSUME NEW w \in ArmWindow
  PROVE  Held(w) \subseteq Press
BY DEF Held, ArmWindow

\* The press that opened the pen is one of those it holds.
LEMMA FirstIsHeld ==
  ASSUME NEW w \in ArmWindow, w.pending # <<>>
  PROVE  w.pending[1] \in Held(w)
<1>1. w.pending \in Seq(Press)
  BY DEF ArmWindow
<1>2. 1 \in DOMAIN w.pending
  BY <1>1
<1> QED
  BY <1>2 DEF Held

\* A non-empty set of naturals has a least member.
LEMMA LeastNat ==
  ASSUME NEW S \in SUBSET Nat, S # {}
  PROVE  \E i \in S : \A j \in S : i <= j
<1> DEFINE Below == {ss \in Nat \X Nat : ss[1] < ss[2]}
<1>1. IsWellFoundedOn(Below, Nat)
  BY NatLessThanWellFounded, Zenon DEF OpToRel
<1>2. PICK c \in S : \A d \in S : <<d, c>> \notin Below
  <2> HIDE DEF Below
  <2> QED BY <1>1, WFMin, Zenon
<1> SUFFICES ASSUME NEW d \in S PROVE c <= d
  OBVIOUS
<1>3. <<d, c>> \in Nat \X Nat /\ <<d, c>>[1] = d /\ <<d, c>>[2] = c
  OBVIOUS
<1>4. ~(<<d, c>>[1] < <<d, c>>[2])
  BY <1>2, <1>3, Zenon
<1> QED
  BY <1>3, <1>4

\* A pen with a press in it has a best credit, which is the credit of a press it holds.
LEMMA BestIsLeast ==
  ASSUME NEW w \in ArmWindow, w.pending # <<>>
  PROVE  /\ BestCredit(w) \in Nat
         /\ \E x \in Held(w) : BestCredit(w) = Credit(w, x)
         /\ \A x \in Held(w) : BestCredit(w) <= Credit(w, x)
<1> DEFINE S == {Credit(w, x) : x \in Held(w)}
<1>1. S \subseteq Nat
  BY HeldArePresses, CreditType
<1>2. S # {}
  BY FirstIsHeld
<1>3. \E i \in S : \A j \in S : i <= j
  <2> HIDE DEF S
  <2> QED BY <1>1, <1>2, LeastNat
<1>4. \E c \in S : \A x \in Held(w) : c <= Credit(w, x)
  BY <1>3
<1>5. BestCredit(w) \in S /\ \A x \in Held(w) : BestCredit(w) <= Credit(w, x)
  BY <1>4 DEF BestCredit
<1> QED
  BY <1>1, <1>5

-----------------------------------------------------------------------------
(* The pen. *)

\* The deadline is no later than the host's window after the first press.
Dated(w) ==
  /\ w.adjudicateAt = None <=> w.pending = <<>>
  /\ w.pending # <<>> => w.adjudicateAt <= w.pending[1].arrivalAt + Window

\* A held press arrived under this arming.
InThisArming(w) == \A x \in Held(w) : w.armedAt <= x.arrivalAt

\* The deadline gives some held press the whole cap.
Covered(w) ==
  w.pending # <<>> => \E x \in Held(w) : w.armedAt + Credit(w, x) + Cap <= w.adjudicateAt

GoodWindow(w) == Dated(w) /\ InThisArming(w) /\ (Cap <= Window => Covered(w))

\* Holding one more press.
LEMMA Queued ==
  ASSUME NEW w \in ArmWindow, NEW x \in Press, GoodWindow(w), w.armedAt <= x.arrivalAt
  PROVE  /\ QueueBuzz(w, x) \in ArmWindow
         /\ GoodWindow(QueueBuzz(w, x))
         /\ Held(w) \subseteq Held(QueueBuzz(w, x))
<1> DEFINE held == [w EXCEPT !.pending = Append(@, x)]
           byFairness == w.armedAt + AdjudicationDeadline(BestCredit(held))
           byWindow == held.pending[1].arrivalAt + Window
           deadline == Lesser(byFairness, byWindow)
           q == QueueBuzz(w, x)
<1>0. w.pending \in Seq(Press) /\ w.adjudicateAt \in Nat \cup {None} /\ w.armedAt \in Nat
  BY DEF ArmWindow, Time
<1>1. held \in ArmWindow /\ held.pending = Append(w.pending, x) /\ held.pending # <<>>
      /\ held.armedAt = w.armedAt /\ held.roundTrips = w.roundTrips
  <2>1. Append(w.pending, x) \in Seq(Press) /\ Append(w.pending, x) # <<>>
    BY <1>0
  <2>2. held.pending = Append(w.pending, x)
    BY DEF ArmWindow
  <2> QED
    BY <2>1, <2>2 DEF ArmWindow
<1>6. q = [held EXCEPT !.adjudicateAt =
             IF w.adjudicateAt = None THEN deadline ELSE Lesser(w.adjudicateAt, deadline)]
  BY DEF QueueBuzz
<1> HIDE DEF held, q
<1>2. Held(held) = Held(w) \cup {x}
  <2> DEFINE n == Len(w.pending)
  <2>1. /\ n \in Nat /\ DOMAIN w.pending = 1 .. n
        /\ DOMAIN held.pending = 1 .. (n + 1) /\ held.pending[n + 1] = x
        /\ \A i \in 1 .. n : held.pending[i] = w.pending[i]
    BY <1>0, <1>1
  <2> HIDE DEF n
  <2>2. Held(held) = {held.pending[i] : i \in 1 .. (n + 1)}
        /\ Held(w) = {w.pending[i] : i \in 1 .. n}
    BY <2>1, Zenon DEF Held
  <2>3. 1 .. (n + 1) = (1 .. n) \cup {n + 1}
    BY <2>1
  <2>4. {held.pending[i] : i \in 1 .. (n + 1)}
          = {held.pending[i] : i \in 1 .. n} \cup {held.pending[n + 1]}
    BY <2>3, SMT
  <2>5. {held.pending[i] : i \in 1 .. n} = {w.pending[i] : i \in 1 .. n}
    BY <2>1, Zenon
  <2> QED
    BY <2>1, <2>2, <2>4, <2>5, Zenon
<1>3. /\ BestCredit(held) \in Nat
      /\ \E y \in Held(held) : BestCredit(held) = Credit(held, y)
  BY <1>1, BestIsLeast
<1>4. held.pending[1] \in Press /\ held.pending[1] \in Held(held)
      /\ held.armedAt <= held.pending[1].arrivalAt
      /\ held.pending[1].arrivalAt \in Nat
  BY <1>1, <1>2, HeldArePresses, FirstIsHeld DEF GoodWindow, InThisArming, Press, Time
<1>5. byFairness \in Nat /\ byWindow \in Nat /\ deadline \in Nat
      /\ deadline <= byWindow /\ deadline \in {byFairness, byWindow}
  <2>1. BestCredit(held) + Cap \in Nat
    BY <1>3, ClockAssumption
  <2>2. byFairness \in Nat
    BY <2>1, <1>0 DEF AdjudicationDeadline
  <2>3. byWindow \in Nat
    BY <1>4, ClockAssumption
  <2> HIDE DEF byFairness, byWindow
  <2> QED
    BY <2>2, <2>3 DEF Lesser
<1> HIDE DEF deadline
<1>7. q.pending = held.pending /\ q.armedAt = w.armedAt /\ q.roundTrips = w.roundTrips
      /\ q.adjudicateAt = (IF w.adjudicateAt = None THEN deadline
                                                   ELSE Lesser(w.adjudicateAt, deadline))
  BY <1>1, <1>6, Zenon DEF ArmWindow
<1>8. q.adjudicateAt \in Nat /\ q.adjudicateAt <= deadline
      /\ q.adjudicateAt \in {w.adjudicateAt, deadline}
  BY <1>0, <1>5, <1>7 DEF Lesser
<1>9. q \in ArmWindow
  BY <1>1, <1>6, <1>7, <1>8 DEF ArmWindow, Time
<1>10. Held(q) = Held(held) /\ \A y \in Held(held) : Credit(q, y) = Credit(held, y)
  BY <1>1, <1>7 DEF Held, Credit, Observed
<1>11. Dated(q)
  BY <1>1, <1>4, <1>5, <1>7, <1>8, ClockAssumption, PhoneAssumption DEF Dated
<1>12. InThisArming(q)
  BY <1>2, <1>7, <1>10 DEF InThisArming, GoodWindow
<1>13. ASSUME Cap <= Window
       PROVE  \E y \in Held(q) : q.armedAt + Credit(q, y) + Cap <= q.adjudicateAt
  <2>1. CASE q.adjudicateAt = w.adjudicateAt
    <3>1. w.pending # <<>>
      BY <2>1, <1>8, PhoneAssumption DEF GoodWindow, Dated
    <3>2. PICK y \in Held(w) : w.armedAt + Credit(w, y) + Cap <= w.adjudicateAt
      BY <3>1, <1>13 DEF GoodWindow, Covered
    <3>3. Credit(held, y) = Credit(w, y)
      BY <1>1 DEF Credit, Observed
    <3> QED
      BY <3>2, <3>3, <2>1, <1>2, <1>7, <1>10
  <2>2. CASE q.adjudicateAt = deadline /\ deadline = byFairness
    <3>1. PICK y \in Held(held) : BestCredit(held) = Credit(held, y)
      BY <1>3
    <3>2. q.adjudicateAt = w.armedAt + (Credit(held, y) + Cap) /\ Credit(held, y) \in Nat
      BY <3>1, <2>2, <1>3 DEF AdjudicationDeadline
    <3> QED
      BY <3>2, <1>0, <1>7, <1>10, ClockAssumption
  <2>3. CASE q.adjudicateAt = deadline /\ deadline = byWindow
    <3> DEFINE y == held.pending[1]
    <3>1. Credit(held, y) \in Nat /\ Credit(held, y) <= Observed(held, y.arrivalAt)
      BY <1>1, <1>4, CreditType
    <3>2. Observed(held, y.arrivalAt) = y.arrivalAt - w.armedAt
      BY <1>0, <1>1, <1>4 DEF Observed, Greater
    <3>3. y \in Held(held) /\ y.arrivalAt \in Nat /\ byWindow = y.arrivalAt + Window
      BY <1>4
    <3> HIDE DEF y, byWindow
    <3>4. w.armedAt + Credit(held, y) <= y.arrivalAt
      BY <3>1, <3>2, <3>3, <1>0
    <3>5. w.armedAt + Credit(held, y) + Cap <= byWindow
      BY <3>1, <3>3, <3>4, <1>13, <1>0, ClockAssumption
    <3>6. y \in Held(q) /\ Credit(q, y) = Credit(held, y)
      BY <3>3, <1>10
    <3>7. q.armedAt + Credit(q, y) + Cap <= q.adjudicateAt
      BY <3>5, <3>6, <2>3, <1>7, Zenon
    <3> QED
      BY <3>6, <3>7
  <2> QED
    BY <2>1, <2>2, <2>3, <1>8, <1>5
<1>14. GoodWindow(q)
  BY <1>11, <1>12, <1>13 DEF GoodWindow, Covered
<1> QED
  BY <1>2, <1>9, <1>10, <1>14 DEF q

\* A sample recorded while presses are held.
LEMMA Measured ==
  ASSUME NEW w \in ArmWindow, NEW p \in Player, now \in Nat, GoodWindow(w)
  PROVE  /\ RecordRoundTrip(w, p) \in ArmWindow
         /\ GoodWindow(RecordRoundTrip(w, p))
         /\ RecordRoundTrip(w, p).pending = w.pending
         /\ RecordRoundTrip(w, p).armId = w.armId
         /\ RecordRoundTrip(w, p).armedAt = w.armedAt
         /\ RecordRoundTrip(w, p).adjudicateAt = w.adjudicateAt
<1> DEFINE sample == now - w.armedAt
           m == RecordRoundTrip(w, p)
<1>0. w.armedAt \in Nat /\ w.roundTrips \in [Player -> Nat \cup {None}]
      /\ w.adjudicateAt \in Nat \cup {None}
  BY DEF ArmWindow, Time
<1> HIDE DEF m
<1>1. CASE m = w
  BY <1>1 DEF m
<1>2. CASE m # w
  <2>1. /\ m = [w EXCEPT !.roundTrips[p] = sample]
        /\ w.roundTrips[p] = None /\ sample \in Nat
    BY <1>0, <1>2, ClockAssumption DEF RecordRoundTrip, m
  <2> HIDE DEF sample
  <2>2. /\ m \in ArmWindow /\ m.pending = w.pending /\ m.armedAt = w.armedAt
        /\ m.armId = w.armId /\ m.adjudicateAt = w.adjudicateAt
        /\ m.roundTrips = [w.roundTrips EXCEPT ![p] = sample]
    BY <2>1 DEF ArmWindow
  <2>3. Held(m) = Held(w)
    BY <2>2 DEF Held
  <2>4. ASSUME NEW x \in Held(w) PROVE Credit(m, x) <= Credit(w, x)
    <3>1. x \in Press
      BY <2>4, HeldArePresses
    <3>2. Observed(m, x.arrivalAt) = Observed(w, x.arrivalAt)
          /\ Observed(w, x.arrivalAt) \in Nat /\ Credit(w, x) \in Nat
          /\ x.claim \in Nat \cup {None} /\ x.player \in Player
      BY <3>1, <2>2, CreditType DEF Observed, Press
    <3>3. CASE x.player = p
      BY <3>2, <3>3, <2>1, <2>2, <1>0, MeasuringLowers DEF Credit
    <3>4. CASE x.player # p
      BY <3>2, <3>4, <2>2, <1>0 DEF Credit
    <3> QED
      BY <3>3, <3>4
  <2>5. ASSUME Cap <= Window PROVE Covered(m)
    <3> SUFFICES ASSUME w.pending # <<>>
                 PROVE  \E x \in Held(m) : m.armedAt + Credit(m, x) + Cap <= m.adjudicateAt
      BY <2>2 DEF Covered
    <3>1. PICK x \in Held(w) : w.armedAt + Credit(w, x) + Cap <= w.adjudicateAt
      BY <2>5 DEF GoodWindow, Covered
    <3>2. Credit(m, x) <= Credit(w, x) /\ Credit(m, x) \in Nat /\ Credit(w, x) \in Nat
          /\ w.adjudicateAt \in Nat
      BY <2>4, <2>2, HeldArePresses, CreditType, <1>0 DEF GoodWindow, Dated
    <3> QED
      BY <3>1, <3>2, <2>2, <2>3, <1>0, ClockAssumption
  <2>6. Dated(m) /\ InThisArming(m)
    BY <2>2, <2>3 DEF GoodWindow, Dated, InThisArming
  <2> QED
    BY <2>2, <2>5, <2>6 DEF GoodWindow, m
<1> QED
  BY <1>1, <1>2

\* An empty pen.
LEMMA EmptyPen ==
  ASSUME NEW w \in ArmWindow, now \in Nat, NEW n \in Nat
  PROVE  /\ Emptied(w) \in ArmWindow /\ GoodWindow(Emptied(w))
         /\ OpenArmWindow(n) \in ArmWindow /\ GoodWindow(OpenArmWindow(n))
<1>1. <<>> \in Seq(Press)
  OBVIOUS
<1>2. Emptied(w) \in ArmWindow /\ Emptied(w).pending = <<>> /\ Emptied(w).adjudicateAt = None
  BY <1>1 DEF Emptied, ArmWindow
<1>3. OpenArmWindow(n) \in ArmWindow /\ OpenArmWindow(n).pending = <<>>
      /\ OpenArmWindow(n).adjudicateAt = None
  BY <1>1 DEF OpenArmWindow, ArmWindow, NoTrips, Time
<1> QED
  BY <1>2, <1>3 DEF GoodWindow, Dated, InThisArming, Covered, Held

-----------------------------------------------------------------------------
(* The inductive invariant. *)

\* Nothing the room knows of lies in its future.
Clocks ==
  /\ window.armedAt <= now
  /\ \A p \in Player : seen[p].paintedAt # None => seen[p].paintedAt <= now

\* Memory and storage hold the same presses to the same deadline; only samples may differ.
Pens ==
  /\ GoodWindow(window) /\ GoodWindow(stored)
  /\ stored.pending = window.pending
  /\ stored.adjudicateAt = window.adjudicateAt
  /\ stored.armedAt = window.armedAt

\* Presses are fed out of an emptied pen, all of this arming.
Feeding ==
  /\ job.feeding => window.pending = <<>>
  /\ ~job.feeding => feed = {}
  /\ \A x \in feed : window.armedAt <= x.arrivalAt

\* What a waiting handler finds in the pen was pressed while the race was open.
Waiting == parked # None /\ window.pending # <<>> => stage = "armed"

\* The deadline rings no earlier than a cap after the best credit.
Decided ==
  Cap <= Window =>
    /\ job.feeding /\ job.act.type = "none" => window.armedAt + job.lead + Cap <= now
    /\ stage = "answering" /\ ruling.onTime /\ ruling.first
         => window.armedAt + ruling.credit + Cap <= now

\* Somebody holds the race exactly while the clue is being answered.
EngineOK ==
  /\ stage \in Stages /\ winner \in Player \cup {None}
  /\ lockedOut \subseteq Player /\ lockedUntil \in [Player -> Time]
  /\ stage = "answering" <=> winner # None

IInv == TypeOK /\ EngineOK /\ Clocks /\ Pens /\ Feeding /\ Waiting /\ Decided

-----------------------------------------------------------------------------
(* What an action of the host, or a relayed press, does to the race. *)

\* handleBuzz keeps the engine's part of the state well formed, refused or not.
LEMMA BuzzTypes ==
  ASSUME EngineOK, NEW p \in Player, NEW t \in Nat, EngineBuzz(p, t)
  PROVE  EngineOK'
<1>1. CASE UNCHANGED engineVars
  BY <1>1 DEF engineVars, EngineOK
<1>2. CASE lockedUntil' = [lockedUntil EXCEPT ![p] = t + Lockout]
           /\ UNCHANGED <<stage, winner, lockedOut>>
  BY <1>2, ClockAssumption DEF EngineOK, Time
<1>3. CASE stage' = "answering" /\ winner' = p /\ UNCHANGED <<lockedOut, lockedUntil>>
  BY <1>3, PhoneAssumption DEF EngineOK, Stages
<1> QED
  BY <1>1, <1>2, <1>3 DEF EngineBuzz

\* All an action of the engine can do to the window: leave it, or open the next arming out of
\* reading or after a miss; a ruling is only kept while a clue is being answered.
LEMMA ApplyEffect ==
  ASSUME TypeOK, EngineOK, NEW act \in Act, Apply(act)
  PROVE  /\ EngineOK'
         /\ \/ window' = window /\ stored' \in {stored, window}
            \/ /\ stage \in {"reading", "answering"} /\ stage' = "armed"
               /\ window' = OpenArmWindow(window.armId + 1) /\ stored' = window'
         /\ ruling' \in {ruling, NoRuling}
         /\ ruling' # NoRuling => stage = "answering"
<1>0. Armed => /\ stage' = "armed" /\ winner' = None
              /\ window' = OpenArmWindow(window.armId + 1) /\ stored' = window'
  BY DEF Armed
<1>1. CASE act.type = "buzz" /\ EngineBuzz(act.player, act.at)
           /\ stored' = (IF Refused(act.player) THEN stored ELSE window)
           /\ UNCHANGED window
  <2>1. act.player \in Player /\ act.at \in Nat
    BY <1>1 DEF Act, HostActions, Time
  <2> QED
    BY <1>1, <2>1, BuzzTypes DEF Apply
<1>2. CASE UNCHANGED <<engineVars, window>> /\ stored' \in {stored, window}
  BY <1>2 DEF Apply, engineVars, EngineOK
<1>3. CASE act.type = "arm-buzzers" /\ Accepts(act) /\ Armed
           /\ UNCHANGED <<lockedOut, lockedUntil>>
  BY <1>0, <1>3 DEF Apply, Accepts, EngineOK, Stages
<1>4. CASE stage' = "between" /\ winner' = None /\ stored' = window
           /\ UNCHANGED <<lockedOut, lockedUntil, window>>
  BY <1>4 DEF Apply, EngineOK, Stages
<1>5. CASE act.type \in {"wrong", "no-penalty"} /\ Accepts(act) /\ UNCHANGED lockedUntil
           /\ Misses(IF act.type = "wrong" THEN lockedOut \cup {winner} ELSE lockedOut)
  <2> DEFINE barred == IF act.type = "wrong" THEN lockedOut \cup {winner} ELSE lockedOut
  <2>1. stage = "answering" /\ winner \in Player
    BY <1>5 DEF Accepts, EngineOK
  <2>2. lockedOut' = barred /\ barred \subseteq Player
    BY <1>5, <2>1 DEF Misses, EngineOK
  <2>3. \/ Armed
        \/ stage' = "between" /\ winner' = None /\ stored' = window /\ UNCHANGED window
    BY <1>5 DEF Misses
  <2> HIDE DEF barred
  <2>4. EngineOK'
    BY <1>0, <1>5, <2>2, <2>3 DEF EngineOK, Stages
  <2> QED
    BY <1>0, <2>1, <2>3, <2>4 DEF Apply
<1>6. CASE act.type = "select-cell" /\ stage' = "reading" /\ stored' = window
           /\ lockedOut' = {} /\ lockedUntil' = [p \in Player |-> 0]
           /\ stage = "between" /\ UNCHANGED <<winner, window>>
  BY <1>6 DEF Apply, EngineOK, Stages, Time
<1> QED
  BY <1>1, <1>2, <1>3, <1>4, <1>5, <1>6 DEF Apply, Accepts

\* The pen after the action: the same presses, and no window opened over them.
LEMMA ActionKeepsPens ==
  ASSUME TypeOK, EngineOK, Clocks, Pens, NEW act \in Act, Apply(act), UNCHANGED <<now, seen>>,
         window.pending = <<>> \/ stage = "armed"
  PROVE  /\ window' \in ArmWindow /\ stored' \in ArmWindow /\ window'.pending = window.pending
         /\ Clocks' /\ Pens'
<1>0. now \in Nat /\ window \in ArmWindow /\ stored \in ArmWindow /\ window.armId + 1 \in Nat
  BY DEF TypeOK, Time, ArmWindow
<1>1. CASE window' = window /\ stored' \in {stored, window}
  BY <1>0, <1>1 DEF Pens, Clocks
<1>2. CASE /\ stage \in {"reading", "answering"}
           /\ window' = OpenArmWindow(window.armId + 1) /\ stored' = window'
  <2>1. window' \in ArmWindow /\ GoodWindow(OpenArmWindow(window.armId + 1))
    BY <1>0, <1>2, EmptyPen
  <2>2. window'.pending = <<>> /\ window'.armedAt = now /\ window.pending = <<>>
    BY <1>2 DEF OpenArmWindow
  <2>3. GoodWindow(window)'
    BY <1>2, <2>1 DEF GoodWindow, Dated, InThisArming, Covered, Held, Credit, Observed
  <2>4. GoodWindow(stored)'
    BY <1>2, <2>3 DEF GoodWindow, Dated, InThisArming, Covered, Held, Credit, Observed
  <2> QED
    BY <1>0, <1>2, <2>1, <2>2, <2>3, <2>4 DEF Pens, Clocks
<1> QED
  BY <1>1, <1>2, ApplyEffect

\* An action that no held press precedes keeps the invariant.
LEMMA ActionKeeps ==
  ASSUME IInv, NEW act \in Act, Apply(act), UNCHANGED <<now, seen>>,
         window.pending = <<>> \/ stage = "armed",
         feed' = feed, feed = {}, job' \in {job, Idle}, ~job'.feeding,
         parked' \in Act \cup {None},
         parked' = None \/ window.pending = <<>>,
         uplink' \in [Player -> Seq(Message)], pressed' \in Nat
  PROVE  IInv'
<1>1. /\ window' \in ArmWindow /\ stored' \in ArmWindow /\ window'.pending = window.pending
      /\ Clocks' /\ Pens'
  BY ActionKeepsPens DEF IInv
<1>2. /\ EngineOK'
      /\ window' = window \/ stage' = "armed"
      /\ ruling' \in {ruling, NoRuling}
      /\ ruling' # NoRuling => stage = "answering"
  BY ApplyEffect DEF IInv
<1>3. NoRuling \in Ruling /\ ~NoRuling.onTime
  BY DEF NoRuling, Ruling
<1>4. TypeOK'
  <2>1. Idle \in Job
    BY DEF Idle, Job, Act, Do, HostActions
  <2> QED
    BY <1>1, <1>2, <1>3, <2>1 DEF IInv, TypeOK, EngineOK
<1>5. Feeding'
  BY DEF Feeding
<1>6. Waiting'
  BY <1>1 DEF Waiting
<1>7. Decided'
  BY <1>2, <1>3 DEF IInv, Decided
<1> QED
  BY <1>1, <1>2, <1>4, <1>5, <1>6, <1>7 DEF IInv

\* A handler that resolves the held presses first keeps the invariant; the deadline wakes the
\* room only over a pen whose deadline has passed.
LEMMA FlushKeeps ==
  ASSUME IInv, NEW act \in Act, FlushThen(act), UNCHANGED <<now, parked, seen>>,
         act.type = "none" => window.pending # <<>> /\ window.adjudicateAt <= now,
         uplink' \in [Player -> Seq(Message)], pressed' \in Nat
  PROVE  IInv'
<1>0. /\ window \in ArmWindow /\ now \in Nat /\ window.armedAt \in Nat /\ ~job.feeding
      /\ feed = {} /\ parked \in Act \cup {None}
  BY DEF FlushThen, IInv, TypeOK, ArmWindow, Time, Feeding
<1>1. CASE window.pending = <<>> /\ Apply(act) /\ UNCHANGED <<feed, job>>
  BY <1>0, <1>1, ActionKeeps
<1>2. CASE /\ window.pending # <<>> /\ feed' = Held(window) /\ window' = Emptied(window)
           /\ stored' = window' /\ UNCHANGED <<engineVars, ruling>>
           /\ job' = [feeding |-> TRUE, act |-> act, accepted |-> FALSE,
                      lead |-> BestCredit(window)]
  <2>1. /\ BestCredit(window) \in Nat
        /\ \A x \in Held(window) : BestCredit(window) <= Credit(window, x)
    BY <1>0, <1>2, BestIsLeast
  <2>2. Emptied(window) \in ArmWindow /\ GoodWindow(Emptied(window))
    BY <1>0, EmptyPen
  <2>3. window'.pending = <<>> /\ window'.armedAt = window.armedAt
    BY <1>0, <1>2 DEF Emptied, ArmWindow
  <2>4. TypeOK'
    <3>1. job' \in Job
      BY <1>2, <2>1 DEF Job
    <3>2. Held(window) \subseteq Press
      BY <1>0, HeldArePresses
    <3> QED
      BY <1>2, <2>2, <3>1, <3>2 DEF IInv, TypeOK, engineVars
  <2>5. EngineOK'
    BY <1>2 DEF IInv, EngineOK, engineVars
  <2>6. Clocks'
    BY <2>3 DEF IInv, Clocks
  <2>7. Pens'
    <3>1. GoodWindow(window)'
      BY <1>2, <2>2 DEF GoodWindow, Dated, InThisArming, Covered, Held, Credit, Observed
    <3>2. GoodWindow(stored)'
      BY <1>2, <3>1 DEF GoodWindow, Dated, InThisArming, Covered, Held, Credit, Observed
    <3> QED
      BY <1>2, <3>1, <3>2 DEF Pens
  <2>8. Feeding'
    BY <1>2, <2>3 DEF IInv, Feeding, Pens, GoodWindow, InThisArming
  <2>9. Waiting'
    BY <2>3 DEF Waiting
  <2>10. Decided'
    <3>1. ASSUME Cap <= Window, act.type = "none"
          PROVE  window.armedAt + BestCredit(window) + Cap <= now
      <4>1. PICK x \in Held(window) :
              window.armedAt + Credit(window, x) + Cap <= window.adjudicateAt
        BY <1>2, <3>1 DEF IInv, Pens, GoodWindow, Covered
      <4>2. Credit(window, x) \in Nat /\ window.adjudicateAt \in Nat
        BY <1>0, <1>2, HeldArePresses, CreditType DEF IInv, Pens, GoodWindow, Dated, ArmWindow, Time
      <4> QED
        BY <1>0, <2>1, <3>1, <4>1, <4>2, ClockAssumption
    <3> QED
      BY <1>2, <2>3, <3>1 DEF IInv, Decided, engineVars
  <2> QED
    BY <2>4, <2>5, <2>6, <2>7, <2>8, <2>9, <2>10 DEF IInv
<1> QED
  BY <1>1, <1>2 DEF FlushThen

-----------------------------------------------------------------------------
(* Every step keeps the invariant. *)

\* A step that leaves the room alone and only moves time or the phones.
LEMMA PhonesKeep ==
  ASSUME IInv, now' \in Nat, now <= now', UNCHANGED <<engineVars, roomVars, ruling>>,
         seen' \in [Player -> [armId : Nat, paintedAt : Nat \cup {None}]],
         \A p \in Player : seen'[p].paintedAt # None => seen'[p].paintedAt <= now',
         uplink' \in [Player -> Seq(Message)], pressed' \in Nat
  PROVE  IInv'
<1>0. now \in Nat /\ window \in ArmWindow /\ window.armedAt \in Nat /\ job.lead \in Nat
      /\ ruling.credit \in Nat
  BY DEF IInv, TypeOK, Time, ArmWindow, Job, Ruling
<1>1. TypeOK'
  BY DEF IInv, TypeOK, engineVars, roomVars, Time
<1>2. EngineOK' /\ Feeding' /\ Waiting'
  BY DEF IInv, EngineOK, Feeding, Waiting, engineVars, roomVars
<1>3. Clocks'
  BY <1>0 DEF IInv, Clocks, roomVars
<1>4. GoodWindow(window)' /\ GoodWindow(stored)'
  BY DEF IInv, Pens, GoodWindow, Dated, InThisArming, Covered, Held, Credit, Observed, roomVars
<1>5. Pens'
  BY <1>4 DEF IInv, Pens, roomVars
<1>6. Decided'
  <2>1. Decided /\ now <= now'
    BY DEF IInv
  <2>2. UNCHANGED <<stage, window, job, ruling>>
    BY DEF engineVars, roomVars
  <2>3. ASSUME Cap <= Window, job.feeding, job.act.type = "none"
        PROVE  window.armedAt + job.lead + Cap <= now'
    <3>1. window.armedAt + job.lead + Cap <= now
      BY <2>1, <2>3 DEF Decided
    <3> QED
      BY <3>1, <2>1, <1>0, ClockAssumption
  <2>4. ASSUME Cap <= Window, stage = "answering", ruling.onTime, ruling.first
        PROVE  window.armedAt + ruling.credit + Cap <= now'
    <3>1. window.armedAt + ruling.credit + Cap <= now
      BY <2>1, <2>4 DEF Decided
    <3> QED
      BY <3>1, <2>1, <1>0, ClockAssumption
  <2> QED
    BY <2>2, <2>3, <2>4 DEF Decided
<1> QED
  BY <1>1, <1>2, <1>3, <1>5, <1>6 DEF IInv

\* A step that changes only what the windows hold, of the same arming.
LEMMA WindowsKeep ==
  ASSUME IInv, UNCHANGED <<now, engineVars, feed, job, parked, seen, ruling>>, ~job.feeding,
         window' \in ArmWindow, stored' \in ArmWindow, Pens',
         window'.armedAt = window.armedAt,
         window'.pending = window.pending \/ stage = "armed",
         uplink' \in [Player -> Seq(Message)], pressed' \in Nat
  PROVE  IInv'
<1>1. TypeOK'
  BY DEF IInv, TypeOK, engineVars
<1>2. EngineOK' /\ Clocks'
  BY DEF IInv, EngineOK, Clocks, engineVars
<1>3. Feeding' /\ Waiting'
  BY DEF IInv, Feeding, Waiting, engineVars
<1>4. Decided'
  BY DEF IInv, Decided, engineVars
<1> QED
  BY <1>1, <1>2, <1>3, <1>4 DEF IInv

\* A window that satisfies the credit bounds satisfies them after being assigned.
LEMMA StaysGood ==
  ASSUME NEW w, GoodWindow(w), window' = w
  PROVE  GoodWindow(window)'
BY DEF GoodWindow, Dated, InThisArming, Covered, Held, Credit, Observed

\* The same of its stored copy.
LEMMA StaysGoodStored ==
  ASSUME NEW w, GoodWindow(w), stored' = w
  PROVE  GoodWindow(stored)'
BY DEF GoodWindow, Dated, InThisArming, Covered, Held, Credit, Observed

\* Sending and delivering keep the uplinks queues of messages.
LEMMA UplinkTypes ==
  ASSUME TypeOK, NEW p \in Player
  PROVE  /\ \A message \in Message : Send(p, message) => uplink' \in [Player -> Seq(Message)]
         /\ uplink[p] # <<>> /\ Consume(p) => /\ uplink' \in [Player -> Seq(Message)]
                                             /\ Head(uplink[p]) \in Message
<1>1. uplink \in [Player -> Seq(Message)] /\ uplink[p] \in Seq(Message)
  BY DEF TypeOK
<1>2. ASSUME NEW message \in Message, Send(p, message)
      PROVE  uplink' \in [Player -> Seq(Message)]
  <2>1. Append(uplink[p], message) \in Seq(Message)
    BY <1>1, <1>2
  <2> QED
    BY <1>1, <1>2, <2>1 DEF Send
<1>3. ASSUME uplink[p] # <<>>, Consume(p)
      PROVE  uplink' \in [Player -> Seq(Message)] /\ Head(uplink[p]) \in Message
  <2>1. Tail(uplink[p]) \in Seq(Message) /\ Head(uplink[p]) \in Message
    BY <1>1, <1>3
  <2> QED
    BY <1>1, <1>3, <2>1 DEF Consume
<1> QED
  BY <1>2, <1>3

\* A room that has armed nothing yet satisfies the invariant.
LEMMA InitInvariant == Init => IInv
<1> SUFFICES ASSUME Init PROVE IInv
  OBVIOUS
<1>0. 0 \in Nat /\ now = 0 /\ window = OpenArmWindow(0) /\ stored = window
  BY DEF Init
<1>1. OpenArmWindow(0) \in ArmWindow
  <2>1. <<>> \in Seq(Press)
    OBVIOUS
  <2> QED
    BY <1>0, <2>1 DEF OpenArmWindow, ArmWindow, NoTrips, Time
<1>2. GoodWindow(window)
  BY <1>0, <1>1, EmptyPen
<1>3. TypeOK
  <2>1. uplink \in [Player -> Seq(Message)]
    BY DEF Init
  <2>2. Idle \in Job /\ NoRuling \in Ruling
    BY DEF Idle, Job, Act, Do, HostActions, NoRuling, Ruling
  <2> QED
    BY <1>0, <1>1, <2>1, <2>2 DEF Init, TypeOK, Stages, Time
<1>4. EngineOK /\ Feeding /\ Waiting /\ Decided
  BY <1>3 DEF Init, TypeOK, EngineOK, Feeding, Waiting, Decided, Idle
<1>5. Clocks /\ Pens
  BY <1>0, <1>2 DEF Init, Clocks, Pens, OpenArmWindow
<1> QED
  BY <1>3, <1>4, <1>5 DEF IInv

\* Handing the next ranked press to the engine (applyEngineActions) keeps the invariant.
LEMMA FeedKeeps == IInv /\ FeedEngine => IInv'
<1> SUFFICES ASSUME IInv, FeedEngine PROVE IInv'
  OBVIOUS
<1>1. PICK x \in feed :
        /\ EngineBuzz(x.player, StampedAt(window, x))
        /\ feed' = feed \ {x}
        /\ job' = [job EXCEPT !.accepted = @ \/ ~Refused(x.player)]
        /\ ruling' = IF stage' = "answering" /\ stage # "answering"
                       THEN [credit |-> Credit(window, x), onTime |-> job.act.type = "none",
                             first |-> Credit(window, x) = job.lead]
                       ELSE ruling
  BY DEF FeedEngine
<1>2. job.feeding /\ UNCHANGED <<now, window, stored, parked, phoneVars>>
  BY DEF FeedEngine
<1>3. x \in Press /\ window \in ArmWindow /\ job \in Job /\ ruling \in Ruling
  BY DEF IInv, TypeOK
<1>4. x.player \in Player /\ StampedAt(window, x) \in Nat /\ Credit(window, x) \in Nat
  <2>1. x.player \in Player /\ x.arrivalAt \in Nat /\ window.armedAt \in Nat
    BY <1>3 DEF Press, ArmWindow, Time
  <2>2. Credit(window, x) \in Nat
    BY <1>3, CreditType
  <2> QED
    BY <2>1, <2>2 DEF StampedAt, Lesser
<1>5. EngineOK'
  BY <1>1, <1>4, BuzzTypes DEF IInv
<1>6. /\ job' \in Job /\ job'.feeding /\ job'.act = job.act /\ job'.lead = job.lead
  <2>1. (job.accepted \/ ~Refused(x.player)) \in BOOLEAN
    BY <1>3 DEF Job
  <2> QED
    BY <1>1, <1>2, <1>3, <2>1 DEF Job
<1>7. ruling' \in Ruling
  <2>1. (job.act.type = "none") \in BOOLEAN /\ (Credit(window, x) = job.lead) \in BOOLEAN
    OBVIOUS
  <2> QED
    BY <1>1, <1>3, <1>4, <2>1 DEF Ruling
<1>8. TypeOK'
  BY <1>1, <1>2, <1>5, <1>6, <1>7 DEF IInv, TypeOK, EngineOK, phoneVars
<1>9. Clocks'
  BY <1>2 DEF IInv, Clocks, phoneVars
<1>10. Pens'
  BY <1>2, StaysGood, StaysGoodStored DEF IInv, Pens
<1>11. Feeding' /\ Waiting'
  BY <1>1, <1>2, <1>6 DEF IInv, Feeding, Waiting
<1>12. Decided'
  <2> SUFFICES ASSUME Cap <= Window PROVE
        /\ job'.feeding /\ job'.act.type = "none" => window'.armedAt + job'.lead + Cap <= now'
        /\ stage' = "answering" /\ ruling'.onTime /\ ruling'.first
             => window'.armedAt + ruling'.credit + Cap <= now'
    BY DEF Decided
  <2>1. job.act.type = "none" => window.armedAt + job.lead + Cap <= now
    BY <1>2 DEF IInv, Decided
  <2>2. CASE stage' = "answering" /\ stage # "answering"
    <3>1. ruling' = [credit |-> Credit(window, x), onTime |-> job.act.type = "none",
                     first |-> Credit(window, x) = job.lead]
      BY <1>1, <2>2
    <3>2. /\ ruling'.credit = Credit(window, x)
          /\ ruling'.onTime => job.act.type = "none"
          /\ ruling'.first => Credit(window, x) = job.lead
      BY <3>1
    <3> QED
      BY <1>2, <1>6, <2>1, <3>2
  <2>3. CASE ~(stage' = "answering" /\ stage # "answering")
    <3>1. ruling' = ruling
      BY <1>1, <2>3
    <3> QED
      BY <1>2, <1>6, <2>1, <2>3, <3>1 DEF IInv, Decided
  <2> QED
    BY <2>2, <2>3
<1> QED
  BY <1>5, <1>8, <1>9, <1>10, <1>11, <1>12 DEF IInv

\* The end of a flush, with the handler's own action or its wait for the registry, keeps it.
LEMMA FinishKeeps == IInv /\ FinishFlush => IInv'
<1> SUFFICES ASSUME IInv, FinishFlush PROVE IInv'
  OBVIOUS
<1>1. /\ job.feeding /\ feed = {} /\ job' = Idle /\ UNCHANGED <<now, feed, phoneVars>>
      /\ window.pending = <<>> /\ job.act \in Act
  BY DEF FinishFlush, IInv, Feeding, TypeOK, Job
<1>2. ~Idle.feeding /\ Idle \in Job
  BY DEF Idle, Job, Act, Do, HostActions
<1>3. parked \in Act \cup {None} /\ uplink' \in [Player -> Seq(Message)] /\ pressed' \in Nat
  BY <1>1 DEF IInv, TypeOK, phoneVars
<1>4. CASE Apply(job.act) /\ UNCHANGED parked
  BY <1>1, <1>2, <1>3, <1>4, ActionKeeps DEF phoneVars
<1>5. CASE parked' = job.act /\ UNCHANGED <<engineVars, window, stored, ruling>>
  <2>1. TypeOK'
    BY <1>1, <1>2, <1>5 DEF IInv, TypeOK, engineVars, phoneVars
  <2>2. EngineOK' /\ Clocks' /\ Feeding' /\ Waiting'
    BY <1>1, <1>2, <1>5 DEF IInv, EngineOK, Clocks, Feeding, Waiting, engineVars, phoneVars
  <2>3. Pens'
    BY <1>5, StaysGood, StaysGoodStored DEF IInv, Pens
  <2>4. Decided'
    BY <1>1, <1>2, <1>5 DEF IInv, Decided, engineVars
  <2> QED
    BY <2>1, <2>2, <2>3, <2>4 DEF IInv
<1> QED
  BY <1>4, <1>5 DEF FinishFlush

\* holdBuzz queues a press that arrives now.
LEMMA HoldsAPress ==
  ASSUME TypeOK, NEW p \in Player, HoldBuzz(p)
  PROVE  /\ \E x \in Press : window' = QueueBuzz(window, x) /\ x.arrivalAt = now
         /\ uplink' \in [Player -> Seq(Message)]
<1> DEFINE x == [player |-> p, arrivalAt |-> now, sequence |-> Len(window.pending),
                 claim |-> IF Head(uplink[p]).armId = window.armId
                             THEN Head(uplink[p]).elapsed ELSE None]
<1>1. uplink[p] # <<>> /\ Consume(p) /\ window' = QueueBuzz(window, x)
  BY DEF HoldBuzz, Arrives
<1>2. uplink' \in [Player -> Seq(Message)] /\ Head(uplink[p]) \in Message
  BY <1>1, UplinkTypes
<1>3. now \in Nat /\ Len(window.pending) \in Nat
  BY DEF TypeOK, ArmWindow, Time
<1>4. x \in Press /\ x.arrivalAt = now
  BY <1>2, <1>3 DEF Press, Message, Time
<1> QED
  BY <1>1, <1>2, <1>4

\* Holding a press (holdBuzz, queueBuzz) keeps it: the deadline still covers every credit.
LEMMA HoldKeeps == IInv /\ (\E p \in Player : HoldBuzz(p)) => IInv'
<1> SUFFICES ASSUME IInv, NEW p \in Player, HoldBuzz(p) PROVE IInv'
  OBVIOUS
<1>1. /\ ~job.feeding /\ stage = "armed" /\ stored' = window'
      /\ UNCHANGED <<now, engineVars, feed, job, parked, seen, pressed, ruling>>
  BY DEF HoldBuzz, Arrives, HoldingOpen
<1>2. uplink' \in [Player -> Seq(Message)]
  BY HoldsAPress DEF IInv
<1>3. window \in ArmWindow /\ pressed \in Nat /\ window.armedAt <= now
  BY DEF IInv, Clocks, TypeOK
<1>4. PICK x \in Press : window' = QueueBuzz(window, x) /\ x.arrivalAt = now
  BY HoldsAPress DEF IInv
<1>5. QueueBuzz(window, x) \in ArmWindow /\ GoodWindow(QueueBuzz(window, x))
  BY <1>3, <1>4, Queued DEF IInv, Pens
<1>6. window'.armedAt = window.armedAt
  BY <1>3, <1>4 DEF QueueBuzz, ArmWindow
<1>7. Pens'
  BY <1>1, <1>4, <1>5, StaysGood, StaysGoodStored DEF Pens
<1> QED
  BY <1>1, <1>2, <1>3, <1>4, <1>5, <1>6, <1>7, WindowsKeep

\* The invariant is inductive.
LEMMA StepInvariant == IInv /\ [Next]_vars => IInv'
<1> SUFFICES ASSUME IInv, [Next]_vars PROVE IInv'
  OBVIOUS
<1>0. /\ now \in Nat /\ pressed \in Nat /\ window \in ArmWindow /\ stored \in ArmWindow
      /\ uplink \in [Player -> Seq(Message)]
      /\ seen \in [Player -> [armId : Nat, paintedAt : Nat \cup {None}]]
      /\ \A p \in Player : seen[p].paintedAt # None => seen[p].paintedAt <= now
  BY DEF IInv, TypeOK, Clocks, Time
<1>1. CASE Tick
  <2>1. \A p \in Player : seen[p].paintedAt # None => seen[p].paintedAt <= now + 1
    BY <1>0
  <2> QED
    BY <1>0, <1>1, <2>1, PhonesKeep DEF Tick, phoneVars
<1>2. ASSUME NEW p \in Player, HearArming(p) PROVE IInv'
  <2>1. seen' = [seen EXCEPT ![p] = [armId |-> window.armId, paintedAt |-> None]]
    BY <1>2 DEF HearArming
  <2>2. /\ seen' \in [Player -> [armId : Nat, paintedAt : Nat \cup {None}]]
        /\ \A q \in Player : seen'[q].paintedAt # None => seen'[q].paintedAt <= now
    BY <1>0, <2>1 DEF ArmWindow
  <2>3. [type |-> "ack", armId |-> window.armId, elapsed |-> 0] \in Message
    BY <1>0 DEF Message, ArmWindow
  <2>4. uplink' \in [Player -> Seq(Message)]
    BY <1>0, <1>2, <2>3, UplinkTypes DEF HearArming, IInv
  <2> QED
    BY <1>0, <1>2, <2>2, <2>4, PhonesKeep DEF HearArming
<1>3. ASSUME NEW p \in Player, Paint(p) PROVE IInv'
  <2>1. seen' = [seen EXCEPT ![p] = [armId |-> seen[p].armId, paintedAt |-> now]]
    <3>1. [seen[p] EXCEPT !.paintedAt = now] = [armId |-> seen[p].armId, paintedAt |-> now]
      BY <1>0
    <3>2. seen' = [seen EXCEPT ![p] = [seen[p] EXCEPT !.paintedAt = now]]
      BY <1>3, Zenon DEF Paint
    <3> QED
      BY <3>1, <3>2, Zenon
  <2>2. /\ seen' \in [Player -> [armId : Nat, paintedAt : Nat \cup {None}]]
        /\ \A q \in Player : seen'[q].paintedAt # None => seen'[q].paintedAt <= now
    BY <1>0, <2>1
  <2> QED
    BY <1>0, <1>3, <2>2, PhonesKeep DEF Paint
<1>4. ASSUME NEW p \in Player, HearAck(p) PROVE IInv'
  <2>1. /\ ~job.feeding /\ uplink[p] # <<>> /\ Consume(p)
        /\ window' \in {window, RecordRoundTrip(window, p)}
        /\ UNCHANGED <<now, engineVars, stored, feed, job, parked, seen, pressed, ruling>>
    BY <1>4 DEF HearAck, Arrives
  <2>2. uplink' \in [Player -> Seq(Message)]
    BY <2>1, UplinkTypes DEF IInv
  <2>3. /\ window' \in ArmWindow /\ GoodWindow(window)' /\ window'.pending = window.pending
        /\ window'.armedAt = window.armedAt /\ window'.adjudicateAt = window.adjudicateAt
    BY <1>0, <2>1, Measured, StaysGood DEF IInv, Pens
  <2>4. Pens'
    BY <2>1, <2>3, StaysGoodStored DEF IInv, Pens
  <2> QED
    BY <1>0, <2>1, <2>2, <2>3, <2>4, WindowsKeep
<1>5. ASSUME NEW p \in Player, HoldBuzz(p) PROVE IInv'
  BY <1>5, HoldKeeps
<1>6. ASSUME NEW p \in Player, RelayBuzz(p) PROVE IInv'
  <2> DEFINE act == [type |-> "buzz", player |-> p, at |-> now]
  <2>1. uplink[p] # <<>> /\ Consume(p) /\ FlushThen(act) /\ UNCHANGED <<now, parked, seen, pressed>>
    BY <1>6 DEF RelayBuzz, Arrives
  <2>2. uplink' \in [Player -> Seq(Message)]
    BY <2>1, UplinkTypes DEF IInv
  <2>3. act \in Act /\ act.type # "none"
    BY <1>0 DEF Act, Time
  <2> HIDE DEF act
  <2> QED
    BY <1>0, <2>1, <2>2, <2>3, FlushKeeps
<1>7. ASSUME NEW type \in HostActions, Request(type) PROVE IInv'
  <2>1. Do(type) \in Act /\ Do(type).type # "none"
    BY DEF Do, Act, HostActions
  <2> QED
    BY <1>0, <1>7, <2>1, FlushKeeps DEF Request, phoneVars
<1>8. CASE AlarmRings
  <2>1. Do("none") \in Act
    BY DEF Do, Act, HostActions
  <2>2. window.pending # <<>> /\ window.adjudicateAt <= now
    BY <1>8 DEF AlarmRings, IInv, Pens, GoodWindow, Dated
  <2> QED
    BY <1>0, <1>8, <2>1, <2>2, FlushKeeps DEF AlarmRings, phoneVars
<1>9. CASE FeedEngine
  BY <1>9, FeedKeeps
<1>10. CASE FinishFlush
  BY <1>10, FinishKeeps
<1>11. CASE Resume
  <2>1. parked \in Act /\ (window.pending = <<>> \/ stage = "armed") /\ feed = {}
    BY <1>11 DEF Resume, IInv, TypeOK, Waiting, Feeding
  <2> QED
    BY <1>0, <1>11, <2>1, ActionKeeps DEF Resume, phoneVars
<1>12. CASE Evict
  <2>1. /\ window' \in ArmWindow /\ window'.pending = window.pending
        /\ window'.armedAt = window.armedAt
    BY <1>0, <1>12 DEF Evict, IInv, Pens
  <2>2. Pens'
    BY <1>12, StaysGood, StaysGoodStored DEF Evict, IInv, Pens
  <2> QED
    BY <1>0, <1>12, <2>1, <2>2, WindowsKeep DEF Evict, phoneVars
<1>13. CASE UNCHANGED vars
  BY <1>0, <1>13, PhonesKeep DEF vars, phoneVars
<1>14. ASSUME NEW p \in Player, PressButton(p) PROVE IInv'
  <2>1. /\ seen[p].paintedAt # None =>
             [type |-> "press", armId |-> seen[p].armId, elapsed |-> now - seen[p].paintedAt]
               \in Message
        /\ [type |-> "press", armId |-> 0, elapsed |-> 0] \in Message
    BY <1>0 DEF Message
  <2>2. uplink' \in [Player -> Seq(Message)]
    BY <1>14, <2>1, UplinkTypes DEF PressButton, IInv
  <2> QED
    BY <1>0, <1>14, <2>2, PhonesKeep DEF PressButton
<1> QED
  BY <1>1, <1>2, <1>3, <1>4, <1>5, <1>6, <1>7, <1>8, <1>9, <1>10, <1>11, <1>12, <1>13,
     <1>14 DEF Next

\* The inductive invariant holds in every reachable state of the room and its phones.
THEOREM Invariance == Spec => []IInv
<1>1. Init => IInv
  BY InitInvariant
<1>2. IInv /\ [Next]_vars => IInv'
  BY StepInvariant
<1> QED
  BY <1>1, <1>2, PTL DEF Spec

-----------------------------------------------------------------------------
(* What follows from it. *)

\* Every variable of the room keeps its type, whatever the network does.
THEOREM TypeCorrect == Spec => []TypeOK
<1>1. IInv => TypeOK
  BY DEF IInv
<1> QED
  BY <1>1, Invariance, PTL

\* A pen with a press in it always has a deadline, within the host's window of its first
\* press, and storage has both (holdBuzz, persist).
THEOREM PenAlwaysHasDeadline == Spec => []PenHasDeadline
<1>1. IInv => PenHasDeadline
  BY DEF IInv, Pens, GoodWindow, Dated, PenHasDeadline
<1> QED
  BY <1>1, Invariance, PTL

\* Of two presses on steady connections the shorter reaction is ranked first
\* (creditedReactionMs, orderBuzzesByFairness), for any cap and any delays.
THEOREM FastestIsFirst == Spec => []FastestThumbFirst
<1>1. IInv => FastestThumbFirst
  <2> SUFFICES ASSUME IInv,
                      NEW x \in Held(window) \cup feed, NEW y \in Held(window) \cup feed,
                      Steady(window, x), Steady(window, y), RankedBefore(window, x, y)
               PROVE  x.claim <= y.claim
    BY DEF FastestThumbFirst
  <2>1. window \in ArmWindow /\ x \in Press /\ y \in Press
    BY HeldArePresses DEF IInv, TypeOK
  <2>2. ASSUME NEW z \in Press, Steady(window, z)
        PROVE  z.claim \in Nat /\ Credit(window, z) = z.claim
    <3>1. z.claim \in Nat /\ window.roundTrips[z.player] \in Nat
      BY <2>1, <2>2 DEF Steady, Press, ArmWindow
    <3>2. Observed(window, z.arrivalAt) \in Nat
      BY <2>1, CreditType
    <3> QED
      BY <2>2, <3>1, <3>2, SteadyIsExact DEF Steady, Credit
  <2>3. Credit(window, x) <= Credit(window, y)
    BY <2>1, <2>2 DEF RankedBefore
  <2> QED
    BY <2>1, <2>2, <2>3
<1> QED
  BY <1>1, Invariance, PTL

\* When the deadline crowns the press ranked first, no press still on its way would have been
\* ranked ahead of it (adjudicationDeadlineMs), for any number of phones, any cap and any
\* window that is not below the cap.
THEOREM RaceIsDecided == Spec => []RaceWasDecided
<1>1. IInv => RaceWasDecided
  <2> SUFFICES ASSUME IInv, Cap <= Window, stage = "answering", ruling.onTime, ruling.first,
                      NEW p \in Player, NEW message \in PressesOnTheWay(p)
               PROVE  ruling.credit <= CreditOnArrival(p, message)
    BY DEF RaceWasDecided
  <2>1. window.armedAt + ruling.credit + Cap <= now
    BY DEF IInv, Decided
  <2>2. /\ window.armedAt \in Nat /\ now \in Nat /\ ruling.credit \in Nat
        /\ window.roundTrips[p] \in Nat \cup {None} /\ uplink[p] \in Seq(Message)
    BY DEF IInv, TypeOK, ArmWindow, Ruling, Time
  <2>3. message \in Message
    BY <2>2 DEF PressesOnTheWay
  <2>4. Observed(window, now) = now - window.armedAt /\ Observed(window, now) \in Nat
    BY <2>1, <2>2, ClockAssumption DEF Observed, Greater
  <2> DEFINE claim == IF message.armId = window.armId THEN message.elapsed ELSE None
  <2>5. claim \in Nat \cup {None}
    BY <2>3 DEF Message
  <2>6. CreditOnArrival(p, message) \in Nat
        /\ Observed(window, now) - Cap <= CreditOnArrival(p, message)
    BY <2>2, <2>4, <2>5, CreditBounds DEF CreditOnArrival
  <2> QED
    BY <2>1, <2>2, <2>4, <2>6, ClockAssumption
<1> QED
  BY <1>1, Invariance, PTL

\* A held press leaves the pen only for the engine: no arming, closing, judging, waiting
\* handler or eviction loses it.
THEOREM NeverDropped == Spec => HeldUntilFed
<1> DEFINE Kept == \A x \in Held(window) : x \in Held(window)' \cup feed'
<1>1. IInv /\ [Next]_vars => [Kept]_vars
  <2> SUFFICES ASSUME IInv, Next, ~(Held(window) \subseteq Held(window)') PROVE Kept
    OBVIOUS
  <2>1. window.pending # <<>> /\ window \in ArmWindow
    BY DEF Held, IInv, TypeOK
  <2>2. window'.pending # window.pending
    BY DEF Held
  <2>3. ASSUME NEW act, FlushThen(act) PROVE Kept
    BY <2>1, <2>3 DEF FlushThen
  <2>4. ASSUME NEW p \in Player, HearAck(p) PROVE FALSE
    BY <2>1, <2>2, <2>4, Measured DEF HearAck, IInv, TypeOK, Pens, Time
  <2>5. ASSUME NEW p \in Player, HoldBuzz(p) PROVE FALSE
    <3>1. PICK x \in Press : window' = QueueBuzz(window, x) /\ x.arrivalAt = now
      BY <2>5, HoldsAPress DEF IInv
    <3>2. Held(window) \subseteq Held(QueueBuzz(window, x))
      BY <2>1, <3>1, Queued DEF IInv, Pens, Clocks
    <3> QED
      BY <3>1, <3>2 DEF Held
  <2>6. ~job.feeding
    BY <2>1 DEF IInv, Feeding
  <2>7. CASE Resume
    <3>1. parked \in Act /\ stage = "armed" /\ Apply(parked) /\ UNCHANGED <<now, seen>>
      BY <2>1, <2>7 DEF Resume, IInv, TypeOK, Waiting, phoneVars
    <3> QED
      BY <2>2, <3>1, ActionKeepsPens DEF IInv
  <2>8. CASE Evict
    BY <2>2, <2>8 DEF Evict, IInv, Pens
  <2>9. UNCHANGED window => FALSE
    BY <2>2
  <2> QED
    BY <2>3, <2>4, <2>5, <2>6, <2>7, <2>8, <2>9
       DEF Next, Tick, HearArming, Paint, PressButton, RelayBuzz, Request, AlarmRings, FeedEngine,
           FinishFlush, roomVars
<1> QED
  BY <1>1, Invariance, PTL DEF Spec, HeldUntilFed

-----------------------------------------------------------------------------
(* The room runs the abstract race. *)

RaceStep == [Race!Next]_(Race!raceVars)

\* A press in the engine wins the race or leaves it alone.
LEMMA BuzzRaces ==
  ASSUME EngineOK, NEW p \in Player, NEW t, EngineBuzz(p, t)
  PROVE  RaceStep
<1>1. CASE UNCHANGED <<stage, winner, lockedOut>>
  BY <1>1 DEF RaceStep, Race!raceVars, raceStage, raceBarred
<1>2. CASE /\ ~Refused(p) /\ ~TooEarly(p, t)
           /\ stage' = "answering" /\ winner' = p /\ UNCHANGED <<lockedOut, lockedUntil>>
  <2>1. stage = "armed" /\ p \notin lockedOut
    BY <1>2 DEF Refused, TooEarly, EngineOK, Stages
  <2>2. raceStage = "open" /\ raceStage' = "held" /\ raceBarred = lockedOut
        /\ raceBarred' = lockedOut
    BY <1>2, <2>1 DEF raceStage, raceBarred
  <2> QED
    BY <1>2, <2>1, <2>2 DEF RaceStep, Race!Next, Race!Win
<1> QED
  BY <1>1, <1>2 DEF EngineBuzz, engineVars

\* So does every other action.
LEMMA ActionRaces ==
  ASSUME EngineOK, NEW act \in Act, Apply(act)
  PROVE  RaceStep
<1>0. Armed => stage' = "armed" /\ winner' = None
  BY DEF Armed
<1>1. CASE act.type = "buzz" /\ EngineBuzz(act.player, act.at)
  BY <1>1, BuzzRaces DEF Act, HostActions
<1>2. CASE UNCHANGED engineVars
  BY <1>2 DEF RaceStep, Race!raceVars, raceStage, raceBarred, engineVars
<1>3. CASE stage = "reading" /\ Armed /\ UNCHANGED lockedOut
  <2>1. raceStage = "dead" /\ raceStage' = "open" /\ winner = None
        /\ raceBarred = lockedOut /\ raceBarred' = lockedOut
    BY <1>0, <1>3 DEF raceStage, raceBarred, EngineOK
  <2> QED
    BY <1>0, <1>3, <2>1 DEF RaceStep, Race!Next, Race!Arm
<1>4. CASE stage' = "between" /\ winner' = None
  BY <1>4 DEF RaceStep, Race!Next, Race!Close, raceStage, raceBarred
<1>5. CASE stage = "answering" /\ Armed /\ lockedOut' \in {lockedOut, lockedOut \cup {winner}}
  <2>1. raceStage = "held" /\ raceStage' = "open" /\ raceBarred = lockedOut
        /\ raceBarred' = lockedOut'
    BY <1>0, <1>5 DEF raceStage, raceBarred
  <2> QED
    BY <1>0, <1>5, <2>1 DEF RaceStep, Race!Next, Race!Miss
<1>6. CASE stage = "between" /\ stage' = "reading" /\ lockedOut' = {} /\ UNCHANGED winner
  <2>1. raceStage' = "dead" /\ winner = None /\ raceBarred' = {}
    BY <1>6 DEF raceStage, raceBarred, EngineOK
  <2> QED
    BY <1>6, <2>1 DEF RaceStep, Race!Next, Race!Deal
<1> QED
  BY <1>1, <1>2, <1>3, <1>4, <1>5, <1>6 DEF Apply, Accepts, Misses

\* Holding, reordering and delaying the presses of an arming never makes the room break the
\* promise of the race: one holder per arming, and nobody who has missed.
THEOREM HoldImplementsRace == Spec => KeepsTheRace
<1>1. Init => Race!Init
  BY DEF Init, Race!Init, raceStage, raceBarred
<1>2. IInv /\ [Next]_vars => RaceStep
  <2> SUFFICES ASSUME IInv, [Next]_vars PROVE RaceStep
    OBVIOUS
  <2>0. EngineOK /\ now \in Nat
    BY DEF IInv, TypeOK, Time
  <2>1. UNCHANGED engineVars => RaceStep
    BY DEF RaceStep, Race!raceVars, raceStage, raceBarred, engineVars
  <2>2. ASSUME NEW act \in Act, FlushThen(act) PROVE RaceStep
    BY <2>0, <2>1, <2>2, ActionRaces DEF FlushThen
  <2>3. ASSUME NEW p \in Player, RelayBuzz(p) PROVE RaceStep
    <3>1. [type |-> "buzz", player |-> p, at |-> now] \in Act
      BY <2>0 DEF Act, Time
    <3> QED
      BY <2>2, <2>3, <3>1 DEF RelayBuzz
  <2>4. ASSUME NEW type \in HostActions \cup {"none"}, FlushThen(Do(type)) PROVE RaceStep
    <3>1. Do(type) \in Act
      BY DEF Do, Act
    <3> QED
      BY <2>2, <2>4, <3>1
  <2>5. CASE FeedEngine
    <3>1. PICK x \in feed : EngineBuzz(x.player, StampedAt(window, x))
      BY <2>5 DEF FeedEngine
    <3>2. x.player \in Player
      BY DEF IInv, TypeOK, Press
    <3> QED
      BY <2>0, <3>1, <3>2, BuzzRaces
  <2>6. CASE FinishFlush
    <3>1. job.act \in Act
      BY DEF IInv, TypeOK, Job
    <3> QED
      BY <2>0, <2>1, <2>6, <3>1, ActionRaces DEF FinishFlush
  <2>7. CASE Resume
    <3>1. parked \in Act
      BY <2>7 DEF Resume, IInv, TypeOK
    <3> QED
      BY <2>0, <2>7, <3>1, ActionRaces DEF Resume
  <2> QED
    BY <2>1, <2>3, <2>4, <2>5, <2>6, <2>7
       DEF Next, Tick, HearArming, Paint, PressButton, HearAck, HoldBuzz, Request, AlarmRings,
           Evict, vars
<1> QED
  BY <1>1, <1>2, Invariance, PTL DEF Spec, KeepsTheRace, Race!Spec, RaceStep

=============================================================================
