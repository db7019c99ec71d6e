------------------------------ MODULE BuzzRace -----------------------------
(***************************************************************************)
(* What the buzzers promise, whatever the settings: a clue is dealt with   *)
(* the buzzers dead, an arming opens the race, the first valid press holds *)
(* it, and nobody else can hold it before a new arming (events.ts:         *)
(* "buzz-won fires EXACTLY ONCE per arming").  An entity barred from a     *)
(* clue stays barred until the next clue is dealt.                         *)
(***************************************************************************)
CONSTANTS Entity, None

VARIABLES stage, holder, barred
raceVars == <<stage, holder, barred>>

Stages == {"off", "dead", "open", "held"}

Init == stage = "off" /\ holder = None /\ barred = {}

\* A new clue: nobody is barred yet.
Deal == stage' = "dead" /\ holder' = None /\ barred' = {}

Arm == /\ stage = "dead"
       /\ stage' = "open"
       /\ UNCHANGED <<holder, barred>>

Win == \E e \in Entity \ barred :
         /\ stage = "open"
         /\ stage' = "held" /\ holder' = e
         /\ UNCHANGED barred

\* The holder missed: the buzzers open again or go dead.
Miss == /\ stage = "held"
        /\ stage' \in {"open", "dead"} /\ holder' = None
        /\ barred \subseteq barred' /\ barred' \subseteq barred \cup {holder}

\* The host bars an entity while nobody holds the race.
Bar == \E e \in Entity :
         /\ stage \in {"dead", "open"}
         /\ barred' = barred \cup {e}
         /\ UNCHANGED <<stage, holder>>

Close == stage' = "off" /\ holder' = None /\ barred' = {}

Next == Deal \/ Arm \/ Win \/ Miss \/ Bar \/ Close
Spec == Init /\ [][Next]_raceVars
=============================================================================
