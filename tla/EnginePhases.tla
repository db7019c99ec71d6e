---------------------------- MODULE EnginePhases ----------------------------
(***************************************************************************)
(* EngineTable as a specification.  GameEngine implements it, and          *)
(* RoomClock drives the same table.                                        *)
(***************************************************************************)
EXTENDS EngineTable

VARIABLES
  phase,       \* state.phase
  latched,     \* timeExpired of the current board
  clocks,      \* the settings timers that are not null
  answer       \* what the last accepted action answered: [sets, word]

vars == <<phase, latched, clocks, answer>>
game == [phase |-> phase, latched |-> latched]

Take(type) ==
  \E o \in Outcomes(game, clocks, type) :
    /\ phase' = o.to
    /\ latched' = Latches(game, type, o)
    /\ answer' = [sets |-> o.sets, word |-> o.word]
    /\ UNCHANGED clocks

Init == /\ phase = "lobby" /\ latched = FALSE /\ clocks \subseteq Setting
        /\ answer = [sets |-> {}, word |-> "silent"]
Next == \E type \in Type : Take(type)
Spec == Init /\ [][Next]_vars

=============================================================================
