-------------------------- MODULE RoomClock_proofs --------------------------
(***************************************************************************)
(* The room as the engine's clock, for every length of the timers and every *)
(* depth of undo.  The engine enters through what its table answers        *)
(* (GoodRow); a batch, or a skip through the book, is followed action by   *)
(* action (Follows), so its length does not matter either.                 *)
(***************************************************************************)
EXTENDS RoomClock, TLAPS, SequenceTheorems, FiniteSetTheorems, WellFoundedInduction

-----------------------------------------------------------------------------
(* The engine's table: what the room relies on in an answer o that the engine  *)
(* may give in state g.                                                        *)

\* No row asks for two timers besides the round's clock.
OneTimer(kinds) == \E k \in Kind : kinds \subseteq {"round-time-limit", k}
\* What every row keeps: only the loss of a tiebreaker clue and the latch go untold, an action
\* leaves the lobby only by a start that is told as one, and the end is told and final.
GoodRow(g, o) ==
  /\ o.to \in Phase /\ o.word \in Word /\ OneTimer(o.sets)
  /\ o.word = "silent" => /\ o.sets = {}
                          /\ o.to = g.phase \/ {o.to, g.phase} \subseteq TiebreakerClue
  /\ o.to = "game-over" => o.word = "over" \/ (g.phase = "game-over" /\ o.word = "told")
  /\ o.word = "over" => o.to = "game-over"
  /\ g.phase = "game-over" => o.to = "game-over"
  /\ o.to = "lobby" => g.phase = "lobby" /\ o.word = "told"
  /\ g.phase = "lobby" /\ o.to # "lobby" => o.word = "started"
  /\ o.word = "started" => g.phase = "lobby"

\* The answers between the lobby and the end, which is most of them.
Middle == Phase \ {"lobby", "game-over"}
Mid(o) == o.to \in Middle /\ o.word = "told" /\ OneTimer(o.sets)

\* A timer by itself.
LEMMA OneTimerAtMost ==
  ASSUME NEW k \in Kind, NEW kinds, kinds \subseteq {"round-time-limit", k}
  PROVE  OneTimer(kinds)
  BY DEF OneTimer

LEMMA NoTimer == OneTimer({})
  BY DEF OneTimer, Kind

LEMMA OnOne == ASSUME NEW s, NEW setting, NEW k \in Kind PROVE OneTimer(On(s, setting, k))
  BY OneTimerAtMost DEF On

\* An answer that stays in the middle of the game is good.
LEMMA MidRow ==
  ASSUME NEW g, g.phase \in Middle, NEW o, Mid(o)
  PROVE  GoodRow(g, o)
  BY DEF GoodRow, Mid, Middle, Word

\* So is one that moves nothing.
LEMMA StaysRow ==
  ASSUME NEW g, g.phase \in Phase, NEW o \in Stays(g)
  PROVE  GoodRow(g, o)
  BY NoTimer DEF GoodRow, Stays, Told, Outcome, Word

LEMMA MidTold ==
  ASSUME NEW to \in Middle, NEW kinds, OneTimer(kinds)
  PROVE  Mid(Told(to, kinds))
  BY DEF Mid, Told, Outcome

\* The flow spine stays in the middle.
LEMMA SpineMid ==
  ASSUME NEW g, NEW s, NEW o \in BoardWaits(s) \cup ClueUp(s) \cup ClueReads(s) \cup RoundEnds
                                 \cup ClueCloses(g, s) \cup Rearmed(s) \cup Writing \cup Wagers(s)
  PROVE  Mid(o)
<1> DEFINE shot == On(s, "selection-shot-clock", "selection-shot-clock")
           waits == Told("awaiting-selection", shot)
           reads == Told("reading", On(s, "auto-arm", "auto-arm"))
           wagers == Told("wagering", On(s, "wager-timer", "wager-entry"))
           ends == Told("round-break", {})
           armed == Told("armed", On(s, "buzz-window", "buzz-window"))
           writes == Told("final-writing", {"final-writing"})
           final == Told("final-wagers", On(s, "wager-timer", "final-wager"))
<1>1. o \in {waits, reads, wagers, ends, armed, writes, final}
  BY DEF BoardWaits, ClueUp, ClueReads, RoundEnds, ClueCloses, Rearmed, Writing, Wagers
<1>2. OneTimer({"final-writing"})
  BY OneTimerAtMost DEF Kind
<1>3. Mid(waits) /\ Mid(reads) /\ Mid(wagers) /\ Mid(ends) /\ Mid(armed) /\ Mid(writes)
      /\ Mid(final)
  BY <1>2, MidTold, OnOne, NoTimer DEF Middle, Phase, Kind
<1> HIDE DEF waits, reads, wagers, ends, armed, writes, final
<1> QED
  BY <1>1, <1>3

\* A round opens on the board or on its first clue.
LEMMA OpensRow ==
  ASSUME NEW s, NEW word, NEW o \in RoundOpens(s, word)
  PROVE  o.to \in {"awaiting-selection", "reading"} /\ o.word = word /\ OneTimer(o.sets)
<1>1. PICK b \in BoardWaits(s) \cup ClueReads(s) :
        o = Outcome(b.to, b.sets \cup On(s, "round-time-limit", "round-time-limit"), word)
  BY DEF RoundOpens
<1>2. /\ b.to \in {"awaiting-selection", "reading"}
      /\ \E k \in {"selection-shot-clock", "auto-arm"} : b.sets \subseteq {k}
  BY DEF BoardWaits, ClueReads, Told, Outcome, On
<1>3. OneTimer(b.sets \cup On(s, "round-time-limit", "round-time-limit"))
  BY <1>2, OneTimerAtMost DEF On, Kind
<1> QED
  BY <1>1, <1>2, <1>3 DEF Outcome

\* The end of the game, told as such.
LEMMA OverRow ==
  ASSUME NEW g, g.phase \in Middle
  PROVE  GoodRow(g, Outcome("game-over", {}, "over"))
  BY NoTimer DEF GoodRow, Outcome, Phase, Word, Middle

LEMMA FinishesRow ==
  ASSUME NEW g, g.phase \in Middle, NEW o \in Finishes
  PROVE  GoodRow(g, o)
<1>1. Mid(Told("tiebreaker-reading", {}))
  BY MidTold, NoTimer DEF Middle, Phase
<1> QED
  BY <1>1, OverRow, MidRow DEF Finishes

\* A tiebreaker clue that everybody missed.
LEMMA MissedRow ==
  ASSUME NEW g, g.phase \in {"tiebreaker-armed", "tiebreaker-answering"},
         NEW o \in TiebreakerMissed
  PROVE  GoodRow(g, o)
<1>1. Mid(Told("tiebreaker-armed", {})) /\ g.phase \in Middle
  BY MidTold, NoTimer DEF Middle, Phase
<1>2. GoodRow(g, Outcome("tiebreaker-reading", {}, "silent"))
  BY NoTimer DEF GoodRow, Outcome, Phase, Word, TiebreakerClue
<1> QED
  BY <1>1, <1>2, MidRow DEF TiebreakerMissed

\* Every answer of the table is good.
LEMMA Rows ==
  ASSUME NEW g, g.phase \in Phase, NEW s, NEW type \in Type, NEW o \in Outcomes(g, s, type)
  PROVE  GoodRow(g, o)
<1> DEFINE Mids == BoardWaits(s) \cup ClueUp(s) \cup ClueReads(s) \cup RoundEnds
                     \cup ClueCloses(g, s) \cup Rearmed(s) \cup Writing \cup Wagers(s)
<1>1. ASSUME o \in Mids, g.phase \in Middle PROVE GoodRow(g, o)
  BY <1>1, SpineMid, MidRow
<1>2. ASSUME NEW to \in Middle, NEW kinds, OneTimer(kinds), g.phase \in Middle, o = Told(to, kinds)
      PROVE  GoodRow(g, o)
  BY <1>2, MidTold, MidRow
<1> HIDE DEF Mids
<1>3. CASE type = "start-game"
  <2>1. g.phase = "lobby" /\ o \in RoundOpens(s, "started")
    BY <1>3 DEF Outcomes, From
  <2>2. o.to \in {"awaiting-selection", "reading"} /\ o.word = "started" /\ OneTimer(o.sets)
    BY <2>1, OpensRow
  <2> QED
    BY <2>1, <2>2 DEF GoodRow, Phase, Word
<1>4. CASE type \in {"select-cell", "selection-timeout"}
  <2>1. g.phase \in Middle /\ o \in Mids
    BY <1>4 DEF Outcomes, From, Mids, Middle
  <2> QED
    BY <2>1, <1>1
<1>5. CASE type = "arm-buzzers"
  <2>1. /\ g.phase \in Middle
        /\ \/ o \in Mids \/ o = Told("all-answering", {"everyone-answers-window"})
           \/ o = Told("tiebreaker-armed", On(s, "buzz-window", "buzz-window"))
    BY <1>5 DEF Outcomes, From, Mids, Middle
  <2>2. OneTimer({"everyone-answers-window"}) /\ OneTimer(On(s, "buzz-window", "buzz-window"))
    BY OneTimerAtMost, OnOne DEF Kind
  <2> QED
    BY <2>1, <2>2, <1>1, <1>2 DEF Middle, Phase
<1>6. CASE type = "buzz"
  <2>1. /\ g.phase \in Middle
        /\ \/ o \in Stays(g) \/ o = Told("answering", {"answer-window"})
           \/ o = Told("tiebreaker-answering", {})
    BY <1>6 DEF Outcomes, From, Middle
  <2>2. OneTimer({"answer-window"})
    BY OneTimerAtMost DEF Kind
  <2> QED
    BY <2>1, <2>2, <1>2, StaysRow, NoTimer DEF Middle, Phase
<1>7. CASE type = "buzz-timeout"
  <2>1. \/ g.phase = "armed" /\ o \in Mids
        \/ g.phase = "tiebreaker-armed" /\ o \in TiebreakerMissed
    BY <1>7 DEF Outcomes, From, Mids, TiebreakerMissed
  <2> QED
    BY <2>1, <1>1, MissedRow DEF Middle
<1>8. CASE type = "judge"
  <2>1. \/ g.phase \in {"answering", "wager-answering"} /\ o \in Mids
        \/ g.phase = "tiebreaker-answering" /\ o \in TiebreakerMissed
        \/ g.phase = "tiebreaker-answering" /\ o = Outcome("game-over", {}, "over")
    BY <1>8 DEF Outcomes, From, Mids
  <2> QED
    BY <2>1, <1>1, MissedRow, OverRow DEF Middle
<1>9. CASE type = "answer-timeout"
  <2>1. \/ g.phase \in {"answering", "wager-answering"} /\ o \in Mids \cup Stays(g)
        \/ g.phase = "all-answering" /\ (o \in Mids \/ o = Told("all-judging", {}))
        \/ g.phase = "tiebreaker-answering" /\ o \in TiebreakerMissed
    BY <1>9 DEF Outcomes, From, Mids
  <2> QED
    BY <2>1, <1>1, <1>2, StaysRow, MissedRow, NoTimer DEF Middle, Phase
<1>10. CASE type \in {"host-award", "cancel-clue"}
  <2>1. g.phase \in OpenClue /\ o \in Mids \cup Stays(g)
    <3>1. CASE type = "host-award"
      BY <3>1 DEF Outcomes, From, Mids, OpenClue
    <3>2. CASE type = "cancel-clue"
      BY <3>2 DEF Outcomes, From, Mids, OpenClue
    <3> QED
      BY <1>10, <3>1, <3>2
  <2> QED
    BY <2>1, <1>1, StaysRow DEF Middle, OpenClue
<1>11. CASE type \in {"commit-wager", "wager-timeout"}
  <2>1. g.phase \in Middle /\ o = Told("wager-answering", {})
    BY <1>11 DEF Outcomes, From, Middle
  <2> QED
    BY <2>1, <1>2, NoTimer DEF Middle, Phase
<1>12. CASE type \in {"submit-typed-answer", "close-answers"}
  <2>1. g.phase \in Middle /\ (o \in Stays(g) \cup Mids \/ o = Told("all-judging", {}))
    <3>1. CASE type = "submit-typed-answer"
      BY <3>1 DEF Outcomes, From, Middle
    <3>2. CASE type = "close-answers"
      BY <3>2 DEF Outcomes, From, Middle, Mids
    <3> QED
      BY <1>12, <3>1, <3>2
  <2> QED
    BY <2>1, <1>1, <1>2, StaysRow, NoTimer DEF Middle, Phase
<1>13. CASE type = "judge-entity"
  <2>1. g.phase \in Middle /\ o \in Stays(g) \cup Mids \cup Finishes
    BY <1>13 DEF Outcomes, From, Mids, Middle
  <2> QED
    BY <2>1, <1>1, StaysRow, FinishesRow
<1>14. CASE type = "end-round"
  <2>1. g.phase \in Middle /\ o \in Mids
    BY <1>14 DEF Outcomes, From, Mids, Middle
  <2> QED
    BY <2>1, <1>1
<1>15. CASE type = "round-timeout"
  <2>1. \/ g.phase \in Middle /\ o \in Mids
        \/ o = Outcome(g.phase, {}, "silent") /\ g.phase \in OpenClue
    BY <1>15 DEF Outcomes, From, Mids, Middle
  <2>2. CASE o = Outcome(g.phase, {}, "silent") /\ g.phase \in OpenClue
    BY <2>2, NoTimer DEF GoodRow, Outcome, Word, OpenClue
  <2> QED
    BY <2>1, <2>2, <1>1
<1>16. CASE type = "end-game"
  <2>1. g.phase \in Middle /\ o = Outcome("game-over", {}, "over")
    BY <1>16 DEF Outcomes, From, Middle
  <2> QED
    BY <2>1, OverRow
<1>17. CASE type = "proceed"
  <2>1. g.phase = "round-break" /\ o \in RoundOpens(s, "told") \cup Mids \cup Finishes
    BY <1>17 DEF Outcomes, From, Mids
  <2>2. CASE o \in RoundOpens(s, "told")
    BY <2>1, <2>2, OpensRow, MidRow DEF Mid, Middle, Phase
  <2> QED
    BY <2>1, <2>2, <1>1, FinishesRow DEF Middle
<1>18. CASE type \in {"commit-final-wager", "final-wager-timeout"}
  <2>1. g.phase = "final-wagers" /\ o \in Stays(g) \cup Mids
    <3>1. CASE type = "commit-final-wager"
      BY <3>1 DEF Outcomes, From, Mids
    <3>2. CASE type = "final-wager-timeout"
      BY <3>2 DEF Outcomes, From, Mids
    <3> QED
      BY <1>18, <3>1, <3>2
  <2> QED
    BY <2>1, <1>1, StaysRow DEF Middle
<1>19. CASE type \in {"submit-final-answer", "final-writing-timeout"}
  <2>1. g.phase = "final-writing" /\ (o \in Stays(g) \/ o = Told("final-reveal", {}))
    <3>1. CASE type = "submit-final-answer"
      BY <3>1 DEF Outcomes, From
    <3>2. CASE type = "final-writing-timeout"
      BY <3>2 DEF Outcomes, From
    <3> QED
      BY <1>19, <3>1, <3>2
  <2> QED
    BY <2>1, <1>2, StaysRow, NoTimer DEF Middle, Phase
<1>20. CASE type = "tiebreaker-next-clue"
  <2>1. g.phase \in {"tiebreaker-reading", "tiebreaker-armed"} /\ o = Told("tiebreaker-reading", {})
    BY <1>20 DEF Outcomes, From
  <2> QED
    BY <2>1, <1>2, NoTimer DEF Middle, Phase
<1>21. CASE type = "surgery"
  <2>1. o \in Stays(g)
    BY <1>21 DEF Outcomes
  <2> QED
    BY <2>1, StaysRow
<1> QED
  BY <1>3, <1>4, <1>5, <1>6, <1>7, <1>8, <1>9, <1>10, <1>11, <1>12, <1>13, <1>14, <1>15,
     <1>16, <1>17, <1>18, <1>19, <1>20, <1>21 DEF Type

-----------------------------------------------------------------------------
(* The book. *)

\* The book as the proofs speak of it: its entries, no kind twice.
EntryType == [kind : Kind, left : Nat, remaining : Nat \cup {None}]
Entries(book) == {book[i] : i \in DOMAIN book}
Distinct(book) == \A i, j \in DOMAIN book : book[i].kind = book[j].kind => i = j
BookOK(book) == book \in Seq(EntryType) /\ Distinct(book)

\* A non-empty set of naturals has a least member.
LEMMA LeastMember ==
  ASSUME NEW S \in SUBSET Nat, S # {}
  PROVE  \E i \in S : \A j \in S : i <= j
<1> DEFINE Below == {ss \in Nat \X Nat : ss[1] < ss[2]}
<1>1. IsWellFoundedOn(Below, Nat)
  BY NatLessThanWellFounded, Zenon DEF OpToRel
<1>2. PICK c \in S : \A d \in S : <<d, c>> \notin Below
  <2> HIDE DEF Below
  <2> QED BY <1>1, WFMin, Zenon
<1> SUFFICES ASSUME NEW d \in S PROVE c <= d
  OBVIOUS
<1>3. <<d, c>> \in Nat \X Nat /\ <<d, c>>[1] = d /\ <<d, c>>[2] = c
  OBVIOUS
<1>4. ~(<<d, c>>[1] < <<d, c>>[2])
  BY <1>2, <1>3, Zenon
<1> QED
  BY <1>3, <1>4

\* A timer that was just set.
LEMMA EntryOK == ASSUME NEW kind \in Kind PROVE Entry(kind) \in EntryType /\ Entry(kind).kind = kind
  BY LengthsAssumption DEF Entry, EntryType

\* Setting one timer replaces its entry or adds it.
LEMMA SetTimerBook ==
  ASSUME NEW book, BookOK(book), NEW kind \in Kind
  PROVE  /\ BookOK(SetTimer(book, kind))
         /\ Kinds(SetTimer(book, kind)) = Kinds(book) \cup {kind}
         /\ \A e \in Entries(SetTimer(book, kind)) :
              IF e.kind = kind THEN e = Entry(kind) ELSE e \in Entries(book)
<1>0. Entry(kind) \in EntryType /\ Entry(kind).kind = kind
  BY EntryOK
<1>1. CASE kind \in Kinds(book)
  <2> DEFINE new == [i \in DOMAIN book |-> IF book[i].kind = kind THEN Entry(kind) ELSE book[i]]
  <2>1. SetTimer(book, kind) = new
    BY <1>1 DEF SetTimer
  <2>2. new \in Seq(EntryType) /\ DOMAIN new = DOMAIN book
    BY <1>0 DEF BookOK
  <2>3. \A i \in DOMAIN book : new[i].kind = book[i].kind
    BY <1>0
  <2>4. \A i \in DOMAIN book :
          IF new[i].kind = kind THEN new[i] = Entry(kind) ELSE new[i] = book[i]
    BY <1>0
  <2> HIDE DEF new
  <2>5. Kinds(new) = Kinds(book) /\ Distinct(new)
    BY <2>2, <2>3 DEF Kinds, BookOK, Distinct
  <2>6. \A e \in Entries(new) : IF e.kind = kind THEN e = Entry(kind) ELSE e \in Entries(book)
    BY <2>2, <2>4 DEF Entries
  <2> QED
    BY <1>1, <2>1, <2>2, <2>5, <2>6 DEF BookOK
<1>2. CASE kind \notin Kinds(book)
  <2> DEFINE new == Append(book, Entry(kind))
  <2>1. SetTimer(book, kind) = new /\ book \in Seq(EntryType)
    BY <1>2 DEF SetTimer, BookOK
  <2>2. /\ new \in Seq(EntryType) /\ DOMAIN new = 1 .. Len(book) + 1
        /\ DOMAIN book = 1 .. Len(book) /\ Len(book) \in Nat
        /\ new[Len(book) + 1] = Entry(kind)
        /\ \A i \in 1 .. Len(book) : new[i] = book[i]
    BY <1>0, <2>1
  <2> HIDE DEF new
  <2>3. \A i \in DOMAIN new : i \in DOMAIN book \/ i = Len(book) + 1
    BY <2>2
  <2>4. \A i \in DOMAIN book : i \in DOMAIN new /\ book[i].kind # kind
    BY <1>2, <2>2 DEF Kinds
  <2>5. Kinds(new) = Kinds(book) \cup {kind}
    BY <1>0, <2>2, <2>3, <2>4 DEF Kinds
  <2>6. Distinct(new)
    BY <1>0, <2>2, <2>3, <2>4 DEF BookOK, Distinct
  <2>7. \A e \in Entries(new) : IF e.kind = kind THEN e = Entry(kind) ELSE e \in Entries(book)
    BY <1>0, <2>2, <2>3, <2>4 DEF Entries
  <2> QED
    BY <2>1, <2>2, <2>5, <2>6, <2>7 DEF BookOK
<1> QED
  BY <1>1, <1>2

\* What a book becomes when these timers are set.
SetIn(book, kinds, new) ==
  /\ BookOK(new) /\ Kinds(new) = Kinds(book) \cup kinds
  /\ \A e \in Entries(new) : IF e.kind \in kinds THEN e = Entry(e.kind) ELSE e \in Entries(book)

\* Setting at most one.
LEMMA SetTimerOfBook ==
  ASSUME NEW book, BookOK(book), NEW k \in Kind, NEW kinds, kinds \subseteq {k}
  PROVE  SetIn(book, kinds, SetTimerOf(book, kinds))
<1>1. CASE kinds = {}
  BY <1>1 DEF SetTimerOf, SetIn
<1>2. CASE kinds = {k}
  <2>1. SetTimerOf(book, kinds) = SetTimer(book, k)
    BY <1>2 DEF SetTimerOf
  <2> DEFINE new == SetTimer(book, k)
  <2>2. /\ BookOK(new) /\ Kinds(new) = Kinds(book) \cup {k}
        /\ \A e \in Entries(new) : IF e.kind = k THEN e = Entry(k) ELSE e \in Entries(book)
    BY SetTimerBook
  <2> HIDE DEF new
  <2>3. \A e \in Entries(new) : IF e.kind \in {k} THEN e = Entry(e.kind) ELSE e \in Entries(book)
    BY <2>2
  <2> QED
    BY <1>2, <2>1, <2>2, <2>3 DEF SetIn, new
<1> QED
  BY <1>1, <1>2

\* Setting those of an answer.
LEMMA SetTimersBook ==
  ASSUME NEW book, BookOK(book), NEW kinds, OneTimer(kinds)
  PROVE  SetIn(book, kinds, SetTimers(book, kinds)) /\ (kinds = {} => SetTimers(book, kinds) = book)
<1> DEFINE clock == kinds \cap {"round-time-limit"}
           others == kinds \ {"round-time-limit"}
           first == SetTimerOf(book, clock)
           new == SetTimerOf(first, others)
<1>1. PICK k \in Kind : kinds \subseteq {"round-time-limit", k}
  BY DEF OneTimer
<1>2. clock \subseteq {"round-time-limit"} /\ others \subseteq {k} /\ "round-time-limit" \in Kind
  BY <1>1 DEF Kind
<1>3. SetTimers(book, kinds) = new
  BY DEF SetTimers
<1>4. clock \cup others = kinds /\ clock \cap others = {}
  OBVIOUS
<1> HIDE DEF clock, others
<1>5. SetIn(book, clock, first)
  BY <1>2, SetTimerOfBook
<1>6. SetIn(first, others, new)
  <2>1. BookOK(first)
    BY <1>5 DEF SetIn
  <2> HIDE DEF first
  <2> QED
    BY <1>2, <2>1, SetTimerOfBook
<1>7. kinds = {} => new = book
  BY <1>4 DEF SetTimerOf
<1> HIDE DEF first, new
<1> QED
  BY <1>3, <1>4, <1>5, <1>6, <1>7 DEF SetIn

\* One step of Only.
Keep(book, kinds, n, kept) == IF book[n].kind \in kinds THEN Append(kept, book[n]) ELSE kept

\* The function that keeps of the first n entries, for every n up to m.
Keeps(book, kinds, m, f) ==
  /\ f = [n \in DOMAIN f |-> f[n]] /\ DOMAIN f = 0 .. m
  /\ \A n \in 0 .. m : f[n] = IF n = 0 THEN <<>> ELSE Keep(book, kinds, n, f[n - 1])

\* It exists, for every n: the recursion of Only is well founded.
LEMMA OnlyUnfolds ==
  ASSUME NEW book, NEW kinds, NEW N \in Nat
  PROVE  \E f : Keeps(book, kinds, N, f)
<1> DEFINE IsStep(f, n) == f[n] = IF n = 0 THEN <<>> ELSE Keep(book, kinds, n, f[n - 1])
           Is(f, m) == /\ f = [n \in DOMAIN f |-> f[n]] /\ DOMAIN f = 0 .. m
                       /\ \A n \in 0 .. m : IsStep(f, n)
           Bad == {m \in Nat : ~\E f : Is(f, m)}
<1>0. SUFFICES \E f : Is(f, N)
  BY DEF Keeps
<1>1. SUFFICES ASSUME Bad # {} PROVE FALSE
  OBVIOUS
<1>2. PICK m \in Bad : \A k \in Bad : m <= k
  <2> HIDE DEF Is
  <2> QED BY <1>1, LeastMember
<1>3. CASE m = 0
  <2> DEFINE f == [n \in 0 .. 0 |-> <<>>]
  <2>1. Is(f, 0)
    OBVIOUS
  <2> HIDE DEF f, Is
  <2> QED
    BY <1>2, <1>3, <2>1
<1>4. CASE m # 0
  <2>1. m - 1 \in Nat /\ m - 1 \notin Bad
    <3> HIDE DEF Is
    <3> QED BY <1>2, <1>4
  <2>2. PICK g : Is(g, m - 1)
    <3> HIDE DEF Is
    <3> QED BY <2>1
  <2> DEFINE f == [n \in 0 .. m |-> IF n = m THEN Keep(book, kinds, m, g[m - 1]) ELSE g[n]]
  <2>3. ASSUME NEW n \in 0 .. m PROVE IsStep(f, n)
    <3>1. CASE n = m
      <4>1. f[n - 1] = g[n - 1] /\ f[n] = Keep(book, kinds, m, g[m - 1])
        BY <1>2, <1>4, <3>1
      <4> QED
        BY <1>4, <3>1, <4>1
    <3>2. CASE n # m
      <4>1. n \in 0 .. m - 1 /\ f[n] = g[n] /\ (n # 0 => f[n - 1] = g[n - 1])
        BY <1>2, <3>2
      <4>2. IsStep(g, n)
        BY <2>2, <4>1
      <4> HIDE DEF f
      <4> QED
        BY <4>1, <4>2
    <3> QED
      BY <3>1, <3>2
  <2>4. f = [n \in DOMAIN f |-> f[n]] /\ DOMAIN f = 0 .. m
    OBVIOUS
  <2> HIDE DEF f, IsStep
  <2>5. Is(f, m)
    BY <2>3, <2>4
  <2> HIDE DEF Is
  <2> QED
    BY <1>2, <2>5
<1> QED
  BY <1>3, <1>4

\* What Only keeps of the first n entries.
KeptOf(book, kinds, n, kept) ==
  /\ BookOK(kept)
  /\ Entries(kept) = {e \in Entries(book) : e.kind \in kinds /\ \E i \in 1 .. n : e = book[i]}

\* One more entry.
LEMMA KeepOne ==
  ASSUME NEW book, BookOK(book), NEW kinds, NEW n \in 1 .. Len(book), NEW kept,
         KeptOf(book, kinds, n - 1, kept)
  PROVE  KeptOf(book, kinds, n, Keep(book, kinds, n, kept))
<1> DEFINE e == book[n]
<1>1. /\ Len(book) \in Nat /\ DOMAIN book = 1 .. Len(book) /\ e \in EntryType
      /\ e \in Entries(book) /\ n \in DOMAIN book
  BY DEF BookOK, Entries
<1>2. \A i : i \in 1 .. n <=> i \in 1 .. n - 1 \/ i = n
  BY <1>1
<1>3. ASSUME NEW i \in 1 .. n - 1 PROVE i \in DOMAIN book /\ book[i].kind # e.kind
  <2>1. i \in DOMAIN book /\ i # n
    BY <1>1
  <2> QED
    BY <1>1, <2>1 DEF BookOK, Distinct
<1> HIDE DEF e
<1>4. CASE e.kind \notin kinds
  <2>1. Keep(book, kinds, n, kept) = kept
    BY <1>4 DEF Keep, e
  <2>2. Entries(kept) = {d \in Entries(book) : d.kind \in kinds /\ \E i \in 1 .. n : d = book[i]}
    BY <1>2, <1>4 DEF KeptOf, e
  <2> QED
    BY <2>1, <2>2 DEF KeptOf
<1>5. CASE e.kind \in kinds
  <2> DEFINE new == Append(kept, e)
  <2>1. Keep(book, kinds, n, kept) = new /\ kept \in Seq(EntryType)
    BY <1>5 DEF Keep, KeptOf, BookOK, e
  <2>2. /\ new \in Seq(EntryType) /\ DOMAIN new = 1 .. Len(kept) + 1
        /\ DOMAIN kept = 1 .. Len(kept) /\ Len(kept) \in Nat
        /\ new[Len(kept) + 1] = e
        /\ \A i \in 1 .. Len(kept) : new[i] = kept[i]
    BY <1>1, <2>1
  <2> HIDE DEF new
  <2>3. Entries(new) = Entries(kept) \cup {e}
    BY <2>2 DEF Entries
  <2>4. Entries(new) = {d \in Entries(book) : d.kind \in kinds /\ \E i \in 1 .. n : d = book[i]}
    BY <1>1, <1>2, <1>5, <2>3 DEF KeptOf, e
  <2>5. \A i \in DOMAIN kept : kept[i].kind # e.kind
    <3> SUFFICES ASSUME NEW j \in DOMAIN kept PROVE kept[j].kind # e.kind
      OBVIOUS
    <3>1. kept[j] \in Entries(kept)
      BY DEF Entries
    <3>2. PICK i \in 1 .. n - 1 : kept[j] = book[i]
      BY <3>1 DEF KeptOf
    <3> QED
      BY <1>3, <3>2
  <2>6. Distinct(new)
    BY <2>2, <2>5 DEF KeptOf, BookOK, Distinct
  <2> QED
    BY <2>1, <2>2, <2>4, <2>6 DEF KeptOf, BookOK
<1> QED
  BY <1>4, <1>5

\* Only keeps exactly the entries of these kinds.
LEMMA OnlyBook ==
  ASSUME NEW book, BookOK(book), NEW kinds
  PROVE  /\ BookOK(Only(book, kinds))
         /\ Entries(Only(book, kinds)) = {e \in Entries(book) : e.kind \in kinds}
<1> DEFINE N == Len(book)
           Unfolded(g) ==
             g = [n \in 0 .. N |->
                    IF n = 0 THEN <<>>
                    ELSE IF book[n].kind \in kinds THEN Append(g[n - 1], book[n]) ELSE g[n - 1]]
           f == CHOOSE g : Unfolded(g)
<1>1. N \in Nat /\ DOMAIN book = 1 .. N
  BY DEF BookOK
<1>2. Only(book, kinds) = f[N]
  BY DEF Only
<1>3. Unfolded(f)
  <2>1. PICK g : Keeps(book, kinds, N, g)
    BY <1>1, OnlyUnfolds
  <2>2. \A n \in 0 .. N :
          g[n] = IF n = 0 THEN <<>>
                 ELSE IF book[n].kind \in kinds THEN Append(g[n - 1], book[n]) ELSE g[n - 1]
    BY <2>1 DEF Keep, Keeps
  <2>3. Unfolded(g)
    BY <2>1, <2>2 DEF Keeps
  <2> HIDE DEF Unfolded
  <2> QED BY <2>3
<1>4. \A n \in 0 .. N : f[n] = IF n = 0 THEN <<>> ELSE Keep(book, kinds, n, f[n - 1])
  <2> HIDE DEF f
  <2> QED BY <1>3 DEF Keep
<1> HIDE DEF f, N
<1> DEFINE Bad == {n \in 0 .. N : ~KeptOf(book, kinds, n, f[n])}
<1>5. Bad = {}
  <2> SUFFICES ASSUME Bad # {} PROVE FALSE
    OBVIOUS
  <2>1. PICK m \in Bad : \A k \in Bad : m <= k
    <3>1. Bad \subseteq Nat
      BY <1>1
    <3> QED BY <3>1, LeastMember
  <2>2. CASE m = 0
    <3>1. f[m] = <<>> /\ <<>> \in Seq(EntryType) /\ DOMAIN (<<>>) = {}
      BY <1>4, <2>1, <2>2
    <3>2. KeptOf(book, kinds, m, <<>>)
      BY <2>2, <3>1 DEF KeptOf, BookOK, Distinct, Entries
    <3> QED
      BY <2>1, <3>1, <3>2
  <2>3. CASE m # 0
    <3>1. m \in 1 .. N /\ m - 1 \in 0 .. N /\ m - 1 \notin Bad
      BY <1>1, <2>1, <2>3
    <3>2. f[m] = Keep(book, kinds, m, f[m - 1])
      BY <1>4, <2>3, <3>1
    <3>3. KeptOf(book, kinds, m, f[m])
      BY <3>1, <3>2, KeepOne DEF N
    <3> QED
      BY <2>1, <3>3
  <2> QED
    BY <2>2, <2>3
<1>6. KeptOf(book, kinds, N, f[N])
  BY <1>1, <1>5
<1> QED
  BY <1>1, <1>2, <1>6 DEF KeptOf, Entries

\* What stays in a book that these kinds leave.
LEMMA WithoutBook ==
  ASSUME NEW book, BookOK(book), NEW kinds
  PROVE  /\ BookOK(Without(book, kinds))
         /\ Entries(Without(book, kinds)) = {e \in Entries(book) : e.kind \notin kinds}
<1>1. \A e \in Entries(book) : e.kind \in Kind
  <2> SUFFICES ASSUME NEW i \in DOMAIN book PROVE book[i].kind \in Kind
    BY DEF Entries
  <2>1. book[i] \in EntryType
    BY DEF BookOK
  <2> QED
    BY <2>1 DEF EntryType
<1>2. {e \in Entries(book) : e.kind \in Kind \ kinds} = {e \in Entries(book) : e.kind \notin kinds}
  BY <1>1
<1> QED
  BY <1>2, OnlyBook DEF Without

-----------------------------------------------------------------------------
(* The memory of the room, and what a batch of actions makes of it.           *)

\* The lifecycle against the game and against every state an undo can bring back: what is over
\* has ended the room, and the lobby comes back only while the room has not left it.
History(m) ==
  /\ m.game.phase = "game-over" => m.lifecycle = "ended"
  /\ \A i \in DOMAIN m.log : m.log[i].phase = "game-over" => m.lifecycle = "ended"
  /\ m.lifecycle = "lobby" => m.game.phase = "lobby"
  /\ m.game.phase = "lobby" => \A i \in DOMAIN m.log : m.log[i].phase = "lobby"
  /\ \A i, j \in DOMAIN m.log :
       i < j /\ m.log[j].phase = "lobby" => m.log[i].phase = "lobby"
\* A memory in order.
MemOK(m) == m \in Memory /\ Distinct(m.book) /\ History(m)

\* The difference that an action without an event can make.
SamePhase(g, h) == g.phase = h.phase \/ {g.phase, h.phase} \subseteq TiebreakerClue

\* A result r of actions that started from m; whole: none of them took an entry out first.
Follows(m, r, whole) ==
  /\ r \in [m : Memory, told : BOOLEAN, set : SUBSET Kind]
  /\ MemOK(r.m) /\ r.m.paused = m.paused
  /\ \A e \in Entries(r.m.book) :
       IF e.kind \in r.set THEN e = Entry(e.kind) ELSE e \in Entries(m.book)
  /\ ~r.told => r.set = {} /\ r.m.lifecycle = m.lifecycle /\ SamePhase(r.m.game, m.game)
  /\ whole => Kinds(m.book) \subseteq Kinds(r.m.book) /\ (~r.told => r.m.book = m.book)

\* Its book.
LEMMA MemoryBook == ASSUME NEW m, MemOK(m) PROVE BookOK(m.book)
  BY DEF MemOK, Memory, BookOK, EntryType

\* Before the first action.
LEMMA UntouchedFollows ==
  ASSUME NEW m, MemOK(m), NEW whole \in BOOLEAN
  PROVE  Follows(m, Untouched(m), whole)
<1>1. m \in Memory
  BY DEF MemOK
<1> QED
  BY <1>1 DEF Follows, Untouched, SamePhase

\* The log is what was there and the game, cut off at the front.
LEMMA LoggedOf ==
  ASSUME NEW m \in Memory
  PROVE  /\ Logged(m) \in Seq(Engine)
         /\ \E k \in Nat : \A i \in DOMAIN Logged(m) :
              \/ i + k \in DOMAIN m.log /\ Logged(m)[i] = m.log[i + k]
              \/ i + k = Len(m.log) + 1 /\ Logged(m)[i] = m.game
<1> DEFINE log == Append(m.log, m.game)
           L == Len(m.log)
           first == Max({1, Len(log) - UndoDepth + 1})
<1>1. m.log \in Seq(Engine) /\ m.game \in Engine
  BY DEF Memory
<1>2. /\ log \in Seq(Engine) /\ Len(log) = L + 1 /\ L \in Nat /\ DOMAIN m.log = 1 .. L
      /\ \A i \in 1 .. L : log[i] = m.log[i]
      /\ log[L + 1] = m.game
  BY <1>1
<1> HIDE DEF log, L
<1>3. first \in Nat /\ first >= 1
  <2> DEFINE a == Len(log) - UndoDepth + 1
  <2>1. a \in Int
    BY <1>2, UndoDepthAssumption
  <2> HIDE DEF a
  <2>2. \E x \in {1, a} : \A y \in {1, a} : x >= y
    BY <2>1
  <2>3. first \in {1, a} /\ \A y \in {1, a} : first >= y
    BY <2>2 DEF Max, a
  <2> QED
    BY <2>1, <2>3
<1>4. Logged(m) = SubSeq(log, first, Len(log))
  BY DEF Logged, log
<1> HIDE DEF first
<1>5. /\ SubSeq(log, first, Len(log)) \in Seq(Engine)
      /\ DOMAIN SubSeq(log, first, Len(log)) = 1 .. (IF first <= L + 1 THEN L + 2 - first ELSE 0)
      /\ \A i \in 1 .. (IF first <= L + 1 THEN L + 2 - first ELSE 0) :
           SubSeq(log, first, Len(log))[i] = log[first + i - 1]
  BY <1>2, <1>3
<1>6. first - 1 \in Nat
  BY <1>3
<1> DEFINE new == SubSeq(log, first, Len(log))
<1> HIDE DEF new
<1>7. \A i \in DOMAIN new :
        \/ i + (first - 1) \in DOMAIN m.log /\ new[i] = m.log[i + (first - 1)]
        \/ i + (first - 1) = L + 1 /\ new[i] = m.game
  <2> SUFFICES ASSUME NEW i \in DOMAIN new
               PROVE  \/ i + (first - 1) \in DOMAIN m.log /\ new[i] = m.log[i + (first - 1)]
                      \/ i + (first - 1) = L + 1 /\ new[i] = m.game
    OBVIOUS
  <2>1. i \in Nat /\ i >= 1 /\ i <= L + 2 - first /\ new[i] = log[first + i - 1]
    BY <1>2, <1>3, <1>5 DEF new
  <2> DEFINE p == i + (first - 1)
  <2>2. first + i - 1 = p /\ p \in 1 .. L + 1
    BY <1>2, <1>3, <2>1
  <2>3. new[i] = log[p]
    BY <2>1, <2>2
  <2> HIDE DEF p
  <2>4. p \in 1 .. L \/ p = L + 1
    BY <1>2, <2>2
  <2>5. (p \in DOMAIN m.log /\ new[i] = m.log[p]) \/ (p = L + 1 /\ new[i] = m.game)
    BY <1>2, <2>3, <2>4
  <2> QED
    BY <2>5 DEF p
<1>8. Logged(m) = new /\ new \in Seq(Engine)
  BY <1>4, <1>5 DEF new
<1> DEFINE k == first - 1
<1> HIDE DEF k
<1>9. /\ k \in Nat
      /\ \A i \in DOMAIN new :
           \/ i + k \in DOMAIN m.log /\ new[i] = m.log[i + k]
           \/ i + k = L + 1 /\ new[i] = m.game
  BY <1>6, <1>7 DEF k
<1> QED
  BY <1>8, <1>9 DEF L

\* An action that the engine takes keeps the history.
LEMMA TakenHistory ==
  ASSUME NEW m, MemOK(m), NEW type, NEW o, GoodRow(m.game, o),
         NEW n \in Memory, n.game = After(m.game, type, o), n.log = Logged(m),
         n.lifecycle = Lifecycle(m, o.word)
  PROVE  History(n)
<1>0. m \in Memory /\ m.game \in Engine /\ n.game.phase = o.to
  BY DEF MemOK, Memory, After
<1>1. PICK k \in Nat : \A i \in DOMAIN Logged(m) :
        \/ i + k \in DOMAIN m.log /\ Logged(m)[i] = m.log[i + k]
        \/ i + k = Len(m.log) + 1 /\ Logged(m)[i] = m.game
  BY <1>0, LoggedOf
<1>2. \A i \in DOMAIN n.log : n.log[i] = m.game \/ \E j \in DOMAIN m.log : n.log[i] = m.log[j]
  BY <1>1
<1>3. /\ o.word = "started" => n.lifecycle = "active"
      /\ o.word = "over" => n.lifecycle = "ended"
      /\ o.word \notin {"started", "over"} => n.lifecycle = m.lifecycle
  BY DEF Lifecycle
<1>4. n.game.phase = "game-over" => n.lifecycle = "ended"
  BY <1>0, <1>3 DEF GoodRow, MemOK, History
<1>5. ASSUME NEW i \in DOMAIN n.log, n.log[i].phase = "game-over"
      PROVE  n.lifecycle = "ended"
  BY <1>2, <1>3, <1>5 DEF GoodRow, MemOK, History
<1>6. n.lifecycle = "lobby" => n.game.phase = "lobby"
  BY <1>0, <1>3 DEF GoodRow, MemOK, History
<1>7. ASSUME n.game.phase = "lobby", NEW i \in DOMAIN n.log
      PROVE  n.log[i].phase = "lobby"
  BY <1>0, <1>2, <1>7 DEF GoodRow, MemOK, History
<1>8. ASSUME NEW i \in DOMAIN n.log, NEW j \in DOMAIN n.log, i < j, n.log[j].phase = "lobby"
      PROVE  n.log[i].phase = "lobby"
  <2>1. m.log \in Seq(Engine) /\ n.log \in Seq(Engine)
    BY <1>0 DEF Memory
  <2>2. /\ i \in Nat /\ j \in Nat /\ DOMAIN m.log = 1 .. Len(m.log) /\ Len(m.log) \in Nat
        /\ i + k < j + k
    BY <1>8, <2>1
  <2>3. CASE j + k \in DOMAIN m.log /\ n.log[j] = m.log[j + k]
    <3>1. i + k \in DOMAIN m.log /\ n.log[i] = m.log[i + k]
      BY <1>1, <2>2, <2>3
    <3> QED
      BY <1>8, <2>2, <2>3, <3>1 DEF MemOK, History
  <2>4. CASE j + k = Len(m.log) + 1 /\ n.log[j] = m.game
    <3>1. i + k \in DOMAIN m.log /\ n.log[i] = m.log[i + k]
      BY <1>1, <2>2, <2>4
    <3> QED
      BY <1>8, <2>4, <3>1 DEF MemOK, History
  <2> QED
    BY <1>1, <2>3, <2>4
<1> QED
  BY <1>4, <1>5, <1>6, <1>7, <1>8 DEF History

\* An undo that brings back the newest state keeps it too.
LEMMA UndoneHistory ==
  ASSUME NEW m, MemOK(m), m.log # <<>>,
         NEW n \in Memory, n.game = Last(m.log), n.log = Front(m.log), n.lifecycle = m.lifecycle
  PROVE  History(n)
<1>1. m.log \in Seq(Engine) /\ Len(m.log) \in Nat \ {0} /\ DOMAIN m.log = 1 .. Len(m.log)
  BY DEF MemOK, Memory
<1>2. Len(m.log) \in DOMAIN m.log /\ n.game = m.log[Len(m.log)]
  BY <1>1 DEF Last
<1>3. /\ DOMAIN Front(m.log) = 1 .. Len(m.log) - 1
      /\ \A i \in 1 .. Len(m.log) - 1 : Front(m.log)[i] = m.log[i]
  BY <1>1 DEF Front
<1>4. \A i \in DOMAIN n.log :
        i \in DOMAIN m.log /\ i < Len(m.log) /\ n.log[i] = m.log[i]
  BY <1>1, <1>3
<1> QED
  BY <1>2, <1>4 DEF MemOK, History

\* A row asks for kinds that exist.
LEMMA OutcomeTimers ==
  ASSUME NEW g, NEW o, GoodRow(g, o)
  PROVE  o.sets \subseteq Kind
  BY DEF GoodRow, OneTimer, Kind

\* The memory after one accepted action.
Taken(m, type, o) ==
  [m EXCEPT !.game = After(m.game, type, o), !.log = Logged(m), !.book = SetTimers(m.book, o.sets),
            !.lifecycle = Lifecycle(m, o.word)]

\* It is in order.
LEMMA TakenMem ==
  ASSUME NEW m, MemOK(m), NEW type, NEW o, GoodRow(m.game, o)
  PROVE  /\ MemOK(Taken(m, type, o))
         /\ Taken(m, type, o).paused = m.paused
         /\ Taken(m, type, o).game.phase = o.to
         /\ Taken(m, type, o).lifecycle = Lifecycle(m, o.word)
         /\ Taken(m, type, o).book = SetTimers(m.book, o.sets)
<1> DEFINE n == Taken(m, type, o)
           game == After(m.game, type, o)
           book == SetTimers(m.book, o.sets)
           life == Lifecycle(m, o.word)
<1>1. m \in Memory /\ BookOK(m.book)
  BY MemoryBook DEF MemOK
<1>2. /\ game \in Engine /\ game.phase = o.to
  BY <1>1 DEF After, Latches, Engine, Memory, GoodRow
<1>3. Logged(m) \in Seq(Engine)
  BY <1>1, LoggedOf
<1>4. BookOK(book)
  BY <1>1, SetTimersBook DEF GoodRow, SetIn
<1>5. life \in {"lobby", "active", "ended"}
  BY <1>1 DEF Lifecycle, Memory
<1>6. /\ n.game = game /\ n.log = Logged(m) /\ n.book = book /\ n.lifecycle = life
      /\ n.paused = m.paused
  BY <1>1 DEF Taken, Memory
<1>7. n \in Memory
  <2> HIDE DEF game, book, life
  <2>1. n = [m EXCEPT !.game = game, !.log = Logged(m), !.book = book, !.lifecycle = life]
    BY DEF Taken, game, book, life
  <2>2. book \in Seq([kind : Kind, left : Nat, remaining : Nat \cup {None}])
    BY <1>4 DEF BookOK, EntryType
  <2> HIDE DEF n
  <2> QED
    BY <1>1, <1>2, <1>3, <1>5, <2>1, <2>2 DEF Memory
<1> HIDE DEF n
<1>8. History(n)
  BY <1>6, <1>7, TakenHistory
<1> QED
  BY <1>2, <1>4, <1>6, <1>7, <1>8 DEF MemOK, BookOK, n

\* Taking an answer.
LEMMA TakeFollows ==
  ASSUME NEW m, NEW whole \in BOOLEAN, NEW r, Follows(m, r, whole),
         NEW type, NEW o, GoodRow(r.m.game, o)
  PROVE  Follows(m, Take(r, type, o), whole)
<1> DEFINE s == Take(r, type, o)
           n == Taken(r.m, type, o)
           book == SetTimers(r.m.book, o.sets)
<1>1. /\ r.m \in Memory /\ MemOK(r.m) /\ r.told \in BOOLEAN /\ r.set \in SUBSET Kind
      /\ r.m.paused = m.paused
  BY DEF Follows
<1>2. s = [m |-> n, told |-> r.told \/ o.word # "silent", set |-> r.set \cup o.sets]
  BY DEF Take, Taken
<1>3. /\ MemOK(n) /\ n.paused = m.paused /\ n.game.phase = o.to
      /\ n.lifecycle = Lifecycle(r.m, o.word) /\ n.book = book
  BY <1>1, TakenMem
<1>4. SetIn(r.m.book, o.sets, book) /\ (o.sets = {} => book = r.m.book)
  BY <1>1, MemoryBook, SetTimersBook DEF GoodRow
<1> HIDE DEF n, book
<1>5. s \in [m : Memory, told : BOOLEAN, set : SUBSET Kind]
  BY <1>1, <1>2, <1>3, OutcomeTimers DEF MemOK
<1>6. s.m = n /\ s.told = (r.told \/ o.word # "silent") /\ s.set = r.set \cup o.sets
  BY <1>2
<1> HIDE DEF s
<1>7. ASSUME NEW e \in Entries(s.m.book)
      PROVE  IF e.kind \in s.set THEN e = Entry(e.kind) ELSE e \in Entries(m.book)
  BY <1>3, <1>4, <1>6 DEF Follows, SetIn
<1>8. ASSUME ~s.told
      PROVE  /\ s.set = {} /\ s.m.lifecycle = m.lifecycle /\ SamePhase(s.m.game, m.game)
             /\ book = r.m.book
  <2>1. ~r.told /\ o.word = "silent"
    BY <1>1, <1>6, <1>8
  <2>2. o.sets = {} /\ (o.to = r.m.game.phase \/ {o.to, r.m.game.phase} \subseteq TiebreakerClue)
    BY <2>1 DEF GoodRow
  <2>3. n.lifecycle = r.m.lifecycle
    BY <1>3, <2>1 DEF Lifecycle
  <2>4. SamePhase(n.game, m.game)
    BY <1>3, <2>1, <2>2 DEF Follows, SamePhase
  <2> QED
    BY <1>4, <1>6, <2>1, <2>2, <2>3, <2>4 DEF Follows
<1>9. ASSUME whole
      PROVE  Kinds(m.book) \subseteq Kinds(s.m.book) /\ (~s.told => s.m.book = m.book)
  <2>1. Kinds(book) = Kinds(r.m.book) \cup o.sets
    BY <1>4 DEF SetIn
  <2>2. ~s.told => ~r.told
    BY <1>1, <1>6
  <2> QED
    BY <1>3, <1>6, <1>8, <1>9, <2>1, <2>2 DEF Follows
<1> QED
  BY <1>3, <1>5, <1>6, <1>7, <1>8, <1>9 DEF Follows, s

\* The memory after an undo.
UndoneMem(m) == [m EXCEPT !.game = Last(m.log), !.log = Front(m.log)]

\* Taking one back.
LEMMA UndoneFollows ==
  ASSUME NEW m, NEW whole \in BOOLEAN, NEW r, Follows(m, r, whole), r.m.log # <<>>
  PROVE  Follows(m, Undone(r), whole)
<1> DEFINE s == Undone(r)
           n == UndoneMem(r.m)
<1>1. /\ r \in [m : Memory, told : BOOLEAN, set : SUBSET Kind]
      /\ r.m \in Memory /\ MemOK(r.m) /\ r.m.paused = m.paused
  BY DEF Follows
<1>2. s = [m |-> n, told |-> TRUE, set |-> r.set]
  <2> DEFINE game == Last(r.m.log)
             log == Front(r.m.log)
             once == [r EXCEPT !.m.game = game]
             twice == [once EXCEPT !.m.log = log]
  <2>1. s = [twice EXCEPT !.told = TRUE]
    BY DEF Undone
  <2> HIDE DEF game, log
  <2>2. once = [m |-> [r.m EXCEPT !.game = game], told |-> r.told, set |-> r.set]
    BY <1>1
  <2> HIDE DEF once
  <2>3. twice = [m |-> [r.m EXCEPT !.game = game, !.log = log], told |-> r.told, set |-> r.set]
    BY <1>1, <2>2
  <2> HIDE DEF twice, s
  <2> QED
    BY <2>1, <2>3 DEF UndoneMem, game, log
<1>3. Last(r.m.log) \in Engine /\ Front(r.m.log) \in Seq(Engine)
  <2>1. /\ r.m.log \in Seq(Engine) /\ Len(r.m.log) \in Nat \ {0}
        /\ DOMAIN r.m.log = 1 .. Len(r.m.log)
    BY <1>1 DEF Memory
  <2> QED
    BY <2>1 DEF Last, Front
<1>4. /\ n \in Memory /\ n.game = Last(r.m.log) /\ n.log = Front(r.m.log)
      /\ n.lifecycle = r.m.lifecycle /\ n.book = r.m.book /\ n.paused = r.m.paused
  BY <1>1, <1>3 DEF UndoneMem, Memory
<1> HIDE DEF n
<1>5. MemOK(n)
  BY <1>1, <1>4, UndoneHistory DEF MemOK
<1>6. /\ s.m = n /\ s.told = TRUE /\ s.set = r.set
      /\ s \in [m : Memory, told : BOOLEAN, set : SUBSET Kind]
  BY <1>1, <1>2, <1>4
<1> HIDE DEF s
<1> QED
  BY <1>1, <1>4, <1>5, <1>6 DEF Follows, s

\* One action of a batch, accepted or rejected.
LEMMA AppliedFollows ==
  ASSUME NEW m, NEW whole \in BOOLEAN, NEW r, Follows(m, r, whole),
         NEW type \in Type \cup {"undo"}, NEW s \in Applied(r, type)
  PROVE  Follows(m, s, whole)
<1>1. CASE type = "undo"
  BY <1>1, UndoneFollows DEF Applied
<1>2. CASE type # "undo"
  <2>1. s = r \/ \E o \in Outcomes(r.m.game, clocks, type) : s = Take(r, type, o)
    BY <1>2 DEF Applied
  <2>2. ASSUME NEW o \in Outcomes(r.m.game, clocks, type), s = Take(r, type, o)
        PROVE  Follows(m, s, whole)
    <3>1. r.m.game.phase \in Phase
      BY DEF Follows, Memory, Engine
    <3>2. GoodRow(r.m.game, o)
      BY <1>2, <3>1, Rows
    <3> QED
      BY <2>2, <3>2, TakeFollows
  <2> QED
    BY <2>1, <2>2
<1> QED
  BY <1>1, <1>2

\* The host's skip takes the entry out before its action is tried.
LEMMA ForcedFollows ==
  ASSUME NEW m, NEW r, Follows(m, r, FALSE), NEW e, e.kind \in Kind, NEW s \in Forced(r, e)
  PROVE  Follows(m, s, FALSE)
<1>1. CASE r.told
  BY <1>1 DEF Forced
<1>2. CASE ~r.told
  <2> DEFINE book == Without(r.m.book, {e.kind})
             n == [r.m EXCEPT !.book = book]
             q == [r EXCEPT !.m.book = book]
  <2>1. /\ r \in [m : Memory, told : BOOLEAN, set : SUBSET Kind]
        /\ r.m \in Memory /\ MemOK(r.m)
    BY DEF Follows
  <2>2. BookOK(book) /\ Entries(book) = {d \in Entries(r.m.book) : d.kind \notin {e.kind}}
    BY <2>1, MemoryBook, WithoutBook
  <2>3. s \in Applied(q, timerExpiryAction[e.kind])
    BY <1>2 DEF Forced
  <2>4. timerExpiryAction[e.kind] \in Type \cup {"undo"}
    BY DEF timerExpiryAction, Kind, Type
  <2> HIDE DEF book
  <2>5. /\ n \in Memory /\ n.book = book /\ n.game = r.m.game /\ n.log = r.m.log
        /\ n.lifecycle = r.m.lifecycle /\ n.paused = r.m.paused
    BY <2>1, <2>2 DEF Memory, BookOK, EntryType
  <2>6. q = [m |-> n, told |-> r.told, set |-> r.set]
    BY <2>1 DEF Memory
  <2> HIDE DEF n, q
  <2>7. MemOK(n)
    BY <2>1, <2>2, <2>5 DEF MemOK, History, BookOK
  <2>8. /\ q.m = n /\ q.told = r.told /\ q.set = r.set
        /\ q \in [m : Memory, told : BOOLEAN, set : SUBSET Kind]
    BY <2>1, <2>5, <2>6
  <2>9. Follows(m, q, FALSE)
    BY <2>2, <2>5, <2>7, <2>8 DEF Follows
  <2> QED
    BY <2>3, <2>4, <2>9, AppliedFollows
<1> QED
  BY <1>1, <1>2 DEF Follows

\* The results after each action of a batch.
Results(m, types, N, f) ==
  /\ f = [n \in DOMAIN f |-> f[n]] /\ DOMAIN f = 0 .. N
  /\ \A n \in 0 .. N : f[n] = IF n = 0 THEN {Untouched(m)} ELSE Further(f[n - 1], types[n])

\* It exists.
LEMMA ResultsExists ==
  ASSUME NEW m, NEW types, NEW N \in Nat
  PROVE  \E f : Results(m, types, N, f)
<1> DEFINE IsStep(f, n) == f[n] = IF n = 0 THEN {Untouched(m)} ELSE Further(f[n - 1], types[n])
           Is(f, k) == /\ f = [n \in DOMAIN f |-> f[n]] /\ DOMAIN f = 0 .. k
                       /\ \A n \in 0 .. k : IsStep(f, n)
           Bad == {k \in Nat : ~\E f : Is(f, k)}
<1>0. SUFFICES \E f : Is(f, N)
  BY DEF Results
<1>1. SUFFICES ASSUME Bad # {} PROVE FALSE
  OBVIOUS
<1>2. PICK k \in Bad : \A j \in Bad : k <= j
  <2> HIDE DEF Is
  <2> QED BY <1>1, LeastMember
<1>3. CASE k = 0
  <2> DEFINE f == [n \in 0 .. 0 |-> {Untouched(m)}]
  <2>1. Is(f, 0)
    OBVIOUS
  <2> HIDE DEF f, Is
  <2> QED
    BY <1>2, <1>3, <2>1
<1>4. CASE k # 0
  <2>1. k - 1 \in Nat /\ k - 1 \notin Bad
    <3> HIDE DEF Is
    <3> QED BY <1>2, <1>4
  <2>2. PICK g : Is(g, k - 1)
    <3> HIDE DEF Is
    <3> QED BY <2>1
  <2> DEFINE f == [n \in 0 .. k |-> IF n = k THEN Further(g[k - 1], types[k]) ELSE g[n]]
  <2>3. ASSUME NEW n \in 0 .. k PROVE IsStep(f, n)
    <3>1. CASE n = k
      <4>1. f[n - 1] = g[n - 1] /\ f[n] = Further(g[k - 1], types[k])
        BY <1>2, <1>4, <3>1
      <4> QED
        BY <1>4, <3>1, <4>1
    <3>2. CASE n # k
      <4>1. n \in 0 .. k - 1 /\ f[n] = g[n] /\ (n # 0 => f[n - 1] = g[n - 1])
        BY <1>2, <3>2
      <4>2. IsStep(g, n)
        BY <2>2, <4>1
      <4> HIDE DEF f
      <4> QED
        BY <4>1, <4>2
    <3> QED
      BY <3>1, <3>2
  <2>4. f = [n \in DOMAIN f |-> f[n]] /\ DOMAIN f = 0 .. k
    OBVIOUS
  <2> HIDE DEF f, IsStep
  <2>5. Is(f, k)
    BY <2>3, <2>4
  <2> HIDE DEF Is
  <2> QED
    BY <1>2, <2>5
<1> QED
  BY <1>3, <1>4

\* It is what Batch ends with.
LEMMA BatchUnfolds ==
  ASSUME NEW m, NEW types, Len(types) \in Nat
  PROVE  \E f : Results(m, types, Len(types), f) /\ Batch(m, types) = f[Len(types)]
<1> DEFINE N == Len(types)
           Unfolded(g) ==
             g = [n \in 0 .. N |-> IF n = 0 THEN {Untouched(m)} ELSE Further(g[n - 1], types[n])]
           f == CHOOSE g : Unfolded(g)
<1>1. Batch(m, types) = f[N]
  BY DEF Batch
<1>2. PICK g : Results(m, types, N, g)
  BY ResultsExists
<1>3. Unfolded(f)
  <2>1. \A n \in 0 .. N : g[n] = IF n = 0 THEN {Untouched(m)} ELSE Further(g[n - 1], types[n])
    BY <1>2 DEF Results
  <2>2. Unfolded(g)
    BY <1>2, <2>1 DEF Results
  <2> HIDE DEF Unfolded
  <2> QED BY <2>2
<1> HIDE DEF f, N
<1>4. Results(m, types, N, f)
  <2>1. DOMAIN f = 0 .. N /\ f = [n \in DOMAIN f |-> f[n]]
    BY <1>3
  <2>2. \A n \in 0 .. N : f[n] = IF n = 0 THEN {Untouched(m)} ELSE Further(f[n - 1], types[n])
    BY <1>3
  <2> QED
    BY <2>1, <2>2 DEF Results
<1> QED
  BY <1>1, <1>4 DEF N

\* Whatever a batch does, the memory it leaves is in order.
LEMMA BatchFollows ==
  ASSUME NEW m, MemOK(m), NEW types, Len(types) \in Nat,
         \A n \in 1 .. Len(types) : types[n] \in Type \cup {"undo"},
         NEW r \in Batch(m, types)
  PROVE  Follows(m, r, TRUE)
<1> DEFINE N == Len(types)
<1>0. N \in Nat
  OBVIOUS
<1>1. PICK f : Results(m, types, N, f) /\ Batch(m, types) = f[N]
  BY BatchUnfolds
<1> DEFINE Follow(n) == \A s \in f[n] : Follows(m, s, TRUE)
           Bad == {n \in 0 .. N : ~Follow(n)}
<1>2. Bad = {}
  <2> SUFFICES ASSUME Bad # {} PROVE FALSE
    OBVIOUS
  <2>1. PICK k \in Bad : \A j \in Bad : k <= j
    <3> HIDE DEF Follow, N
    <3>1. Bad \subseteq Nat
      BY <1>0
    <3> HIDE DEF Bad
    <3> QED BY <3>1, LeastMember
  <2>2. k \in 0 .. N /\ ~Follow(k)
    BY <2>1
  <2>3. f[k] = IF k = 0 THEN {Untouched(m)} ELSE Further(f[k - 1], types[k])
    <3>1. \A n \in 0 .. N : f[n] = IF n = 0 THEN {Untouched(m)} ELSE Further(f[n - 1], types[n])
      BY <1>1 DEF Results
    <3>2. k \in 0 .. N
      BY <2>2
    <3> HIDE DEF N, Follow, Bad
    <3> QED BY <3>1, <3>2, Zenon
  <2>4. CASE k = 0
    <3>1. f[k] = {Untouched(m)} /\ Follows(m, Untouched(m), TRUE)
      BY <2>3, <2>4, UntouchedFollows
    <3> QED
      BY <2>2, <3>1
  <2>5. CASE k # 0
    <3>1. k \in 1 .. N /\ Follow(k - 1)
      <4> HIDE DEF Follow, N
      <4>1. k \in 1 .. N /\ k - 1 \in 0 .. N /\ ~(k <= k - 1)
        BY <1>0, <2>2, <2>5
      <4> QED
        BY <2>1, <4>1
    <3>2. ASSUME NEW s \in f[k] PROVE Follows(m, s, TRUE)
      <4>1. PICK q \in f[k - 1] : s \in Applied(q, types[k])
        BY <2>3, <2>5 DEF Further
      <4>2. Follows(m, q, TRUE)
        BY <3>1, <4>1
      <4> QED
        BY <3>1, <4>1, <4>2, AppliedFollows
    <3> QED
      BY <2>2, <3>2
  <2> QED
    BY <2>4, <2>5
<1>3. Follow(N)
  <2> HIDE DEF Follow, N
  <2> QED BY <1>0, <1>2
<1> QED
  BY <1>1, <1>3

\* One entry further.
Onward(results, e) == UNION {Forced(r, e) : r \in results}

\* The results after each entry of a walk through the book.
Steps(m, walk, N, f) ==
  /\ f = [n \in DOMAIN f |-> f[n]] /\ DOMAIN f = 0 .. N
  /\ \A n \in 0 .. N : f[n] = IF n = 0 THEN {Untouched(m)} ELSE Onward(f[n - 1], walk[n])

\* It exists.
LEMMA StepsExists ==
  ASSUME NEW m, NEW walk, NEW N \in Nat
  PROVE  \E f : Steps(m, walk, N, f)
<1> DEFINE IsStep(f, n) == f[n] = IF n = 0 THEN {Untouched(m)} ELSE Onward(f[n - 1], walk[n])
           Is(f, k) == /\ f = [n \in DOMAIN f |-> f[n]] /\ DOMAIN f = 0 .. k
                       /\ \A n \in 0 .. k : IsStep(f, n)
           Bad == {k \in Nat : ~\E f : Is(f, k)}
<1>0. SUFFICES \E f : Is(f, N)
  BY DEF Steps
<1>1. SUFFICES ASSUME Bad # {} PROVE FALSE
  OBVIOUS
<1>2. PICK k \in Bad : \A j \in Bad : k <= j
  <2> HIDE DEF Is
  <2> QED BY <1>1, LeastMember
<1>3. CASE k = 0
  <2> DEFINE f == [n \in 0 .. 0 |-> {Untouched(m)}]
  <2>1. Is(f, 0)
    OBVIOUS
  <2> HIDE DEF f, Is
  <2> QED
    BY <1>2, <1>3, <2>1
<1>4. CASE k # 0
  <2>1. k - 1 \in Nat /\ k - 1 \notin Bad
    <3> HIDE DEF Is
    <3> QED BY <1>2, <1>4
  <2>2. PICK g : Is(g, k - 1)
    <3> HIDE DEF Is
    <3> QED BY <2>1
  <2> DEFINE f == [n \in 0 .. k |-> IF n = k THEN Onward(g[k - 1], walk[k]) ELSE g[n]]
  <2>3. ASSUME NEW n \in 0 .. k PROVE IsStep(f, n)
    <3>1. CASE n = k
      <4>1. f[n - 1] = g[n - 1] /\ f[n] = Onward(g[k - 1], walk[k])
        BY <1>2, <1>4, <3>1
      <4> QED
        BY <1>4, <3>1, <4>1
    <3>2. CASE n # k
      <4>1. n \in 0 .. k - 1 /\ f[n] = g[n] /\ (n # 0 => f[n - 1] = g[n - 1])
        BY <1>2, <3>2
      <4>2. IsStep(g, n)
        BY <2>2, <4>1
      <4> HIDE DEF f
      <4> QED
        BY <4>1, <4>2
    <3> QED
      BY <3>1, <3>2
  <2>4. f = [n \in DOMAIN f |-> f[n]] /\ DOMAIN f = 0 .. k
    OBVIOUS
  <2> HIDE DEF f, IsStep
  <2>5. Is(f, k)
    BY <2>3, <2>4
  <2> HIDE DEF Is
  <2> QED
    BY <1>2, <2>5
<1> QED
  BY <1>3, <1>4

\* It is what Walked ends with.
LEMMA WalkedUnfolds ==
  ASSUME NEW m, NEW walk, Len(walk) \in Nat
  PROVE  \E f : Steps(m, walk, Len(walk), f) /\ Walked(m, walk) = f[Len(walk)]
<1> DEFINE N == Len(walk)
           Unfolded(g) ==
             g = [n \in 0 .. N |-> IF n = 0 THEN {Untouched(m)}
                                   ELSE UNION {Forced(r, walk[n]) : r \in g[n - 1]}]
           f == CHOOSE g : Unfolded(g)
<1>1. Walked(m, walk) = f[N]
  BY DEF Walked
<1>2. PICK g : Steps(m, walk, N, g)
  BY StepsExists
<1>3. Unfolded(f)
  <2>1. \A n \in 0 .. N : g[n] = IF n = 0 THEN {Untouched(m)}
                                  ELSE UNION {Forced(r, walk[n]) : r \in g[n - 1]}
    BY <1>2 DEF Steps, Onward
  <2>2. Unfolded(g)
    BY <1>2, <2>1 DEF Steps
  <2> HIDE DEF Unfolded
  <2> QED BY <2>2
<1> HIDE DEF f, N
<1>4. Steps(m, walk, N, f)
  <2>1. DOMAIN f = 0 .. N /\ f = [n \in DOMAIN f |-> f[n]]
    BY <1>3
  <2>2. \A n \in 0 .. N : f[n] = IF n = 0 THEN {Untouched(m)}
                                  ELSE UNION {Forced(r, walk[n]) : r \in f[n - 1]}
    BY <1>3
  <2> QED
    BY <2>1, <2>2 DEF Steps, Onward
<1> QED
  BY <1>1, <1>4 DEF N

\* So does a walk.
LEMMA WalkedFollows ==
  ASSUME NEW m, MemOK(m), NEW walk, Len(walk) \in Nat,
         \A n \in 1 .. Len(walk) : walk[n].kind \in Kind,
         NEW r \in Walked(m, walk)
  PROVE  Follows(m, r, FALSE)
<1> DEFINE N == Len(walk)
<1>0. N \in Nat
  OBVIOUS
<1>1. PICK f : Steps(m, walk, N, f) /\ Walked(m, walk) = f[N]
  BY WalkedUnfolds
<1> DEFINE Follow(n) == \A s \in f[n] : Follows(m, s, FALSE)
           Bad == {n \in 0 .. N : ~Follow(n)}
<1>2. Bad = {}
  <2> SUFFICES ASSUME Bad # {} PROVE FALSE
    OBVIOUS
  <2>1. PICK k \in Bad : \A j \in Bad : k <= j
    <3> HIDE DEF Follow, N
    <3>1. Bad \subseteq Nat
      BY <1>0
    <3> HIDE DEF Bad
    <3> QED BY <3>1, LeastMember
  <2>2. k \in 0 .. N /\ ~Follow(k)
    BY <2>1
  <2>3. f[k] = IF k = 0 THEN {Untouched(m)} ELSE Onward(f[k - 1], walk[k])
    <3>1. \A n \in 0 .. N : f[n] = IF n = 0 THEN {Untouched(m)} ELSE Onward(f[n - 1], walk[n])
      BY <1>1 DEF Steps
    <3>2. k \in 0 .. N
      BY <2>2
    <3> HIDE DEF N, Follow, Bad
    <3> QED BY <3>1, <3>2, Zenon
  <2>4. CASE k = 0
    <3>1. f[k] = {Untouched(m)} /\ Follows(m, Untouched(m), FALSE)
      BY <2>3, <2>4, UntouchedFollows
    <3> QED
      BY <2>2, <3>1
  <2>5. CASE k # 0
    <3>1. k \in 1 .. N /\ Follow(k - 1)
      <4> HIDE DEF Follow, N
      <4>1. k \in 1 .. N /\ k - 1 \in 0 .. N /\ ~(k <= k - 1)
        BY <1>0, <2>2, <2>5
      <4> QED
        BY <2>1, <4>1
    <3>2. ASSUME NEW s \in f[k] PROVE Follows(m, s, FALSE)
      <4>1. PICK q \in f[k - 1] : s \in Forced(q, walk[k])
        BY <2>3, <2>5 DEF Onward
      <4>2. Follows(m, q, FALSE)
        BY <3>1, <4>1
      <4> QED
        BY <3>1, <4>1, <4>2, ForcedFollows
    <3> QED
      BY <2>2, <3>2
  <2> QED
    BY <2>4, <2>5
<1>3. Follow(N)
  <2> HIDE DEF Follow, N
  <2> QED BY <1>0, <1>2
<1> QED
  BY <1>1, <1>3

-----------------------------------------------------------------------------
(* The invariant.                                                              *)

\* Storage agrees with memory on everything that was narrated.
Synced ==
  /\ stored.book = mem.book /\ stored.paused = mem.paused /\ stored.lifecycle = mem.lifecycle
  /\ SamePhase(stored.game, mem.game)
\* The types of the rest.
RestOK ==
  /\ clocks \subseteq Setting /\ alarm \in Nat \cup {None}
  /\ owed \in [Kind -> Nat] /\ setPaused \subseteq Kind
\* AlarmCoversBook and PauseHoldsRunningTimers of any memory, entry by entry.
Covers(m, a) == ~m.paused => \A e \in Entries(m.book) : a # None /\ a <= e.left
Time(m, e) == IF m.paused THEN e.remaining ELSE e.left
Holds(m, due, except) ==
  \A e \in Entries(m.book) : e.kind \notin except => Time(m, e) = due[e.kind]
\* The inductive invariant.
ClockInv ==
  /\ MemOK(mem) /\ MemOK(stored) /\ Synced /\ RestOK
  /\ Covers(mem, alarm) /\ Holds(mem, owed, setPaused)

\* Entry by entry is index by index.
LEMMA CoversBook == ASSUME ClockInv PROVE AlarmCoversBook
  BY DEF ClockInv, Covers, AlarmCoversBook, Entries

LEMMA HoldsTimers == ASSUME ClockInv PROVE PauseHoldsRunningTimers
  BY DEF ClockInv, Holds, Time, PauseHoldsRunningTimers, Left, Entries

LEMMA KeepsUp == ASSUME ClockInv PROVE LifecycleKeepsUp
  BY DEF ClockInv, MemOK, History, LifecycleKeepsUp

\* As many kinds as entries, when no kind is entered twice.
LEMMA DistinctCount ==
  ASSUME NEW book, BookOK(book)
  PROVE  Cardinality(Kinds(book)) = Len(book)
<1> DEFINE T == Kinds(book)
           f == [i \in 1 .. Len(book) |-> book[i].kind]
<1>1. Len(book) \in Nat /\ DOMAIN book = 1 .. Len(book)
  BY DEF BookOK
<1>2. IsFiniteSet(1 .. Len(book)) /\ Cardinality(1 .. Len(book)) = Len(book)
  <2> DEFINE N == Len(book)
  <2> HIDE DEF N
  <2>1. N \in Nat
    BY <1>1 DEF N
  <2>2. IsFiniteSet(1 .. N) /\ Cardinality(1 .. N) = N
    BY <2>1, FS_Interval
  <2> QED
    BY <2>2 DEF N
<1>3. f \in Bijection(1 .. Len(book), T)
  <2>1. f \in [1 .. Len(book) -> T]
    BY <1>1 DEF Kinds
  <2>2. \A i, j \in 1 .. Len(book) : f[i] = f[j] => i = j
    BY <1>1 DEF BookOK, Distinct
  <2>3. \A t \in T : \E i \in 1 .. Len(book) : f[i] = t
    BY <1>1 DEF Kinds
  <2> HIDE DEF f, T
  <2> QED
    BY <2>1, <2>2, <2>3 DEF Bijection, Injection, Surjection, IsInjective
<1> HIDE DEF f, T
<1>4. ExistsBijection(1 .. Len(book), T)
  BY <1>3 DEF ExistsBijection
<1>5. IsFiniteSet(T) /\ Cardinality(T) = Len(book)
  BY <1>2, <1>4, FS_Bijection
<1> QED
  BY <1>5 DEF T

\* The invariant gives the types, and as many kinds as entries.
LEMMA InvTyped == ASSUME ClockInv PROVE TypeOK
<1>1. \A m \in {mem, stored} : Cardinality(Kinds(m.book)) = Len(m.book)
  BY MemoryBook, DistinctCount DEF ClockInv
<1> QED
  BY <1>1 DEF ClockInv, MemOK, RestOK, TypeOK

\* The runtime alarm rings no later than any entry.
LEMMA NextWakeCovers ==
  ASSUME NEW m, BookOK(m.book)
  PROVE  NextWake(m) \in Nat \cup {None} /\ Covers(m, NextWake(m))
<1>1. CASE m.paused \/ m.book = <<>>
  <2>1. NextWake(m) = None
    BY <1>1 DEF NextWake
  <2>2. m.book = <<>> => Entries(m.book) = {}
    BY DEF Entries
  <2> QED
    BY <1>1, <2>1, <2>2 DEF Covers
<1>2. CASE ~m.paused /\ m.book # <<>>
  <2> DEFINE S == {m.book[i].left : i \in DOMAIN m.book}
  <2>1. NextWake(m) = Min(S)
    BY <1>2 DEF NextWake
  <2>2. m.book \in Seq(EntryType) /\ DOMAIN m.book = 1 .. Len(m.book) /\ Len(m.book) \in Nat \ {0}
    BY <1>2 DEF BookOK
  <2>3. ASSUME NEW i \in DOMAIN m.book PROVE m.book[i].left \in Nat
    <3>1. m.book[i] \in EntryType
      BY <2>2
    <3> QED
      BY <3>1 DEF EntryType
  <2>4. S \in SUBSET Nat /\ S # {}
    <3>1. 1 \in DOMAIN m.book
      BY <2>2
    <3> QED BY <2>3, <3>1
  <2>5. \A e \in Entries(m.book) : e.left \in S
    BY DEF Entries
  <2> HIDE DEF S
  <2>6. \E x \in S : \A y \in S : x <= y
    BY <2>4, LeastMember
  <2>7. Min(S) \in S /\ \A y \in S : Min(S) <= y
    BY <2>6 DEF Min
  <2> QED
    BY <2>1, <2>4, <2>5, <2>7, NoneAssumption DEF Covers
<1> QED
  BY <1>1, <1>2

\* Pruning takes entries out and changes nothing else.
LEMMA PrunedMem ==
  ASSUME NEW m, MemOK(m)
  PROVE  /\ MemOK(Pruned(m))
         /\ Pruned(m).game = m.game /\ Pruned(m).paused = m.paused
         /\ Pruned(m).lifecycle = m.lifecycle
         /\ Entries(Pruned(m).book) =
              {e \in Entries(m.book) : e.kind \notin Kind \ timersByPhase[m.game.phase]}
<1> DEFINE book == Without(m.book, Kind \ timersByPhase[m.game.phase])
           n == [m EXCEPT !.book = book]
<1>1. /\ BookOK(book)
      /\ Entries(book) = {e \in Entries(m.book) : e.kind \notin Kind \ timersByPhase[m.game.phase]}
  BY MemoryBook, WithoutBook
<1>2. Pruned(m) = n /\ m \in Memory
  BY DEF Pruned, MemOK
<1> HIDE DEF book
<1>3. /\ n \in Memory /\ n.book = book /\ n.game = m.game /\ n.log = m.log
      /\ n.lifecycle = m.lifecycle /\ n.paused = m.paused
  BY <1>1, <1>2 DEF Memory, BookOK, EntryType
<1> HIDE DEF n
<1> QED
  BY <1>1, <1>2, <1>3 DEF MemOK, History, BookOK

\* A memory whose book was cut down.
LEMMA CutMem ==
  ASSUME NEW m, MemOK(m), NEW book, BookOK(book)
  PROVE  /\ MemOK([m EXCEPT !.book = book])
         /\ [m EXCEPT !.book = book].book = book
         /\ [m EXCEPT !.book = book].game = m.game
         /\ [m EXCEPT !.book = book].log = m.log
         /\ [m EXCEPT !.book = book].paused = m.paused
         /\ [m EXCEPT !.book = book].lifecycle = m.lifecycle
<1> DEFINE n == [m EXCEPT !.book = book]
<1>1. /\ n \in Memory /\ n.book = book /\ n.game = m.game /\ n.log = m.log
      /\ n.lifecycle = m.lifecycle /\ n.paused = m.paused
  BY DEF MemOK, Memory, BookOK, EntryType
<1> HIDE DEF n
<1>2. MemOK(n)
  BY <1>1 DEF MemOK, History, BookOK
<1> QED
  BY <1>1, <1>2 DEF n

\* What a settled result leaves in memory; m is the memory the actions started from.
SettledAs(m, r) ==
  /\ MemOK(mem') /\ mem'.paused = mem.paused
  /\ owed' \in [Kind -> Nat] /\ setPaused' \subseteq Kind
  /\ Holds(mem', owed', setPaused')
  /\ ~r.told => mem' = r.m /\ Entries(mem'.book) \subseteq Entries(m.book)

\* Settling a result, told or not, keeps the owed time.
LEMMA SettleStep ==
  ASSUME ClockInv, NEW m, m.paused = mem.paused, Entries(m.book) \subseteq Entries(mem.book),
         NEW whole \in BOOLEAN, NEW r, Follows(m, r, whole), Settle(r)
  PROVE  SettledAs(m, r)
<1>1. /\ MemOK(r.m) /\ r.m.paused = mem.paused /\ r.told \in BOOLEAN /\ r.set \subseteq Kind
  BY DEF Follows
<1>2. MemOK(mem') /\ mem'.paused = mem.paused /\ Entries(mem'.book) \subseteq Entries(r.m.book)
  BY <1>1, PrunedMem DEF Settle
<1>3. ~r.told => mem' = r.m
  BY DEF Settle
<1>4. /\ owed' = [k \in Kind |-> IF k \notin Kinds(mem'.book) THEN 0
                                 ELSE IF k \in r.set THEN Lengths[k] ELSE owed[k]]
      /\ setPaused' = Kinds(mem'.book) \cap
                        (IF mem.paused THEN setPaused \cup r.set ELSE setPaused \ r.set)
  BY DEF Settle
<1>5. owed' \in [Kind -> Nat] /\ setPaused' \subseteq Kind
  BY <1>1, <1>4, LengthsAssumption DEF ClockInv, RestOK
<1>6. ASSUME NEW e \in Entries(mem'.book), e.kind \notin setPaused'
      PROVE  Time(mem', e) = owed'[e.kind]
  <2>1. e \in EntryType /\ e.kind \in Kinds(mem'.book) /\ e.kind \in Kind
    <3>1. PICK i \in DOMAIN mem'.book : e = mem'.book[i]
      BY DEF Entries
    <3>2. mem'.book \in Seq(EntryType)
      BY <1>2, MemoryBook DEF BookOK
    <3>3. e \in EntryType /\ e.kind \in Kinds(mem'.book)
      BY <3>1, <3>2 DEF Kinds
    <3> QED
      BY <3>3 DEF EntryType
  <2>2. IF e.kind \in r.set THEN e = Entry(e.kind) ELSE e \in Entries(mem.book)
    BY <1>2 DEF Follows
  <2>3. CASE e.kind \in r.set
    <3>1. ~mem.paused
      BY <1>4, <1>6, <2>1, <2>3
    <3>2. e.left = Lengths[e.kind]
      BY <2>2, <2>3 DEF Entry
    <3> QED
      BY <1>2, <1>4, <2>1, <2>3, <3>1, <3>2 DEF Time
  <2>4. CASE e.kind \notin r.set
    <3>1. e \in Entries(mem.book) /\ e.kind \notin setPaused
      BY <1>4, <1>6, <2>1, <2>2, <2>4
    <3>2. Time(mem, e) = owed[e.kind]
      BY <3>1 DEF ClockInv, Holds
    <3> QED
      BY <1>2, <1>4, <2>1, <2>4, <3>2 DEF Time
  <2> QED
    BY <2>3, <2>4
<1>7. ~r.told => Entries(mem'.book) \subseteq Entries(m.book)
  BY <1>3 DEF Follows
<1> QED
  BY <1>2, <1>3, <1>5, <1>6, <1>7 DEF SettledAs, Holds

-----------------------------------------------------------------------------
(* The handlers.                                                               *)

\* The invariant of the next state, part by part.
NextOK ==
  /\ MemOK(mem') /\ MemOK(stored')
  /\ stored'.book = mem'.book /\ stored'.paused = mem'.paused
  /\ stored'.lifecycle = mem'.lifecycle /\ SamePhase(stored'.game, mem'.game)
  /\ clocks' \subseteq Setting /\ alarm' \in Nat \cup {None}
  /\ owed' \in [Kind -> Nat] /\ setPaused' \subseteq Kind
  /\ Covers(mem', alarm') /\ Holds(mem', owed', setPaused')

LEMMA NextIs == ASSUME NextOK PROVE ClockInv'
  BY DEF NextOK, ClockInv, Synced, RestOK

\* A new room.
LEMMA ClockInit == ASSUME Init PROVE ClockInv
<1>1. NewRoom \in Memory
  BY DEF NewRoom, Memory, NewGame, Engine, Phase
<1>2. /\ mem = NewRoom /\ stored = NewRoom /\ NewRoom.book = <<>> /\ NewRoom.log = <<>>
      /\ NewRoom.game.phase = "lobby" /\ NewRoom.lifecycle = "lobby"
  BY DEF Init, NewRoom, NewGame
<1>3. DOMAIN (<<>>) = {}
  OBVIOUS
<1>4. MemOK(NewRoom) /\ Entries(NewRoom.book) = {}
  BY <1>1, <1>2, <1>3 DEF MemOK, Distinct, History, Entries
<1> QED
  BY <1>2, <1>4 DEF Init, ClockInv, Synced, SamePhase, RestOK, Covers, Holds

\* What was told is stored and given to the alarm.
LEMMA ToldOK ==
  ASSUME ClockInv, NEW m, NEW r, SettledAs(m, r), stored' = mem', alarm' = NextWake(mem'),
         clocks' = clocks
  PROVE  NextOK
  BY MemoryBook, NextWakeCovers DEF SettledAs, NextOK, ClockInv, RestOK, SamePhase

\* A relayed action.
LEMMA ActStep ==
  ASSUME ClockInv, NEW type \in Type \cup {"undo"}, Act(type)
  PROVE  NextOK
<1>1. PICK r \in Batch(mem, <<type>>) :
        /\ Settle(r) /\ clocks' = clocks
        /\ IF r.told THEN stored' = mem' /\ alarm' = NextWake(mem') ELSE UNCHANGED <<stored, alarm>>
  BY DEF Act
<1>2. MemOK(mem)
  BY DEF ClockInv
<1>3. Follows(mem, r, TRUE)
  <2> DEFINE types == <<type>>
  <2>1. Len(types) \in Nat /\ \A n \in 1 .. Len(types) : types[n] \in Type \cup {"undo"}
    OBVIOUS
  <2> HIDE DEF types
  <2>2. r \in Batch(mem, types)
    BY DEF types
  <2> QED
    BY <1>2, <2>1, <2>2, BatchFollows
<1>4. SettledAs(mem, r)
  BY <1>1, <1>3, SettleStep
<1>5. CASE r.told
  BY <1>1, <1>4, <1>5, ToldOK
<1>6. CASE ~r.told
  <2>1. stored' = stored /\ alarm' = alarm
    BY <1>1, <1>6
  <2>2. /\ mem' = r.m /\ r.m.book = mem.book /\ r.m.lifecycle = mem.lifecycle
        /\ r.m.paused = mem.paused /\ SamePhase(r.m.game, mem.game)
    BY <1>3, <1>4, <1>6 DEF SettledAs, Follows
  <2>3. SamePhase(stored'.game, mem'.game)
    BY <2>1, <2>2 DEF ClockInv, Synced, SamePhase
  <2> QED
    BY <1>1, <1>4, <2>1, <2>2, <2>3
    DEF SettledAs, NextOK, ClockInv, Synced, RestOK, Covers
<1> QED
  BY <1>5, <1>6

\* What was not told is only taken out of the stored book.
LEMMA UntoldOK ==
  ASSUME ClockInv, NEW m, MemOK(m), m.paused = mem.paused, m.lifecycle = mem.lifecycle,
         m.game = mem.game, Entries(m.book) \subseteq Entries(mem.book),
         NEW whole \in BOOLEAN, NEW r, Follows(m, r, whole), SettledAs(m, r), ~r.told,
         stored' = [stored EXCEPT !.book = mem'.book], clocks' = clocks,
         alarm' \in Nat \cup {None}, Covers(mem', alarm')
  PROVE  NextOK
<1>1. /\ mem' = r.m /\ r.m.lifecycle = mem.lifecycle
      /\ r.m.paused = mem.paused /\ SamePhase(r.m.game, mem.game) /\ MemOK(mem')
  BY DEF SettledAs, Follows
<1>2. BookOK(mem'.book) /\ MemOK(stored)
  BY <1>1, MemoryBook DEF ClockInv
<1>3. /\ MemOK(stored') /\ stored'.book = mem'.book /\ stored'.game = stored.game
      /\ stored'.paused = stored.paused /\ stored'.lifecycle = stored.lifecycle
  BY <1>2, CutMem
<1>4. SamePhase(stored'.game, mem'.game)
  BY <1>1, <1>3 DEF ClockInv, Synced, SamePhase
<1> QED
  BY <1>1, <1>3, <1>4 DEF SettledAs, NextOK, ClockInv, Synced, RestOK

\* handleExpireTimer: the walk ends told, and is stored as any action, or it only took entries out.
LEMMA SkipStep == ASSUME ClockInv, Skip PROVE NextOK
<1> DEFINE S == {mem.book[i] : i \in DOMAIN mem.book}
<1>1. PICK walk \in ByDeadline(mem.book) : \E r \in Walked(mem, walk) :
        /\ Settle(r)
        /\ IF r.told
             THEN stored' = mem' /\ alarm' = NextWake(mem')
             ELSE stored' = [stored EXCEPT !.book = mem'.book] /\ UNCHANGED alarm
  BY DEF Skip
<1>2. PICK r \in Walked(mem, walk) :
        /\ Settle(r)
        /\ IF r.told
             THEN stored' = mem' /\ alarm' = NextWake(mem')
             ELSE stored' = [stored EXCEPT !.book = mem'.book] /\ UNCHANGED alarm
  BY <1>1
<1>3. MemOK(mem) /\ BookOK(mem.book) /\ clocks' = clocks
  BY MemoryBook DEF ClockInv, Skip
<1>4. Len(walk) \in Nat /\ \A n \in 1 .. Len(walk) : walk[n].kind \in Kind
  <2>1. /\ mem.book \in Seq(EntryType) /\ Len(mem.book) \in Nat
        /\ DOMAIN mem.book = 1 .. Len(mem.book)
    BY <1>3 DEF BookOK
  <2>2. IsFiniteSet(1 .. Len(mem.book))
    <3> DEFINE N == Len(mem.book)
    <3> HIDE DEF N
    <3>1. N \in Nat
      BY <2>1 DEF N
    <3>2. IsFiniteSet(1 .. N)
      BY <3>1, FS_Interval
    <3> QED
      BY <3>2 DEF N
  <2>3. IsFiniteSet(S)
    <3> DEFINE f == [i \in DOMAIN mem.book |-> mem.book[i]]
    <3>1. f \in Surjection(DOMAIN mem.book, S)
      BY DEF Surjection
    <3> HIDE DEF f, S
    <3> QED
      BY <2>1, <2>2, <3>1, FS_Surjection
  <2>4. S \subseteq EntryType
    BY <2>1
  <2> DEFINE c == Cardinality(S)
  <2>5. c \in Nat
    <3> HIDE DEF S
    <3> QED BY <2>3, FS_CardinalityType
  <2>6. walk \in [1 .. c -> S]
    BY DEF ByDeadline, SetToSeqs
  <2> HIDE DEF c, S
  <2>7. Len(walk) = c /\ \A n \in 1 .. c : walk[n] \in S
    <3>1. walk \in Seq(S)
      BY <2>5, <2>6
    <3> QED
      BY <2>5, <2>6, <3>1
  <2> QED
    BY <2>4, <2>5, <2>7 DEF EntryType
<1>5. Follows(mem, r, FALSE)
  BY <1>2, <1>3, <1>4, WalkedFollows
<1>6. SettledAs(mem, r)
  BY <1>2, <1>5, SettleStep
<1>7. CASE r.told
  BY <1>2, <1>3, <1>6, <1>7, ToldOK
<1>8. CASE ~r.told
  <2>1. stored' = [stored EXCEPT !.book = mem'.book] /\ alarm' = alarm
    BY <1>2, <1>8
  <2>2. Covers(mem', alarm') /\ alarm' \in Nat \cup {None}
    BY <1>6, <1>8, <2>1 DEF SettledAs, ClockInv, RestOK, Covers
  <2> QED
    BY <1>3, <1>5, <1>6, <1>8, <2>1, <2>2, UntoldOK
<1> QED
  BY <1>7, <1>8

\* Only kinds whose entry is due, of a room that is not paused, are taken out by the alarm.
LEMMA DueKindsOf ==
  ASSUME MemOK(mem)
  PROVE  /\ DueKinds \in Seq(Kind)
         /\ \A k \in Range(DueKinds) :
              ~mem.paused /\ \E i \in DOMAIN mem.book : mem.book[i].left = 0 /\ mem.book[i].kind = k
<1> DEFINE late == {i \in DOMAIN mem.book : mem.book[i].left = 0}
           kinds == {mem.book[i].kind : i \in late}
           due == Only(mem.book, kinds)
           dueKinds == [i \in DOMAIN due |-> due[i].kind]
<1>1. CASE mem.paused
  <2>1. DueKinds = <<>> /\ DOMAIN (<<>>) = {} /\ <<>> \in Seq(Kind)
    BY <1>1 DEF DueKinds
  <2> QED
    BY <2>1 DEF Range
<1>2. CASE ~mem.paused
  <2>1. DueKinds = dueKinds
    BY <1>2 DEF DueKinds
  <2>2. BookOK(due) /\ Entries(due) = {e \in Entries(mem.book) : e.kind \in kinds}
    BY MemoryBook, OnlyBook
  <2>3. \A k \in kinds : \E i \in DOMAIN mem.book : mem.book[i].left = 0 /\ mem.book[i].kind = k
    OBVIOUS
  <2> HIDE DEF due, kinds
  <2>4. /\ due \in Seq(EntryType) /\ DOMAIN due = 1 .. Len(due) /\ Len(due) \in Nat
    BY <2>2 DEF BookOK
  <2>5. ASSUME NEW i \in DOMAIN due PROVE due[i].kind \in Kind /\ due[i].kind \in kinds
    <3>1. due[i] \in EntryType
      BY <2>4
    <3>2. due[i] \in Entries(due)
      BY DEF Entries
    <3> QED
      BY <2>2, <3>1, <3>2 DEF EntryType
  <2>6. dueKinds \in Seq(Kind) /\ DOMAIN dueKinds = DOMAIN due
    BY <2>4, <2>5
  <2>7. \A k \in Range(dueKinds) : k \in kinds
    BY <2>5 DEF Range
  <2> HIDE DEF dueKinds
  <2> QED
    BY <1>2, <2>1, <2>3, <2>6, <2>7
<1> QED
  BY <1>1, <1>2

\* The memory the due actions start from, and the actions.
AlarmStart == [mem EXCEPT !.book = Without(@, Range(DueKinds))]
AlarmTypes == [i \in DOMAIN DueKinds |-> timerExpiryAction[DueKinds[i]]]

\* What is due is taken out, and nothing else.
LEMMA AlarmStartOK ==
  ASSUME MemOK(mem)
  PROVE  /\ MemOK(AlarmStart) /\ AlarmStart.paused = mem.paused
         /\ AlarmStart.lifecycle = mem.lifecycle /\ AlarmStart.game = mem.game
         /\ Entries(AlarmStart.book) = {e \in Entries(mem.book) : e.kind \notin Range(DueKinds)}
<1> DEFINE book == Without(mem.book, Range(DueKinds))
<1>1. BookOK(book) /\ Entries(book) = {e \in Entries(mem.book) : e.kind \notin Range(DueKinds)}
  BY MemoryBook, WithoutBook
<1>2. AlarmStart = [mem EXCEPT !.book = book]
  BY DEF AlarmStart
<1> HIDE DEF book
<1> QED
  BY <1>1, <1>2, CutMem

\* The batch of the due actions.
LEMMA AlarmFollows ==
  ASSUME MemOK(mem), NEW r \in Batch(AlarmStart, AlarmTypes)
  PROVE  Follows(AlarmStart, r, TRUE)
<1>1. DueKinds \in Seq(Kind)
  BY DueKindsOf
<1>2. \A k \in Kind : timerExpiryAction[k] \in Type
  BY DEF timerExpiryAction, Kind, Type
<1> DEFINE D == DueKinds
           types == [i \in DOMAIN D |-> timerExpiryAction[D[i]]]
<1>3. AlarmTypes = types
  BY DEF AlarmTypes
<1>4. D \in Seq(Kind)
  BY <1>1
<1> HIDE DEF D
<1>5. D \in [1 .. Len(D) -> Kind] /\ Len(D) \in Nat /\ DOMAIN D = 1 .. Len(D)
  BY <1>4
<1>6. types \in Seq(Type) /\ Len(types) \in Nat /\ DOMAIN types = 1 .. Len(types)
  <2>1. types \in [1 .. Len(D) -> Type]
    BY <1>2, <1>5
  <2>2. types \in Seq(Type)
    BY <1>5, <2>1
  <2> HIDE DEF types
  <2> QED
    BY <2>2
<1> HIDE DEF types
<1>7. \A n \in 1 .. Len(types) : types[n] \in Type \cup {"undo"}
  BY <1>6
<1> QED
  BY <1>3, <1>6, <1>7, AlarmStartOK, BatchFollows

\* onAlarm.
LEMMA OnAlarmStep == ASSUME ClockInv, OnAlarm PROVE NextOK
<1>1. PICK r \in Batch(AlarmStart, AlarmTypes) :
        Settle(r) /\ stored' = IF r.told THEN mem' ELSE [stored EXCEPT !.book = mem'.book]
  BY DEF OnAlarm, AlarmStart, AlarmTypes
<1>2. alarm' = NextWake(mem') /\ clocks' = clocks
  BY DEF OnAlarm
<1>3. MemOK(mem)
  BY DEF ClockInv
<1>4. /\ MemOK(AlarmStart) /\ AlarmStart.paused = mem.paused
      /\ AlarmStart.lifecycle = mem.lifecycle /\ AlarmStart.game = mem.game
      /\ Entries(AlarmStart.book) \subseteq Entries(mem.book)
  BY <1>3, AlarmStartOK
<1>5. Follows(AlarmStart, r, TRUE)
  BY <1>3, AlarmFollows
<1>6. SettledAs(AlarmStart, r)
  BY <1>1, <1>4, <1>5, SettleStep
<1>7. CASE r.told
  BY <1>1, <1>2, <1>6, <1>7, ToldOK
<1>8. CASE ~r.told
  <2>1. stored' = [stored EXCEPT !.book = mem'.book]
    BY <1>1, <1>8
  <2>2. Covers(mem', alarm') /\ alarm' \in Nat \cup {None}
    BY <1>2, <1>6, MemoryBook, NextWakeCovers DEF SettledAs
  <2> QED
    BY <1>2, <1>4, <1>5, <1>6, <1>8, <2>1, <2>2, UntoldOK
<1> QED
  BY <1>7, <1>8

\* An entry by entry change of the book that keeps the kinds.
LEMMA MappedBook ==
  ASSUME NEW book, BookOK(book), NEW new, DOMAIN new = DOMAIN book,
         new = [i \in DOMAIN book |-> new[i]],
         \A i \in DOMAIN book : new[i] \in EntryType /\ new[i].kind = book[i].kind
  PROVE  BookOK(new) /\ Kinds(new) = Kinds(book)
<1>1. book \in Seq(EntryType) /\ Len(book) \in Nat /\ DOMAIN book = 1 .. Len(book)
  BY DEF BookOK
<1>2. new \in Seq(EntryType)
  BY <1>1
<1>3. Distinct(new)
  BY DEF BookOK, Distinct
<1>4. Kinds(new) = Kinds(book)
  BY DEF Kinds
<1> QED
  BY <1>2, <1>3, <1>4 DEF BookOK

\* handleSetPause: freezing stores what is left, thawing gives it back.
LEMMA SetPauseStep == ASSUME ClockInv, SetPause PROVE NextOK /\ Kinds(mem'.book) = Kinds(mem.book)
<1> DEFINE new == [i \in DOMAIN mem.book |-> IF mem.paused THEN Thawed(mem.book[i])
                                                          ELSE Frozen(mem.book[i])]
<1>1. /\ MemOK(mem) /\ mem \in Memory /\ BookOK(mem.book) /\ mem.paused \in BOOLEAN
      /\ MemOK(stored) /\ stored \in Memory
  BY MemoryBook DEF ClockInv, MemOK, Memory
<1>2. mem.book \in Seq(EntryType) /\ \A i \in DOMAIN mem.book : mem.book[i] \in EntryType
  BY <1>1 DEF BookOK
<1>3. ASSUME NEW i \in DOMAIN mem.book
      PROVE  new[i] \in EntryType /\ new[i].kind = mem.book[i].kind
  <2> DEFINE e == mem.book[i]
  <2>1. e \in EntryType
    BY <1>2
  <2> HIDE DEF e
  <2>2. Thawed(e) \in EntryType /\ Thawed(e).kind = e.kind
    BY <2>1, NoneAssumption DEF Thawed, EntryType
  <2>3. Frozen(e) \in EntryType /\ Frozen(e).kind = e.kind
    BY <2>1 DEF Frozen, EntryType
  <2> QED
    BY <2>2, <2>3 DEF e
<1>4. BookOK(new) /\ Kinds(new) = Kinds(mem.book)
  <2>1. DOMAIN new = DOMAIN mem.book /\ new = [i \in DOMAIN mem.book |-> new[i]]
    OBVIOUS
  <2> HIDE DEF new
  <2> QED
    BY <1>1, <1>3, <2>1, MappedBook
<1>5. mem' = [mem EXCEPT !.paused = ~mem.paused, !.book = new]
  BY DEF SetPause
<1>6. /\ stored' = [stored EXCEPT !.paused = mem'.paused, !.book = mem'.book,
                                  !.lifecycle = mem'.lifecycle]
      /\ alarm' = NextWake(mem') /\ clocks' = clocks /\ owed' = owed /\ setPaused' = setPaused
  BY DEF SetPause
<1>7. ASSUME NEW e \in Entries(new), e.kind \notin setPaused
      PROVE  (IF mem.paused THEN e.left ELSE e.remaining) = owed[e.kind]
  <2>1. PICK i \in DOMAIN mem.book : e = new[i]
    BY DEF Entries
  <2> DEFINE d == mem.book[i]
  <2>2. d \in EntryType /\ d \in Entries(mem.book) /\ e.kind = d.kind
    BY <1>2, <1>3, <2>1 DEF Entries
  <2>3. Time(mem, d) = owed[d.kind] /\ owed[d.kind] \in Nat
    BY <1>7, <2>2 DEF ClockInv, Holds, RestOK, EntryType
  <2>4. e = IF mem.paused THEN Thawed(d) ELSE Frozen(d)
    BY <2>1
  <2> HIDE DEF d, new
  <2>5. CASE mem.paused
    <3>1. d.remaining = owed[d.kind] /\ d.remaining # None
      BY <2>3, <2>5, NoneAssumption DEF Time
    <3>2. e = [d EXCEPT !.left = d.remaining, !.remaining = None]
      BY <2>4, <2>5, <3>1 DEF Thawed
    <3>3. e.left = d.remaining
      BY <2>2, <3>2 DEF EntryType
    <3> QED
      BY <2>2, <2>5, <3>1, <3>3
  <2>6. CASE ~mem.paused
    <3>1. e = [d EXCEPT !.remaining = d.left]
      BY <2>4, <2>6 DEF Frozen
    <3>2. e.remaining = d.left
      BY <2>2, <3>1 DEF EntryType
    <3> QED
      BY <2>2, <2>3, <2>6, <3>2 DEF Time
  <2> QED
    BY <2>5, <2>6
<1> HIDE DEF new
<1>8. /\ mem' \in Memory /\ mem'.game = mem.game /\ mem'.log = mem.log /\ mem'.book = new
      /\ mem'.paused = ~mem.paused /\ mem'.lifecycle = mem.lifecycle
  BY <1>1, <1>4, <1>5 DEF Memory, BookOK, EntryType
<1>9. MemOK(mem')
  BY <1>1, <1>4, <1>8 DEF MemOK, History, BookOK
<1>10. /\ stored' \in Memory /\ stored'.game = stored.game /\ stored'.log = stored.log
       /\ stored'.book = new /\ stored'.paused = mem'.paused
       /\ stored'.lifecycle = mem.lifecycle
  BY <1>1, <1>4, <1>6, <1>8 DEF Memory, BookOK, EntryType
<1>11. MemOK(stored')
  BY <1>1, <1>4, <1>10 DEF MemOK, History, BookOK, ClockInv, Synced
<1>12. Holds(mem', owed', setPaused')
  BY <1>1, <1>6, <1>7, <1>8 DEF Holds, Time
<1>13. alarm' \in Nat \cup {None} /\ Covers(mem', alarm')
  BY <1>6, <1>9, MemoryBook, NextWakeCovers
<1>14. SamePhase(stored'.game, mem'.game)
  BY <1>8, <1>10 DEF ClockInv, Synced
<1> QED
  BY <1>4, <1>6, <1>8, <1>9, <1>10, <1>11, <1>12, <1>13, <1>14 DEF NextOK, ClockInv, RestOK

\* handleUpdateGameRules.
LEMMA UpdateRulesStep == ASSUME ClockInv, UpdateRules PROVE NextOK /\ mem' = mem
  BY DEF UpdateRules, NextOK, ClockInv, Synced, RestOK, Setting

\* A late join: the same game, with one entry more in its log.
LEMMA LateJoinStep ==
  ASSUME ClockInv, LateJoin
  PROVE  NextOK /\ mem'.book = mem.book
<1> DEFINE o == Told(mem.game.phase, {})
<1>1. /\ mem \in Memory /\ stored \in Memory /\ MemOK(mem) /\ MemOK(stored) /\ Synced
      /\ mem.game \in Engine /\ Logged(mem) \in Seq(Engine)
  BY LoggedOf DEF ClockInv, MemOK, Memory
<1>2. /\ mem' \in Memory /\ mem'.game = mem.game /\ mem'.log = Logged(mem)
      /\ mem'.book = mem.book /\ mem'.paused = mem.paused /\ mem'.lifecycle = mem.lifecycle
  BY <1>1 DEF LateJoin, Memory
<1>3. /\ stored' \in Memory /\ stored'.game = mem'.game /\ stored'.log = mem'.log
      /\ stored'.book = mem'.book /\ stored'.paused = mem'.paused
      /\ stored'.lifecycle = mem'.lifecycle
  BY <1>1, <1>2 DEF LateJoin, Memory, Synced
<1>4. GoodRow(mem.game, o)
  BY <1>1, StaysRow DEF Engine, Stays
<1>5. mem.game = After(mem.game, "surgery", o) /\ mem.lifecycle = Lifecycle(mem, o.word)
  BY <1>1 DEF After, Latches, Engine, Told, Outcome, Lifecycle
<1>6. History(mem')
  BY <1>1, <1>2, <1>4, <1>5, TakenHistory
<1>7. MemOK(mem') /\ MemOK(stored')
  BY <1>1, <1>2, <1>3, <1>6 DEF MemOK, History
<1>8. clocks' = clocks /\ alarm' = alarm /\ owed' = owed /\ setPaused' = setPaused
  BY DEF LateJoin
<1> QED
  BY <1>2, <1>3, <1>7, <1>8
  DEF NextOK, ClockInv, RestOK, SamePhase, Covers, Holds, Time

\* closeRoom: from ended the lobby does not come back, so no state in the log contradicts it.
LEMMA CloseRoomStep ==
  ASSUME ClockInv, CloseRoom
  PROVE  NextOK /\ Kinds(mem'.book) = Kinds(mem.book)
<1>1. mem \in Memory /\ stored \in Memory /\ MemOK(mem) /\ MemOK(stored)
  BY DEF ClockInv, MemOK
<1>2. /\ mem' \in Memory /\ mem'.game = mem.game /\ mem'.log = mem.log /\ mem'.book = mem.book
      /\ mem'.paused = mem.paused /\ mem'.lifecycle = "ended"
  BY <1>1 DEF CloseRoom, Memory
<1>3. /\ stored' \in Memory /\ stored'.game = stored.game /\ stored'.log = stored.log
      /\ stored'.book = stored.book /\ stored'.paused = stored.paused
      /\ stored'.lifecycle = "ended"
  BY <1>1 DEF CloseRoom, Memory
<1>4. MemOK(mem') /\ MemOK(stored')
  BY <1>1, <1>2, <1>3 DEF MemOK, History
<1>5. clocks' = clocks /\ alarm' = alarm /\ owed' = owed /\ setPaused' = setPaused
  BY DEF CloseRoom
<1> QED
  BY <1>2, <1>3, <1>4, <1>5
  DEF NextOK, ClockInv, Synced, RestOK, SamePhase, Covers, Holds, Time, Kinds

\* An eviction reads back what storage agrees with.
LEMMA EvictStep ==
  ASSUME ClockInv, Evict
  PROVE  NextOK /\ mem'.book = mem.book
<1>1. /\ mem' = stored /\ stored' = stored /\ clocks' = clocks /\ alarm' = alarm
      /\ owed' = owed /\ setPaused' = setPaused
  BY DEF Evict
<1> QED
  BY <1>1 DEF NextOK, ClockInv, Synced, RestOK, SamePhase, Covers, Holds, Time

\* A moment passes for every entry.
LEMMA LaterBook ==
  ASSUME NEW book, BookOK(book)
  PROVE  /\ BookOK(Later(book)) /\ Kinds(Later(book)) = Kinds(book)
         /\ \A e \in Entries(Later(book)) : \E d \in Entries(book) :
              d \in EntryType /\ e = [d EXCEPT !.left = Less(d.left)]
<1> DEFINE new == Later(book)
<1>1. new = [i \in DOMAIN book |-> [book[i] EXCEPT !.left = Less(book[i].left)]]
  BY DEF Later
<1>2. book \in Seq(EntryType) /\ \A i \in DOMAIN book : book[i] \in EntryType
  BY DEF BookOK
<1> HIDE DEF new
<1>3. ASSUME NEW i \in DOMAIN book
      PROVE  new[i] \in EntryType /\ new[i].kind = book[i].kind
  <2> DEFINE e == book[i]
  <2>1. e \in EntryType /\ new[i] = [e EXCEPT !.left = Less(e.left)]
    BY <1>1, <1>2
  <2> HIDE DEF e
  <2>2. Less(e.left) \in Nat
    BY <2>1, NoneAssumption DEF Less, EntryType
  <2> QED
    BY <2>1, <2>2 DEF EntryType, e
<1>4. DOMAIN new = DOMAIN book /\ new = [i \in DOMAIN book |-> new[i]]
  BY <1>1
<1>5. BookOK(new) /\ Kinds(new) = Kinds(book)
  BY <1>3, <1>4, MappedBook
<1>6. ASSUME NEW e \in Entries(new)
      PROVE  \E d \in Entries(book) : d \in EntryType /\ e = [d EXCEPT !.left = Less(d.left)]
  <2>1. PICK i \in DOMAIN book : e = new[i]
    BY <1>4 DEF Entries
  <2>2. book[i] \in Entries(book) /\ book[i] \in EntryType
    BY <1>2 DEF Entries
  <2> QED
    BY <1>1, <2>1, <2>2
<1> QED
  BY <1>5, <1>6 DEF new

\* A moment passes.
LEMMA TickStep ==
  ASSUME ClockInv, Tick
  PROVE  NextOK /\ Kinds(mem'.book) = Kinds(mem.book)
<1> DEFINE new == Later(mem.book)
<1>1. MemOK(mem) /\ MemOK(stored) /\ BookOK(mem.book) /\ stored.book = mem.book
  BY MemoryBook DEF ClockInv, Synced
<1>2. /\ BookOK(new) /\ Kinds(new) = Kinds(mem.book)
      /\ \A e \in Entries(new) : \E d \in Entries(mem.book) :
           d \in EntryType /\ e = [d EXCEPT !.left = Less(d.left)]
  BY <1>1, LaterBook
<1>3. /\ mem' = [mem EXCEPT !.book = new] /\ stored' = [stored EXCEPT !.book = new]
      /\ alarm' = Less(alarm) /\ clocks' = clocks /\ setPaused' = setPaused
      /\ owed' = IF mem.paused THEN owed ELSE [k \in Kind |-> Less(owed[k])]
  BY <1>1 DEF Tick
<1> HIDE DEF new
<1>4. /\ MemOK(mem') /\ mem'.book = new /\ mem'.game = mem.game /\ mem'.paused = mem.paused
      /\ mem'.lifecycle = mem.lifecycle
      /\ MemOK(stored') /\ stored'.book = new /\ stored'.game = stored.game
      /\ stored'.paused = stored.paused /\ stored'.lifecycle = stored.lifecycle
  BY <1>1, <1>2, <1>3, CutMem
<1>5. ASSUME NEW n \in Nat PROVE Less(n) \in Nat /\ Less(n) = IF n = 0 THEN 0 ELSE n - 1
  BY NoneAssumption DEF Less
<1>6. alarm \in Nat \cup {None} /\ owed \in [Kind -> Nat] /\ Less(None) = None
  BY DEF ClockInv, RestOK, Less
<1>7. alarm' \in Nat \cup {None} /\ owed' \in [Kind -> Nat]
  BY <1>3, <1>5, <1>6
<1>8. ASSUME NEW e \in Entries(new), NEW d \in Entries(mem.book),
             d \in EntryType, e = [d EXCEPT !.left = Less(d.left)]
      PROVE  /\ ~mem.paused => alarm' # None /\ alarm' <= e.left
             /\ e.kind \notin setPaused => Time(mem', e) = owed'[e.kind]
  <2>1. /\ e.kind = d.kind /\ e.left = Less(d.left) /\ e.remaining = d.remaining
        /\ d.left \in Nat /\ d.kind \in Kind
    BY <1>8 DEF EntryType
  <2>2. ASSUME ~mem.paused PROVE alarm' # None /\ alarm' <= e.left
    <3>1. alarm # None /\ alarm \in Nat /\ alarm <= d.left
      BY <1>6, <2>2 DEF ClockInv, Covers
    <3>2. Less(alarm) \in Nat /\ Less(alarm) <= Less(d.left)
      BY <1>5, <2>1, <3>1
    <3> QED
      BY <1>3, <2>1, <3>2, NoneAssumption
  <2>3. ASSUME e.kind \notin setPaused PROVE Time(mem', e) = owed'[e.kind]
    <3>1. Time(mem, d) = owed[d.kind]
      BY <2>1, <2>3 DEF ClockInv, Holds
    <3>2. CASE mem.paused
      BY <1>3, <1>4, <2>1, <3>1, <3>2 DEF Time
    <3>3. CASE ~mem.paused
      BY <1>3, <1>4, <2>1, <3>1, <3>3 DEF Time
    <3> QED
      BY <3>2, <3>3
  <2> QED
    BY <2>2, <2>3
<1>9. Covers(mem', alarm')
  <2> SUFFICES ASSUME ~mem'.paused, NEW e \in Entries(mem'.book)
               PROVE  alarm' # None /\ alarm' <= e.left
    BY DEF Covers
  <2> QED
    BY <1>2, <1>4, <1>8
<1>10. Holds(mem', owed', setPaused')
  <2> SUFFICES ASSUME NEW e \in Entries(mem'.book), e.kind \notin setPaused'
               PROVE  Time(mem', e) = owed'[e.kind]
    BY DEF Holds
  <2> QED
    BY <1>2, <1>3, <1>4, <1>8
<1>11. /\ SamePhase(stored'.game, mem'.game) /\ stored'.paused = mem'.paused
       /\ stored'.lifecycle = mem'.lifecycle
       /\ clocks' \subseteq Setting /\ setPaused' \subseteq Kind
  BY <1>3, <1>4 DEF ClockInv, Synced, RestOK
<1> QED
  BY <1>2, <1>4, <1>7, <1>9, <1>10, <1>11 DEF NextOK

\* Every step keeps the invariant.
LEMMA ClockStep == ASSUME ClockInv, [Next]_vars PROVE ClockInv'
<1>1. CASE UNCHANGED vars
  BY <1>1 DEF vars, ClockInv, Synced, RestOK
<1>2. ASSUME NEW type \in Type \cup {"undo"}, Act(type) PROVE ClockInv'
  BY <1>2, ActStep, NextIs
<1>3. CASE SetPause
  BY <1>3, SetPauseStep, NextIs
<1>4. CASE Skip
  BY <1>4, SkipStep, NextIs
<1>5. CASE Ring \/ OtherWake
  BY <1>5, OnAlarmStep, NextIs DEF Ring, OtherWake
<1>6. CASE UpdateRules
  BY <1>6, UpdateRulesStep, NextIs
<1>7. CASE CloseRoom
  BY <1>7, CloseRoomStep, NextIs
<1>8. CASE Evict
  BY <1>8, EvictStep, NextIs
<1>9. CASE Tick
  BY <1>9, TickStep, NextIs
<1>10. CASE LateJoin
  BY <1>10, LateJoinStep, NextIs
<1> QED
  BY <1>1, <1>2, <1>3, <1>4, <1>5, <1>6, <1>7, <1>8, <1>9, <1>10 DEF Next

-----------------------------------------------------------------------------
(* The theorems.                                                               *)

\* Memory and storage agree on everything narrated, no state that an undo can bring back
\* contradicts the lifecycle, the runtime alarm covers the book and the owed time is kept
\* (applyEngineActions, handleSetPause, handleExpireTimer, onAlarm, load), for every length of
\* the timers and every depth of undo.
THEOREM ClockInvariant == Spec => []ClockInv
  BY ClockInit, ClockStep, PTL DEF Spec

\* The types of the room's memory, storage and alarm, and a book that has no kind twice
\* (room/engine-glue.ts).
THEOREM TypeCorrect == Spec => []TypeOK
  BY ClockInvariant, InvTyped, PTL

\* No deadline is slept through: in a room that is not paused the runtime alarm rings no later
\* than any entry of the book (rescheduleAlarm, nextWakeAt).
THEOREM AlarmAlwaysCovers == Spec => []AlarmCoversBook
  BY ClockInvariant, CoversBook, PTL

\* A timer that was set while the room ran has exactly the unpaused time left that it is owed,
\* over any number of pauses, evictions and resumes (handleSetPause).
THEOREM PauseAlwaysHolds == Spec => []PauseHoldsRunningTimers
  BY ClockInvariant, HoldsTimers, PTL

\* The room does not think itself in the lobby while a game runs, and a game that is over has
\* ended the room, through every undo and eviction (applyEngineActions, and the undo log of
\* transition.ts).
THEOREM LifecycleAlwaysKeepsUp == Spec => []LifecycleKeepsUp
  BY ClockInvariant, KeepsUp, PTL

\* What an eviction may forget.
Forgetting ==
  Evict => /\ mem'.book = mem.book /\ mem'.paused = mem.paused
           /\ mem'.lifecycle = mem.lifecycle
           /\ \/ mem'.game.phase = mem.game.phase
              \/ {mem'.game.phase, mem.game.phase} \subseteq TiebreakerClue

\* An eviction forgets nothing that was narrated (storage.ts, load).
THEOREM AlwaysForgetsOnlySilence == Spec => EvictionForgetsOnlySilence
<1>1. ASSUME ClockInv, [Next]_vars PROVE [Forgetting]_vars
  BY <1>1 DEF Forgetting, Evict, ClockInv, Synced, SamePhase
<1>2. ClockInv /\ [Next]_vars => [Forgetting]_vars
  BY <1>1
<1>3. Spec => [][Forgetting]_vars
  BY <1>2, ClockInvariant, PTL DEF Spec
<1> QED
  BY <1>3 DEF EvictionForgetsOnlySilence, Forgetting

\* How an awaited clock may leave the book.
Leaving ==
  \A i \in DOMAIN mem.book :
    LET e == mem.book[i]
    IN  (e.kind \notin Kinds(mem'.book) /\ e.kind \in timersByPhase[mem'.game.phase])
          => Skip \/ (~mem.paused /\ e.left = 0)

\* A settled result keeps every awaited clock that the actions started with.
LEMMA SettleKeeps ==
  ASSUME NEW m, NEW r, Follows(m, r, TRUE), Settle(r),
         NEW k \in Kinds(m.book), k \in timersByPhase[mem'.game.phase]
  PROVE  k \in Kinds(mem'.book)
<1>1. MemOK(r.m) /\ k \in Kinds(r.m.book)
  BY DEF Follows
<1>2. CASE r.told
  <2>1. mem' = Pruned(r.m)
    BY <1>2 DEF Settle
  <2>2. /\ mem'.game = r.m.game
        /\ Entries(mem'.book) =
             {e \in Entries(r.m.book) : e.kind \notin Kind \ timersByPhase[r.m.game.phase]}
    BY <1>1, <2>1, PrunedMem
  <2>3. PICK e \in Entries(r.m.book) : e.kind = k
    BY <1>1 DEF Kinds, Entries
  <2>4. e \in Entries(mem'.book)
    BY <2>2, <2>3
  <2> QED
    BY <2>3, <2>4 DEF Kinds, Entries
<1>3. CASE ~r.told
  BY <1>1, <1>3 DEF Settle
<1> QED
  BY <1>2, <1>3

\* A relayed action.
LEMMA ActLeaves == ASSUME ClockInv, NEW type \in Type \cup {"undo"}, Act(type) PROVE Leaving
<1>1. PICK r \in Batch(mem, <<type>>) : Settle(r)
  BY DEF Act
<1>2. Follows(mem, r, TRUE)
  <2> DEFINE types == <<type>>
  <2>1. Len(types) \in Nat /\ \A n \in 1 .. Len(types) : types[n] \in Type \cup {"undo"}
    OBVIOUS
  <2> HIDE DEF types
  <2>2. r \in Batch(mem, types)
    BY DEF types
  <2> QED
    BY <2>1, <2>2, BatchFollows DEF ClockInv
<1>3. \A i \in DOMAIN mem.book : mem.book[i].kind \in Kinds(mem.book)
  BY DEF Kinds
<1> QED
  BY <1>1, <1>2, <1>3, SettleKeeps DEF Leaving

\* The alarm takes out only what is due.
LEMMA OnAlarmLeaves == ASSUME ClockInv, OnAlarm PROVE Leaving
<1>1. PICK r \in Batch(AlarmStart, AlarmTypes) : Settle(r)
  BY DEF OnAlarm, AlarmStart, AlarmTypes
<1>2. MemOK(mem)
  BY DEF ClockInv
<1>3. Follows(AlarmStart, r, TRUE)
  BY <1>1, <1>2, AlarmFollows
<1> SUFFICES ASSUME NEW i \in DOMAIN mem.book, mem.book[i].kind \notin Kinds(mem'.book),
                    mem.book[i].kind \in timersByPhase[mem'.game.phase]
             PROVE  ~mem.paused /\ mem.book[i].left = 0
  BY DEF Leaving
<1>4. mem.book[i].kind \notin Kinds(AlarmStart.book)
  BY <1>1, <1>3, SettleKeeps
<1>5. mem.book[i].kind \in Range(DueKinds)
  <2>1. ASSUME mem.book[i].kind \notin Range(DueKinds) PROVE FALSE
    <3>1. mem.book[i] \in Entries(AlarmStart.book)
      BY <1>2, <2>1, AlarmStartOK DEF Entries
    <3> QED
      BY <1>4, <3>1 DEF Kinds, Entries
  <2> QED
    BY <2>1
<1>6. PICK j \in DOMAIN mem.book : mem.book[j].left = 0 /\ mem.book[j].kind = mem.book[i].kind
  BY <1>2, <1>5, DueKindsOf
<1>7. j = i /\ ~mem.paused
  BY <1>2, <1>5, <1>6, DueKindsOf DEF MemOK, Distinct
<1> QED
  BY <1>6, <1>7

\* Where the kinds stay, none leaves.
LEMMA SameLeaves == ASSUME Kinds(mem'.book) = Kinds(mem.book) PROVE Leaving
  BY DEF Leaving, Kinds

\* A clock the present phase waits for leaves the book only by ringing, never in a pause, or
\* because the host skips the wait (applyEngineActions, timerLiveInPhase, onAlarm).
THEOREM AlwaysLeaveByRinging == Spec => ClocksLeaveByRinging
<1>1. ASSUME ClockInv, [Next]_vars PROVE [Leaving]_vars
  <2>1. ASSUME NEW type \in Type \cup {"undo"}, Act(type) PROVE Leaving
    BY <1>1, <2>1, ActLeaves
  <2>2. CASE SetPause
    BY <1>1, <2>2, SetPauseStep, SameLeaves
  <2>3. CASE Skip
    BY <2>3 DEF Leaving
  <2>4. CASE Ring \/ OtherWake
    BY <1>1, <2>4, OnAlarmLeaves DEF Ring, OtherWake
  <2>5. CASE UpdateRules
    BY <1>1, <2>5, UpdateRulesStep, SameLeaves
  <2>6. CASE CloseRoom
    BY <1>1, <2>6, CloseRoomStep, SameLeaves
  <2>7. CASE Evict
    BY <1>1, <2>7, EvictStep, SameLeaves
  <2>8. CASE Tick
    BY <1>1, <2>8, TickStep, SameLeaves
  <2>9. CASE LateJoin
    BY <1>1, <2>9, LateJoinStep, SameLeaves
  <2> QED
    BY <1>1, <2>1, <2>2, <2>3, <2>4, <2>5, <2>6, <2>7, <2>8, <2>9 DEF Next
<1>2. ClockInv /\ [Next]_vars => [Leaving]_vars
  BY <1>1
<1>3. Spec => [][Leaving]_vars
  BY <1>2, ClockInvariant, PTL DEF Spec
<1> QED
  BY <1>3 DEF ClocksLeaveByRinging, Leaving

=============================================================================
