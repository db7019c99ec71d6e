------------------------ MODULE RoomLifecycle_proofs ------------------------
(***************************************************************************)
(* Proofs about RoomLifecycle for every idle time, grace and number of     *)
(* sockets: the alarm, the grace, the wipe and the lobby row.              *)
(***************************************************************************)
EXTENDS RoomLifecycle, TLAPS

-----------------------------------------------------------------------------
(* The inductive invariant.                                                    *)

\* Somebody is there only in a room that was visited and is not vacant; a room is visited,
\* left or closed only once its row's first write is done.
Presence ==
  /\ sockets > 0 => Exists /\ visited /\ vacant = 0
  /\ emptyAt # None => visited
  /\ visited \/ closed => Upsert \notin writes

\* What memory and storage believe of the last activity is late by Lag at the most: storage
\* trails memory, and an unstored touch follows a stored one closely.
Ages ==
  /\ silence <= age.mem /\ age.mem <= age.stored /\ age.stored <= silence + Lag
  /\ age.lag <= Lag => age.stored <= age.lag

\* The writes that list a room or make its row live longer.
Renews(w) == w.op \in {"upsert", "touch"}

\* A row lives no longer than the room it stands for; only a room just heard of renews it.
Rows ==
  /\ row # None => row.expires <= IdleExpiry - silence
  /\ \A w \in writes : Renews(w) => Exists /\ silence = 0
  /\ ~Exists /\ row # None => row.expires <= Lag

\* The close is on its way, or the row is gone or ended, or a statement failed.
Closing == closed /\ ~failed => Ends # {} \/ row = None \/ row.ended

IInv == /\ TypeOK /\ Presence /\ Ages /\ AlarmCoversRoom /\ GraceIsVacancy
        /\ Rows /\ Closing

\* The next wake is a time, and comes by the end of the idle time and of the grace.
LEMMA WakeFacts ==
  \A idle \in 0 .. IdleExpiry : \A empty \in Time(Grace) :
     /\ NextWake(idle, empty) \in 0 .. IdleExpiry /\ NextWake(idle, empty) # None
     /\ NextWake(idle, empty) <= IdleExpiry - idle
     /\ empty # None => NextWake(idle, empty) <= empty
BY TimesAssumption, NoneAssumption DEF NextWake, Time

\* What tells the statements to D1 apart, so that no later step looks at their records.
LEMMA StatementFacts ==
  /\ Upsert \in Statement /\ Delete \in Statement
  /\ Upsert.op = "upsert" /\ Delete.op = "delete" /\ Upsert # Delete
  /\ \A c \in {"host", "request", "expired"} :
        End(c) \in Statement /\ End(c).op = "end" /\ End(c) # Upsert /\ End(c) # Delete
  /\ \A p \in Phase : /\ Report(p) \in Statement /\ Report(p).op = "touch"
                      /\ Report(p) # Upsert
                      /\ \A c \in {"host", "request", "expired"} : Report(p) # End(c)
  /\ End("host") # End("expired") /\ End("request") # End("expired")
  /\ \A w \in Statement :
        /\ w.op \in {"upsert", "touch", "end", "delete"}
        /\ w.op = "upsert" => w = Upsert
        /\ w.op \in {"upsert", "touch"} => w.expires = IdleExpiry /\ w.phase \in Phase
BY DEF Statement, Upsert, Delete, End, Report, Write, Phase

\* No phase and no time is None.
LEMMA NoneFacts == None \notin Nat /\ \A p \in Phase : p # None
BY NoneAssumption
LEMMA PhaseFacts == Phase = {"lobby", "active", "ended"}
BY DEF Phase

\* The types that arithmetic needs.
LEMMA TimeFacts ==
  ASSUME IInv
  PROVE  /\ age.mem \in 0 .. IdleExpiry /\ age.stored \in 0 .. IdleExpiry
         /\ age.lag \in 0 .. IdleExpiry
         /\ emptyAt \in Time(Grace) /\ alarm \in Time(IdleExpiry)
         /\ silence \in 0 .. IdleExpiry
         /\ None \in Time(Grace) /\ Grace \in Time(Grace) /\ 0 \in 0 .. IdleExpiry
         /\ None \notin Nat
BY TimesAssumption, NoneAssumption DEF IInv, TypeOK, Time

\* The invariant holds before any room.
LEMMA InitIInv == Init => IInv
<1>. SUFFICES ASSUME Init PROVE IInv
  OBVIOUS
<1>1. TypeOK
  <2>1. age \in [mem : 0 .. IdleExpiry, stored : 0 .. IdleExpiry, lag : 0 .. IdleExpiry]
    BY TimesAssumption DEF Init
  <2>2. /\ row \in {None} /\ writes \subseteq Statement
        /\ {synced, visited, closed, failed} \subseteq BOOLEAN
    BY DEF Init
  <2>3. sockets \in 0 .. SocketBound /\ silence \in 0 .. IdleExpiry /\ vacant \in 0 .. Grace
    BY TimesAssumption DEF Init
  <2>. QED  BY <2>1, <2>2, <2>3 DEF Init, TypeOK, Time
<1>2. Presence /\ Ages /\ Rows /\ Closing
  BY TimesAssumption DEF Init, Presence, Ages, Rows, Closing
<1>3. AlarmCoversRoom /\ GraceIsVacancy
  BY DEF Init, AlarmCoversRoom, GraceIsVacancy, Exists
<1>. QED  BY <1>1, <1>2, <1>3 DEF IInv

\* A new room starts every clock anew; an old row of its code has Lag to live.
LEMMA InitializeKeeps ==
  ASSUME IInv, Initialize
  PROVE  IInv'
<1>1. TypeOK'
  <2>1. lifecycle' \in Phase \cup {None} /\ emptyAt' \in Time(Grace)
    BY TimeFacts, TimesAssumption, NoneFacts, PhaseFacts DEF Initialize, IInv, TypeOK, Time
  <2>2. age' \in [mem : 0 .. IdleExpiry, stored : 0 .. IdleExpiry, lag : 0 .. IdleExpiry]
    BY TimeFacts, TimesAssumption DEF Initialize, IInv, TypeOK
  <2>3. sockets' \in 0 .. SocketBound /\ silence' \in 0 .. IdleExpiry /\ vacant' \in 0 .. Grace
    BY TimeFacts, TimesAssumption, NoneFacts, PhaseFacts DEF Initialize, IInv, TypeOK
  <2>4. alarm' \in Time(IdleExpiry)
    BY TimeFacts, TimesAssumption, NoneFacts, PhaseFacts, WakeFacts
       DEF Initialize, IInv, TypeOK, Time
  <2>5. row' \in {None} \cup [phase : Phase, ended : BOOLEAN, expires : 0 .. IdleExpiry]
    BY TimesAssumption, StatementFacts, PhaseFacts DEF Initialize, IInv, TypeOK
  <2>6. writes' \subseteq Statement
    BY StatementFacts, PhaseFacts, <2>1 DEF Initialize, IInv, TypeOK
  <2>7. {synced, visited, closed, failed}' \subseteq BOOLEAN
    BY DEF Initialize, IInv, TypeOK, life, times, registry, history
  <2>. QED  BY <2>1, <2>2, <2>3, <2>4, <2>5, <2>6, <2>7 DEF TypeOK
<1>2. Presence'
  BY NoneFacts, PhaseFacts, StatementFacts DEF Initialize, IInv, Presence, TypeOK, Exists
<1>3. Ages'
  BY TimesAssumption DEF Initialize, IInv, Ages, TypeOK, Time
<1>4. AlarmCoversRoom'
  BY TimesAssumption, NoneFacts, PhaseFacts, StatementFacts
     DEF Initialize, IInv, AlarmCoversRoom, Ages, TypeOK, Time, Exists
<1>5. GraceIsVacancy'
  BY TimesAssumption, NoneFacts, PhaseFacts
     DEF Initialize, IInv, GraceIsVacancy, Presence, TypeOK, Time, Exists
<1>6. Rows'
  BY TimesAssumption, NoneFacts, PhaseFacts, StatementFacts
     DEF Initialize, IInv, Rows, Presence, Ages, TypeOK, Time, Exists, Renews
<1>7. Closing'
  BY StatementFacts DEF Initialize, IInv, Closing, Presence, TypeOK, Ends
<1>. QED  BY <1>1, <1>2, <1>3, <1>4, <1>5, <1>6, <1>7 DEF IInv

\* A connection ends the countdown, and wakes the room at the end of the idle time.
LEMMA ConnectKeeps ==
  ASSUME IInv, Connect
  PROVE  IInv'
<1>1. TypeOK'
  <2>1. lifecycle' \in Phase \cup {None} /\ emptyAt' \in Time(Grace)
    BY TimeFacts, TimesAssumption, NoneFacts, PhaseFacts
       DEF Connect, Touches, IInv, TypeOK, registry, Time
  <2>2. age' \in [mem : 0 .. IdleExpiry, stored : 0 .. IdleExpiry, lag : 0 .. IdleExpiry]
    BY TimeFacts, TimesAssumption DEF Connect, Touches, IInv, TypeOK, registry
  <2>3. sockets' \in 0 .. SocketBound /\ silence' \in 0 .. IdleExpiry /\ vacant' \in 0 .. Grace
    BY TimeFacts, TimesAssumption, NoneFacts, PhaseFacts
       DEF Connect, Touches, IInv, TypeOK, registry
  <2>4. alarm' \in Time(IdleExpiry)
    BY TimeFacts, TimesAssumption, NoneFacts, PhaseFacts, WakeFacts
       DEF Connect, Touches, IInv, TypeOK, registry, Time
  <2>5. row' \in {None} \cup [phase : Phase, ended : BOOLEAN, expires : 0 .. IdleExpiry]
    BY TimesAssumption, StatementFacts, PhaseFacts
       DEF Connect, Touches, IInv, TypeOK, registry
  <2>6. writes' \subseteq Statement
    BY StatementFacts, PhaseFacts, <2>1 DEF Connect, Touches, IInv, TypeOK, registry
  <2>7. {synced, visited, closed, failed}' \subseteq BOOLEAN
    BY DEF Connect, Touches, IInv, TypeOK, life, times, registry, history
  <2>. QED  BY <2>1, <2>2, <2>3, <2>4, <2>5, <2>6, <2>7 DEF TypeOK
<1>2. Presence'
  BY NoneFacts, PhaseFacts DEF Connect, Touches, IInv, Presence, TypeOK, Exists, registry
<1>3. Ages'
  BY TimesAssumption DEF Connect, Touches, IInv, Ages, TypeOK, Time, registry
<1>4. AlarmCoversRoom'
  <2>1. NextWake(0, None) \in 0 .. IdleExpiry /\ NextWake(0, None) <= IdleExpiry
    BY TimeFacts, WakeFacts, TimesAssumption
  <2>2. silence' = 0 /\ emptyAt' = None /\ lifecycle' = lifecycle /\ writes' = writes
    BY DEF Connect, Touches, registry
  <2>3. CASE emptyAt = None
    BY <2>2, <2>3, TimeFacts, TimesAssumption
       DEF Connect, IInv, AlarmCoversRoom, Exists, Time
  <2>4. CASE emptyAt # None
    BY <2>1, <2>2, <2>4, TimeFacts, TimesAssumption DEF Connect, AlarmCoversRoom
  <2>. QED  BY <2>3, <2>4
<1>5. GraceIsVacancy'
  BY TimesAssumption, NoneFacts, PhaseFacts
     DEF Connect, Touches, IInv, GraceIsVacancy, Presence, TypeOK, Time, Exists,
         registry
<1>6. Rows'
  BY TimesAssumption, NoneFacts, PhaseFacts
     DEF Connect, Touches, IInv, Rows, Presence, Ages, TypeOK, Time, Exists, Renews,
         registry
<1>7. Closing'
  BY DEF Connect, Touches, IInv, Closing, Presence, TypeOK, Ends, registry
<1>. QED  BY <1>1, <1>2, <1>3, <1>4, <1>5, <1>6, <1>7 DEF IInv

\* The last socket to close starts the countdown, from where nobody was there for no
\* time.
LEMMA DisconnectKeeps ==
  ASSUME IInv, Disconnect
  PROVE  IInv'
<1>1. TypeOK'
  <2>1. lifecycle' \in Phase \cup {None} /\ emptyAt' \in Time(Grace)
    BY TimeFacts, TimesAssumption, NoneFacts, PhaseFacts
       DEF Disconnect, Departure, IInv, TypeOK, registry, history, Time
  <2>2. age' \in [mem : 0 .. IdleExpiry, stored : 0 .. IdleExpiry, lag : 0 .. IdleExpiry]
    BY TimeFacts, TimesAssumption DEF Disconnect, Departure, IInv, TypeOK, registry, history
  <2>3. sockets' \in 0 .. SocketBound /\ silence' \in 0 .. IdleExpiry /\ vacant' \in 0 .. Grace
    BY TimeFacts, TimesAssumption, NoneFacts, PhaseFacts
       DEF Disconnect, Departure, IInv, TypeOK, registry, history
  <2>4. alarm' \in Time(IdleExpiry)
    BY TimeFacts, TimesAssumption, NoneFacts, PhaseFacts, WakeFacts
       DEF Disconnect, Departure, IInv, TypeOK, registry, history, Time
  <2>5. row' \in {None} \cup [phase : Phase, ended : BOOLEAN, expires : 0 .. IdleExpiry]
    BY TimesAssumption, StatementFacts, PhaseFacts
       DEF Disconnect, Departure, IInv, TypeOK, registry, history
  <2>6. writes' \subseteq Statement
    BY StatementFacts, PhaseFacts, <2>1
       DEF Disconnect, Departure, IInv, TypeOK, registry, history
  <2>7. {synced, visited, closed, failed}' \subseteq BOOLEAN
    BY DEF Disconnect, Departure, IInv, TypeOK, life, times, registry, history
  <2>. QED  BY <2>1, <2>2, <2>3, <2>4, <2>5, <2>6, <2>7 DEF TypeOK
<1>2. Presence'
  BY NoneFacts, PhaseFacts
     DEF Disconnect, Departure, IInv, Presence, TypeOK, Exists, registry, history
<1>3. Ages'
  BY TimesAssumption DEF Disconnect, Departure, IInv, Ages, TypeOK, Time, registry, history
<1>4. AlarmCoversRoom'
  <2>1. /\ NextWake(age.mem, Grace) \in 0 .. IdleExpiry /\ NextWake(age.mem, Grace) <= Grace
        /\ NextWake(age.mem, Grace) <= IdleExpiry - age.mem /\ Grace # None
    BY TimeFacts, WakeFacts, TimesAssumption
  <2>2. silence <= age.mem
    BY DEF IInv, Ages
  <2>3. UNCHANGED <<lifecycle, writes, silence>>
    BY DEF Disconnect, registry, history
  <2>4. CASE UNCHANGED <<emptyAt, alarm>>
    BY <2>3, <2>4 DEF IInv, AlarmCoversRoom, Exists
  <2>5. CASE emptyAt' = Grace /\ alarm' = NextWake(age.mem, Grace)
    BY <2>1, <2>2, <2>3, <2>5, TimeFacts, TimesAssumption DEF AlarmCoversRoom
  <2>. QED  BY <2>4, <2>5 DEF Disconnect, Departure
<1>5. GraceIsVacancy'
  BY TimesAssumption, NoneFacts, PhaseFacts
     DEF Disconnect, Departure, IInv, GraceIsVacancy, Presence, TypeOK, Time, Exists,
         registry, history
<1>6. Rows'
  BY TimesAssumption, NoneFacts, PhaseFacts
     DEF Disconnect, Departure, IInv, Rows, Presence, Ages, TypeOK, Time, Exists,
         Renews, registry, history
<1>7. Closing'
  BY DEF Disconnect, Departure, IInv, Closing, Presence, TypeOK, Ends, registry, history
<1>. QED  BY <1>1, <1>2, <1>3, <1>4, <1>5, <1>6, <1>7 DEF IInv

\* A message is heard of: whatever its report adds to the row, the room was not silent.
LEMMA MessageKeeps ==
  ASSUME IInv, Message
  PROVE  IInv'
<1>1. TypeOK'
  <2>1. lifecycle' \in Phase \cup {None} /\ emptyAt' \in Time(Grace)
    BY TimeFacts, TimesAssumption, NoneFacts, PhaseFacts
       DEF Message, Touches, Syncs, IInv, TypeOK, Time
  <2>2. age' \in [mem : 0 .. IdleExpiry, stored : 0 .. IdleExpiry, lag : 0 .. IdleExpiry]
    BY TimeFacts, TimesAssumption DEF Message, Touches, Syncs, IInv, TypeOK
  <2>3. sockets' \in 0 .. SocketBound /\ silence' \in 0 .. IdleExpiry /\ vacant' \in 0 .. Grace
    BY TimeFacts, TimesAssumption, NoneFacts, PhaseFacts
       DEF Message, Touches, Syncs, IInv, TypeOK
  <2>4. alarm' \in Time(IdleExpiry)
    BY TimeFacts, TimesAssumption, NoneFacts, PhaseFacts, WakeFacts
       DEF Message, Touches, Syncs, IInv, TypeOK, Time
  <2>5. row' \in {None} \cup [phase : Phase, ended : BOOLEAN, expires : 0 .. IdleExpiry]
    BY TimesAssumption, StatementFacts, PhaseFacts DEF Message, Touches, Syncs, IInv, TypeOK
  <2>6. writes' \subseteq Statement
    BY StatementFacts, NoneFacts, <2>1
       DEF Message, Touches, Syncs, Presence, Exists, IInv, TypeOK
  <2>7. {synced, visited, closed, failed}' \subseteq BOOLEAN
    BY DEF Message, Touches, Syncs, IInv, TypeOK, life, times, registry, history
  <2>. QED  BY <2>1, <2>2, <2>3, <2>4, <2>5, <2>6, <2>7 DEF TypeOK
<1>2. Presence'
  BY NoneFacts, PhaseFacts, StatementFacts
     DEF Message, Touches, Syncs, IInv, Presence, TypeOK, Exists
<1>3. Ages'
  BY TimesAssumption DEF Message, Touches, Syncs, IInv, Ages, TypeOK, Time
<1>4. AlarmCoversRoom'
  BY TimesAssumption, NoneFacts, PhaseFacts, StatementFacts
     DEF Message, Touches, Syncs, IInv, AlarmCoversRoom, Ages, TypeOK, Time, Exists
<1>5. GraceIsVacancy'
  BY TimesAssumption, NoneFacts, PhaseFacts
     DEF Message, Touches, Syncs, IInv, GraceIsVacancy, Presence, TypeOK, Time, Exists
<1>6. Rows'
  BY TimesAssumption, NoneFacts, PhaseFacts, StatementFacts
     DEF Message, Touches, Syncs, IInv, Rows, Presence, Ages, TypeOK, Time, Exists,
         Renews
<1>7. Closing'
  BY StatementFacts DEF Message, Touches, Syncs, IInv, Closing, Presence, TypeOK, Ends
<1>. QED  BY <1>1, <1>2, <1>3, <1>4, <1>5, <1>6, <1>7 DEF IInv

\* A batch of events, of players or of a timer: a game may start only where somebody is.
LEMMA BatchKeeps ==
  ASSUME IInv, NEW word \in {"game-started", "game-over", "other"}, Batch(word), Exists,
         word = "game-started" => sockets > 0
  PROVE  IInv'
<1>1. TypeOK'
  <2>1. lifecycle' \in Phase \cup {None} /\ emptyAt' \in Time(Grace)
    BY TimeFacts, TimesAssumption, NoneFacts, PhaseFacts
       DEF Batch, Syncs, IInv, TypeOK, Time
  <2>2. age' \in [mem : 0 .. IdleExpiry, stored : 0 .. IdleExpiry, lag : 0 .. IdleExpiry]
    BY TimeFacts, TimesAssumption DEF Batch, Syncs, IInv, TypeOK
  <2>3. sockets' \in 0 .. SocketBound /\ silence' \in 0 .. IdleExpiry /\ vacant' \in 0 .. Grace
    BY TimeFacts, TimesAssumption, NoneFacts, PhaseFacts DEF Batch, Syncs, IInv, TypeOK
  <2>4. alarm' \in Time(IdleExpiry)
    BY TimeFacts, TimesAssumption, NoneFacts, PhaseFacts, WakeFacts
       DEF Batch, Syncs, IInv, TypeOK, Time
  <2>5. row' \in {None} \cup [phase : Phase, ended : BOOLEAN, expires : 0 .. IdleExpiry]
    BY TimesAssumption, StatementFacts, PhaseFacts DEF Batch, Syncs, IInv, TypeOK
  <2>6. writes' \subseteq Statement
    BY StatementFacts, PhaseFacts, NoneFacts, <2>1 DEF Batch, Syncs, Exists, IInv, TypeOK
  <2>7. {synced, visited, closed, failed}' \subseteq BOOLEAN
    BY DEF Batch, Syncs, IInv, TypeOK, life, times, registry, history
  <2>. QED  BY <2>1, <2>2, <2>3, <2>4, <2>5, <2>6, <2>7 DEF TypeOK
<1>2. Presence'
  BY NoneFacts, PhaseFacts, StatementFacts DEF Batch, Syncs, IInv, Presence, TypeOK, Exists
<1>3. Ages'
  BY TimesAssumption DEF Batch, Syncs, IInv, Ages, TypeOK, Time
<1>4. AlarmCoversRoom'
  BY TimesAssumption, NoneFacts, PhaseFacts, WakeFacts, StatementFacts
     DEF Batch, Syncs, IInv, AlarmCoversRoom, Ages, TypeOK, Time, Exists
<1>5. GraceIsVacancy'
  BY TimesAssumption, NoneFacts, PhaseFacts
     DEF Batch, Syncs, IInv, GraceIsVacancy, Presence, TypeOK, Time, Exists
<1>6. Rows'
  BY TimesAssumption, NoneFacts, PhaseFacts, StatementFacts
     DEF Batch, Syncs, IInv, Rows, Presence, Ages, TypeOK, Time, Exists, Renews
<1>7. Closing'
  BY StatementFacts DEF Batch, Syncs, IInv, Closing, Presence, TypeOK, Ends
<1>. QED  BY <1>1, <1>2, <1>3, <1>4, <1>5, <1>6, <1>7 DEF IInv

\* The host's close is in an occupied room: its row's first write is done.
LEMMA HostClosesKeeps ==
  ASSUME IInv, HostCloses
  PROVE  IInv'
<1>1. TypeOK'
  BY TimesAssumption, NoneFacts, PhaseFacts, WakeFacts, StatementFacts
     DEF HostCloses, CloseRoom, Touches, IInv, TypeOK, Time
<1>2. Presence'
  BY NoneFacts, PhaseFacts, StatementFacts
     DEF HostCloses, CloseRoom, Touches, IInv, Presence, TypeOK, Exists
<1>3. Ages'
  BY TimesAssumption DEF HostCloses, CloseRoom, Touches, IInv, Ages, TypeOK, Time
<1>4. AlarmCoversRoom'
  BY TimesAssumption, NoneFacts, PhaseFacts, StatementFacts
     DEF HostCloses, CloseRoom, Touches, IInv, AlarmCoversRoom, Ages, TypeOK, Time,
         Exists
<1>5. GraceIsVacancy'
  BY TimesAssumption, NoneFacts, PhaseFacts
     DEF HostCloses, CloseRoom, Touches, IInv, GraceIsVacancy, Presence, TypeOK, Time,
         Exists
<1>6. Rows'
  BY TimesAssumption, NoneFacts, PhaseFacts, StatementFacts
     DEF HostCloses, CloseRoom, Touches, IInv, Rows, Presence, Ages, TypeOK, Time,
         Exists, Renews
<1>7. Closing'
  BY StatementFacts
     DEF HostCloses, CloseRoom, Touches, IInv, Closing, Presence, TypeOK, Ends
<1>. QED  BY <1>1, <1>2, <1>3, <1>4, <1>5, <1>6, <1>7 DEF IInv

\* The close by request stores what memory knows; nobody was heard of.
LEMMA CloseRequestKeeps ==
  ASSUME IInv, CloseRequest
  PROVE  IInv'
<1>1. TypeOK'
  BY TimesAssumption, NoneFacts, PhaseFacts, WakeFacts, StatementFacts
     DEF CloseRequest, CloseRoom, IInv, TypeOK, Time
<1>2. Presence'
  BY NoneFacts, PhaseFacts, StatementFacts
     DEF CloseRequest, CloseRoom, IInv, Presence, TypeOK, Exists
<1>3. Ages'
  BY TimesAssumption DEF CloseRequest, CloseRoom, IInv, Ages, TypeOK, Time
<1>4. AlarmCoversRoom'
  BY TimesAssumption, NoneFacts, PhaseFacts, StatementFacts
     DEF CloseRequest, CloseRoom, IInv, AlarmCoversRoom, Ages, TypeOK, Time, Exists
<1>5. GraceIsVacancy'
  BY TimesAssumption, NoneFacts, PhaseFacts
     DEF CloseRequest, CloseRoom, IInv, GraceIsVacancy, Presence, TypeOK, Time, Exists
<1>6. Rows'
  BY TimesAssumption, NoneFacts, PhaseFacts, StatementFacts
     DEF CloseRequest, CloseRoom, IInv, Rows, Presence, Ages, TypeOK, Time, Exists,
         Renews
<1>7. Closing'
  BY StatementFacts DEF CloseRequest, CloseRoom, IInv, Closing, Presence, TypeOK, Ends
<1>. QED  BY <1>1, <1>2, <1>3, <1>4, <1>5, <1>6, <1>7 DEF IInv

\* A wipe comes after IdleExpiry - Lag of silence, so no report is on its way.
LEMMA WipeKeeps ==
  ASSUME IInv, Wipe
  PROVE  IInv'
<1>1. TypeOK'
  BY TimesAssumption, NoneFacts, PhaseFacts, WakeFacts, StatementFacts
     DEF Wipe, Expired, IInv, TypeOK, Time, history
<1>2. Presence'
  BY NoneFacts, PhaseFacts, StatementFacts
     DEF Wipe, Expired, IInv, Presence, TypeOK, Exists, history
<1>3. Ages'
  BY TimesAssumption DEF Wipe, Expired, IInv, Ages, TypeOK, Time, history
<1>4. AlarmCoversRoom'
  BY TimesAssumption, NoneFacts, PhaseFacts, StatementFacts
     DEF Wipe, Expired, IInv, AlarmCoversRoom, Ages, TypeOK, Time, Exists, history
<1>5. GraceIsVacancy'
  BY TimesAssumption, NoneFacts, PhaseFacts
     DEF Wipe, Expired, IInv, GraceIsVacancy, Presence, TypeOK, Time, Exists, history
<1>6. Rows'
  BY TimesAssumption, NoneFacts, PhaseFacts, StatementFacts
     DEF Wipe, Expired, IInv, Rows, Presence, Ages, TypeOK, Time, Exists, Renews,
         history
<1>7. Closing'
  BY StatementFacts DEF Wipe, Expired, IInv, Closing, Presence, TypeOK, Ends, history
<1>. QED  BY <1>1, <1>2, <1>3, <1>4, <1>5, <1>6, <1>7 DEF IInv

\* The grace closes the room, and leaves the alarm to the close that it awaits.
LEMMA GraceOverKeeps ==
  ASSUME IInv, GraceOver
  PROVE  IInv'
<1>1. TypeOK'
  <2>1. lifecycle' \in Phase \cup {None} /\ emptyAt' \in Time(Grace)
    BY TimeFacts, TimesAssumption, NoneFacts, PhaseFacts
       DEF GraceOver, CloseRoom, Expired, IInv, TypeOK, Time
  <2>2. age' \in [mem : 0 .. IdleExpiry, stored : 0 .. IdleExpiry, lag : 0 .. IdleExpiry]
    BY TimeFacts, TimesAssumption DEF GraceOver, CloseRoom, Expired, IInv, TypeOK
  <2>3. sockets' \in 0 .. SocketBound /\ silence' \in 0 .. IdleExpiry /\ vacant' \in 0 .. Grace
    BY TimeFacts, TimesAssumption, NoneFacts, PhaseFacts
       DEF GraceOver, CloseRoom, Expired, IInv, TypeOK
  <2>4. alarm' \in Time(IdleExpiry)
    BY TimeFacts, TimesAssumption, NoneFacts, PhaseFacts, WakeFacts
       DEF GraceOver, CloseRoom, Expired, IInv, TypeOK, Time
  <2>5. row' \in {None} \cup [phase : Phase, ended : BOOLEAN, expires : 0 .. IdleExpiry]
    BY TimesAssumption, StatementFacts, PhaseFacts
       DEF GraceOver, CloseRoom, Expired, IInv, TypeOK
  <2>6. writes' \subseteq Statement
    BY StatementFacts, PhaseFacts, <2>1 DEF GraceOver, CloseRoom, Expired, IInv, TypeOK
  <2>7. {synced, visited, closed, failed}' \subseteq BOOLEAN
    BY DEF GraceOver, CloseRoom, Expired, IInv, TypeOK, life, times, registry, history
  <2>. QED  BY <2>1, <2>2, <2>3, <2>4, <2>5, <2>6, <2>7 DEF TypeOK
<1>2. Presence'
  BY NoneFacts, PhaseFacts, StatementFacts
     DEF GraceOver, CloseRoom, IInv, Presence, TypeOK, Exists
<1>3. Ages'
  BY TimeFacts, TimesAssumption DEF GraceOver, IInv, Ages, TypeOK
<1>4. AlarmCoversRoom'
  BY TimesAssumption, NoneFacts, PhaseFacts, WakeFacts, StatementFacts
     DEF GraceOver, CloseRoom, IInv, AlarmCoversRoom, Ages, TypeOK, Time, Exists
<1>5. GraceIsVacancy'
  BY TimesAssumption, NoneFacts, PhaseFacts
     DEF GraceOver, CloseRoom, IInv, GraceIsVacancy, Presence, TypeOK, Time, Exists
<1>6. Rows'
  BY TimesAssumption, NoneFacts, PhaseFacts, StatementFacts
     DEF GraceOver, CloseRoom, IInv, Rows, Presence, Ages, TypeOK, Time, Exists, Renews
<1>7. Closing'
  BY StatementFacts DEF GraceOver, CloseRoom, IInv, Closing, Presence, TypeOK, Ends
<1>. QED  BY <1>1, <1>2, <1>3, <1>4, <1>5, <1>6, <1>7 DEF IInv

\* An alarm too early is set again.
LEMMA WakeForNothingKeeps ==
  ASSUME IInv, WakeForNothing
  PROVE  IInv'
<1>1. TypeOK'
  BY TimesAssumption, NoneFacts, PhaseFacts, WakeFacts, StatementFacts
     DEF WakeForNothing, IInv, TypeOK, Time, life, registry, history
<1>2. Presence'
  BY NoneFacts, PhaseFacts
     DEF WakeForNothing, IInv, Presence, TypeOK, Exists, life, registry, history
<1>3. Ages'
  BY TimesAssumption DEF WakeForNothing, IInv, Ages, TypeOK, Time, life, registry, history
<1>4. AlarmCoversRoom'
  BY TimesAssumption, NoneFacts, PhaseFacts, WakeFacts
     DEF WakeForNothing, IInv, AlarmCoversRoom, Ages, TypeOK, Time, Exists, life,
         registry, history
<1>5. GraceIsVacancy'
  BY TimesAssumption, NoneFacts, PhaseFacts
     DEF WakeForNothing, IInv, GraceIsVacancy, Presence, TypeOK, Time, Exists, life,
         registry, history
<1>6. Rows'
  BY TimesAssumption, NoneFacts, PhaseFacts
     DEF WakeForNothing, IInv, Rows, Presence, Ages, TypeOK, Time, Exists, Renews, life,
         registry, history
<1>7. Closing'
  BY DEF WakeForNothing, IInv, Closing, Presence, TypeOK, Ends, life, registry, history
<1>. QED  BY <1>1, <1>2, <1>3, <1>4, <1>5, <1>6, <1>7 DEF IInv

\* A sweep takes an expired row.
LEMMA SweepKeeps ==
  ASSUME IInv, Sweep
  PROVE  IInv'
<1>1. TypeOK'
  BY TimesAssumption, NoneFacts, PhaseFacts, WakeFacts, StatementFacts
     DEF Sweep, IInv, TypeOK, Time, life, times, history
<1>2. Presence'
  BY NoneFacts, PhaseFacts DEF Sweep, IInv, Presence, TypeOK, Exists, life, times, history
<1>3. Ages'
  BY TimesAssumption DEF Sweep, IInv, Ages, TypeOK, Time, life, times, history
<1>4. AlarmCoversRoom'
  BY TimesAssumption, NoneFacts, PhaseFacts
     DEF Sweep, IInv, AlarmCoversRoom, Ages, TypeOK, Time, Exists, life, times, history
<1>5. GraceIsVacancy'
  BY TimesAssumption, NoneFacts, PhaseFacts
     DEF Sweep, IInv, GraceIsVacancy, Presence, TypeOK, Time, Exists, life, times,
         history
<1>6. Rows'
  BY TimesAssumption, NoneFacts, PhaseFacts
     DEF Sweep, IInv, Rows, Presence, Ages, TypeOK, Time, Exists, Renews, life, times,
         history
<1>7. Closing'
  BY DEF Sweep, IInv, Closing, Presence, TypeOK, Ends, life, times, history
<1>. QED  BY <1>1, <1>2, <1>3, <1>4, <1>5, <1>6, <1>7 DEF IInv

\* An eviction forgets what was not stored, no more than Lag of it.
LEMMA EvictKeeps ==
  ASSUME IInv, Evict
  PROVE  IInv'
<1>1. TypeOK'
  BY TimesAssumption, NoneFacts, PhaseFacts, WakeFacts, StatementFacts
     DEF Evict, IInv, TypeOK, Time, life, history
<1>2. Presence'
  BY NoneFacts, PhaseFacts DEF Evict, IInv, Presence, TypeOK, Exists, life, history
<1>3. Ages'
  BY TimesAssumption DEF Evict, IInv, Ages, TypeOK, Time, life, history
<1>4. AlarmCoversRoom'
  BY TimesAssumption, NoneFacts, PhaseFacts
     DEF Evict, IInv, AlarmCoversRoom, Ages, TypeOK, Time, Exists, life, history
<1>5. GraceIsVacancy'
  BY TimesAssumption, NoneFacts, PhaseFacts
     DEF Evict, IInv, GraceIsVacancy, Presence, TypeOK, Time, Exists, life, history
<1>6. Rows'
  BY TimesAssumption, NoneFacts, PhaseFacts
     DEF Evict, IInv, Rows, Presence, Ages, TypeOK, Time, Exists, Renews, life, history
<1>7. Closing'
  BY DEF Evict, IInv, Closing, Presence, TypeOK, Ends, life, history
<1>. QED  BY <1>1, <1>2, <1>3, <1>4, <1>5, <1>6, <1>7 DEF IInv

\* A minute passes for the room, its alarm and its row alike.
LEMMA TickKeeps ==
  ASSUME IInv, Tick
  PROVE  IInv'
<1>1. TypeOK'
  <2>1. lifecycle' \in Phase \cup {None} /\ emptyAt' \in Time(Grace)
    BY TimeFacts, TimesAssumption, NoneFacts, PhaseFacts
       DEF Tick, Less, More, IInv, TypeOK, Time
  <2>2. age' \in [mem : 0 .. IdleExpiry, stored : 0 .. IdleExpiry, lag : 0 .. IdleExpiry]
    BY TimeFacts, TimesAssumption DEF Tick, Less, More, IInv, TypeOK
  <2>3. sockets' \in 0 .. SocketBound /\ silence' \in 0 .. IdleExpiry /\ vacant' \in 0 .. Grace
    BY TimeFacts, TimesAssumption, NoneFacts, PhaseFacts DEF Tick, Less, More, IInv, TypeOK
  <2>4. alarm' \in Time(IdleExpiry)
    BY TimeFacts, TimesAssumption DEF Tick, Less, Time
  <2>5. row' \in {None} \cup [phase : Phase, ended : BOOLEAN, expires : 0 .. IdleExpiry]
    BY TimesAssumption, StatementFacts, PhaseFacts DEF Tick, Less, More, IInv, TypeOK
  <2>6. writes' \subseteq Statement
    BY StatementFacts, PhaseFacts, <2>1 DEF Tick, Less, More, IInv, TypeOK
  <2>7. {synced, visited, closed, failed}' \subseteq BOOLEAN
    BY DEF Tick, Less, More, IInv, TypeOK, life, times, registry, history
  <2>. QED  BY <2>1, <2>2, <2>3, <2>4, <2>5, <2>6, <2>7 DEF TypeOK
<1>2. Presence'
  BY NoneFacts, PhaseFacts DEF Tick, Less, More, IInv, Presence, TypeOK, Exists
<1>3. Ages'
  <2>1. /\ age'.mem = More(age.mem, IdleExpiry) /\ age'.stored = More(age.stored, IdleExpiry)
        /\ age'.lag = More(age.lag, Lag + 1) /\ silence' = More(silence, IdleExpiry)
    BY DEF Tick
  <2>2. silence <= age.mem /\ age.mem <= age.stored /\ age.stored <= silence + Lag
    BY DEF IInv, Ages
  <2>3. age.lag <= Lag => age.stored <= age.lag
    BY DEF IInv, Ages
  <2>4. silence' <= age'.mem /\ age'.mem <= age'.stored /\ age'.stored <= silence' + Lag
    BY <2>1, <2>2, TimeFacts, TimesAssumption DEF More
  <2>5. age'.lag <= Lag => age'.stored <= age'.lag
    BY <2>1, <2>3, TimeFacts, TimesAssumption DEF More
  <2>. QED  BY <2>4, <2>5 DEF Ages
<1>4. AlarmCoversRoom'
  <2>1. UNCHANGED <<lifecycle, writes>> /\ writes = {} /\ silence' = More(silence, IdleExpiry)
    BY DEF Tick
  <2>2. emptyAt' = Less(emptyAt) /\ alarm' = Less(alarm)
    BY DEF Tick
  <2>3. SUFFICES ASSUME Exists
                 PROVE  /\ alarm' # None /\ alarm' <= IdleExpiry - silence'
                        /\ emptyAt' # None => alarm' <= emptyAt'
    BY <2>1 DEF AlarmCoversRoom, Exists
  <2>4. /\ alarm # None /\ alarm <= IdleExpiry - silence
        /\ emptyAt # None => alarm <= emptyAt
    BY <2>1, <2>3 DEF IInv, AlarmCoversRoom
  <2>5. alarm \in 0 .. IdleExpiry /\ (emptyAt = None \/ emptyAt \in 0 .. Grace)
    BY <2>4, TimeFacts DEF Time
  <2>6. alarm' # None /\ alarm' <= IdleExpiry - silence'
    BY <2>1, <2>2, <2>4, <2>5, TimeFacts, TimesAssumption DEF Less, More
  <2>7. emptyAt' # None => alarm' <= emptyAt'
    BY <2>2, <2>4, <2>5, TimeFacts, TimesAssumption DEF Less
  <2>. QED  BY <2>6, <2>7
<1>5. GraceIsVacancy'
  BY TimesAssumption, NoneFacts, PhaseFacts
     DEF Tick, Less, More, IInv, GraceIsVacancy, Presence, TypeOK, Time, Exists
<1>6. Rows'
  BY TimesAssumption, NoneFacts, PhaseFacts
     DEF Tick, Less, More, IInv, Rows, Presence, Ages, TypeOK, Time, Exists, Renews
<1>7. Closing'
  BY DEF Tick, Less, More, IInv, Closing, Presence, TypeOK, Ends
<1>. QED  BY <1>1, <1>2, <1>3, <1>4, <1>5, <1>6, <1>7 DEF IInv

\* A statement lands or fails. Only a report or a first write renews the row, only of a
\* room that was just heard of; and no report lists a closed room again.
LEMMA ResolveKeeps ==
  ASSUME IInv, NEW w \in Statement, Resolve(w)
  PROVE  IInv'
<1>1. TypeOK'
  <2>1. lifecycle' \in Phase \cup {None} /\ emptyAt' \in Time(Grace)
    BY TimeFacts, TimesAssumption, NoneFacts, PhaseFacts
       DEF Resolve, Landed, IInv, TypeOK, Time
  <2>2. age' \in [mem : 0 .. IdleExpiry, stored : 0 .. IdleExpiry, lag : 0 .. IdleExpiry]
    BY TimeFacts, TimesAssumption DEF Resolve, Landed, IInv, TypeOK
  <2>3. sockets' \in 0 .. SocketBound /\ silence' \in 0 .. IdleExpiry /\ vacant' \in 0 .. Grace
    BY TimeFacts, TimesAssumption, NoneFacts, PhaseFacts DEF Resolve, Landed, IInv, TypeOK
  <2>4. alarm' \in Time(IdleExpiry)
    <3>1. NextWake(age.mem, emptyAt') \in 0 .. IdleExpiry
      BY <2>1, TimeFacts, WakeFacts
    <3>. QED  BY <3>1, TimeFacts DEF Resolve, Time
  <2>5. row' \in {None} \cup [phase : Phase, ended : BOOLEAN, expires : 0 .. IdleExpiry]
    <3>1. row \in {None} \cup [phase : Phase, ended : BOOLEAN, expires : 0 .. IdleExpiry]
      BY DEF IInv, TypeOK
    <3>2. Landed(w, row) \in {None} \cup [phase : Phase, ended : BOOLEAN, expires : 0 .. IdleExpiry]
      <4>1. /\ w.op \in {"upsert", "touch", "end", "delete"}
            /\ w.op \in {"upsert", "touch"} => w.expires = IdleExpiry /\ w.phase \in Phase
        BY StatementFacts
      <4>2. CASE row = None \/ w.op = "delete" \/ w.op = "upsert"
        BY <4>1, <4>2, PhaseFacts, TimesAssumption DEF Landed
      <4>3. CASE row # None /\ w.op = "touch"
        <5>1. /\ row \in [phase : Phase, ended : BOOLEAN, expires : 0 .. IdleExpiry]
              /\ w.expires \in 0 .. IdleExpiry /\ w.phase \in Phase
          BY <3>1, <4>1, <4>3, TimesAssumption
        <5>2. Landed(w, row) = [row EXCEPT !.phase = w.phase, !.expires = w.expires]
          BY <4>3 DEF Landed
        <5>. QED  BY <5>1, <5>2
      <4>4. CASE row # None /\ w.op = "end"
        BY <3>1, <4>1, <4>4, PhaseFacts DEF Landed
      <4>. QED  BY <4>1, <4>2, <4>3, <4>4
    <3>. QED  BY <3>1, <3>2 DEF Resolve
  <2>6. writes' \subseteq Statement
    BY StatementFacts, PhaseFacts, <2>1 DEF Resolve, Landed, IInv, TypeOK
  <2>7. {synced, visited, closed, failed}' \subseteq BOOLEAN
    BY DEF Resolve, Landed, IInv, TypeOK, life, times, registry, history
  <2>. QED  BY <2>1, <2>2, <2>3, <2>4, <2>5, <2>6, <2>7 DEF TypeOK
<1>2. Presence'
  BY NoneFacts, PhaseFacts, StatementFacts
     DEF Resolve, Landed, IInv, Presence, TypeOK, Exists
<1>3. Ages'
  BY TimesAssumption DEF Resolve, Landed, IInv, Ages, TypeOK, Time
<1>4. AlarmCoversRoom'
  <2>1. UNCHANGED <<lifecycle, age, silence>> /\ emptyAt' \in Time(Grace) /\ silence <= age.mem
    BY <1>1 DEF Resolve, IInv, TypeOK, Ages
  <2>2. /\ NextWake(age.mem, emptyAt') \in 0 .. IdleExpiry
        /\ NextWake(age.mem, emptyAt') <= IdleExpiry - age.mem
        /\ emptyAt' # None => NextWake(age.mem, emptyAt') <= emptyAt'
    BY <2>1, TimeFacts, WakeFacts
  <2>3. CASE Exists /\ w.op = "end" /\ (w = End("expired") \/ emptyAt' # emptyAt)
    <3>1. alarm' = NextWake(age.mem, emptyAt')
      BY <2>3 DEF Resolve
    <3>. QED  BY <2>1, <2>2, <3>1, TimeFacts, TimesAssumption DEF AlarmCoversRoom
  <2>4. CASE Exists /\ ~ (w.op = "end" /\ (w = End("expired") \/ emptyAt' # emptyAt))
    <3>1. UNCHANGED <<emptyAt, alarm>> /\ w # End("expired")
      BY <2>4, StatementFacts DEF Resolve
    <3>2. End("expired") \notin writes' => End("expired") \notin writes
      BY <3>1, StatementFacts DEF Resolve
    <3>. QED  BY <2>1, <3>1, <3>2 DEF IInv, AlarmCoversRoom, Exists
  <2>5. CASE ~Exists
    BY <2>1, <2>5 DEF AlarmCoversRoom, Exists
  <2>. QED  BY <2>3, <2>4, <2>5
<1>5. GraceIsVacancy'
  BY TimesAssumption, NoneFacts, PhaseFacts
     DEF Resolve, Landed, IInv, GraceIsVacancy, Presence, TypeOK, Time, Exists
<1>6. Rows'
  <2>1. UNCHANGED <<lifecycle, silence>> /\ w \in writes
    BY DEF Resolve
  <2>2. \A v \in writes' : Renews(v) => v \in writes
    BY StatementFacts DEF Resolve, Renews
  <2>3. row' # None => \/ row # None /\ row'.expires = row.expires
                       \/ Renews(w) /\ row'.expires = IdleExpiry
    <3>1. /\ w.op \in {"upsert", "touch", "end", "delete"}
          /\ w.op \in {"upsert", "touch"} => w.expires = IdleExpiry
      BY StatementFacts
    <3>2. row \in {None} \cup [phase : Phase, ended : BOOLEAN, expires : 0 .. IdleExpiry]
      BY DEF IInv, TypeOK
    <3>3. Landed(w, row) # None => \/ row # None /\ Landed(w, row).expires = row.expires
                                   \/ Renews(w) /\ Landed(w, row).expires = IdleExpiry
      <4>1. CASE w.op = "upsert"
        BY <3>1, <4>1 DEF Landed, Renews
      <4>2. CASE w.op = "touch"
        BY <3>1, <3>2, <4>2 DEF Landed, Renews
      <4>3. CASE w.op \in {"end", "delete"}
        BY <3>2, <4>3 DEF Landed
      <4>. QED  BY <3>1, <4>1, <4>2, <4>3
    <3>4. CASE row' = row
      BY <3>2, <3>4
    <3>5. CASE row' = Landed(w, row)
      BY <3>3, <3>5
    <3>. QED  BY <3>4, <3>5 DEF Resolve
  <2>. QED  BY <2>1, <2>2, <2>3, TimeFacts, TimesAssumption DEF IInv, Rows, Exists
<1>7. Closing'
  <2>1. SUFFICES ASSUME closed, ~failed, ~failed', row' # None, ~row'.ended
                 PROVE  Ends' # {}
    BY DEF Resolve, Closing
  <2>2. row' = Landed(w, row) /\ w \in writes /\ Upsert \notin writes
    BY <2>1 DEF Resolve, IInv, Presence
  <2>3. w.op = "touch" /\ row # None /\ ~row.ended
    <3>1. w.op \in {"touch", "end", "delete"}
      BY <2>2, StatementFacts
    <3>2. row \in {None} \cup [phase : Phase, ended : BOOLEAN, expires : 0 .. IdleExpiry]
      BY DEF IInv, TypeOK
    <3>. QED  BY <2>1, <2>2, <3>1, <3>2 DEF Landed
  <2>4. PICK v \in writes : v.op = "end"
    BY <2>1, <2>3 DEF IInv, Closing, Ends
  <2>. QED  BY <2>3, <2>4 DEF Resolve, Ends
<1>. QED  BY <1>1, <1>2, <1>3, <1>4, <1>5, <1>6, <1>7 DEF IInv

-----------------------------------------------------------------------------
(* The step, and the theorems.                                                 *)

\* Every step keeps the invariant.
LEMMA NextIInv == IInv /\ [Next]_vars => IInv'
<1>. SUFFICES ASSUME IInv, [Next]_vars PROVE IInv'
  OBVIOUS
<1>1. CASE Initialize  BY <1>1, InitializeKeeps
<1>2. CASE Connect  BY <1>2, ConnectKeeps
<1>3. CASE Disconnect  BY <1>3, DisconnectKeeps
<1>4. CASE Message  BY <1>4, MessageKeeps
<1>5. CASE Play
  <2>1. Exists
    BY <1>5 DEF Play, IInv, Presence
  <2>. QED  BY <1>5, <2>1, BatchKeeps DEF Play
<1>6. CASE HostCloses  BY <1>6, HostClosesKeeps
<1>7. CASE CloseRequest  BY <1>7, CloseRequestKeeps
<1>8. CASE Ring  BY <1>8, WipeKeeps, GraceOverKeeps, WakeForNothingKeeps DEF Ring
<1>9. CASE EngineTimer
  <2>1. Exists
    BY <1>9, NoneFacts, PhaseFacts DEF EngineTimer, Exists
  <2>. QED  BY <1>9, <2>1, BatchKeeps DEF EngineTimer
<1>10. CASE Sweep  BY <1>10, SweepKeeps
<1>11. CASE Evict  BY <1>11, EvictKeeps
<1>12. CASE Tick  BY <1>12, TickKeeps
<1>13. CASE \E w \in Statement : Resolve(w)  BY <1>13, ResolveKeeps
<1>14. CASE UNCHANGED vars
  BY <1>14 DEF vars, life, times, registry, history, IInv, TypeOK, Presence, Ages,
     AlarmCoversRoom, GraceIsVacancy, Rows, Closing, Exists, Ends
<1>. QED  BY <1>1, <1>2, <1>3, <1>4, <1>5, <1>6, <1>7, <1>8, <1>9, <1>10, <1>11, <1>12, <1>13,
             <1>14 DEF Next

\* The inductive invariant, in every reachable state (game-room-do.ts, registry-
\* writer.ts).
THEOREM LifecycleInvariant == Spec => []IInv
BY InitIInv, NextIInv, PTL DEF Spec

\* Every clock of the room, its row and its statements stay within their types.
THEOREM TypeCorrect == Spec => []TypeOK
<1>1. IInv => TypeOK
  BY DEF IInv
<1>. QED  BY <1>1, LifecycleInvariant, PTL

\* The room's alarm is never slept through: it is set, and rings by the end of the grace
\* and of the idle time (rescheduleAlarm, nextWakeAt).
THEOREM AlarmAlwaysCovers == Spec => []AlarmCoversRoom
<1>1. IInv => AlarmCoversRoom
  BY DEF IInv
<1>. QED  BY <1>1, LifecycleInvariant, PTL

\* The grace counts down exactly in a room that everybody left and that is not over,
\* from the moment the last socket closed (noteDeparture, onConnect, closeRoom).
THEOREM GraceAlwaysVacancy == Spec => []GraceIsVacancy
<1>1. IInv => GraceIsVacancy
  BY DEF IInv
<1>. QED  BY <1>1, LifecycleInvariant, PTL

\* Whatever statement failed, the lobby advertises a code without a room for Lag at the
\* longest (registry-writer.ts, touchSql and upsertSql with their expiry).
THEOREM DeadRoomsAlwaysDelist == Spec => []DeadRoomsDelist
<1>1. IInv => DeadRoomsDelist
  BY DEF IInv, Rows, DeadRoomsDelist
<1>. QED  BY <1>1, LifecycleInvariant, PTL

\* A closed room leaves the lobby although reports of its play may land after its end,
\* unless a statement failed (endSql, touchSql).
THEOREM ClosedAlwaysDelisted == Spec => []ClosedIsDelisted
<1>1. IInv => ClosedIsDelisted
  BY DEF IInv, Closing, ClosedIsDelisted, Ends, Listed
<1>. QED  BY <1>1, LifecycleInvariant, PTL

\* Only the wipe frees the code.
LEMMA OnlyWipeFrees ==
  ASSUME IInv, [Next]_vars, Exists, lifecycle' = None
  PROVE  Wipe
<1>1. lifecycle' # lifecycle /\ lifecycle' \notin Phase
  BY NoneFacts DEF Exists
<1>2. ~ (Connect \/ Disconnect \/ Message \/ HostCloses \/ CloseRequest \/ Initialize)
  BY <1>1, PhaseFacts
     DEF Initialize, Connect, Disconnect, Message, HostCloses, CloseRequest, CloseRoom
<1>3. ~ (Play \/ EngineTimer)
  BY <1>1, PhaseFacts DEF Play, EngineTimer, Batch
<1>4. ~ (GraceOver \/ WakeForNothing)
  BY <1>1, PhaseFacts DEF GraceOver, CloseRoom, WakeForNothing, life
<1>5. ~ (Sweep \/ Evict \/ Tick \/ UNCHANGED vars \/ \E w \in Statement : Resolve(w))
  BY <1>1 DEF Sweep, Evict, Tick, Resolve, vars, life
<1>. QED  BY <1>2, <1>3, <1>4, <1>5 DEF Next, Ring

\* No room is wiped before IdleExpiry - Lag of silence, whatever activity the evictions
\* forgot (touchActivity, handleAlarm).
THEOREM AlwaysWipedAfterSilence == Spec => WipedAfterSilence
<1>1. IInv /\ [Next]_vars => [(Exists /\ lifecycle' = None) => silence + Lag >= IdleExpiry]_vars
  <2>. SUFFICES ASSUME IInv, [Next]_vars, Exists, lifecycle' = None
                PROVE  silence + Lag >= IdleExpiry
    OBVIOUS
  <2>1. age.mem >= IdleExpiry
    BY OnlyWipeFrees DEF Wipe, Expired
  <2>2. age.mem <= age.stored /\ age.stored <= silence + Lag
    BY DEF IInv, Ages
  <2>. QED  BY <2>1, <2>2, TimeFacts, TimesAssumption
<1>. QED  BY <1>1, LifecycleInvariant, PTL DEF Spec, WipedAfterSilence

=============================================================================
