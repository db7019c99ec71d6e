-------------------------- MODULE RoomClient_proofs -------------------------
(***************************************************************************)
(* Proofs about RoomClient for every number of dials, seats and batches:   *)
(* whose seat a connection is, and what the phone shows.                   *)
(***************************************************************************)
EXTENDS RoomClient, TLAPS

-----------------------------------------------------------------------------
(* The inductive invariant.                                                    *)

Said(s) == {s[i] : i \in DOMAIN s}
Welcomes(s) == {m \in Said(s) : m.type = "welcome"}
\* What moves the version the phone has, and what its screen besides.
IsNews(m) == m.type \in {"snapshot", "event", "buzz-won"}
IsState(m) == m.type \in {"snapshot", "event"}

Reason ==
  {"room-full", "late-join-disabled", "team-locked", "bad-session-token", "no-such-room"}
Ending == {"kicked", "expired", "host-closed"}
Fault == {"already joined", "not-joined", "rejected"}
UpMsg == [type : UpType, about : Seat \cup {None}]
DownMsg ==
  [type : {"welcome"}, about : Seat]
    \cup [type : {"snapshot", "event", "buzz-won"}, about : 0 .. BatchBound]
    \cup [type : {"refused"}, about : Reason] \cup [type : {"room-closed"}, about : Ending]
    \cup [type : {"close"}, about : Nat] \cup [type : {"error"}, about : Fault]
Store ==
  [conn : Conn \cup {None}, open : BOOLEAN, wants : BOOLEAN, token : Seat \cup {None},
   me : Seat \cup {None}, done : BOOLEAN, retry : BOOLEAN, answered : BOOLEAN,
   version : -1 .. BatchBound, shown : -1 .. BatchBound]
Game == [seats : SUBSET Seat, minted : 0 .. SeatBound, version : 0 .. BatchBound, there : BOOLEAN]

Types ==
  /\ phone \in Store /\ stash \in Seat \cup {None} /\ dials \in 0 .. DialBound
  /\ up \in [Conn -> Seq(UpMsg)] /\ down \in Seq(DownMsg)
  /\ served \in [Conn -> Seat \cup {Unjoined, None}]
  /\ room \in Game /\ told \in 0 .. BatchBound

\* The history the types do not tell: seats are minted once, the tab keeps the token, and the
\* phone has no version from the future.
Past ==
  /\ room.seats \subseteq 1 .. room.minted /\ told <= room.version
  /\ phone.token # None => phone.token <= room.minted
  /\ \A m \in Welcomes(down) : m.about <= room.minted
  /\ stash = phone.token
  /\ phone.shown <= phone.version /\ phone.version <= room.version

\* A connection not yet open, or not yet made, is silent and unknown to the room.
Silent ==
  /\ \A c \in Conn : c > dials => served[c] = None /\ up[c] = <<>>
  /\ phone.conn # None => phone.conn <= dials
  /\ phone.conn # None /\ ~phone.open =>
       served[phone.conn] = None /\ up[phone.conn] = <<>> /\ down = <<>>

\* On one connection there is one welcome, to the seat the room attached; a phone with a token
\* asks for it before anything else.
OneWelcome ==
  phone.conn # None =>
    /\ \A m, n \in Welcomes(down) : m.about = n.about
    /\ served[phone.conn] = Unjoined => Welcomes(down) = {}
    /\ Attached(phone.conn) => \A m \in Welcomes(down) : m.about = served[phone.conn]
    /\ phone.token # None =>
         /\ \A m \in Welcomes(down) : m.about = phone.token
         /\ phone.open /\ served[phone.conn] = Unjoined =>
              up[phone.conn] # <<>> /\ Head(up[phone.conn]) = Msg("resume", phone.token)
    /\ Attached(phone.conn) /\ Welcomes(down) = {} /\ phone.token # None =>
         phone.token = served[phone.conn] /\ phone.me = phone.token

\* A refused token and a kicked seat are gone from the room.
TokenGone ==
  phone.conn # None =>
    /\ Msg("refused", "bad-session-token") \in Said(down) =>
         served[phone.conn] = None /\ Welcomes(down) = {} /\ phone.token \notin room.seats
    /\ Msg("room-closed", "kicked") \in Said(down) =>
         /\ served[phone.conn] = None /\ phone.token \notin room.seats
         /\ \A m \in Welcomes(down) : m.about \notin room.seats

\* The news in s goes on from version n to at most v, and back at no place.
Ordered(s, n, v) ==
  /\ \A i \in DOMAIN s : IsNews(s[i]) => n <= s[i].about /\ s[i].about <= v
  /\ \A i, j \in DOMAIN s :
       i < j /\ IsNews(s[i]) /\ IsNews(s[j]) => s[i].about <= s[j].about

\* No event in s is more than one ahead of all that is heard before it.
Chained(s, n) ==
  \A i \in DOMAIN s : s[i].type = "event" =>
    \/ s[i].about <= n + 1
    \/ \E j \in DOMAIN s : j < i /\ IsNews(s[j]) /\ s[i].about <= s[j].about + 1

\* Whoever is joined has heard, or will, of the room's version and of the last state told.
Heard == phone.version = room.version \/ \E m \in Said(down) : IsNews(m) /\ m.about = room.version
Shows == phone.shown >= told \/ \E m \in Said(down) : IsState(m) /\ m.about >= told
News ==
  /\ Ordered(down, phone.version, room.version) /\ Chained(down, phone.version)
  /\ Joined => Heard /\ Shows

IInv == Types /\ Past /\ Silent /\ OneWelcome /\ TokenGone /\ News

-----------------------------------------------------------------------------
(* Sequences of messages, by what is said in them.                             *)

\* Said is a union over a concatenation, and over the head and the tail.
LEMMA SaidConcat ==
  ASSUME NEW S, NEW s \in Seq(S), NEW t \in Seq(S)
  PROVE  s \o t \in Seq(S) /\ Said(s \o t) = Said(s) \cup Said(t)
<1>1. s \o t \in Seq(S) /\ Len(s \o t) = Len(s) + Len(t)
  OBVIOUS
<1>2. Said(s \o t) \subseteq Said(s) \cup Said(t)
  <2>. SUFFICES ASSUME NEW i \in DOMAIN (s \o t)
                PROVE  (s \o t)[i] \in Said(s) \cup Said(t)
    BY DEF Said
  <2>1. CASE i <= Len(s)
    BY <2>1, <1>1 DEF Said
  <2>2. CASE i > Len(s)
    <3>1. (s \o t)[i] = t[i - Len(s)] /\ i - Len(s) \in DOMAIN t
      BY <2>2, <1>1
    <3>. QED  BY <3>1 DEF Said
  <2>. QED  BY <2>1, <2>2
<1>3. Said(s) \subseteq Said(s \o t)
  <2>. SUFFICES ASSUME NEW i \in DOMAIN s PROVE s[i] \in Said(s \o t)
    BY DEF Said
  <2>1. i \in DOMAIN (s \o t) /\ (s \o t)[i] = s[i]
    BY <1>1
  <2>. QED  BY <2>1 DEF Said
<1>4. Said(t) \subseteq Said(s \o t)
  <2>. SUFFICES ASSUME NEW i \in DOMAIN t PROVE t[i] \in Said(s \o t)
    BY DEF Said
  <2>1. i + Len(s) \in DOMAIN (s \o t) /\ (s \o t)[i + Len(s)] = t[i]
    BY <1>1
  <2>. QED  BY <2>1 DEF Said
<1>. QED  BY <1>1, <1>2, <1>3, <1>4

\* And over the head and the tail.
LEMMA SaidTail ==
  ASSUME NEW S, NEW s \in Seq(S), s # <<>>
  PROVE  /\ Head(s) \in S /\ Tail(s) \in Seq(S)
         /\ Said(s) = {Head(s)} \cup Said(Tail(s))
<1>1. /\ Head(s) \in S /\ Tail(s) \in Seq(S) /\ Len(s) \in Nat \ {0}
      /\ Len(Tail(s)) = Len(s) - 1 /\ Head(s) = s[1]
      /\ \A i \in DOMAIN Tail(s) : i + 1 \in DOMAIN s /\ Tail(s)[i] = s[i + 1]
  OBVIOUS
<1>2. Said(s) \subseteq {Head(s)} \cup Said(Tail(s))
  <2>. SUFFICES ASSUME NEW i \in DOMAIN s, i # 1 PROVE s[i] \in Said(Tail(s))
    BY <1>1 DEF Said
  <2>1. i - 1 \in DOMAIN Tail(s) /\ Tail(s)[i - 1] = s[i]
    BY <1>1
  <2>. QED  BY <2>1 DEF Said
<1>3. {Head(s)} \cup Said(Tail(s)) \subseteq Said(s)
  <2>1. 1 \in DOMAIN s
    BY <1>1
  <2>. QED  BY <1>1, <2>1 DEF Said
<1>. QED  BY <1>1, <1>2, <1>3

\* Of none or of one.
LEMMA SaidFew ==
  ASSUME NEW S, NEW a \in S
  PROVE  /\ Said(<<>>) = {} /\ <<>> \in Seq(S)
         /\ Said(<<a>>) = {a} /\ <<a>> \in Seq(S)
BY DEF Said

\* Of two.
LEMMA SaidPair ==
  \A a, b \in DownMsg : Said(<<a, b>>) = {a, b} /\ <<a, b>> \in Seq(DownMsg)
<1>. SUFFICES ASSUME NEW a \in DownMsg, NEW b \in DownMsg
              PROVE  Said(<<a, b>>) = {a, b} /\ <<a, b>> \in Seq(DownMsg)
  OBVIOUS
<1>1. DOMAIN <<a, b>> = {1, 2} /\ <<a, b>>[1] = a /\ <<a, b>>[2] = b
  OBVIOUS
<1>2. Said(<<a, b>>) = {a, b}
  BY <1>1 DEF Said
<1>. QED  BY <1>2

\* A phone that reads on finds what is left in order, from the version it then has.
LEMMA NewsHead ==
  ASSUME NEW s \in Seq(DownMsg), s # <<>>, NEW n \in Int, NEW v \in Int,
         Ordered(s, n, v), Chained(s, n),
         NEW k \in Int, k = IF IsNews(Head(s)) THEN Head(s).about ELSE n
  PROVE  Ordered(Tail(s), k, v) /\ Chained(Tail(s), k) /\ n <= k /\ (n <= v => k <= v)
<1>1. /\ Len(s) \in Nat \ {0} /\ Len(Tail(s)) = Len(s) - 1 /\ Head(s) = s[1]
      /\ DOMAIN s = 1 .. Len(s) /\ DOMAIN Tail(s) = 1 .. Len(s) - 1
      /\ \A i \in DOMAIN Tail(s) : i + 1 \in DOMAIN s /\ Tail(s)[i] = s[i + 1]
      /\ \A i \in DOMAIN s : s[i] \in DownMsg
  OBVIOUS
<1>. DEFINE t == Tail(s)
<1>2. \A i \in DOMAIN s : IsNews(s[i]) => s[i].about \in Int
  BY <1>1 DEF DownMsg, IsNews
<1>3. 1 \in DOMAIN s /\ n <= k /\ (n <= v => k <= v)
  BY <1>1, <1>2 DEF Ordered
<1>4. ASSUME NEW i \in DOMAIN t, IsNews(t[i])
      PROVE  k <= t[i].about /\ t[i].about <= v
  <2>1. i + 1 \in DOMAIN s /\ t[i] = s[i + 1] /\ 1 < i + 1
    BY <1>1
  <2>. QED  BY <1>1, <1>3, <1>4, <2>1 DEF Ordered
<1>5. ASSUME NEW i \in DOMAIN t, NEW j \in DOMAIN t, i < j, IsNews(t[i]), IsNews(t[j])
      PROVE  t[i].about <= t[j].about
  <2>1. /\ i + 1 \in DOMAIN s /\ t[i] = s[i + 1] /\ j + 1 \in DOMAIN s /\ t[j] = s[j + 1]
        /\ i + 1 < j + 1
    BY <1>1, <1>5
  <2>. QED  BY <1>5, <2>1 DEF Ordered
<1>6. ASSUME NEW i \in DOMAIN t, t[i].type = "event"
      PROVE  \/ t[i].about <= k + 1
             \/ \E j \in DOMAIN t : j < i /\ IsNews(t[j]) /\ t[i].about <= t[j].about + 1
  <2>1. i + 1 \in DOMAIN s /\ t[i] = s[i + 1] /\ IsNews(t[i]) /\ t[i].about \in Int /\ i \in Int
    BY <1>1, <1>2, <1>6 DEF IsNews
  <2>2. CASE s[i + 1].about <= n + 1
    BY <1>3, <2>1, <2>2
  <2>3. CASE \E j \in DOMAIN s : j < i + 1 /\ IsNews(s[j]) /\ s[i + 1].about <= s[j].about + 1
    <3>1. PICK j \in DOMAIN s : j < i + 1 /\ IsNews(s[j]) /\ s[i + 1].about <= s[j].about + 1
      BY <2>3
    <3>2. CASE j = 1
      BY <1>1, <2>1, <3>1, <3>2
    <3>3. CASE j # 1
      <4>1. j - 1 \in DOMAIN t /\ t[j - 1] = s[j] /\ j - 1 < i
        BY <1>1, <2>1, <3>1, <3>3
      <4>. QED  BY <2>1, <3>1, <4>1
    <3>. QED  BY <3>2, <3>3
  <2>. QED  BY <1>6, <2>1, <2>2, <2>3 DEF Chained
<1>. QED  BY <1>3, <1>4, <1>5, <1>6 DEF Ordered, Chained

\* What is said of a later version goes behind.
LEMMA NewsBehind ==
  ASSUME NEW s \in Seq(DownMsg), NEW w \in Seq(DownMsg), NEW n \in Int, NEW v \in Int,
         NEW k \in Int, Ordered(s, n, v), Chained(s, n), n <= v, v <= k,
         \A i \in DOMAIN w : IsNews(w[i]) => w[i].about = k,
         \A i \in DOMAIN w : w[i].type = "event" =>
           \/ k <= n + 1 \/ (\E j \in DOMAIN s : IsNews(s[j]) /\ k <= s[j].about + 1)
           \/ \E j \in DOMAIN w : j < i /\ IsNews(w[j])
  PROVE  Ordered(s \o w, n, k) /\ Chained(s \o w, n)
<1>. DEFINE z == s \o w
            l == Len(s)
<1>1. /\ l \in Nat /\ Len(w) \in Nat /\ DOMAIN s = 1 .. l /\ DOMAIN w = 1 .. Len(w)
      /\ DOMAIN z = 1 .. (l + Len(w))
      /\ \A i \in DOMAIN s : i \in DOMAIN z /\ z[i] = s[i] /\ s[i] \in DownMsg
      /\ \A i \in DOMAIN w : i + l \in DOMAIN z /\ z[i + l] = w[i]
  OBVIOUS
<1>2. \A i \in DOMAIN z : i \in DOMAIN s \/ (i - l \in DOMAIN w /\ z[i] = w[i - l] /\ i > l)
  <2>. HIDE DEF z, l
  <2>. SUFFICES ASSUME NEW i \in DOMAIN z, i \notin DOMAIN s
                PROVE  i - l \in DOMAIN w /\ z[i] = w[i - l] /\ i > l
    OBVIOUS
  <2>1. i \in Int /\ i > l /\ i - l \in DOMAIN w /\ (i - l) + l = i
    BY <1>1
  <2>. QED  BY <1>1, <2>1
<1>. HIDE DEF z, l
<1>3. \A i \in DOMAIN s : IsNews(s[i]) => s[i].about \in Int /\ n <= s[i].about /\ s[i].about <= v
  BY <1>1 DEF Ordered, DownMsg, IsNews
<1>4. ASSUME NEW i \in DOMAIN z, IsNews(z[i])
      PROVE  n <= z[i].about /\ z[i].about <= k /\ (i \notin DOMAIN s => z[i].about = k)
  BY <1>1, <1>2, <1>3, <1>4
<1>5. ASSUME NEW i \in DOMAIN z, NEW j \in DOMAIN z, i < j, IsNews(z[i]), IsNews(z[j])
      PROVE  z[i].about <= z[j].about
  <2>1. CASE j \in DOMAIN s
    <3>1. i \in DOMAIN s
      BY <1>1, <1>2, <1>5, <2>1
    <3>. QED  BY <1>1, <1>5, <2>1, <3>1 DEF Ordered
  <2>2. CASE j \notin DOMAIN s
    BY <1>4, <1>5, <2>2
  <2>. QED  BY <2>1, <2>2
<1>6. ASSUME NEW i \in DOMAIN z, z[i].type = "event"
      PROVE  \/ z[i].about <= n + 1
             \/ \E j \in DOMAIN z : j < i /\ IsNews(z[j]) /\ z[i].about <= z[j].about + 1
  <2>1. CASE i \in DOMAIN s
    <3>1. z[i] = s[i] /\ \A j \in DOMAIN s : j \in DOMAIN z /\ z[j] = s[j]
      BY <1>1, <2>1
    <3>. QED  BY <1>6, <2>1, <3>1 DEF Chained
  <2>2. CASE i \notin DOMAIN s
    <3>1. i - l \in DOMAIN w /\ z[i] = w[i - l] /\ i > l /\ i \in Int
      BY <1>1, <1>2, <2>2
    <3>2. z[i].about = k
      BY <1>4, <1>6, <2>2 DEF IsNews
    <3>3. CASE \E j \in DOMAIN s : IsNews(s[j]) /\ k <= s[j].about + 1
      <4>1. PICK j \in DOMAIN s : IsNews(s[j]) /\ k <= s[j].about + 1
        BY <3>3
      <4>2. j \in DOMAIN z /\ z[j] = s[j] /\ j < i
        BY <1>1, <3>1, <4>1
      <4>. QED  BY <3>2, <4>1, <4>2
    <3>4. CASE \E j \in DOMAIN w : j < i - l /\ IsNews(w[j])
      <4>1. PICK j \in DOMAIN w : j < i - l /\ IsNews(w[j])
        BY <3>4
      <4>2. j + l \in DOMAIN z /\ z[j + l] = w[j] /\ j + l < i
        BY <1>1, <3>1, <4>1
      <4>3. z[j + l].about = k
        BY <4>1, <4>2
      <4>. QED  BY <3>2, <4>1, <4>2, <4>3
    <3>. QED  BY <1>6, <3>1, <3>2, <3>3, <3>4
  <2>. QED  BY <2>1, <2>2
<1>. QED  BY <1>4, <1>5, <1>6 DEF Ordered, Chained, z

-----------------------------------------------------------------------------
(* Messages.                                                                   *)

\* What a word of the room can be about, by its type.
LEMMA DownFacts ==
  ASSUME NEW m \in DownMsg
  PROVE  /\ m = Msg(m.type, m.about) /\ m.type \in DownType
         /\ m.type = "welcome" => m.about \in Seat
         /\ IsNews(m) => m.about \in 0 .. BatchBound
         /\ m.type = "refused" => m.about \in Reason
         /\ m.type = "room-closed" => m.about \in Ending
         /\ m.type = "close" => m.about \in Nat
BY DEF DownMsg, Msg, DownType, IsNews

\* Messages carry what they are made with, and are of the types of the wire.
LEMMA MsgFacts ==
  /\ \A type, about : Msg(type, about).type = type /\ Msg(type, about).about = about
  /\ \A seat \in Seat : Msg("welcome", seat) \in DownMsg
  /\ \A v \in 0 .. BatchBound : /\ Msg("snapshot", v) \in DownMsg /\ Msg("event", v) \in DownMsg
                                /\ Msg("buzz-won", v) \in DownMsg
  /\ \A r \in Reason : Msg("refused", r) \in DownMsg
  /\ \A r \in Ending : Msg("room-closed", r) \in DownMsg
  /\ \A code \in Nat : Msg("close", code) \in DownMsg
  /\ \A r \in Fault : Msg("error", r) \in DownMsg
  /\ \A seat \in Seat : Msg("resume", seat) \in UpMsg
  /\ Msg("join", None) \in UpMsg /\ Msg("sync", None) \in UpMsg /\ Msg("leave", None) \in UpMsg
BY DEF DownMsg, UpMsg, UpType, Msg

\* The types that later steps need of the records.
LEMMA StateFacts ==
  ASSUME Types
  PROVE  /\ phone.conn \in Conn \cup {None} /\ phone.open \in BOOLEAN /\ phone.wants \in BOOLEAN
         /\ phone.token \in Seat \cup {None} /\ phone.me \in Seat \cup {None}
         /\ phone.version \in -1 .. BatchBound /\ phone.shown \in -1 .. BatchBound
         /\ room.seats \subseteq Seat /\ room.minted \in 0 .. SeatBound
         /\ room.version \in 0 .. BatchBound /\ room.there \in BOOLEAN
         /\ \A c \in Conn : served[c] \in Seat \cup {Unjoined, None} /\ up[c] \in Seq(UpMsg)
         /\ Said(down) \subseteq DownMsg /\ Snapshot(room.version) \in DownMsg
<1>1. Said(down) \subseteq DownMsg
  BY DEF Types, Said
<1>2. room.version \in 0 .. BatchBound
  BY DEF Types, Game
<1>. QED  BY <1>1, <1>2, MsgFacts DEF Types, Store, Game, Snapshot

\* Numbers are not None, and Unjoined is no seat.
LEMMA NumberFacts ==
  /\ Conn \subseteq Nat \ {0} /\ Seat \subseteq Nat \ {0} /\ DialBound \in Nat \ {0}
  /\ SeatBound \in Nat \ {0} /\ BatchBound \in Nat \ {0}
  /\ None \notin Nat /\ None \notin Conn /\ None \notin Seat /\ Unjoined \notin Seat
  /\ None # Unjoined
BY BoundsAssumption, NoneAssumption DEF Conn, Seat, Unjoined

\* What the phone hears when something is told.
Ear(conns, msgs, others) ==
  IF phone.conn \in conns THEN msgs ELSE IF Joined THEN others ELSE <<>>

\* It goes behind what it has not handled.
LEMMA TellsSaid ==
  ASSUME Types, NEW conns, NEW msgs \in Seq(DownMsg), NEW others \in Seq(DownMsg),
         Tells(conns, msgs, others)
  PROVE  Ear(conns, msgs, others) \in Seq(DownMsg) /\ down' = down \o Ear(conns, msgs, others)
<1>1. down \in Seq(DownMsg) /\ <<>> \in Seq(DownMsg) /\ down \o <<>> = down
  BY DEF Types
<1>. QED  BY <1>1 DEF Tells, Ear

-----------------------------------------------------------------------------
(* Batches.                                                                    *)

Batches == Presence \cup {BoardWin, BareWin}

\* What a batch says, and how it moves the version and the last state told.
LEMMA BatchFacts ==
  ASSUME Types, Past, NEW batch \in Batches, Carries(batch)
  PROVE  /\ batch \in Seq(DownMsg) /\ Bumped(batch) \in {room.version, room.version + 1}
         /\ Bumped(batch) \in 0 .. BatchBound /\ told' \in {told, Bumped(batch)}
         /\ \A m \in Said(batch) : IsNews(m) /\ m.type # "snapshot" /\ m.about = Bumped(batch)
         /\ Bumped(batch) # room.version => \E m \in Said(batch) : IsNews(m)
         /\ told' # told => \E m \in Said(batch) : IsState(m)
         /\ told' \in 0 .. Bumped(batch)
<1>1. room.version \in 0 .. BatchBound /\ told \in 0 .. room.version /\ BatchBound \in Nat
  BY StateFacts, NumberFacts DEF Types, Past
<1>2. /\ batch # <<>> => room.version < BatchBound
      /\ told' = IF Event \in Said(batch) THEN room.version + 1 ELSE told
  BY DEF Carries, Said
<1>3. CASE batch = <<>>
  <2>1. Said(batch) = {} /\ batch \in Seq(DownMsg) /\ Bumped(batch) = room.version
    BY <1>3 DEF Said, Bumped
  <2>. QED  BY <1>1, <1>2, <2>1
<1>4. CASE batch # <<>>
  <2>1. room.version + 1 \in 0 .. BatchBound /\ Bumped(batch) = room.version + 1
    BY <1>1, <1>2, <1>4 DEF Bumped
  <2>2. /\ Event \in DownMsg /\ Event.type = "event" /\ Event.about = room.version + 1
        /\ Win \in DownMsg /\ Win.type = "buzz-won" /\ Win.about = room.version + 1
    BY <2>1, MsgFacts DEF Event, Win
  <2>3. batch = <<Event>> \/ batch = <<Win, Event>> \/ batch = <<Win>>
    BY <1>4 DEF Batches, Presence, BoardWin, BareWin
  <2>4. /\ batch \in Seq(DownMsg) /\ Said(batch) # {} /\ Said(batch) \subseteq {Event, Win}
    <3>1. /\ Said(<<Event>>) = {Event} /\ Said(<<Win>>) = {Win}
          /\ Said(<<Win, Event>>) = {Win, Event}
          /\ <<Event>> \in Seq(DownMsg) /\ <<Win>> \in Seq(DownMsg)
          /\ <<Win, Event>> \in Seq(DownMsg)
      BY <2>2, SaidFew, SaidPair
    <3>. QED  BY <2>3, <3>1
  <2>5. \A m \in {Event, Win} : IsNews(m) /\ m.type # "snapshot" /\ m.about = room.version + 1
    BY <2>2 DEF IsNews
  <2>6. IsState(Event)
    BY <2>2 DEF IsState
  <2>7. told' \in {told, Bumped(batch)} /\ told' \in 0 .. Bumped(batch)
    BY <1>1, <1>2, <2>1
  <2>8. told' # told => \E m \in Said(batch) : IsState(m)
    BY <1>2, <2>6
  <2>. QED  BY <2>1, <2>4, <2>5, <2>7, <2>8
<1>. QED  BY <1>3, <1>4

\* What is told, w, has the room's version whenever it is news, an event only for who is joined
\* or heard news before; and whoever is joined hears of a new version, and of a new state.
Reports(w) ==
  /\ room'.version \in {room.version, room.version + 1} /\ told' \in {told, room'.version}
  /\ \A m \in Said(w) : IsNews(m) => m.about = room'.version
  /\ \A i \in DOMAIN w : w[i].type = "event" =>
       Joined \/ \E j \in DOMAIN w : j < i /\ IsNews(w[j])
  /\ Joined' => \/ Joined /\ room'.version = room.version
                \/ \E m \in Said(w) : IsNews(m)
  /\ Joined' => \/ Joined /\ told' = told
                \/ \E m \in Said(w) : IsState(m)

\* So the news stays in order, and complete for who is joined.
LEMMA NewsKept ==
  ASSUME Types, Past, News, Types', Past', UNCHANGED phone, NEW w \in Seq(DownMsg),
         down' = down \o w, Reports(w)
  PROVE  News'
<1>1. /\ down \in Seq(DownMsg) /\ room.version \in Int /\ room'.version \in Int
      /\ phone.version \in Int /\ phone.version <= room.version /\ room.version <= room'.version
      /\ told \in Int /\ told' \in Int /\ told' <= room'.version
      /\ Said(down') = Said(down) \cup Said(w) /\ phone.shown \in Int
  <2>1. room.version \in Int /\ phone.version \in Int /\ phone.shown \in Int
    BY StateFacts
  <2>. QED  BY <2>1, SaidConcat DEF Types, Past, Reports, Game
<1>2. /\ Ordered(down, phone.version, room.version) /\ Chained(down, phone.version)
      /\ Joined => Heard /\ Shows
  BY DEF News
<1>3. ASSUME NEW i \in DOMAIN w, IsNews(w[i]) PROVE w[i].about = room'.version
  BY <1>3 DEF Reports, Said
<1>4. ASSUME NEW i \in DOMAIN w, w[i].type = "event"
      PROVE  \/ room'.version <= phone.version + 1
             \/ (\E j \in DOMAIN down : IsNews(down[j]) /\ room'.version <= down[j].about + 1)
             \/ \E j \in DOMAIN w : j < i /\ IsNews(w[j])
  <2>1. CASE Joined
    <3>1. CASE phone.version = room.version
      BY <1>1, <3>1 DEF Reports
    <3>2. CASE \E m \in Said(down) : IsNews(m) /\ m.about = room.version
      <4>1. PICK j \in DOMAIN down : IsNews(down[j]) /\ down[j].about = room.version
        BY <3>2 DEF Said
      <4>2. room'.version <= down[j].about + 1
        BY <1>1, <4>1 DEF Reports
      <4>. QED  BY <4>1, <4>2
    <3>. QED  BY <1>2, <2>1, <3>1, <3>2 DEF Heard
  <2>2. CASE ~Joined
    BY <1>4, <2>2 DEF Reports
  <2>. QED  BY <2>1, <2>2
<1>5. Ordered(down', phone.version, room'.version) /\ Chained(down', phone.version)
  BY <1>1, <1>2, <1>3, <1>4, NewsBehind
<1>6. Joined' => Heard'
  <2>1. CASE \E m \in Said(w) : IsNews(m)
    BY <1>1, <2>1 DEF Heard, Reports
  <2>2. CASE Joined /\ room'.version = room.version
    BY <1>1, <1>2, <2>2 DEF Heard
  <2>. QED  BY <2>1, <2>2 DEF Reports
<1>7. Joined' => Shows'
  <2>1. CASE \E m \in Said(w) : IsState(m)
    <3>1. PICK m \in Said(w) : IsState(m)
      BY <2>1
    <3>2. m.about = room'.version
      BY <3>1 DEF IsNews, IsState, Reports
    <3>. QED  BY <1>1, <3>1, <3>2 DEF Shows
  <2>2. CASE Joined /\ told' = told
    BY <1>1, <1>2, <2>2 DEF Shows
  <2>. QED  BY <2>1, <2>2 DEF Reports
<1>. QED  BY <1>5, <1>6, <1>7 DEF News

-----------------------------------------------------------------------------
(* What the phone hears of the room.                                           *)

\* The room forgets the connections C, and the phone hears w: no welcome, no news but what
\* Reports says, and neither a token refused nor a seat kicked that it could go on to hold.
LetsGo(C, w) ==
  /\ C \subseteq Conn /\ (\A c \in C : served[c] # None)
  /\ served' = [c \in Conn |-> IF c \in C THEN None ELSE served[c]]
  /\ w \in Seq(DownMsg) /\ down' = down \o w
  /\ w # <<>> => phone.conn \in Conn /\ served[phone.conn] # None
  /\ up' \in [Conn -> Seq(UpMsg)]
  /\ \A c \in Conn \ C :
       \/ up'[c] = up[c]
       \/ served[c] # None /\ (c = phone.conn /\ served[c] = Unjoined => phone.token = None)
  /\ room' \in Game /\ room'.seats \subseteq room.seats /\ room'.minted = room.minted
  /\ told' \in 0 .. room'.version /\ Reports(w)
  /\ UNCHANGED <<phone, stash, dials>>
  /\ \A m \in Said(w) : m.type # "welcome"
  /\ Msg("refused", "bad-session-token") \in Said(w) =>
       phone.conn \in C /\ Welcomes(down) = {} /\ phone.token \notin room'.seats
  /\ Msg("room-closed", "kicked") \in Said(w) =>
       /\ phone.conn \in C /\ phone.token \notin room'.seats
       /\ \A m \in Welcomes(down) : m.about \notin room'.seats

\* Letting go of connections keeps the invariant.
LEMMA Detached ==
  ASSUME IInv, NEW C, NEW w, LetsGo(C, w)
  PROVE  IInv'
<1>. USE DEF LetsGo
<1>1. Types /\ Past /\ Silent /\ OneWelcome /\ TokenGone /\ News
  BY DEF IInv
<1>2. down' \in Seq(DownMsg) /\ Said(down') = Said(down) \cup Said(w)
  <2>1. down \in Seq(DownMsg)
    BY <1>1 DEF Types
  <2>. QED  BY <2>1, SaidConcat
<1>3. Welcomes(down') = Welcomes(down)
  BY <1>2 DEF Welcomes
<1>4. \A c \in Conn : served'[c] = IF c \in C THEN None ELSE served[c]
  OBVIOUS
<1>5. phone.conn = None \/ phone.conn \in Conn
  BY <1>1, StateFacts
<1>6. Types'
  <2>1. served' \in [Conn -> Seat \cup {Unjoined, None}]
    BY <1>1 DEF Types
  <2>2. told' \in 0 .. BatchBound
    BY NumberFacts DEF Game
  <2>. QED  BY <1>1, <1>2, <2>1, <2>2 DEF Types
<1>7. Past'
  <2>1. room'.seats \subseteq 1 .. room'.minted
    BY <1>1 DEF Past
  <2>2. phone'.version <= room'.version /\ told' <= room'.version
    <3>1. phone.version \in Int /\ room.version \in Int /\ room'.version \in Int
      BY <1>1, StateFacts DEF Game
    <3>. QED  BY <1>1, <3>1 DEF Past, Reports
  <2>. QED  BY <1>1, <1>3, <2>1, <2>2 DEF Past
<1>8. Silent'
  <2>1. ASSUME NEW c \in Conn, c > dials' PROVE served'[c] = None /\ up'[c] = <<>>
    <3>1. served[c] = None /\ up[c] = <<>> /\ c \notin C
      BY <1>1, <2>1 DEF Silent
    <3>. QED  BY <1>4, <3>1
  <2>2. ASSUME phone.conn # None, ~phone.open
        PROVE  served'[phone.conn] = None /\ up'[phone.conn] = <<>> /\ down' = <<>>
    <3>1. phone.conn \in Conn /\ served[phone.conn] = None /\ up[phone.conn] = <<>> /\ down = <<>>
      BY <1>1, <1>5, <2>2 DEF Silent
    <3>2. w = <<>> /\ phone.conn \notin C
      BY <3>1
    <3>3. up'[phone.conn] = up[phone.conn]
      BY <3>1, <3>2
    <3>4. down' = <<>>
      BY <3>1, <3>2
    <3>. QED  BY <1>4, <3>1, <3>2, <3>3, <3>4
  <2>. QED  BY <1>1, <2>1, <2>2 DEF Silent
<1>9. OneWelcome'
  <2>1. CASE phone.conn = None
    BY <2>1 DEF OneWelcome
  <2>2. CASE phone.conn \in C
    <3>1. served'[phone.conn] = None /\ phone.conn \in Conn
      BY <1>4, <2>2
    <3>. QED  BY <1>1, <1>3, <3>1, NumberFacts DEF OneWelcome, Attached
  <2>3. CASE phone.conn \in Conn \ C
    <3>1. /\ served'[phone.conn] = served[phone.conn]
          /\ up'[phone.conn] = up[phone.conn]
               \/ (served[phone.conn] = Unjoined => phone.token = None)
      BY <1>4, <2>3
    <3>. QED  BY <1>1, <1>3, <3>1, <2>3, NumberFacts DEF OneWelcome, Attached
  <2>. QED  BY <1>5, <2>1, <2>2, <2>3
<1>10. TokenGone'
  <2>1. SUFFICES ASSUME phone.conn # None PROVE TokenGone'
    BY DEF TokenGone
  <2>2. served[phone.conn] = None => served'[phone.conn] = None
    BY <1>4, <1>5, <2>1
  <2>3. phone.conn \in C => served'[phone.conn] = None
    BY <1>4
  <2>5. Msg("refused", "bad-session-token") \in Said(down') =>
          served'[phone.conn] = None /\ Welcomes(down) = {} /\ phone.token \notin room'.seats
    BY <1>1, <1>2, <2>1, <2>2, <2>3 DEF TokenGone
  <2>6. Msg("room-closed", "kicked") \in Said(down') =>
          /\ served'[phone.conn] = None /\ phone.token \notin room'.seats
          /\ \A m \in Welcomes(down) : m.about \notin room'.seats
    BY <1>1, <1>2, <2>1, <2>2, <2>3 DEF TokenGone
  <2>. QED  BY <1>3, <2>5, <2>6 DEF TokenGone
<1>11. News'
  BY <1>1, <1>6, <1>7, NewsKept
<1>. QED  BY <1>6, <1>7, <1>8, <1>9, <1>10, <1>11 DEF IInv

\* A batch that is told as it is, among words that are no news, is reported.
LEMMA BatchReported ==
  ASSUME Types, Past, NEW batch \in Batches, Carries(batch), room'.version = Bumped(batch),
         NEW w \in Seq(DownMsg), \A m \in Said(w) : IsNews(m) => m \in Said(batch),
         Joined \/ \A m \in Said(w) : m.type # "event",
         Joined' => Joined /\ Said(batch) \subseteq Said(w)
  PROVE  Reports(w)
<1>1. /\ Bumped(batch) \in {room.version, room.version + 1} /\ told' \in {told, Bumped(batch)}
      /\ \A m \in Said(batch) : IsNews(m) /\ m.about = Bumped(batch)
      /\ Bumped(batch) # room.version => \E m \in Said(batch) : IsNews(m)
      /\ told' # told => \E m \in Said(batch) : IsState(m)
  BY BatchFacts
<1>2. \A i \in DOMAIN w : w[i].type = "event" => Joined
  BY DEF Said
<1>. QED  BY <1>1, <1>2 DEF Reports

\* And so is nothing new.
LEMMA NothingReported ==
  ASSUME Types, UNCHANGED told, room'.version = room.version, NEW w \in Seq(DownMsg),
         \A m \in Said(w) : m.type # "event" /\ (IsNews(m) => m.about = room.version),
         Joined' => Joined
  PROVE  Reports(w)
<1>1. \A i \in DOMAIN w : w[i].type # "event"
  BY DEF Said
<1>. QED  BY <1>1 DEF Reports

-----------------------------------------------------------------------------
(* A message that the room handles.                                            *)

\* A message handled is gone from its connection alone.
LEMMA ConsumedFacts ==
  ASSUME Types, NEW c \in Conn, up[c] # <<>>, Consumed(c)
  PROVE  /\ up' \in [Conn -> Seq(UpMsg)] /\ \A d \in Conn \ {c} : up'[d] = up[d]
         /\ Head(up[c]) \in UpMsg
<1>1. up \in [Conn -> Seq(UpMsg)] /\ up[c] \in Seq(UpMsg)
  BY DEF Types
<1>2. Head(up[c]) \in UpMsg /\ Tail(up[c]) \in Seq(UpMsg)
  BY <1>1, SaidTail
<1>. QED  BY <1>1, <1>2 DEF Consumed

\* What the room hears first from a phone that holds a token is that token.
LEMMA TokenFirst ==
  ASSUME IInv, NEW c \in Conn, c = phone.conn, served[c] = Unjoined, phone.token # None
  PROVE  Head(up[c]).type = "resume" /\ Head(up[c]).about = phone.token
<1>1. Silent /\ OneWelcome /\ Types
  BY DEF IInv
<1>2. phone.conn # None /\ phone.open
  BY <1>1, StateFacts, NumberFacts DEF Silent
<1>3. Head(up[c]) = Msg("resume", phone.token)
  BY <1>1, <1>2 DEF OneWelcome
<1>. QED  BY <1>3, MsgFacts

\* An answer seats nobody and takes no seat: an error, a snapshot, or a join refused for now.
LEMMA Answered ==
  ASSUME IInv, NEW c \in Conn, served[c] # None, up[c] # <<>>, Consumed(c),
         NEW m \in DownMsg, Answers(c, m),
         \/ m.type = "error" \/ m = Snapshot(room.version) \/ m = Msg("refused", "team-locked"),
         c = phone.conn /\ served[c] = Unjoined => phone.token = None,
         UNCHANGED <<phone, stash, dials>>
  PROVE  IInv'
<1>. DEFINE w == Ear({c}, <<m>>, <<>>)
<1>1. Types /\ Past
  BY DEF IInv
<1>2. <<m>> \in Seq(DownMsg) /\ <<>> \in Seq(DownMsg) /\ Said(<<m>>) = {m} /\ Said(<<>>) = {}
  BY SaidFew
<1>3. w \in Seq(DownMsg) /\ down' = down \o w /\ UNCHANGED <<served, room, told>>
  BY <1>1, <1>2, TellsSaid DEF Answers
<1>4. /\ Said(w) \subseteq {m} /\ (w # <<>> => phone.conn = c)
  BY <1>2 DEF Ear
<1>. HIDE DEF w
<1>5. /\ m.type # "welcome" /\ m.type # "event" /\ (IsNews(m) => m.about = room.version)
      /\ m # Msg("refused", "bad-session-token") /\ m # Msg("room-closed", "kicked")
  BY MsgFacts DEF Snapshot, IsNews
<1>6. Reports(w)
  <2>1. Joined' => Joined
    BY <1>3 DEF Joined, Attached
  <2>. QED  BY <1>1, <1>3, <1>4, <1>5, <2>1, NothingReported
<1>7. up' \in [Conn -> Seq(UpMsg)] /\ \A d \in Conn \ {c} : up'[d] = up[d]
  BY <1>1, ConsumedFacts
<1>8. room' \in Game /\ told' \in 0 .. room'.version /\ served' = [d \in Conn |-> served[d]]
  BY <1>1, <1>3, StateFacts DEF Types, Past
<1>9. LetsGo({}, w)
  BY <1>3, <1>4, <1>5, <1>6, <1>7, <1>8 DEF LetsGo
<1>. QED  BY <1>9, Detached

\* A seat is given on a connection that had none: the one its phone holds the token of.
LEMMA SeatGiven ==
  ASSUME IInv, NEW c \in Conn, served[c] = Unjoined, up[c] # <<>>, Consumed(c),
         NEW seat \in Seat, NEW batch \in Presence, Seats(c, seat, batch), room' \in Game,
         room'.seats \subseteq 1 .. room'.minted, seat <= room'.minted,
         room'.minted >= room.minted, room'.version = Bumped(batch),
         \A s \in room'.seats : s \in room.seats \/ s > room.minted,
         c = phone.conn /\ phone.token # None => seat = phone.token,
         UNCHANGED <<phone, stash, dials>>
  PROVE  IInv'
<1>. DEFINE v == Bumped(batch)
            greet == Welcome(seat, v)
            w == Ear({c}, greet \o batch, batch)
<1>1. Types /\ Past /\ Silent /\ OneWelcome /\ TokenGone /\ News
  BY DEF IInv
<1>2. Carries(batch) /\ Tells({c}, greet \o batch, batch) /\ served' = [served EXCEPT ![c] = seat]
  BY DEF Seats
<1>3. /\ batch \in Batches /\ batch \in Seq(DownMsg) /\ v \in {room.version, room.version + 1}
      /\ v \in 0 .. BatchBound /\ told' \in 0 .. v /\ told' \in {told, v}
      /\ \A m \in Said(batch) : IsNews(m) /\ m.type # "snapshot" /\ m.about = v
  <2>1. batch \in Batches
    BY DEF Batches
  <2>. QED  BY <1>1, <1>2, <2>1, BatchFacts
<1>4. /\ greet \in Seq(DownMsg) /\ Said(greet) = {Msg("welcome", seat), Snapshot(v)}
      /\ Len(greet) = 2 /\ greet[1] = Msg("welcome", seat) /\ greet[2] = Snapshot(v)
  <2>1. Msg("welcome", seat) \in DownMsg /\ Snapshot(v) \in DownMsg
    BY <1>3, MsgFacts DEF Snapshot
  <2>. QED  BY <2>1, SaidPair DEF Welcome
<1>5. /\ Msg("welcome", seat).type = "welcome" /\ Snapshot(v).type = "snapshot"
      /\ Snapshot(v).about = v /\ IsNews(Snapshot(v)) /\ IsState(Snapshot(v))
  BY MsgFacts DEF Snapshot, IsNews, IsState
<1>6. \A m \in Said(batch) : m.type \in {"event", "buzz-won"}
  BY <1>3 DEF IsNews
<1>. HIDE DEF greet, v
<1>7. greet \o batch \in Seq(DownMsg) /\ Said(greet \o batch) = Said(greet) \cup Said(batch)
  BY <1>3, <1>4, SaidConcat
<1>8. w \in Seq(DownMsg) /\ down' = down \o w
  BY <1>1, <1>2, <1>3, <1>7, TellsSaid
<1>9. /\ c = phone.conn => w = greet \o batch
      /\ c # phone.conn => w = IF Joined THEN batch ELSE <<>>
  BY DEF Ear
<1>. HIDE DEF w
<1>10. down' \in Seq(DownMsg) /\ Said(down') = Said(down) \cup Said(w) /\ Said(<<>>) = {}
  <2>1. down \in Seq(DownMsg)
    BY <1>1 DEF Types
  <2>2. Said(<<>>) = {}
    BY DEF Said
  <2>. QED  BY <1>8, <2>1, <2>2, SaidConcat
<1>11. served'[c] = seat /\ \A d \in Conn \ {c} : served'[d] = served[d]
  BY <1>1, <1>2 DEF Types
<1>12. up' \in [Conn -> Seq(UpMsg)] /\ \A d \in Conn \ {c} : up'[d] = up[d]
  BY <1>1, ConsumedFacts
<1>13. /\ c # phone.conn => Welcomes(down') = Welcomes(down)
       /\ c = phone.conn => Welcomes(down') = {Msg("welcome", seat)}
  <2>1. c = phone.conn => Welcomes(down) = {}
    BY <1>1, NumberFacts DEF OneWelcome
  <2>. QED  BY <1>4, <1>5, <1>6, <1>7, <1>9, <1>10, <2>1 DEF Welcomes
<1>14. Types'
  <2>1. told' \in 0 .. BatchBound
    BY <1>3, NumberFacts
  <2>. QED  BY <1>1, <1>2, <1>10, <1>12, <2>1 DEF Types
<1>15. Past'
  <2>0. /\ room.minted \in Nat /\ room'.minted \in Nat /\ phone.version \in Int
        /\ room.version \in Int
    BY <1>1, StateFacts, NumberFacts DEF Game
  <2>1. phone.token # None => phone.token <= room'.minted
    <3>1. phone.token # None => phone.token \in Nat /\ phone.token <= room.minted
      BY <1>1, StateFacts, NumberFacts DEF Past
    <3>. QED  BY <2>0, <3>1
  <2>2. \A m \in Welcomes(down') : m.about <= room'.minted
    <3>1. CASE c = phone.conn
      BY <1>13, <3>1, MsgFacts
    <3>2. CASE c # phone.conn
      <4>1. \A m \in Welcomes(down) : m.about \in Seat /\ m.about <= room.minted
        BY <1>1, DownFacts, StateFacts DEF Past, Welcomes
      <4>2. \A m \in Welcomes(down) : m.about \in Nat
        BY <4>1, NumberFacts
      <4>. QED  BY <1>13, <2>0, <3>2, <4>1, <4>2
    <3>. QED  BY <3>1, <3>2
  <2>3. phone'.version <= room'.version /\ told' <= room'.version
    BY <1>1, <1>3, <2>0 DEF Past, v
  <2>. QED  BY <1>1, <2>1, <2>2, <2>3 DEF Past
<1>16. Silent'
  <2>1. c <= dials /\ (c = phone.conn => phone.open)
    BY <1>1, NumberFacts DEF Silent, Types
  <2>2. \A d \in Conn : d > dials => served'[d] = None /\ up'[d] = <<>>
    BY <1>1, <1>11, <1>12, <2>1, NumberFacts DEF Silent, Types
  <2>3. ASSUME phone.conn # None, ~phone.open
        PROVE  served'[phone.conn] = None /\ up'[phone.conn] = <<>> /\ down' = <<>>
    <3>1. /\ phone.conn \in Conn /\ phone.conn # c /\ served[phone.conn] = None
          /\ up[phone.conn] = <<>> /\ down = <<>>
      BY <1>1, <2>1, <2>3, StateFacts DEF Silent
    <3>2. ~Joined
      BY <3>1, NumberFacts DEF Joined, Attached
    <3>3. w = <<>>
      BY <1>9, <3>1, <3>2
    <3>4. down' = <<>>
      BY <1>8, <3>1, <3>3
    <3>. QED  BY <1>11, <1>12, <3>1, <3>4
  <2>. QED  BY <1>1, <2>2, <2>3 DEF Silent
<1>17. OneWelcome'
  <2>1. CASE c = phone.conn
    BY <1>11, <1>13, <2>1, MsgFacts, NumberFacts DEF OneWelcome, Attached
  <2>2. CASE phone.conn # None /\ c # phone.conn
    <3>1. up'[phone.conn] = up[phone.conn] /\ served'[phone.conn] = served[phone.conn]
      BY <1>1, <1>11, <1>12, <2>2, StateFacts
    <3>. QED  BY <1>1, <1>13, <2>2, <3>1 DEF OneWelcome, Attached
  <2>. QED  BY <2>1, <2>2 DEF OneWelcome
<1>18. TokenGone'
  <2>0. /\ Msg("refused", "bad-session-token") \notin Said(w)
        /\ Msg("room-closed", "kicked") \notin Said(w)
    <3>1. \A m \in Said(w) : m.type \in {"welcome", "snapshot", "event", "buzz-won"}
      BY <1>4, <1>5, <1>6, <1>7, <1>9, <1>10
    <3>. QED  BY <3>1, MsgFacts
  <2>1. CASE c = phone.conn
    <3>1. /\ Msg("refused", "bad-session-token") \notin Said(down)
          /\ Msg("room-closed", "kicked") \notin Said(down)
      BY <1>1, <2>1, NumberFacts DEF TokenGone
    <3>. QED  BY <1>10, <2>0, <2>1, <3>1 DEF TokenGone
  <2>2. CASE phone.conn # None /\ c # phone.conn
    <3>1. served'[phone.conn] = served[phone.conn]
      BY <1>1, <1>11, <2>2, StateFacts
    <3>2. phone.token \notin room.seats => phone.token \notin room'.seats
      <4>1. /\ phone.token = None \/ (phone.token \in Nat /\ phone.token <= room.minted)
            /\ room.minted \in Nat /\ None \notin room'.seats
        <5>1. phone.token \in Seat \cup {None} /\ room.minted \in Nat
          BY <1>1, StateFacts
        <5>2. room'.seats \subseteq Nat
          BY DEF Game, Seat
        <5>. QED  BY <1>1, <5>1, <5>2, NumberFacts DEF Past
      <4>. QED  BY <4>1
    <3>3. \A m \in Welcomes(down) : m.about \notin room.seats => m.about \notin room'.seats
      <4>1. \A m \in Welcomes(down) : m.about \in Seat /\ m.about <= room.minted
        BY <1>1, DownFacts, StateFacts DEF Past, Welcomes
      <4>. QED  BY <1>1, <4>1, StateFacts, NumberFacts
    <3>. QED  BY <1>1, <1>10, <1>13, <2>0, <2>2, <3>1, <3>2, <3>3 DEF TokenGone
  <2>. QED  BY <2>1, <2>2 DEF TokenGone
<1>19. Reports(w)
  <2>1. CASE c = phone.conn
    <3>1. Said(w) = {Msg("welcome", seat), Snapshot(v)} \cup Said(batch)
      BY <1>4, <1>7, <1>9, <2>1
    <3>2. Snapshot(v) \in Said(w) /\ \A m \in Said(w) : IsNews(m) => m.about = v
      BY <1>3, <1>5, <3>1 DEF IsNews
    <3>3. ASSUME NEW i \in DOMAIN w, w[i].type = "event"
          PROVE  \E j \in DOMAIN w : j < i /\ IsNews(w[j])
      <4>1. /\ w[1] = greet[1] /\ w[2] = greet[2] /\ {1, 2} \subseteq DOMAIN w
            /\ DOMAIN w \subseteq Nat \ {0}
        <5>0. greet \in Seq(DownMsg) /\ batch \in Seq(DownMsg)
          BY <1>3, <1>4
        <5>1. /\ \A k \in DOMAIN greet : (greet \o batch)[k] = greet[k]
              /\ DOMAIN (greet \o batch) = 1 .. (Len(greet) + Len(batch)) /\ Len(batch) \in Nat
              /\ DOMAIN greet = 1 .. Len(greet)
          BY <5>0
        <5>2. 1 \in DOMAIN greet /\ 2 \in DOMAIN greet
          BY <1>4, <5>1
        <5>. QED  BY <1>4, <1>9, <2>1, <5>1, <5>2
      <4>2. i # 1 /\ i # 2
        BY <1>4, <1>5, <3>3, <4>1
      <4>3. 2 < i /\ IsNews(w[2])
        BY <1>4, <1>5, <4>1, <4>2
      <4>. QED  BY <4>1, <4>3
    <3>. QED  BY <1>3, <1>5, <3>2, <3>3 DEF Reports, v
  <2>2. CASE c # phone.conn
    <3>1. Joined' <=> Joined
      BY <1>1, <1>11, <2>2, StateFacts DEF Joined, Attached
    <3>2. Said(w) \subseteq Said(batch) /\ (Joined => w = batch) /\ (~Joined => w = <<>>)
      BY <1>9, <1>10, <2>2
    <3>. QED  BY <1>1, <1>2, <1>3, <1>8, <1>10, <3>1, <3>2, BatchReported DEF v
  <2>. QED  BY <2>1, <2>2
<1>20. News'
  BY <1>1, <1>8, <1>14, <1>15, <1>19, NewsKept
<1>. QED  BY <1>14, <1>15, <1>16, <1>17, <1>18, <1>20 DEF IInv

\* Whoever is turned away is let go, and told no more than that.
LEMMA TurnedAway ==
  ASSUME IInv, NEW c \in Conn, served[c] = Unjoined, up[c] # <<>>, Consumed(c),
         NEW reason \in Reason, NEW code \in Nat, TurnsAway(c, reason, code),
         c = phone.conn /\ reason = "bad-session-token" => phone.token \notin room.seats,
         UNCHANGED <<phone, stash, dials>>
  PROVE  IInv'
<1>. DEFINE w == Ear({c}, Refusal(reason, code), <<>>)
<1>1. Types /\ Past /\ OneWelcome
  BY DEF IInv
<1>2. /\ Refusal(reason, code) \in Seq(DownMsg) /\ <<>> \in Seq(DownMsg) /\ Said(<<>>) = {}
      /\ Said(Refusal(reason, code)) = {Msg("refused", reason), Msg("close", code)}
  <2>1. Msg("refused", reason) \in DownMsg /\ Msg("close", code) \in DownMsg
    BY MsgFacts
  <2>. QED  BY <2>1, SaidPair, SaidFew DEF Refusal
<1>3. w \in Seq(DownMsg) /\ down' = down \o w /\ UNCHANGED <<room, told>>
  BY <1>1, <1>2, TellsSaid DEF TurnsAway
<1>4. /\ Said(w) \subseteq {Msg("refused", reason), Msg("close", code)}
      /\ (Said(w) # {} \/ w # <<>>) => phone.conn = c
  BY <1>2 DEF Ear
<1>. HIDE DEF w
<1>5. \A m \in Said(w) : ~IsNews(m) /\ m.type # "welcome" /\ m.type # "event"
  <2>1. Msg("refused", reason).type = "refused" /\ Msg("close", code).type = "close"
    BY MsgFacts
  <2>. QED  BY <1>4, <2>1 DEF IsNews
<1>6. served' = [d \in Conn |-> IF d \in {c} THEN None ELSE served[d]]
  BY <1>1 DEF TurnsAway, Types
<1>7. Msg("refused", "bad-session-token") \in Said(w) =>
        phone.conn \in {c} /\ Welcomes(down) = {} /\ phone.token \notin room'.seats
  <2>. SUFFICES ASSUME Msg("refused", "bad-session-token") \in Said(w)
                PROVE  phone.conn = c /\ Welcomes(down) = {} /\ phone.token \notin room'.seats
    OBVIOUS
  <2>1. phone.conn = c
    BY <1>4
  <2>2. reason = "bad-session-token"
    BY <1>4, MsgFacts
  <2>3. Welcomes(down) = {}
    BY <1>1, <2>1, NumberFacts DEF OneWelcome
  <2>. QED  BY <1>3, <2>1, <2>2, <2>3
<1>8. Msg("room-closed", "kicked") \notin Said(w)
  BY <1>4, MsgFacts
<1>9. {c} \subseteq Conn /\ served[c] # None
  BY NumberFacts
<1>10. room' = room /\ room \in Game /\ told' \in 0 .. room'.version
  BY <1>1, <1>3, StateFacts DEF Types, Past
<1>11. up' \in [Conn -> Seq(UpMsg)] /\ \A d \in Conn \ {c} : up'[d] = up[d]
  BY <1>1, ConsumedFacts
<1>12. Reports(w)
  <2>1. Joined' => Joined
    BY <1>1, <1>6, StateFacts, NumberFacts DEF Joined, Attached
  <2>. QED  BY <1>1, <1>3, <1>5, <1>10, <2>1, NothingReported
<1>13. LetsGo({c}, w)
  BY <1>3, <1>4, <1>5, <1>6, <1>7, <1>8, <1>9, <1>10, <1>11, <1>12 DEF LetsGo
<1>. QED  BY <1>13, Detached

\* Whoever leaves hears of it and is let go, and the seat is removed.
LEMMA LetLeave ==
  ASSUME IInv, NEW c \in Conn, Attached(c), up[c] # <<>>, Consumed(c), HandleLeave(c),
         UNCHANGED <<phone, stash, dials>>
  PROVE  IInv'
<1>1. Types /\ Past
  BY DEF IInv
<1>2. PICK batch \in Presence :
        /\ Carries(batch)
        /\ room' = [room EXCEPT !.seats = @ \ {served[c]}, !.version = Bumped(batch)]
        /\ Tells({c}, batch \o <<Msg("close", 1000)>>, batch)
        /\ served' = [served EXCEPT ![c] = None]
  BY DEF HandleLeave
<1>3. /\ batch \in Batches /\ batch \in Seq(DownMsg) /\ Bumped(batch) \in 0 .. BatchBound
      /\ told' \in 0 .. Bumped(batch)
      /\ \A m \in Said(batch) : IsNews(m) /\ m.type # "snapshot" /\ m.about = Bumped(batch)
  <2>1. batch \in Batches
    BY DEF Batches
  <2>. QED  BY <1>1, <1>2, <2>1, BatchFacts
<1>. DEFINE bye == <<Msg("close", 1000)>>
            all == batch \o bye
            w == Ear({c}, all, batch)
<1>4. Msg("close", 1000) \in DownMsg /\ Msg("close", 1000).type = "close"
  BY MsgFacts
<1>5. all \in Seq(DownMsg) /\ Said(all) = Said(batch) \cup {Msg("close", 1000)}
  <2>1. bye \in Seq(DownMsg) /\ Said(bye) = {Msg("close", 1000)}
    BY <1>4, SaidFew
  <2>. HIDE DEF bye
  <2>. QED  BY <1>3, <2>1, SaidConcat
<1>6. w \in Seq(DownMsg) /\ down' = down \o w
  <2>1. Tells({c}, all, batch)
    BY <1>2
  <2>. HIDE DEF all
  <2>. QED  BY <1>1, <1>3, <1>5, <2>1, TellsSaid
<1>. HIDE DEF all
<1>7. /\ Said(w) \subseteq Said(batch) \cup {Msg("close", 1000)}
      /\ (w # <<>> \/ Said(w) # {}) => phone.conn = c \/ Joined
      /\ phone.conn = c \/ Joined => Said(batch) \subseteq Said(w)
  <2>1. Said(<<>>) = {}
    BY DEF Said
  <2>. QED  BY <1>5, <2>1 DEF Ear
<1>. HIDE DEF w
<1>8. phone.conn = c => Joined
  BY NumberFacts DEF Joined
<1>9. served' = [d \in Conn |-> IF d \in {c} THEN None ELSE served[d]]
  BY <1>1, <1>2 DEF Types
<1>10. /\ room' \in Game /\ room'.seats \subseteq room.seats /\ room'.minted = room.minted
       /\ room'.version = Bumped(batch)
  <2>1. room \in Game
    BY <1>1 DEF Types
  <2>. QED  BY <1>2, <1>3, <2>1 DEF Game
<1>11. up' \in [Conn -> Seq(UpMsg)] /\ \A d \in Conn \ {c} : up'[d] = up[d]
  BY <1>1, ConsumedFacts
<1>12. {c} \subseteq Conn /\ served[c] # None
  BY NumberFacts DEF Attached
<1>13. \A m \in Said(w) : m.type \in {"event", "buzz-won", "close"}
  BY <1>3, <1>4, <1>7 DEF IsNews
<1>14. /\ Msg("refused", "bad-session-token") \notin Said(w)
       /\ Msg("room-closed", "kicked") \notin Said(w)
  BY <1>13, MsgFacts
<1>15. Reports(w)
  <2>1. Joined' => Joined
    BY <1>9, <1>1, StateFacts, NumberFacts DEF Joined, Attached
  <2>2. \A m \in Said(w) : IsNews(m) => m \in Said(batch)
    BY <1>4, <1>7 DEF IsNews
  <2>3. Joined \/ \A m \in Said(w) : m.type # "event"
    BY <1>7, <1>8
  <2>. QED  BY <1>1, <1>2, <1>3, <1>6, <1>7, <1>10, <2>1, <2>2, <2>3, BatchReported
<1>16. w # <<>> => phone.conn \in Conn /\ served[phone.conn] # None
  BY <1>1, <1>7, <1>8, StateFacts, NumberFacts DEF Joined, Attached
<1>17. \A m \in Said(w) : m.type # "welcome"
  BY <1>13
<1>18. told' \in 0 .. room'.version
  BY <1>3, <1>10
<1>19. LetsGo({c}, w)
  BY <1>6, <1>9, <1>10, <1>11, <1>12, <1>14, <1>15, <1>16, <1>17, <1>18 DEF LetsGo
<1>. QED  BY <1>19, Detached

\* Every message that the room handles.
LEMMA HandleKeeps ==
  ASSUME IInv, NEW c \in Conn, Handle(c)
  PROVE  IInv'
<1>. DEFINE m == Head(up[c])
<1>1. Types /\ Past
  BY DEF IInv
<1>2. served[c] # None /\ up[c] # <<>> /\ Consumed(c) /\ UNCHANGED <<phone, stash, dials>>
  BY DEF Handle
<1>3. served[c] = Unjoined \/ Attached(c)
  BY <1>1, <1>2, StateFacts DEF Attached
<1>4. Attached(c) => served[c] # Unjoined
  BY NumberFacts DEF Attached
<1>5. c = phone.conn /\ served[c] = Unjoined /\ phone.token # None =>
        m.type = "resume" /\ m.about = phone.token
  BY TokenFirst
<1>6. \A r \in Fault : Msg("error", r) \in DownMsg /\ Msg("error", r).type = "error"
  BY MsgFacts
<1>7. "already joined" \in Fault /\ "not-joined" \in Fault /\ "rejected" \in Fault
  BY DEF Fault
<1>8. room \in Game /\ room.seats \subseteq 1 .. room.minted /\ room.minted \in 0 .. SeatBound
  BY <1>1, StateFacts DEF Types, Past
<1>9. CASE m.type = "join" /\ HandleJoin(c)
  <2>1. CASE Attached(c)
    BY <1>2, <1>4, <1>6, <1>7, <1>9, <2>1, Answered DEF HandleJoin
  <2>2. CASE ~Attached(c) /\ TurnsAway(c, "room-full", 4409)
    BY <1>2, <1>3, <1>9, <2>2, TurnedAway DEF Reason
  <2>3. CASE ~Attached(c) /\ TurnsAway(c, "late-join-disabled", 4403)
    BY <1>2, <1>3, <1>9, <2>3, TurnedAway DEF Reason
  <2>4. CASE ~Attached(c) /\ \/ Answers(c, Msg("refused", "team-locked"))
                             \/ Answers(c, Msg("error", "rejected"))
    <3>1. c = phone.conn /\ served[c] = Unjoined => phone.token = None
      BY <1>5, <1>9
    <3>2. Msg("refused", "team-locked") \in DownMsg
      BY MsgFacts DEF Reason
    <3>. HIDE DEF m
    <3>. QED  BY <1>2, <1>6, <1>7, <2>4, <3>1, <3>2, Answered
  <2>5. CASE ~Attached(c) /\ \E batch \in Presence : Mints(c, batch)
    <3>0. PICK batch \in Presence :
            /\ room.minted < SeatBound
            /\ Seats(c, room.minted + 1, batch)
            /\ room' = [room EXCEPT !.minted = @ + 1, !.seats = @ \cup {room.minted + 1},
                                     !.version = Bumped(batch)]
      BY <2>5 DEF Mints
    <3>1. /\ room.minted + 1 \in Seat /\ room.minted + 1 \in 0 .. SeatBound
          /\ Bumped(batch) \in 0 .. BatchBound
      <4>1. Carries(batch) /\ batch \in Batches
        BY <3>0 DEF Seats, Batches
      <4>. QED  BY <1>1, <1>8, <3>0, <4>1, BatchFacts, NumberFacts DEF Seat
    <3>2. /\ room' \in Game /\ room'.minted = room.minted + 1 /\ room'.version = Bumped(batch)
          /\ room'.seats = room.seats \cup {room.minted + 1}
      BY <1>8, <3>0, <3>1 DEF Game
    <3>3. /\ room'.seats \subseteq 1 .. room'.minted /\ room.minted + 1 <= room'.minted
          /\ room'.minted >= room.minted
          /\ \A s \in room'.seats : s \in room.seats \/ s > room.minted
      BY <1>8, <3>2, NumberFacts
    <3>4. ~ (c = phone.conn /\ phone.token # None)
      BY <1>3, <1>5, <1>9, <2>5
    <3>5. PICK seat \in Seat : seat = room.minted + 1
      BY <3>1
    <3>6. Seats(c, seat, batch) /\ seat <= room'.minted
      BY <3>0, <3>3, <3>5
    <3>7. c = phone.conn /\ phone.token # None => seat = phone.token
      BY <3>4
    <3>8. served[c] = Unjoined
      BY <1>3, <2>5
    <3>. HIDE DEF m
    <3>. QED  BY <1>2, <3>2, <3>3, <3>6, <3>7, <3>8, SeatGiven
  <2>6. CASE ~Attached(c)
    <3>1. \/ TurnsAway(c, "room-full", 4409) \/ TurnsAway(c, "late-join-disabled", 4403)
          \/ Answers(c, Msg("refused", "team-locked")) \/ Answers(c, Msg("error", "rejected"))
          \/ \E batch \in Presence : Mints(c, batch)
      BY <1>9, <2>6 DEF HandleJoin
    <3>. QED  BY <2>2, <2>3, <2>4, <2>5, <2>6, <3>1
  <2>. QED  BY <2>1, <2>6
<1>10. CASE m.type = "resume" /\ HandleResume(c, m.about)
  <2>1. CASE Attached(c)
    BY <1>2, <1>4, <1>6, <1>7, <1>10, <2>1, Answered DEF HandleResume
  <2>2. CASE ~Attached(c) /\ m.about \in room.seats
    <3>1. Seats(c, m.about, <<>>) /\ room' = room /\ <<>> \in Presence
      BY <1>10, <2>2 DEF HandleResume, Presence
    <3>2. /\ m.about \in Seat /\ m.about <= room'.minted /\ room'.minted >= room.minted
          /\ room' \in Game /\ room'.seats \subseteq 1 .. room'.minted
          /\ \A s \in room'.seats : s \in room.seats \/ s > room.minted
      BY <1>1, <1>8, <2>2, <3>1, StateFacts
    <3>3. c = phone.conn /\ phone.token # None => m.about = phone.token
      BY <1>3, <1>5, <2>2
    <3>4. room'.version = Bumped(<<>>)
      BY <3>1 DEF Bumped
    <3>5. served[c] = Unjoined
      BY <1>3, <2>2
    <3>. HIDE DEF m
    <3>. QED  BY <1>2, <3>1, <3>2, <3>3, <3>4, <3>5, SeatGiven
  <2>3. CASE ~Attached(c) /\ m.about \notin room.seats
    <3>1. TurnsAway(c, "bad-session-token", 4401)
      BY <1>10, <2>3 DEF HandleResume
    <3>2. c = phone.conn => phone.token \notin room.seats
      BY <1>1, <1>3, <1>5, <2>3, StateFacts, NumberFacts
    <3>. QED  BY <1>2, <1>3, <2>3, <3>1, <3>2, TurnedAway DEF Reason
  <2>. QED  BY <2>1, <2>2, <2>3
<1>11. CASE m.type = "sync" /\ HandleSync(c)
  <2>1. CASE Attached(c)
    <3>1. Answers(c, Snapshot(room.version)) /\ Snapshot(room.version) \in DownMsg
      BY <1>1, <1>11, <2>1, StateFacts DEF HandleSync
    <3>. QED  BY <1>2, <1>4, <2>1, <3>1, Answered
  <2>2. CASE ~Attached(c)
    <3>1. c = phone.conn /\ served[c] = Unjoined => phone.token = None
      BY <1>5, <1>11
    <3>. QED  BY <1>2, <1>6, <1>7, <1>11, <2>2, <3>1, Answered DEF HandleSync
  <2>. QED  BY <2>1, <2>2
<1>12. CASE m.type = "leave" /\ HandleLeave(c)
  <2>1. CASE ~Attached(c)
    <3>1. c = phone.conn /\ served[c] = Unjoined => phone.token = None
      BY <1>5, <1>12
    <3>. QED  BY <1>2, <1>6, <1>7, <1>12, <2>1, <3>1, Answered DEF HandleLeave
  <2>2. CASE Attached(c)
    BY <1>2, <1>12, <2>2, LetLeave
  <2>. QED  BY <2>1, <2>2
<1>13. m.type \in UpType
  BY <1>1, <1>2, ConsumedFacts DEF UpMsg
<1>. QED  BY <1>9, <1>10, <1>11, <1>12, <1>13 DEF Handle, UpType

-----------------------------------------------------------------------------
(* What the room does by itself.                                               *)

\* A connection that the phone lost is let go of in silence.
LEMMA NoticesKeeps ==
  ASSUME IInv, NEW c \in Conn, Notices(c)
  PROVE  IInv'
<1>. DEFINE w == <<>>
<1>1. Types /\ Past
  BY DEF IInv
<1>2. w \in Seq(DownMsg) /\ Said(w) = {} /\ down \in Seq(DownMsg) /\ down \o w = down
  BY <1>1 DEF Said, Types
<1>3. down' = down \o w /\ UNCHANGED <<phone, stash, dials, told, room, up>>
  BY <1>2 DEF Notices
<1>4. served' = [d \in Conn |-> IF d \in {c} THEN None ELSE served[d]]
  BY <1>1 DEF Notices, Types
<1>5. room \in Game /\ up \in [Conn -> Seq(UpMsg)] /\ told \in 0 .. room.version
  BY <1>1, StateFacts DEF Types, Past
<1>6. {c} \subseteq Conn /\ served[c] # None
  BY DEF Notices
<1>7. w = <<>>
  OBVIOUS
<1>. HIDE DEF w
<1>8. Reports(w)
  <2>1. Joined' => Joined
    BY <1>1, <1>3, <1>4, StateFacts, NumberFacts DEF Joined, Attached
  <2>. QED  BY <1>1, <1>2, <1>3, <2>1, NothingReported
<1>9. LetsGo({c}, w)
  BY <1>2, <1>3, <1>4, <1>5, <1>6, <1>7, <1>8 DEF LetsGo
<1>. QED  BY <1>9, Detached

\* Connections closed with a reason, others told of a batch: a kicked seat is one the phone
\* has no other token than.
LEMMA ClosedKeeps ==
  ASSUME IInv, NEW C, C \subseteq Conn, \A c \in C : served[c] # None, NEW reason \in Ending,
         NEW batch \in Batches, Closes(C, reason, batch), room' \in Game,
         room'.seats \subseteq room.seats, room'.minted = room.minted,
         room'.version = Bumped(batch),
         reason = "kicked" =>
           \A c \in C : served[c] \in Seat /\ served[c] \notin room'.seats,
         UNCHANGED <<phone, stash, dials, up>>
  PROVE  IInv'
<1>. DEFINE last == <<Msg("room-closed", reason), Msg("close", 4000)>>
            w == Ear(C, last, batch)
<1>1. Types /\ Past /\ OneWelcome
  BY DEF IInv
<1>2. /\ Carries(batch) /\ Tells(C, last, batch)
      /\ served' = [d \in Conn |-> IF d \in C THEN None ELSE served[d]]
  BY DEF Closes
<1>3. /\ batch \in Seq(DownMsg) /\ told' \in 0 .. Bumped(batch)
      /\ \A m \in Said(batch) : IsNews(m) /\ m.type # "snapshot" /\ m.about = Bumped(batch)
  BY <1>1, <1>2, BatchFacts
<1>4. last \in Seq(DownMsg) /\ Said(last) = {Msg("room-closed", reason), Msg("close", 4000)}
  <2>1. Msg("room-closed", reason) \in DownMsg /\ Msg("close", 4000) \in DownMsg
    BY MsgFacts
  <2>. QED  BY <2>1, SaidPair
<1>5. Msg("room-closed", reason).type = "room-closed" /\ Msg("close", 4000).type = "close"
  BY MsgFacts
<1>. HIDE DEF last
<1>6. w \in Seq(DownMsg) /\ down' = down \o w
  <2>1. Types /\ last \in Seq(DownMsg) /\ batch \in Seq(DownMsg) /\ Tells(C, last, batch)
    BY <1>1, <1>2, <1>3, <1>4
  <2>. QED  BY <2>1, TellsSaid
<1>7. \/ phone.conn \in C /\ w = last
      \/ phone.conn \notin C /\ Joined /\ w = batch
      \/ phone.conn \notin C /\ ~Joined /\ w = <<>>
  BY DEF Ear
<1>. HIDE DEF w
<1>8. \A m \in Said(w) : m.type \in {"event", "buzz-won", "room-closed", "close"}
  <2>1. Said(<<>>) = {}
    BY DEF Said
  <2>2. \A m \in Said(batch) : m.type \in {"event", "buzz-won"}
    BY <1>3 DEF IsNews
  <2>. QED  BY <1>4, <1>5, <1>7, <2>1, <2>2
<1>9. Msg("refused", "bad-session-token") \notin Said(w)
  BY <1>8, MsgFacts
<1>10. Msg("room-closed", "kicked") \in Said(w) =>
         /\ phone.conn \in C /\ phone.token \notin room'.seats
         /\ \A m \in Welcomes(down) : m.about \notin room'.seats
  <2>. SUFFICES ASSUME Msg("room-closed", "kicked") \in Said(w)
                PROVE  /\ phone.conn \in C /\ phone.token \notin room'.seats
                       /\ \A m \in Welcomes(down) : m.about \notin room'.seats
    OBVIOUS
  <2>1. phone.conn \in C /\ w = last
    <3>1. Msg("room-closed", "kicked") \notin Said(batch) /\ Said(<<>>) = {}
      BY <1>3, MsgFacts DEF IsNews, Said
    <3>. QED  BY <1>7, <3>1
  <2>2. reason = "kicked"
    BY <1>4, <2>1, MsgFacts
  <2>3. Attached(phone.conn) /\ served[phone.conn] \notin room'.seats /\ phone.conn # None
    BY <2>1, <2>2, NumberFacts DEF Attached
  <2>4. \A m \in Welcomes(down) : m.about = served[phone.conn]
    BY <1>1, <2>3 DEF OneWelcome
  <2>5. phone.token # None => phone.token = served[phone.conn]
    BY <1>1, <2>3, <2>4 DEF OneWelcome
  <2>6. None \notin room'.seats
    BY <1>1, StateFacts, NumberFacts
  <2>. QED  BY <2>1, <2>3, <2>4, <2>5, <2>6
<1>11. Joined' => Joined /\ phone.conn \notin C
  BY <1>1, <1>2, StateFacts, NumberFacts DEF Joined, Attached
<1>12. Reports(w)
  <2>0. Said(<<>>) = {}
    BY DEF Said
  <2>1. \A m \in Said(w) : IsNews(m) => m \in Said(batch)
    BY <1>4, <1>5, <1>7, <2>0 DEF IsNews
  <2>2. Joined \/ \A m \in Said(w) : m.type # "event"
    BY <1>4, <1>5, <1>7, <2>0
  <2>3. Joined' => Joined /\ Said(batch) \subseteq Said(w)
    BY <1>7, <1>11
  <2>. QED  BY <1>1, <1>2, <1>6, <2>1, <2>2, <2>3, BatchReported
<1>13. w # <<>> => phone.conn \in Conn /\ served[phone.conn] # None
  BY <1>1, <1>7, StateFacts, NumberFacts DEF Joined, Attached
<1>14. told' \in 0 .. room'.version /\ up' \in [Conn -> Seq(UpMsg)] /\ up' = up
  BY <1>1, <1>3 DEF Types
<1>15. \A m \in Said(w) : m.type # "welcome"
  BY <1>8
<1>16. LetsGo(C, w)
  BY <1>2, <1>6, <1>9, <1>10, <1>12, <1>13, <1>14, <1>15 DEF LetsGo
<1>. QED  BY <1>16, Detached

\* A kick lets go of whatever connections the seat has, and removes it
\* (handleKickPlayer).
LEMMA KickKeeps ==
  ASSUME IInv, NEW seat \in Seat, HandleKickPlayer(seat)
  PROVE  IInv'
<1>. DEFINE C == {c \in Conn : served[c] = seat}
<1>1. Types /\ Past
  BY DEF IInv
<1>2. C \subseteq Conn /\ \A c \in C : served[c] # None /\ served[c] = seat
  BY NumberFacts
<1>3. PICK batch \in Presence :
        /\ Closes(C, "kicked", batch)
        /\ room' = [room EXCEPT !.seats = @ \ {seat}, !.version = Bumped(batch)]
  BY DEF HandleKickPlayer
<1>. HIDE DEF C
<1>4. batch \in Batches /\ Bumped(batch) \in 0 .. BatchBound
  <2>1. Carries(batch) /\ batch \in Batches
    BY <1>3 DEF Closes, Batches
  <2>. QED  BY <1>1, <2>1, BatchFacts
<1>5. /\ room' \in Game /\ room'.seats = room.seats \ {seat} /\ room'.minted = room.minted
      /\ room'.version = Bumped(batch)
  <2>1. room \in Game
    BY <1>1 DEF Types
  <2>. QED  BY <1>3, <1>4, <2>1 DEF Game
<1>6. UNCHANGED <<phone, stash, dials, up>>
  BY DEF HandleKickPlayer
<1>. QED  BY <1>2, <1>3, <1>4, <1>5, <1>6, ClosedKeeps DEF Ending

\* A close lets go of all of them, and a wipe of the seats besides.
LEMMA CloseRoomKeeps ==
  ASSUME IInv, NEW wiped \in BOOLEAN, CloseRoom(wiped)
  PROVE  IInv'
<1>. DEFINE C == {c \in Conn : served[c] # None}
            reason == IF wiped THEN "expired" ELSE "host-closed"
<1>1. Types
  BY DEF IInv
<1>2. C \subseteq Conn /\ (\A c \in C : served[c] # None)
  OBVIOUS
<1>3. room' = (IF wiped THEN [room EXCEPT !.there = FALSE, !.seats = {}] ELSE room) /\ room \in Game
  BY <1>1 DEF CloseRoom, Types
<1>4. /\ room' \in Game /\ room'.seats \subseteq room.seats /\ room'.minted = room.minted
      /\ room'.version = Bumped(<<>>) /\ <<>> \in Batches
  BY <1>3 DEF Game, Bumped, Batches, Presence
<1>5. Closes(C, reason, <<>>) /\ UNCHANGED <<phone, stash, dials, up>>
  BY DEF CloseRoom
<1>6. reason \in Ending /\ reason # "kicked"
  BY DEF Ending
<1>. HIDE DEF C, reason
<1>. QED  BY <1>2, <1>4, <1>5, <1>6, ClosedKeeps

\* A batch is told to all that are joined, and lets go of none.
LEMMA BatchKeeps ==
  ASSUME IInv, NEW batch \in Batches, Batch(batch)
  PROVE  IInv'
<1>. DEFINE w == Ear({}, <<>>, batch)
<1>1. Types /\ Past
  BY DEF IInv
<1>2. /\ Carries(batch) /\ room' = [room EXCEPT !.version = Bumped(batch)]
      /\ Tells({}, <<>>, batch) /\ UNCHANGED <<phone, stash, dials, up, served>>
  BY DEF Batch
<1>3. /\ batch \in Seq(DownMsg) /\ Bumped(batch) \in 0 .. BatchBound
      /\ told' \in 0 .. Bumped(batch)
      /\ \A m \in Said(batch) : IsNews(m) /\ m.type # "snapshot" /\ m.about = Bumped(batch)
  BY <1>1, <1>2, BatchFacts
<1>4. w \in Seq(DownMsg) /\ down' = down \o w
  <2>1. <<>> \in Seq(DownMsg)
    OBVIOUS
  <2>. QED  BY <1>1, <1>2, <1>3, <2>1, TellsSaid
<1>5. (Joined => w = batch) /\ (~Joined => w = <<>>) /\ Said(<<>>) = {}
  BY DEF Ear, Said
<1>. HIDE DEF w
<1>6. /\ room' \in Game /\ room'.seats = room.seats /\ room'.minted = room.minted
      /\ room'.version = Bumped(batch)
  <2>1. room \in Game
    BY <1>1 DEF Types
  <2>. QED  BY <1>2, <1>3, <2>1 DEF Game
<1>7. \A m \in Said(w) : m.type \in {"event", "buzz-won"} /\ m \in Said(batch) /\ Joined
  BY <1>3, <1>5 DEF IsNews
<1>8. /\ Msg("refused", "bad-session-token") \notin Said(w)
      /\ Msg("room-closed", "kicked") \notin Said(w)
      /\ \A m \in Said(w) : m.type # "welcome"
  BY <1>7, MsgFacts
<1>9. Reports(w)
  <2>1. Joined' => Joined /\ Said(batch) \subseteq Said(w)
    BY <1>2, <1>5 DEF Joined, Attached
  <2>. QED  BY <1>1, <1>2, <1>4, <1>6, <1>7, <2>1, BatchReported
<1>10. w # <<>> => phone.conn \in Conn /\ served[phone.conn] # None
  BY <1>1, <1>5, StateFacts, NumberFacts DEF Joined, Attached
<1>11. /\ served' = [d \in Conn |-> IF d \in {} THEN None ELSE served[d]]
       /\ told' \in 0 .. room'.version /\ up' \in [Conn -> Seq(UpMsg)] /\ up' = up
  BY <1>1, <1>2, <1>3, <1>6 DEF Types
<1>12. LetsGo({}, w)
  BY <1>2, <1>4, <1>6, <1>8, <1>9, <1>10, <1>11 DEF LetsGo
<1>. QED  BY <1>12, Detached

-----------------------------------------------------------------------------
(* The phone's steps.                                                          *)

\* Silence is in order.
LEMMA NoNews == \A n, v : Ordered(<<>>, n, v) /\ Chained(<<>>, n)
BY DEF Ordered, Chained

\* What a phone sends goes behind what it had sent.
LEMMA SendsFacts ==
  ASSUME Types, NEW w \in Seq(UpMsg), Sends(phone, w)
  PROVE  /\ up' \in [Conn -> Seq(UpMsg)]
         /\ \A c \in Conn : c # phone.conn \/ ~phone.open => up'[c] = up[c]
         /\ \A c \in Conn : up[c] # <<>> => up'[c] # <<>> /\ Head(up'[c]) = Head(up[c])
<1>1. up \in [Conn -> Seq(UpMsg)]
  BY DEF Types
<1>2. \A s \in Seq(UpMsg) : /\ s \o w \in Seq(UpMsg)
                            /\ s # <<>> => s \o w # <<>> /\ Head(s \o w) = Head(s)
  OBVIOUS
<1>3. CASE phone.conn # None /\ phone.open
  <2>1. up' = [up EXCEPT ![phone.conn] = @ \o w]
    BY <1>3 DEF Sends
  <2>2. \A c \in Conn : up[c] \in Seq(UpMsg) /\ up[c] \o w \in Seq(UpMsg)
    BY <1>1, <1>2
  <2>3. \A c \in Conn : up'[c] = IF c = phone.conn THEN up[c] \o w ELSE up[c]
    BY <1>1, <2>1
  <2>4. up' \in [Conn -> Seq(UpMsg)]
    BY <1>1, <2>1, <2>2
  <2>. QED  BY <1>2, <1>3, <2>2, <2>3, <2>4
<1>4. CASE ~ (phone.conn # None /\ phone.open)
  <2>1. up' = up
    BY <1>4 DEF Sends
  <2>2. \A c \in Conn : c = phone.conn => phone.conn # None
    BY NumberFacts
  <2>. QED  BY <1>1, <2>1
<1>. QED  BY <1>3, <1>4

\* What is left of a lost connection concerns its seat's room, and no longer the phone.
LEMMA LostKeeps ==
  ASSUME IInv, NEW next \in Store, next.conn = None, next.token = phone.token,
         next.shown <= next.version, next.version <= room.version, Loses(next)
  PROVE  IInv'
<1>1. Types /\ Past /\ Silent
  BY DEF IInv
<1>2. /\ phone' = next /\ down' = <<>> /\ UNCHANGED <<stash, dials, served, room, told>>
      /\ phone.conn \in Conn
  BY <1>1, StateFacts DEF Loses
<1>3. PICK n \in 0 .. Len(up[phone.conn]) :
        up' = [up EXCEPT ![phone.conn] = SubSeq(@, 1, n)]
  BY DEF Loses, StillArrives
<1>4. up' \in [Conn -> Seq(UpMsg)] /\ \A c \in Conn \ {phone.conn} : up'[c] = up[c]
  <2>1. up \in [Conn -> Seq(UpMsg)] /\ up[phone.conn] \in Seq(UpMsg)
    BY <1>1, <1>2 DEF Types
  <2>2. SubSeq(up[phone.conn], 1, n) \in Seq(UpMsg)
    BY <2>1
  <2>. QED  BY <1>3, <2>1, <2>2
<1>5. Types'
  <2>1. <<>> \in Seq(DownMsg)
    OBVIOUS
  <2>. QED  BY <1>1, <1>2, <1>4, <2>1 DEF Types
<1>6. Past'
  <2>1. Welcomes(<<>>) = {}
    BY DEF Welcomes, Said
  <2>. QED  BY <1>1, <1>2, <2>1 DEF Past
<1>7. Silent'
  <2>0. phone.conn # None /\ phone.conn \in Nat
    BY <1>2, NumberFacts
  <2>1. phone.conn <= dials /\ dials \in Nat
    BY <1>1, <2>0, NumberFacts DEF Silent, Types
  <2>2. \A c \in Conn : c > dials => c # phone.conn
    BY <2>0, <2>1, NumberFacts
  <2>. QED  BY <1>1, <1>2, <1>4, <2>2 DEF Silent
<1>8. OneWelcome' /\ TokenGone' /\ News'
  BY <1>2, NoNews DEF OneWelcome, TokenGone, News, Joined
<1>. QED  BY <1>5, <1>6, <1>7, <1>8 DEF IInv

\* A phone that hears of its close, or of none, is left without a connection and with
\* its token.
LEMMA ClosesToStore ==
  ASSUME NEW p \in Store, NEW code
  PROVE  /\ HandleClose(p, code) \in Store /\ HandleClose(p, code).conn = None
         /\ HandleClose(p, code).token = p.token /\ HandleClose(p, code).shown = p.shown
         /\ HandleClose(p, code).version = p.version
<1>1. PICK over \in BOOLEAN :
        HandleClose(p, code) =
          [p EXCEPT !.conn = None, !.open = FALSE, !.done = over, !.retry = ~over,
                    !.answered = FALSE]
  <2>1. (p.done \/ isTerminalCloseCode(code)) \in BOOLEAN
    OBVIOUS
  <2>. QED  BY <2>1 DEF HandleClose
<1>. QED  BY <1>1 DEF Store

\* A drop leaves the phone its token.
LEMMA DropKeeps ==
  ASSUME IInv, Drop
  PROVE  IInv'
<1>. DEFINE next == HandleClose(phone, 1006)
<1>1. phone \in Store /\ phone.shown <= phone.version /\ phone.version <= room.version
  BY DEF IInv, Types, Past
<1>2. /\ next \in Store /\ next.conn = None /\ next.token = phone.token
      /\ next.shown <= next.version /\ next.version <= room.version
  BY <1>1, ClosesToStore DEF Store
<1>3. Loses(next)
  BY DEF Drop
<1>. HIDE DEF next
<1>. QED  BY <1>2, <1>3, LostKeeps

\* A reload leaves it in the stash.
LEMMA ReloadKeeps ==
  ASSUME IInv, Reload
  PROVE  IInv'
<1>. DEFINE next == NewStore(stash)
<1>1. stash \in Seat \cup {None} /\ stash = phone.token /\ room.version \in 0 .. BatchBound
  BY StateFacts DEF IInv, Types, Past
<1>2. /\ next \in Store /\ next.conn = None /\ next.token = phone.token
      /\ next.shown <= next.version /\ next.version <= room.version
  <2>1. -1 \in -1 .. BatchBound
    BY NumberFacts
  <2>. QED  BY <1>1, <2>1 DEF Store, NewStore
<1>3. Loses(next)
  BY DEF Reload
<1>. HIDE DEF next
<1>. QED  BY <1>2, <1>3, LostKeeps

\* A new connection is silent.
LEMMA DialKeeps ==
  ASSUME IInv, Dial
  PROVE  IInv'
<1>1. Types /\ Past /\ Silent
  BY DEF IInv
<1>2. /\ dials < DialBound /\ dials' = dials + 1 /\ down' = <<>> /\ dials \in Nat
      /\ phone' = [phone EXCEPT !.conn = dials + 1, !.open = FALSE, !.retry = FALSE]
      /\ UNCHANGED <<stash, up, served, room, told>>
  BY <1>1, NumberFacts DEF Dial, Types
<1>3. dials + 1 \in Conn /\ dials' \in 0 .. DialBound
  BY <1>2, NumberFacts DEF Conn
<1>4. /\ phone' \in Store /\ phone'.conn = dials + 1 /\ phone'.token = phone.token
      /\ phone'.open = FALSE /\ phone'.shown = phone.shown /\ phone'.version = phone.version
  BY <1>1, <1>2, <1>3 DEF Types, Store
<1>5. Said(<<>>) = {} /\ Welcomes(<<>>) = {} /\ <<>> \in Seq(DownMsg)
  BY DEF Welcomes, Said
<1>6. served[dials + 1] = None /\ up[dials + 1] = <<>>
  BY <1>1, <1>2, <1>3 DEF Silent
<1>7. Types'
  BY <1>1, <1>2, <1>3, <1>4, <1>5 DEF Types
<1>8. Past'
  BY <1>1, <1>2, <1>4, <1>5 DEF Past
<1>9. Silent'
  <2>1. \A c \in Conn : c > dials + 1 => c > dials
    BY <1>2, NumberFacts
  <2>. QED  BY <1>1, <1>2, <1>4, <1>6, <2>1 DEF Silent
<1>10. OneWelcome' /\ TokenGone' /\ News'
  BY <1>2, <1>4, <1>5, <1>6, NoNews, NumberFacts
  DEF OneWelcome, TokenGone, News, Joined, Attached
<1>. QED  BY <1>7, <1>8, <1>9, <1>10 DEF IInv

\* The phone that holds a token opens with it.
LEMMA OpenKeeps ==
  ASSUME IInv, Open
  PROVE  IInv'
<1>. DEFINE c == phone.conn
<1>1. Types /\ Past /\ Silent
  BY DEF IInv
<1>2. /\ c \in Conn /\ c # None /\ c <= dials /\ served[c] = None /\ up[c] = <<>> /\ down = <<>>
      /\ UNCHANGED <<stash, dials, room, told>>
      /\ phone' = [phone EXCEPT !.open = TRUE]
  BY <1>1, StateFacts DEF Open, Silent
<1>3. /\ phone' \in Store /\ phone'.conn = c /\ phone'.token = phone.token /\ phone'.me = phone.me
      /\ phone'.open = TRUE /\ phone'.shown = phone.shown /\ phone'.version = phone.version
  BY <1>1, <1>2 DEF Types, Store
<1>4. /\ OpeningMove \in Seq(UpMsg)
      /\ phone.token # None => OpeningMove = <<Msg("resume", phone.token)>>
  <2>1. phone.token # None => Msg("resume", phone.token) \in UpMsg
    BY <1>1, StateFacts, MsgFacts
  <2>2. Msg("join", None) \in UpMsg
    BY MsgFacts
  <2>. QED  BY <2>1, <2>2 DEF OpeningMove
<1>5. up' \in [Conn -> Seq(UpMsg)] /\ up'[c] = OpeningMove /\ \A d \in Conn \ {c} : up'[d] = up[d]
  <2>1. up' = [up EXCEPT ![c] = @ \o OpeningMove]
    <3>1. Sends(phone', OpeningMove)
      BY DEF Open
    <3>. QED  BY <1>2, <1>3, <3>1 DEF Sends
  <2>2. <<>> \o OpeningMove = OpeningMove
    BY <1>4
  <2>. QED  BY <1>1, <1>2, <1>4, <2>1, <2>2 DEF Types
<1>6. phone.token # None => up'[c] # <<>> /\ Head(up'[c]) = Msg("resume", phone.token)
  BY <1>4, <1>5
<1>7. \A d \in Conn : d > dials => d # c
  BY <1>1, <1>2, NumberFacts DEF Types
<1>8. CASE room.there
  <2>1. served' = [served EXCEPT ![c] = Unjoined] /\ down' = down
    BY <1>8 DEF Open
  <2>2. served'[c] = Unjoined /\ served' \in [Conn -> Seat \cup {Unjoined, None}]
        /\ \A d \in Conn \ {c} : served'[d] = served[d]
    BY <1>1, <1>2, <2>1 DEF Types
  <2>3. Said(down) = {} /\ Welcomes(down) = {}
    BY <1>2 DEF Said, Welcomes
  <2>. HIDE DEF c
  <2>4. Types'
    BY <1>1, <1>2, <1>3, <1>5, <2>1, <2>2 DEF Types
  <2>5. Past'
    BY <1>1, <1>2, <1>3, <2>1 DEF Past
  <2>6. Silent'
    BY <1>1, <1>2, <1>3, <1>5, <1>7, <2>2 DEF Silent
  <2>7. OneWelcome'
    BY <1>3, <1>6, <2>1, <2>2, <2>3, NumberFacts DEF OneWelcome, Attached
  <2>8. TokenGone' /\ News'
    BY <1>2, <1>3, <2>1, <2>2, <2>3, NoNews, NumberFacts
    DEF TokenGone, News, Joined, Attached
  <2>. QED  BY <2>4, <2>5, <2>6, <2>7, <2>8 DEF IInv
<1>9. CASE ~room.there
  <2>. DEFINE w == Refusal("no-such-room", 4404)
  <2>1. Tells({c}, w, <<>>) /\ served' = served
    BY <1>9 DEF Open
  <2>2. w \in Seq(DownMsg) /\ Said(w) = {Msg("refused", "no-such-room"), Msg("close", 4404)}
    BY SaidPair, MsgFacts DEF Refusal, Reason
  <2>. HIDE DEF w
  <2>3. down' = down \o w /\ down' \in Seq(DownMsg) /\ Said(down') = Said(down) \cup Said(w)
    <3>1. down \in Seq(DownMsg) /\ down' = down \o w
      BY <1>1, <2>1 DEF Types, Tells
    <3>. QED  BY <2>2, <3>1, SaidConcat
  <2>4. Said(down) = {}
    BY <1>2 DEF Said
  <2>5. /\ Welcomes(down') = {} /\ Msg("refused", "bad-session-token") \notin Said(down')
        /\ Msg("room-closed", "kicked") \notin Said(down')
    <3>1. Said(down') = {Msg("refused", "no-such-room"), Msg("close", 4404)}
      BY <2>2, <2>3, <2>4
    <3>. QED  BY <3>1, MsgFacts DEF Welcomes
  <2>. HIDE DEF c
  <2>6. Types'
    BY <1>1, <1>2, <1>3, <1>5, <2>1, <2>3 DEF Types
  <2>7. Past'
    BY <1>1, <1>2, <1>3, <2>5 DEF Past
  <2>8. Silent'
    BY <1>1, <1>2, <1>3, <1>5, <1>7, <2>1 DEF Silent
  <2>9. OneWelcome' /\ TokenGone'
    BY <1>2, <1>3, <2>1, <2>5, NumberFacts DEF OneWelcome, TokenGone, Attached
  <2>10. News'
    <3>1. \A m \in Said(w) : m.type # "event" /\ ~IsNews(m)
      BY <2>2, MsgFacts DEF IsNews
    <3>2. ~Joined'
      BY <1>2, <1>3, <2>1, NumberFacts DEF Joined, Attached
    <3>3. \A m \in Said(down') : m.type # "event" /\ ~IsNews(m)
      BY <2>3, <2>4, <3>1
    <3>4. \A i \in DOMAIN down' : down'[i].type # "event" /\ ~IsNews(down'[i])
      BY <3>3 DEF Said
    <3>. QED  BY <3>2, <3>4 DEF News, Ordered, Chained
  <2>. QED  BY <2>6, <2>7, <2>8, <2>9, <2>10 DEF IInv
<1>. QED  BY <1>8, <1>9

\* What a message other than a close makes of the store.
LEMMA AppliedFacts ==
  ASSUME Types, NEW m \in DownMsg, m.type # "close", IsNews(m) => m.about >= phone.version
  PROVE  /\ Applied(m) \in Store /\ Applied(m).conn = phone.conn /\ Applied(m).open = phone.open
         /\ Applied(m).version = IF IsNews(m) THEN m.about ELSE phone.version
         /\ Applied(m).shown = IF IsState(m) THEN m.about ELSE phone.shown
         /\ m.type = "welcome" => Applied(m).token = m.about /\ Applied(m).me = m.about
         /\ m.type # "welcome" =>
              \/ Applied(m).token = phone.token /\ Applied(m).me = phone.me
              \/ /\ Applied(m).token = None
                 /\ m \in {Msg("refused", "bad-session-token"), Msg("room-closed", "kicked")}
<1>1. phone \in Store
  BY DEF Types
<1>2. /\ m = Msg(m.type, m.about) /\ m.type \in DownType
      /\ m.type = "welcome" => m.about \in Seat
      /\ IsNews(m) => m.about \in -1 .. BatchBound
      /\ m.type = "refused" => m.about \in Reason
  BY DownFacts, NumberFacts
<1>. USE DEF IsNews, IsState
<1>3. CASE m.type = "welcome"
  <2>1. Applied(m) = [phone EXCEPT !.me = m.about, !.token = m.about]
    BY <1>3 DEF Applied, Welcomed
  <2>. QED  BY <1>1, <1>2, <1>3, <2>1 DEF Store
<1>4. CASE m.type = "refused"
  <2>1. Applied(m) = Refused(phone, m.about)
    BY <1>4 DEF Applied
  <2>2. CASE m.about = "bad-session-token"
    <3>1. m = Msg("refused", "bad-session-token")
      BY <1>2, <1>4, <2>2
    <3>. QED  BY <1>1, <1>2, <1>4, <2>1, <2>2, <3>1 DEF Store, Refused
  <2>3. CASE m.about # "bad-session-token"
    BY <1>1, <1>2, <1>4, <2>1, <2>3 DEF Store, Refused
  <2>. QED  BY <2>2, <2>3
<1>5. CASE m.type = "snapshot"
  <2>1. Applied(m) = [phone EXCEPT !.version = m.about, !.shown = m.about]
    BY <1>5 DEF Applied
  <2>. QED  BY <1>1, <1>2, <1>5, <2>1 DEF Store
<1>6. CASE m.type = "event" \/ m.type = "buzz-won"
  <2>1. m.about \in Int /\ phone.version \in Int /\ m.about >= phone.version
    BY <1>1, <1>2, <1>6 DEF Store
  <2>2. noteVersion(phone, m.about) = [phone EXCEPT !.version = m.about]
    BY <2>1 DEF noteVersion
  <2>3. CASE m.type = "event"
    <3>1. Applied(m) = [noteVersion(phone, m.about) EXCEPT !.shown = m.about]
      BY <2>3 DEF Applied, applyEventBatch
    <3>. QED  BY <1>1, <1>2, <2>2, <2>3, <3>1 DEF Store
  <2>4. CASE m.type = "buzz-won"
    <3>1. Applied(m) = noteVersion(phone, m.about)
      BY <2>4 DEF Applied, Won
    <3>. QED  BY <1>1, <1>2, <2>2, <2>4, <3>1 DEF Store
  <2>. QED  BY <1>6, <2>3, <2>4
<1>7. CASE m.type = "room-closed"
  <2>1. Applied(m) = Closed(phone, m.about)
    BY <1>7 DEF Applied
  <2>2. CASE m.about = "kicked"
    <3>1. m = Msg("room-closed", "kicked")
      BY <1>2, <1>7, <2>2
    <3>. QED  BY <1>1, <1>7, <2>1, <2>2, <3>1 DEF Store, Closed
  <2>3. CASE m.about # "kicked"
    BY <1>1, <1>7, <2>1, <2>3 DEF Store, Closed
  <2>. QED  BY <2>2, <2>3
<1>8. CASE m.type = "error"
  <2>1. Applied(m) = [phone EXCEPT !.answered = TRUE]
    BY <1>8 DEF Applied
  <2>. QED  BY <1>1, <1>8, <2>1 DEF Store
<1>. QED  BY <1>2, <1>3, <1>4, <1>5, <1>6, <1>7, <1>8 DEF DownType

\* The news in order is not behind the phone, and the next event is no more than one ahead.
LEMMA NextIsNews ==
  ASSUME IInv, down # <<>>
  PROVE  LET m == Head(down)
         IN  /\ m \in DownMsg /\ m \in Said(down) /\ (IsNews(m) => m.about >= phone.version)
             /\ m.type = "event" => m.about <= phone.version + 1
<1>. DEFINE m == Head(down)
<1>1. /\ down \in Seq(DownMsg) /\ phone.version \in Int
      /\ Ordered(down, phone.version, room.version) /\ Chained(down, phone.version)
  BY StateFacts DEF IInv, Types, News
<1>2. m \in DownMsg /\ m \in Said(down)
  BY <1>1, SaidTail
<1>3. 1 \in DOMAIN down /\ m = down[1] /\ \A j \in DOMAIN down : ~ (j < 1)
  BY <1>1
<1>4. IsNews(m) => m.about \in Int
  BY <1>2, DownFacts
<1>. HIDE DEF m
<1>5. IsNews(m) => m.about >= phone.version
  BY <1>1, <1>3, <1>4 DEF Ordered
<1>6. m.type = "event" => m.about <= phone.version + 1
  BY <1>1, <1>3 DEF Chained
<1>. QED  BY <1>2, <1>5, <1>6 DEF m

\* Whatever is received was said on this connection.
LEMMA ReceiveKeeps ==
  ASSUME IInv, Receive
  PROVE  IInv'
<1>. DEFINE m == Head(down)
            c == phone.conn
<1>1. Types /\ Past /\ Silent /\ OneWelcome /\ TokenGone /\ News
  BY DEF IInv
<1>2. /\ c \in Conn /\ c # None /\ down # <<>> /\ down \in Seq(DownMsg) /\ c <= dials
      /\ phone' = Applied(m) /\ stash' = phone'.token
      /\ UNCHANGED <<dials, served, room, told>>
  BY <1>1, StateFacts DEF Receive, Types, Silent
<1>3. m \in DownMsg /\ Tail(down) \in Seq(DownMsg) /\ Said(down) = {m} \cup Said(Tail(down))
  BY <1>2, SaidTail
<1>4. phone.open
  BY <1>1, <1>2 DEF Silent
<1>5. /\ up' \in [Conn -> Seq(UpMsg)]
      /\ \A d \in Conn : d # c => up'[d] = up[d]
      /\ up[c] # <<>> => up'[c] # <<>> /\ Head(up'[c]) = Head(up[c])
  <2>1. CASE Gapped(m)
    <3>1. <<Msg("sync", None)>> \in Seq(UpMsg)
      BY MsgFacts
    <3>2. Sends(phone, <<Msg("sync", None)>>)
      BY <2>1 DEF Receive
    <3>. QED  BY <1>1, <1>2, <3>1, <3>2, SendsFacts
  <2>2. CASE ~Gapped(m)
    BY <1>1, <2>2 DEF Receive, Types
  <2>. QED  BY <2>1, <2>2
<1>. HIDE DEF m, c
<1>6. \A d \in Conn : d > dials => d # c
  BY <1>1, <1>2, NumberFacts DEF Types
<1>7. CASE m.type = "close"
  <2>1. /\ phone' \in Store /\ phone'.conn = None /\ phone'.token = phone.token /\ down' = <<>>
        /\ phone'.shown = phone.shown /\ phone'.version = phone.version
    <3>1. phone' = HandleClose(phone, m.about)
      BY <1>2, <1>7 DEF Applied
    <3>. QED  BY <1>1, <1>7, <3>1, ClosesToStore DEF Types, Receive, m
  <2>2. Welcomes(<<>>) = {} /\ <<>> \in Seq(DownMsg)
    BY DEF Welcomes, Said
  <2>3. Types' /\ Past'
    BY <1>1, <1>2, <1>5, <2>1, <2>2 DEF Types, Past
  <2>4. Silent'
    BY <1>1, <1>2, <1>5, <1>6, <2>1 DEF Silent
  <2>5. OneWelcome' /\ TokenGone' /\ News'
    BY <2>1, NoNews DEF OneWelcome, TokenGone, News, Joined
  <2>. QED  BY <2>3, <2>4, <2>5 DEF IInv
<1>8. CASE m.type # "close"
  <2>1. down' = Tail(down)
    BY <1>8 DEF Receive, m
  <2>2. Said(down') \subseteq Said(down) /\ Welcomes(down') \subseteq Welcomes(down)
    BY <1>3, <2>1 DEF Welcomes
  <2>3. /\ phone' \in Store /\ phone'.conn = c /\ phone'.open = phone.open
        /\ phone'.version = IF IsNews(m) THEN m.about ELSE phone.version
        /\ phone'.shown = IF IsState(m) THEN m.about ELSE phone.shown
        /\ m.type = "welcome" => phone'.token = m.about /\ phone'.me = m.about
        /\ m.type # "welcome" =>
             \/ phone'.token = phone.token /\ phone'.me = phone.me
             \/ /\ phone'.token = None
                /\ m \in {Msg("refused", "bad-session-token"), Msg("room-closed", "kicked")}
    <3>1. IsNews(m) => m.about >= phone.version
      BY <1>2, NextIsNews DEF m
    <3>. QED  BY <1>1, <1>2, <1>3, <1>8, <3>1, AppliedFacts DEF c
  <2>4. m \in Said(down) /\ (m.type = "welcome" => m \in Welcomes(down))
    BY <1>3 DEF Welcomes
  <2>5. Types'
    <3>1. stash' \in Seat \cup {None}
      BY <1>2, <2>3 DEF Store
    <3>. QED  BY <1>1, <1>2, <1>3, <1>5, <2>1, <2>3, <3>1 DEF Types
  <2>0. /\ Ordered(down', phone'.version, room.version) /\ Chained(down', phone'.version)
        /\ phone.version <= phone'.version /\ phone'.version <= room.version
        /\ phone.version \in Int /\ phone'.version \in Int /\ room.version \in Int
        /\ phone.shown \in Int /\ told \in Int /\ phone.shown <= phone.version
    <3>1. /\ phone.version \in Int /\ phone'.version \in Int /\ room.version \in Int
          /\ phone.shown \in Int /\ told \in Int /\ phone.shown <= phone.version
          /\ phone.version <= room.version
      BY <1>1, <2>3, StateFacts DEF Store, Types, Past
    <3>2. Ordered(down, phone.version, room.version) /\ Chained(down, phone.version)
      BY <1>1 DEF News
    <3>. QED  BY <1>2, <2>1, <2>3, <3>1, <3>2, NewsHead DEF m
  <2>6. Past'
    <3>1. IsState(m) => IsNews(m)
      BY DEF IsState, IsNews
    <3>2. phone'.shown <= phone'.version
      BY <2>0, <2>3, <3>1
    <3>. QED  BY <1>1, <1>2, <2>0, <2>2, <2>3, <2>4, <3>2 DEF Past
  <2>7. Silent'
    BY <1>1, <1>2, <1>4, <1>5, <1>6, <2>3 DEF Silent
  <2>8. News'
    <3>1. Joined' <=> Joined
      BY <1>2, <2>3 DEF Joined, Attached, c
    <3>2. Said(down) = {m} \cup Said(down') /\ (IsState(m) => IsNews(m))
      BY <1>3, <2>1 DEF IsState, IsNews
    <3>3. Joined => Heard /\ Shows
      BY <1>1 DEF News
    <3>4. Joined => Heard'
      <4>1. CASE phone.version = room.version
        BY <1>2, <2>0, <4>1 DEF Heard
      <4>2. CASE \E x \in Said(down) : IsNews(x) /\ x.about = room.version
        BY <1>2, <2>3, <3>2, <4>2 DEF Heard
      <4>. QED  BY <3>3, <4>1, <4>2 DEF Heard
    <3>5. Joined => Shows'
      <4>1. CASE phone.shown >= told
        <5>1. phone'.shown >= told
          BY <2>0, <2>3, <3>2, <4>1
        <5>. QED  BY <1>2, <5>1 DEF Shows
      <4>2. CASE \E x \in Said(down) : IsState(x) /\ x.about >= told
        <5>1. PICK x \in Said(down) : IsState(x) /\ x.about >= told
          BY <4>2
        <5>2. CASE x = m
          BY <1>2, <2>3, <5>1, <5>2 DEF Shows
        <5>3. CASE x # m
          BY <1>2, <3>2, <5>1, <5>3 DEF Shows
        <5>. QED  BY <5>2, <5>3
      <4>. QED  BY <3>3, <4>1, <4>2 DEF Shows
    <3>. QED  BY <1>2, <2>0, <3>1, <3>4, <3>5 DEF News
  <2>9. OneWelcome'
    <3>1. /\ \A v, n \in Welcomes(down) : v.about = n.about
          /\ served[c] = Unjoined => Welcomes(down) = {}
          /\ Attached(c) => \A v \in Welcomes(down) : v.about = served[c]
          /\ phone.token # None =>
               /\ \A v \in Welcomes(down) : v.about = phone.token
               /\ phone.open /\ served[c] = Unjoined =>
                    up[c] # <<>> /\ Head(up[c]) = Msg("resume", phone.token)
          /\ Attached(c) /\ Welcomes(down) = {} /\ phone.token # None =>
               phone.token = served[c] /\ phone.me = phone.token
      BY <1>1, <1>2 DEF OneWelcome, c
    <3>2. CASE m.type = "welcome"
      BY <1>2, <2>2, <2>3, <2>4, <3>1, <3>2 DEF OneWelcome, Attached
    <3>3. CASE m.type # "welcome"
      <4>1. Welcomes(down') = Welcomes(down)
        BY <1>3, <2>1, <3>3 DEF Welcomes
      <4>. QED  BY <1>2, <1>5, <2>3, <3>1, <3>3, <4>1 DEF OneWelcome, Attached
    <3>. QED  BY <3>2, <3>3
  <2>10. TokenGone'
    <3>1. /\ Msg("refused", "bad-session-token") \in Said(down) =>
               served[c] = None /\ Welcomes(down) = {} /\ phone.token \notin room.seats
          /\ Msg("room-closed", "kicked") \in Said(down) =>
               /\ served[c] = None /\ phone.token \notin room.seats
               /\ \A v \in Welcomes(down) : v.about \notin room.seats
      BY <1>1, <1>2 DEF TokenGone, c
    <3>2. None \notin room.seats
      BY <1>1, StateFacts, NumberFacts
    <3>. QED  BY <1>2, <2>2, <2>3, <2>4, <3>1, <3>2 DEF TokenGone
  <2>. QED  BY <2>5, <2>6, <2>7, <2>8, <2>9, <2>10 DEF IInv
<1>. QED  BY <1>7, <1>8

\* A name sent after the token is heard after it.
LEMMA JoinKeeps ==
  ASSUME IInv, Join
  PROVE  IInv'
<1>1. Types /\ Past /\ Silent /\ OneWelcome /\ TokenGone /\ News
  BY DEF IInv
<1>2. phone' = [phone EXCEPT !.wants = TRUE, !.answered = FALSE]
      /\ UNCHANGED <<stash, dials, down, served, room, told>>
  BY DEF Join
<1>3. /\ phone' \in Store /\ phone'.conn = phone.conn /\ phone'.open = phone.open
      /\ phone'.token = phone.token /\ phone'.me = phone.me
      /\ phone'.shown = phone.shown /\ phone'.version = phone.version
  BY <1>1, <1>2 DEF Types, Store
<1>4. /\ up' \in [Conn -> Seq(UpMsg)]
      /\ \A c \in Conn : c # phone.conn \/ ~phone.open => up'[c] = up[c]
      /\ \A c \in Conn : up[c] # <<>> => up'[c] # <<>> /\ Head(up'[c]) = Head(up[c])
  <2>1. <<Msg("join", None)>> \in Seq(UpMsg)
    BY MsgFacts
  <2>2. Sends(phone, <<Msg("join", None)>>)
    BY DEF Join
  <2>. QED  BY <1>1, <2>1, <2>2, SendsFacts
<1>5. phone.conn # None => phone.conn \in Conn
  BY <1>1, StateFacts
<1>6. Types' /\ Past'
  BY <1>1, <1>2, <1>3, <1>4 DEF Types, Past
<1>7. Silent'
  <2>1. \A c \in Conn : c > dials => up'[c] = up[c]
    BY <1>1, <1>4, NumberFacts DEF Silent, Types
  <2>. QED  BY <1>1, <1>2, <1>3, <1>4, <1>5, <2>1 DEF Silent
<1>8. OneWelcome'
  BY <1>1, <1>2, <1>3, <1>4, <1>5 DEF OneWelcome, Attached
<1>9. TokenGone' /\ News'
  BY <1>1, <1>2, <1>3 DEF TokenGone, News, Heard, Shows, Joined, Attached
<1>. QED  BY <1>6, <1>7, <1>8, <1>9 DEF IInv

\* A phone that leaves holds no token.
LEMMA LeaveKeeps ==
  ASSUME IInv, Leave
  PROVE  IInv'
<1>1. Types /\ Past /\ Silent /\ OneWelcome /\ TokenGone /\ News
  BY DEF IInv
<1>2. phone' = [phone EXCEPT !.wants = FALSE, !.token = None, !.me = None] /\ stash' = None
      /\ UNCHANGED <<dials, down, served, room, told>>
  BY DEF Leave
<1>3. /\ phone' \in Store /\ phone'.conn = phone.conn /\ phone'.open = phone.open
      /\ phone'.token = None /\ phone'.shown = phone.shown /\ phone'.version = phone.version
  BY <1>1, <1>2 DEF Types, Store
<1>4. /\ up' \in [Conn -> Seq(UpMsg)]
      /\ \A c \in Conn : c # phone.conn \/ ~phone.open => up'[c] = up[c]
  <2>1. <<Msg("leave", None)>> \in Seq(UpMsg)
    BY MsgFacts
  <2>2. Sends(phone, <<Msg("leave", None)>>)
    BY DEF Leave
  <2>. QED  BY <1>1, <2>1, <2>2, SendsFacts
<1>5. phone.conn # None => phone.conn \in Conn
  BY <1>1, StateFacts
<1>6. Types' /\ Past'
  BY <1>1, <1>2, <1>3, <1>4 DEF Types, Past
<1>7. Silent'
  <2>1. \A c \in Conn : c > dials => up'[c] = up[c]
    BY <1>1, <1>4, NumberFacts DEF Silent, Types
  <2>. QED  BY <1>1, <1>2, <1>3, <1>4, <1>5, <2>1 DEF Silent
<1>8. OneWelcome'
  BY <1>1, <1>2, <1>3 DEF OneWelcome, Attached
<1>9. TokenGone' /\ News'
  <2>1. None \notin room.seats
    BY <1>1, StateFacts, NumberFacts
  <2>. QED  BY <1>1, <1>2, <1>3, <2>1
      DEF TokenGone, News, Heard, Shows, Joined, Attached
<1>. QED  BY <1>6, <1>7, <1>8, <1>9 DEF IInv

-----------------------------------------------------------------------------
(* The step, and the theorems.                                                 *)

\* The invariant holds of a fresh tab and a new room.
LEMMA InitIInv == Init => IInv
<1>. SUFFICES ASSUME Init PROVE IInv
  OBVIOUS
<1>1. /\ phone = NewStore(None) /\ phone.conn = None /\ phone.token = None /\ phone \in Store
      /\ phone.version = -1 /\ phone.shown = -1
  <2>1. -1 \in -1 .. BatchBound
    BY NumberFacts
  <2>. QED  BY <2>1 DEF Init, NewStore, Store
<1>2. Said(<<>>) = {} /\ <<>> \in Seq(DownMsg) /\ <<>> \in Seq(UpMsg)
  BY DEF Said
<1>3. room \in Game /\ room.minted = 0 /\ room.version = 0 /\ room.seats = {}
  BY NumberFacts DEF Init, Game
<1>4. Types
  BY <1>1, <1>2, <1>3, NumberFacts DEF Init, Types
<1>5. Past
  BY <1>1, <1>2, <1>3 DEF Init, Past, Welcomes
<1>6. Silent /\ OneWelcome /\ TokenGone /\ News
  BY <1>1, NoNews DEF Init, Silent, OneWelcome, TokenGone, News, Joined
<1>. QED  BY <1>4, <1>5, <1>6 DEF IInv

\* Every step keeps the invariant.
LEMMA NextIInv == IInv /\ [Next]_vars => IInv'
<1>. SUFFICES ASSUME IInv, [Next]_vars PROVE IInv'
  OBVIOUS
<1>1. CASE \E c \in Conn : Handle(c) \/ Notices(c)
  BY <1>1, HandleKeeps, NoticesKeeps
<1>2. CASE Batch(<<Event>>) \/ Batch(BoardWin) \/ Batch(BareWin)
  <2>1. {<<Event>>, BoardWin, BareWin} \subseteq Batches
    BY DEF Batches, Presence
  <2>. QED  BY <1>2, <2>1, BatchKeeps
<1>3. CASE \E seat \in Seat : HandleKickPlayer(seat)
  BY <1>3, KickKeeps
<1>4. CASE \E wiped \in BOOLEAN : CloseRoom(wiped)
  BY <1>4, CloseRoomKeeps
<1>5. CASE Dial \/ Open \/ Receive
  BY <1>5, DialKeeps, OpenKeeps, ReceiveKeeps
<1>6. CASE Drop \/ Reload \/ Join \/ Leave
  BY <1>6, DropKeeps, ReloadKeeps, JoinKeeps, LeaveKeeps
<1>7. CASE UNCHANGED vars
  BY <1>7
  DEF vars, IInv, Types, Past, Silent, OneWelcome, TokenGone, News, Heard, Shows, Joined, Attached
<1>. QED  BY <1>1, <1>2, <1>3, <1>4, <1>5, <1>6, <1>7 DEF Next

\* The inductive invariant, in every reachable state (ws-room-store.svelte.ts, game-
\* room-do.ts).
THEOREM ClientInvariant == Spec => []IInv
BY InitIInv, NextIInv, PTL DEF Spec

\* The store, the wire and the room stay within their types.
THEOREM TypeCorrect == Spec => []TypeOK
<1>1. IInv => TypeOK
  <2>. SUFFICES ASSUME IInv PROVE TypeOK
    OBVIOUS
  <2>1. Types /\ Past
    BY DEF IInv
  <2>2. phone.conn \in Conn \cup {None} /\ {phone.token, phone.me, stash} \subseteq Seat \cup {None}
    BY <2>1, StateFacts DEF Types
  <2>3. /\ {phone.open, phone.wants, phone.done, phone.retry, phone.answered, room.there}
          \subseteq BOOLEAN
        /\ {phone.version, phone.shown} \subseteq -1 .. BatchBound
    BY <2>1 DEF Types, Store, Game
  <2>4. \A c \in Conn : \A i \in DOMAIN up[c] : up[c][i].type \in UpType
    <3>. SUFFICES ASSUME NEW c \in Conn, NEW i \in DOMAIN up[c] PROVE up[c][i].type \in UpType
      OBVIOUS
    <3>1. up[c] \in Seq(UpMsg)
      BY <2>1, StateFacts
    <3>2. up[c][i] \in UpMsg
      BY <3>1
    <3>. QED  BY <3>2 DEF UpMsg
  <2>5. \A i \in DOMAIN down : down[i].type \in DownType
    BY <2>1, DownFacts, StateFacts DEF Said
  <2>6. /\ room.minted <= SeatBound /\ room.version <= BatchBound /\ told \in 0 .. room.version
        /\ room.seats \subseteq 1 .. room.minted
    BY <2>1, StateFacts, NumberFacts DEF Types, Past
  <2>7. dials \in 0 .. DialBound /\ served \in [Conn -> Seat \cup {Unjoined, None}]
    BY <2>1 DEF Types
  <2>. QED  BY <2>2, <2>3, <2>4, <2>5, <2>6, <2>7 DEF TypeOK
<1>. QED  BY <1>1, ClientInvariant, PTL

\* A phone that has heard all that is on its way has the room's version and shows the
\* last state that was sent, through drops, reloads and joins while the game runs
\* (apply, broadcastEngineEvents, welcomePlayer).
THEOREM AlwaysCaughtUp == Spec => []CaughtUp
<1>1. IInv => CaughtUp
  <2>. SUFFICES ASSUME IInv, Quiet(phone.conn)
                PROVE  phone.version = room.version /\ phone.shown >= told
    BY DEF CaughtUp
  <2>1. Joined /\ down = <<>> /\ Said(<<>>) = {}
    BY DEF Quiet, Joined, Said
  <2>. QED  BY <2>1 DEF IInv, News, Heard, Shows
<1>. QED  BY <1>1, ClientInvariant, PTL

\* On a connection that delivers in order no event is taken for a gap, whatever was won,
\* joined or reconnected before it (noteVersion, applyEventBatch, broadcastEngineEvents).
THEOREM NeverAFalseGap == Spec => []NoFalseGaps
<1>1. IInv => NoFalseGaps
  <2>. SUFFICES ASSUME IInv, down # <<>>, Gapped(Head(down)) PROVE FALSE
    BY DEF NoFalseGaps
  <2>1. phone.version \in Int /\ (IsNews(Head(down)) => Head(down).about \in Int)
    BY NextIsNews, DownFacts, StateFacts DEF IInv
  <2>2. Head(down).type = "event" /\ IsNews(Head(down)) /\ Head(down).about > phone.version + 1
    BY DEF Gapped, IsNews
  <2>. QED  BY <2>1, <2>2, NextIsNews
<1>. QED  BY <1>1, ClientInvariant, PTL

\* Phone, stash and room agree whose seat an idle connection is (apply, handleJoin,
\* handleResume).
THEOREM AlwaysSameSeat == Spec => []SameSeat
<1>1. IInv => SameSeat
  <2>1. Welcomes(<<>>) = {}
    BY DEF Welcomes, Said
  <2>. QED  BY <2>1 DEF IInv, OneWelcome, Past, SameSeat, Quiet
<1>. QED  BY <1>1, ClientInvariant, PTL

\* A token whose seat is there is given up by leaving alone.
LEMMA OnlyLeavingGivesUp ==
  ASSUME IInv, [Next]_vars, phone.token \in room.seats, phone'.token # phone.token
  PROVE  Leave
<1>1. Types /\ Past /\ Silent /\ OneWelcome /\ TokenGone /\ phone \in Store
  BY DEF IInv, Types
<1>2. phone.token # None
  BY <1>1, StateFacts, NumberFacts
<1>3. ~Receive
  <2>. SUFFICES ASSUME Receive PROVE FALSE
    OBVIOUS
  <2>. DEFINE m == Head(down)
  <2>1. phone.conn # None /\ down # <<>> /\ down \in Seq(DownMsg) /\ phone' = Applied(m)
    BY <1>1 DEF Receive, Types
  <2>2. m \in DownMsg /\ m \in Said(down)
    BY <2>1, SaidTail
  <2>. HIDE DEF m
  <2>3. m.type # "close"
    <3>1. m.type = "close" => Applied(m) = HandleClose(phone, m.about)
      BY DEF Applied
    <3>. QED  BY <1>1, <2>1, <3>1, ClosesToStore
  <2>4. /\ m.type = "welcome" => m.about # phone.token
        /\ m.type # "welcome" =>
             m \in {Msg("refused", "bad-session-token"), Msg("room-closed", "kicked")}
    <3>1. IsNews(m) => m.about >= phone.version
      BY <2>1, NextIsNews DEF m
    <3>. QED  BY <1>1, <2>1, <2>2, <2>3, <3>1, AppliedFacts
  <2>5. m.type # "welcome"
    BY <1>1, <1>2, <2>1, <2>2, <2>4 DEF OneWelcome, Welcomes
  <2>. QED  BY <1>1, <2>1, <2>2, <2>4, <2>5 DEF TokenGone
<1>4. ~ (Dial \/ Open \/ Join)
  <2>1. Dial => phone'.token = phone.token
    BY <1>1 DEF Dial, Store
  <2>2. Open => phone'.token = phone.token
    BY <1>1 DEF Open, Store
  <2>3. Join => phone'.token = phone.token
    BY <1>1 DEF Join, Store
  <2>. QED  BY <2>1, <2>2, <2>3
<1>5. ~Drop
  BY <1>1, ClosesToStore DEF Drop, Loses
<1>6. ~Reload
  BY <1>1 DEF Reload, Loses, NewStore, Past
<1>7. phone' # phone
  OBVIOUS
<1>8. \A c \in Conn : ~Handle(c) /\ ~Notices(c)
  BY <1>7 DEF Handle, Notices
<1>9. /\ ~Batch(<<Event>>) /\ ~Batch(BoardWin) /\ ~Batch(BareWin)
      /\ \A seat \in Seat : ~HandleKickPlayer(seat)
      /\ \A wiped \in BOOLEAN : ~CloseRoom(wiped)
  BY <1>7 DEF Batch, HandleKickPlayer, CloseRoom
<1>. QED  BY <1>3, <1>4, <1>5, <1>6, <1>7, <1>8, <1>9 DEF Next, vars

\* "The room hands back the same seat" (docs/design/user-flows.md:81), whatever
\* connections were lost and whatever was still on its way on them.
THEOREM SeatAlwaysKept == Spec => SeatIsKept
<1>1. IInv /\ [Next]_vars =>
        [(phone.token \in room.seats /\ phone'.token # phone.token) => Leave]_vars
  BY OnlyLeavingGivesUp
<1>. QED  BY <1>1, ClientInvariant, PTL DEF Spec, SeatIsKept

=============================================================================
