--------------------------- MODULE LogSink_proofs ---------------------------
(***************************************************************************)
(* Proofs about LogSink: a client that has caught up misses no record      *)
(* but through one of the five mishaps, for any number of handlers,        *)
(* clients, records and connections.                                       *)
(***************************************************************************)
EXTENDS LogSink, TLAPS

-----------------------------------------------------------------------------
(* The inductive invariant *)

InRing(id) == \E i \in DOMAIN ring : ring[i] = id
InChannel(c, id) == \E i \in DOMAIN channel[c] : channel[c][i] = id

(* Records that have their ID and are not in the ring yet, and those that  *)
(* are and have not been fanned out.                                       *)
Taken(id) == \E h \in Handlers : record[h] = id /\ ~stored[h]
Pending(id) == \E h \in Handlers : record[h] = id /\ stored[h]

Typed ==
  /\ seq \in Nat
  /\ record \in [Handlers -> Nat] /\ stored \in [Handlers -> BOOLEAN]
  /\ ring \in Seq(Nat) /\ Len(ring) <= Capacity
  /\ stream \in [Clients -> {"away", "replayed", "live"}]
  /\ channel \in [Clients -> Seq(Nat)]
  /\ last \in [Clients -> Nat]
  /\ shown \in [Clients -> SUBSET Nat]

(* No two handlers record under the same ID, and what is in the ring is    *)
(* what has been stored.                                                   *)
Numbered ==
  /\ \A h \in Handlers : record[h] <= seq
  /\ \A g, h \in Handlers : record[g] = record[h] /\ record[g] # 0 => g = h
  /\ \A h \in Handlers : stored[h] => record[h] # 0 /\ InRing(record[h])
  /\ \A h \in Handlers : record[h] # 0 /\ ~stored[h] => ~InRing(record[h])
  /\ \A i \in DOMAIN ring : ring[i] <= seq

Kept == \A id \in 1 .. seq : InRing(id) \/ Taken(id)

InOrder == \A i, j \in DOMAIN ring : i < j => ring[i] < ring[j]

(* Up to its last event ID a client has seen all there is in the ring.     *)
Seen(c) == \A i \in DOMAIN ring : ring[i] <= last[c] => ring[i] \in shown[c]

(* What a client that has connected has not seen of the ring is on its way.*)
Followed(c) ==
  stream[c] # "away" =>
    \A i \in DOMAIN ring : ring[i] \in shown[c] \/ InChannel(c, ring[i]) \/ Pending(ring[i])

(* A channel holds records of the ring, in their order, and all of them    *)
(* older than those that are yet to come.                                  *)
Queued(c) ==
  /\ last[c] = 0 \/ InRing(last[c])
  /\ stream[c] # "live" => channel[c] = <<>>
  /\ \A i \in DOMAIN channel[c] : InRing(channel[c][i])
  /\ \A i, j \in DOMAIN channel[c] : i < j => channel[c][i] < channel[c][j]
  /\ \A i \in DOMAIN channel[c], h \in Handlers : stored[h] => channel[c][i] < record[h]

NothingMissed ==
  /\ Typed /\ Numbered /\ Kept /\ InOrder
  /\ \A c \in Clients : Seen(c) /\ Followed(c) /\ Queued(c)

SinkInv == mishaps = {} => NothingMissed

-----------------------------------------------------------------------------
(* Sequences of IDs *)

LEMMA Appended ==
  ASSUME NEW s \in Seq(Nat), NEW x \in Nat
  PROVE  /\ Append(s, x) \in Seq(Nat)
         /\ DOMAIN s = 1 .. Len(s) /\ Len(s) \in Nat
         /\ DOMAIN Append(s, x) = 1 .. Len(s) + 1
         /\ \A i \in DOMAIN s : i \in DOMAIN Append(s, x) /\ i <= Len(s) /\ Append(s, x)[i] = s[i]
         /\ Append(s, x)[Len(s) + 1] = x
         /\ \A i \in DOMAIN Append(s, x) : i \in DOMAIN s \/ i = Len(s) + 1
         /\ Len(Append(s, x)) = Len(s) + 1
OBVIOUS

LEMMA Dropped ==
  ASSUME NEW s \in Seq(Nat), s # <<>>
  PROVE  /\ Tail(s) \in Seq(Nat) /\ Head(s) \in Nat
         /\ 1 \in DOMAIN s /\ Head(s) = s[1]
         /\ \A i \in DOMAIN Tail(s) : i + 1 \in DOMAIN s /\ Tail(s)[i] = s[i + 1] /\ i \in Nat
         /\ \A i \in DOMAIN s : i \in Nat /\ (i # 1 => i - 1 \in DOMAIN Tail(s) /\ Tail(s)[i - 1] = s[i])
OBVIOUS

LEMMA Empty == <<>> \in Seq(Nat) /\ DOMAIN <<>> = {} /\ Len(<<>>) = 0
OBVIOUS

(* The last record of a ring in order is its newest.                       *)
LEMMA Newest ==
  ASSUME Typed, InOrder, ring # <<>>
  PROVE  /\ Len(ring) \in DOMAIN ring /\ EndOf(ring) = ring[Len(ring)]
         /\ \A i \in DOMAIN ring : i <= Len(ring) /\ ring[i] <= EndOf(ring)
<1>1. /\ Len(ring) \in DOMAIN ring
      /\ \A i \in DOMAIN ring : ring[i] \in Nat /\ i \in Nat /\ i <= Len(ring)
  BY DEF Typed
<1>2. ASSUME NEW i \in DOMAIN ring
      PROVE  ring[i] <= ring[Len(ring)]
  <2>1. CASE i = Len(ring)
    BY <1>1, <2>1
  <2>2. CASE i < Len(ring)
    BY <1>1, <2>2 DEF InOrder
  <2> QED BY <1>1, <2>1, <2>2
<1> QED BY <1>1, <1>2 DEF EndOf

-----------------------------------------------------------------------------
(* Handlers that log *)

LEMMA TakeIDKeeps ==
  ASSUME NothingMissed, NEW h \in Handlers, TakeID(h)
  PROVE  NothingMissed'
<1>1. /\ record[h] = 0 /\ seq' = seq + 1 /\ record' = [record EXCEPT ![h] = seq + 1]
      /\ UNCHANGED <<stored, ring, stream, channel, last, shown>>
  BY DEF TakeID
<1>2. Typed /\ Numbered /\ Kept /\ InOrder /\ \A c \in Clients : Seen(c) /\ Followed(c) /\ Queued(c)
  BY DEF NothingMissed
<1>3. seq \in Nat /\ ~stored[h] /\ stored[h] \in BOOLEAN
  BY <1>1, <1>2 DEF Typed, Numbered
<1>4. /\ record'[h] = seq + 1
      /\ \A g \in Handlers : g # h => record'[g] = record[g]
      /\ \A g \in Handlers : stored[g] => record'[g] = record[g] /\ g # h
      /\ \A g \in Handlers : record[g] \in Nat /\ record[g] <= seq
  BY <1>1, <1>2, <1>3 DEF Typed, Numbered
<1>5. /\ \A id : InRing(id)' <=> InRing(id)
      /\ \A id : Pending(id)' <=> Pending(id)
      /\ \A c \in Clients : \A id : InChannel(c, id)' <=> InChannel(c, id)
  BY <1>1, <1>4 DEF InRing, Pending, InChannel
<1>6. ~InRing(seq + 1)
  BY <1>2, <1>3 DEF InRing, Numbered, Typed
<1>7. Typed'
  BY <1>1, <1>2, <1>3 DEF Typed
<1>8. Numbered'
  BY <1>1, <1>2, <1>3, <1>4, <1>5, <1>6 DEF Numbered, Typed
<1>9. Kept'
  <2> SUFFICES ASSUME NEW id \in 1 .. seq + 1
               PROVE  InRing(id) \/ Taken(id)'
    BY <1>1, <1>5 DEF Kept
  <2>1. CASE id = seq + 1
    BY <1>1, <1>3, <1>4, <2>1 DEF Taken
  <2>2. CASE id # seq + 1
    <3>1. id \in 1 .. seq /\ id # 0
      BY <1>3, <2>2
    <3>2. InRing(id) \/ \E g \in Handlers : g # h /\ record[g] = id /\ ~stored[g]
      BY <1>1, <1>2, <3>1 DEF Kept, Taken
    <3> QED BY <1>1, <1>4, <3>2 DEF Taken
  <2> QED BY <2>1, <2>2
<1>10. InOrder'
  BY <1>1, <1>2 DEF InOrder
<1>11. ASSUME NEW c \in Clients
       PROVE  Seen(c)' /\ Followed(c)' /\ Queued(c)'
  <2>1. Seen(c)' /\ Followed(c)'
    BY <1>1, <1>2, <1>5 DEF Seen, Followed
  <2>2. Queued(c)'
    BY <1>1, <1>2, <1>4, <1>5 DEF Queued
  <2> QED BY <2>1, <2>2
<1> QED BY <1>7, <1>8, <1>9, <1>10, <1>11 DEF NothingMissed

LEMMA StoreKeeps ==
  ASSUME NothingMissed, NEW h \in Handlers, Store(h), mishaps' = {}, SinkBounds
  PROVE  NothingMissed'
<1>1. /\ record[h] # 0 /\ ~stored[h] /\ stored' = [stored EXCEPT ![h] = TRUE]
      /\ ring' = Pushed(record[h]) /\ Len(ring) # Capacity
      /\ ring # <<>> => ~(EndOf(ring) > record[h])
      /\ UNCHANGED <<seq, record, stream, channel, last, shown>>
  BY DEF Store, If
<1>2. Typed /\ Numbered /\ Kept /\ InOrder /\ \A c \in Clients : Seen(c) /\ Followed(c) /\ Queued(c)
  BY DEF NothingMissed
<1> DEFINE id == record[h]
<1>3. id \in Nat /\ id # 0 /\ id <= seq /\ seq \in Nat /\ ~InRing(id)
  BY <1>1, <1>2 DEF Typed, Numbered
<1>4. ring' = Append(ring, id) /\ Len(ring) < Capacity /\ ring \in Seq(Nat)
  BY <1>1, <1>2, SinkBounds DEF Pushed, Typed
<1>5. ASSUME NEW i \in DOMAIN ring
      PROVE  ring[i] < id /\ ring[i] \in Nat
  <2>1. ring # <<>> /\ ring[i] \in Nat
    BY <1>4
  <2>2. /\ Len(ring) \in DOMAIN ring /\ EndOf(ring) = ring[Len(ring)]
        /\ ring[i] <= EndOf(ring) /\ EndOf(ring) \in Nat
    BY <1>2, <1>4, <2>1, Newest DEF EndOf
  <2>3. EndOf(ring) # id
    BY <1>3, <2>2 DEF InRing
  <2> QED BY <1>1, <1>3, <2>1, <2>2, <2>3
<1> HIDE DEF id
<1>6. /\ DOMAIN ring' = 1 .. Len(ring) + 1 /\ Len(ring) \in Nat /\ DOMAIN ring = 1 .. Len(ring)
      /\ \A i \in DOMAIN ring : i \in DOMAIN ring' /\ ring'[i] = ring[i] /\ i <= Len(ring)
      /\ ring'[Len(ring) + 1] = id
      /\ \A i \in DOMAIN ring' : i \in DOMAIN ring \/ i = Len(ring) + 1
      /\ ring' \in Seq(Nat) /\ Len(ring') = Len(ring) + 1
  BY <1>3, <1>4, Appended
<1>7. \A j : InRing(j)' <=> InRing(j) \/ j = id
  BY <1>6 DEF InRing
<1>8. /\ stored'[h] /\ record'[h] = id /\ record[h] = id
      /\ \A g \in Handlers : g # h => (stored'[g] <=> stored[g]) /\ record'[g] # id
  BY <1>1, <1>2, <1>3 DEF Typed, Numbered, id
<1>9. /\ \A j : Pending(j)' <=> Pending(j) \/ j = id
      /\ \A j : Taken(j) /\ j # id => Taken(j)'
      /\ \A c \in Clients : \A j : InChannel(c, j)' <=> InChannel(c, j)
  BY <1>1, <1>8 DEF Pending, Taken, InChannel
<1>10. Typed'
  <2>1. Len(ring') <= Capacity
    BY <1>4, <1>6, SinkBounds
  <2> QED BY <1>1, <1>2, <1>6, <2>1 DEF Typed
<1>11. Numbered'
  <2>1. \A g \in Handlers : stored'[g] => record'[g] # 0 /\ InRing(record[g])'
    BY <1>1, <1>2, <1>3, <1>7, <1>8 DEF Numbered
  <2>2. \A g \in Handlers : record'[g] # 0 /\ ~stored'[g] => ~InRing(record[g])'
    BY <1>1, <1>2, <1>7, <1>8 DEF Numbered
  <2>3. \A i \in DOMAIN ring' : ring'[i] <= seq'
    BY <1>1, <1>2, <1>3, <1>6 DEF Numbered
  <2> QED BY <1>1, <1>2, <2>1, <2>2, <2>3 DEF Numbered, InRing
<1>12. Kept'
  BY <1>1, <1>2, <1>7, <1>9 DEF Kept
<1>13. InOrder'
  <2> SUFFICES ASSUME NEW i \in DOMAIN ring', NEW j \in DOMAIN ring', i < j
               PROVE  ring'[i] < ring'[j]
    BY DEF InOrder
  <2>1. i \in DOMAIN ring
    BY <1>6
  <2>2. CASE j \in DOMAIN ring
    BY <1>2, <1>6, <2>1, <2>2 DEF InOrder
  <2>3. CASE j = Len(ring) + 1
    BY <1>5, <1>6, <2>1, <2>3
  <2> QED BY <1>6, <2>2, <2>3
<1>14. ASSUME NEW c \in Clients
       PROVE  Seen(c)' /\ Followed(c)' /\ Queued(c)'
  <2>1. Seen(c) /\ Followed(c) /\ Queued(c) /\ last[c] \in Nat
    BY <1>2 DEF Typed
  <2>2. last[c] < id
    BY <1>3, <1>5, <2>1 DEF Queued, InRing
  <2>3. Seen(c)'
    <3> SUFFICES ASSUME NEW i \in DOMAIN ring', ring'[i] <= last[c]
                 PROVE  ring'[i] \in shown[c]
      BY <1>1 DEF Seen
    <3>1. i \in DOMAIN ring
      BY <1>3, <1>6, <2>1, <2>2
    <3> QED BY <1>6, <2>1, <3>1 DEF Seen
  <2>4. Followed(c)'
    <3>1. ASSUME stream[c] # "away", NEW i \in DOMAIN ring', NEW j, j = ring'[i]
          PROVE  j \in shown[c] \/ InChannel(c, j) \/ Pending(j) \/ j = id
      <4>1. CASE i \in DOMAIN ring
        BY <1>6, <2>1, <3>1, <4>1 DEF Followed
      <4>2. CASE i = Len(ring) + 1
        BY <1>6, <3>1, <4>2
      <4> QED BY <1>6, <4>1, <4>2
    <3>2. ASSUME stream[c] # "away", NEW i \in DOMAIN ring', NEW j, j = ring'[i]
          PROVE  j \in shown'[c] \/ InChannel(c, j)' \/ Pending(j)'
      BY <1>1, <1>9, <3>1, <3>2
    <3> QED BY <1>1, <3>2 DEF Followed, InChannel, Pending
  <2>5. Queued(c)'
    <3>1. \A i \in DOMAIN channel[c] : channel[c][i] < id
      BY <1>5, <2>1 DEF Queued, InRing
    <3>2. \A i \in DOMAIN channel[c], g \in Handlers : stored'[g] => channel[c][i] < record[g]
      BY <1>8, <2>1, <3>1 DEF Queued
    <3> QED BY <1>1, <1>7, <2>1, <3>2 DEF Queued
  <2> QED BY <2>3, <2>4, <2>5
<1> QED BY <1>10, <1>11, <1>12, <1>13, <1>14 DEF NothingMissed

(* No other record is in the ring and not fanned out, no live stream is    *)
(* out of room, and none lies between replay and subscription.             *)
LEMMA FanOutKeeps ==
  ASSUME NothingMissed, NEW h \in Handlers, FanOut(h), mishaps' = {}
  PROVE  NothingMissed'
<1>1. /\ stored[h]
      /\ channel' = [c \in Clients |->
           IF stream[c] = "live" /\ Room(c) THEN Append(channel[c], record[h]) ELSE channel[c]]
      /\ record' = [record EXCEPT ![h] = 0] /\ stored' = [stored EXCEPT ![h] = FALSE]
      /\ UNCHANGED <<seq, ring, stream, last, shown>>
  BY DEF FanOut
<1>2. /\ \A c \in Clients : stream[c] = "live" => Room(c)
      /\ \A c \in Clients : stream[c] # "replayed"
      /\ \A g \in Handlers : g # h => ~stored[g]
  BY DEF FanOut, If
<1>3. Typed /\ Numbered /\ Kept /\ InOrder /\ \A c \in Clients : Seen(c) /\ Followed(c) /\ Queued(c)
  BY DEF NothingMissed
<1> DEFINE id == record[h]
<1>4. id \in Nat /\ id # 0 /\ InRing(id) /\ seq \in Nat
  BY <1>1, <1>3 DEF Typed, Numbered
<1>5. \A j : Pending(j) => j = id
  BY <1>2 DEF Pending
<1> HIDE DEF id
<1>6. /\ record'[h] = 0 /\ record[h] = id
      /\ \A g \in Handlers : ~stored'[g] /\ (g # h => record'[g] = record[g])
  BY <1>1, <1>2, <1>3 DEF Typed, id
<1>7. ASSUME NEW c \in Clients
      PROVE  channel'[c] = IF stream[c] = "live" THEN Append(channel[c], id) ELSE channel[c]
  BY <1>1, <1>2, <1>6
<1>8. /\ \A j : InRing(j)' <=> InRing(j)
      /\ \A j : ~Pending(j)'
      /\ \A j : Taken(j) => Taken(j)'
  <2>1. \A j : Taken(j) => Taken(j)'
    BY <1>1, <1>6 DEF Taken
  <2> QED BY <1>1, <1>6, <2>1 DEF InRing, Pending
<1>9. Typed'
  <2>1. \A c \in Clients : channel[c] \in Seq(Nat) /\ Append(channel[c], id) \in Seq(Nat)
    BY <1>3, <1>4, Appended DEF Typed
  <2>2. channel' \in [Clients -> Seq(Nat)]
    BY <1>1, <1>6, <2>1
  <2> QED BY <1>1, <1>3, <2>2 DEF Typed
<1>10. Numbered'
  <2>1. \A g \in Handlers : record'[g] <= seq'
    BY <1>1, <1>3, <1>4, <1>6 DEF Numbered
  <2>2. \A f, g \in Handlers : record'[f] = record'[g] /\ record'[f] # 0 => f = g
    BY <1>3, <1>6 DEF Numbered
  <2>3. \A g \in Handlers : record'[g] # 0 /\ ~stored'[g] => ~InRing(record'[g])
    BY <1>2, <1>3, <1>6 DEF Numbered
  <2>4. \A i \in DOMAIN ring' : ring'[i] <= seq'
    BY <1>1, <1>3 DEF Numbered
  <2> QED BY <1>1, <1>6, <2>1, <2>2, <2>3, <2>4 DEF Numbered, InRing
<1>11. Kept' /\ InOrder'
  BY <1>1, <1>3, <1>8 DEF Kept, InOrder
<1>12. ASSUME NEW c \in Clients
       PROVE  Seen(c)' /\ Followed(c)' /\ Queued(c)'
  <2>1. Seen(c) /\ Followed(c) /\ Queued(c) /\ channel[c] \in Seq(Nat)
        /\ stream[c] \in {"away", "replayed", "live"}
    BY <1>3 DEF Typed
  <2>2. Seen(c)'
    BY <1>1, <2>1 DEF Seen
  <2>3. CASE stream[c] # "live"
    <3>1. stream[c] = "away" /\ channel'[c] = channel[c] /\ channel[c] = <<>>
      BY <1>2, <1>7, <2>1, <2>3 DEF Queued
    <3>2. Followed(c)'
      BY <1>1, <3>1 DEF Followed
    <3>3. Queued(c)'
      BY <1>1, <1>6, <1>8, <2>1, <3>1, Empty DEF Queued
    <3> QED BY <2>2, <3>2, <3>3
  <2>4. CASE stream[c] = "live"
    <3> DEFINE q == channel[c]
               r == channel'[c]
    <3>1. /\ r = Append(q, id) /\ q \in Seq(Nat)
      BY <1>7, <2>1, <2>4
    <3>2. /\ DOMAIN r = 1 .. Len(q) + 1 /\ Len(q) \in Nat /\ DOMAIN q = 1 .. Len(q)
          /\ \A i \in DOMAIN q : i \in DOMAIN r /\ r[i] = q[i] /\ i <= Len(q)
          /\ r[Len(q) + 1] = id
          /\ \A i \in DOMAIN r : i \in DOMAIN q \/ i = Len(q) + 1
      BY <1>4, <3>1, Appended
    <3>3. /\ \A i \in DOMAIN q : InRing(q[i]) /\ q[i] < id
          /\ \A i, j \in DOMAIN q : i < j => q[i] < q[j]
      BY <1>1, <1>6, <2>1 DEF Queued
    <3>4. \A j : InChannel(c, j) \/ j = id => \E i \in DOMAIN r : r[i] = j
      BY <3>2 DEF InChannel
    <3> HIDE DEF q, r
    <3>5. \A j : InChannel(c, j) \/ j = id => InChannel(c, j)'
      BY <3>4 DEF InChannel, r
    <3>6. Followed(c)'
      <4>1. ASSUME NEW i \in DOMAIN ring, NEW j, j = ring[i]
            PROVE  j \in shown[c] \/ InChannel(c, j)'
        BY <1>5, <2>1, <2>4, <3>5, <4>1 DEF Followed
      <4> QED BY <1>1, <4>1 DEF Followed, InChannel
    <3>7. \A i, j \in DOMAIN r : i < j => r[i] < r[j]
      <4> SUFFICES ASSUME NEW i \in DOMAIN r, NEW j \in DOMAIN r, i < j
                   PROVE  r[i] < r[j]
        OBVIOUS
      <4>1. i \in DOMAIN q
        BY <3>2
      <4> QED BY <3>2, <3>3, <4>1
    <3>8. \A i \in DOMAIN r : InRing(r[i])
      BY <1>4, <3>2, <3>3
    <3>9. Queued(c)'
      BY <1>1, <1>6, <2>1, <2>4, <3>7, <3>8 DEF Queued, InRing, r
    <3> QED BY <2>2, <3>6, <3>9
  <2> QED BY <2>3, <2>4
<1> QED BY <1>9, <1>10, <1>11, <1>12 DEF NothingMissed

-----------------------------------------------------------------------------
(* Clients that follow *)

(* What does not touch the records needs a look at one client only.        *)
LEMMA ClientKeeps ==
  ASSUME NothingMissed, NEW c \in Clients, UNCHANGED <<seq, record, stored, ring>>,
         stream' \in [Clients -> {"away", "replayed", "live"}],
         channel' \in [Clients -> Seq(Nat)],
         last' \in [Clients -> Nat], shown' \in [Clients -> SUBSET Nat],
         \A d \in Clients : d # c =>
            /\ stream'[d] = stream[d] /\ channel'[d] = channel[d]
            /\ last'[d] = last[d] /\ shown'[d] = shown[d],
         Seen(c)', Followed(c)', Queued(c)'
  PROVE  NothingMissed'
<1>1. Typed /\ Numbered /\ Kept /\ InOrder /\ \A d \in Clients : Seen(d) /\ Followed(d) /\ Queued(d)
  BY DEF NothingMissed
<1>2. Typed' /\ InOrder'
  BY <1>1 DEF Typed, InOrder
<1>3. \A j : (InRing(j)' <=> InRing(j)) /\ (Taken(j)' <=> Taken(j)) /\ (Pending(j)' <=> Pending(j))
  BY DEF InRing, Taken, Pending
<1>4. Numbered'
  BY <1>1 DEF Numbered, InRing
<1>5. Kept'
  BY <1>1, <1>3 DEF Kept
<1>6. ASSUME NEW d \in Clients, d # c
      PROVE  Seen(d)' /\ Followed(d)' /\ Queued(d)'
  <2>1. /\ stream'[d] = stream[d] /\ channel'[d] = channel[d]
        /\ last'[d] = last[d] /\ shown'[d] = shown[d]
    BY <1>6
  <2>2. Seen(d)'
    BY <1>1, <2>1 DEF Seen
  <2>3. Followed(d)'
    <3>1. \A j : InChannel(d, j)' <=> InChannel(d, j)
      BY <2>1 DEF InChannel
    <3>2. ASSUME stream[d] # "away", NEW i \in DOMAIN ring, NEW j, j = ring[i]
          PROVE  j \in shown[d] \/ InChannel(d, j) \/ Pending(j)
      BY <1>1, <3>2 DEF Followed
    <3>3. ASSUME stream[d] # "away", NEW i \in DOMAIN ring, NEW j, j = ring[i]
          PROVE  j \in shown[d] \/ InChannel(d, j)' \/ Pending(j)'
      BY <1>3, <3>1, <3>2, <3>3
    <3>4. ASSUME stream'[d] # "away", NEW i \in DOMAIN ring
          PROVE  ring[i] \in shown'[d] \/ InChannel(d, ring[i])' \/ Pending(ring[i])'
      <4>1. PICK j : j = ring[i]
        OBVIOUS
      <4>2. j \in shown'[d] \/ InChannel(d, j)' \/ Pending(j)'
        BY <2>1, <3>3, <3>4, <4>1
      <4> QED BY <4>1, <4>2 DEF InChannel, Pending
    <3> QED BY <3>4 DEF Followed
  <2>4. Queued(d)'
    BY <1>1, <2>1 DEF Queued, InRing
  <2> QED BY <2>2, <2>3, <2>4
<1> QED BY <1>2, <1>4, <1>5, <1>6 DEF NothingMissed

LEMMA ReplayKeeps ==
  ASSUME NothingMissed, NEW c \in Clients, Replay(c), mishaps' = {}
  PROVE  NothingMissed'
<1> DEFINE replay == Beyond(last[c])
           next == IF replay = {} THEN last[c]
                   ELSE ring[CHOOSE i \in replay : \A j \in replay : j <= i]
<1>1. /\ stream[c] = "away" /\ stream' = [stream EXCEPT ![c] = "replayed"]
      /\ shown' = [shown EXCEPT ![c] = @ \cup {ring[i] : i \in replay}]
      /\ last' = [last EXCEPT ![c] = next]
      /\ UNCHANGED <<seq, record, stored, ring, channel>>
  <2>1. Snapshot(last[c]) = replay
    BY DEF Replay, If
  <2> QED BY <2>1 DEF Replay
<1>2. Typed /\ InOrder /\ Seen(c) /\ Queued(c)
  BY DEF NothingMissed
<1>3. next \in Nat /\ (next = 0 \/ InRing(next))
  <2>1. CASE replay = {}
    BY <1>2, <2>1 DEF Typed, Queued
  <2>2. CASE replay # {}
    <3>1. PICK i \in DOMAIN ring : ring[i] > last[c]
      BY <2>2 DEF Beyond
    <3>2. ring # <<>> /\ last[c] \in Nat /\ ring[i] \in Nat
      BY <1>2, <3>1, Empty DEF Typed
    <3>3. /\ Len(ring) \in DOMAIN ring /\ ring[i] <= ring[Len(ring)]
          /\ ring[Len(ring)] \in Nat /\ \A j \in DOMAIN ring : j <= Len(ring)
      BY <1>2, <3>2, Newest DEF Typed
    <3>4. Len(ring) \in replay /\ \A j \in replay : j <= Len(ring)
      BY <3>1, <3>2, <3>3 DEF Beyond
    <3>5. (CHOOSE i_1 \in replay : \A j \in replay : j <= i_1) \in replay
      BY <3>4
    <3>6. \A k \in replay : k \in DOMAIN ring
      BY DEF Beyond
    <3> HIDE DEF replay
    <3>7. PICK k \in DOMAIN ring : next = ring[k]
      BY <2>2, <3>5, <3>6
    <3> HIDE DEF next
    <3>8. ring[k] \in Nat
      BY <1>2 DEF Typed
    <3> QED BY <3>7, <3>8 DEF InRing
  <2> QED BY <2>1, <2>2
<1>4. \A i \in DOMAIN ring : ring[i] \in shown[c] \cup {ring[j] : j \in replay}
  <2> SUFFICES ASSUME NEW i \in DOMAIN ring, i \notin replay
               PROVE  ring[i] \in shown[c]
    OBVIOUS
  <2>1. ring[i] \in Nat /\ last[c] \in Nat
    BY <1>2 DEF Typed
  <2>2. ring[i] <= last[c]
    BY <2>1 DEF Beyond
  <2> QED BY <1>2, <2>2 DEF Seen
<1>5. {ring[i] : i \in replay} \subseteq Nat
  BY <1>2 DEF Typed, Beyond
<1> HIDE DEF replay, next
<1>6. /\ shown'[c] = shown[c] \cup {ring[i] : i \in replay} /\ last'[c] = next
      /\ stream'[c] = "replayed" /\ channel'[c] = channel[c]
  BY <1>1, <1>2 DEF Typed
<1>7. /\ stream' \in [Clients -> {"away", "replayed", "live"}]
      /\ channel' \in [Clients -> Seq(Nat)] /\ last' \in [Clients -> Nat]
  BY <1>1, <1>2, <1>3 DEF Typed
<1>8. shown' \in [Clients -> SUBSET Nat]
  BY <1>1, <1>2, <1>5 DEF Typed
<1>9. \A d \in Clients : d # c =>
         /\ stream'[d] = stream[d] /\ channel'[d] = channel[d]
         /\ last'[d] = last[d] /\ shown'[d] = shown[d]
  BY <1>1, <1>2 DEF Typed
<1>10. Seen(c)' /\ Followed(c)'
  BY <1>1, <1>4, <1>6 DEF Seen, Followed
<1>11. Queued(c)'
  BY <1>1, <1>2, <1>3, <1>6 DEF Queued, InRing
<1> QED BY <1>1, <1>7, <1>8, <1>9, <1>10, <1>11, ClientKeeps

LEMMA SubscribeKeeps ==
  ASSUME NothingMissed, NEW c \in Clients, Subscribe(c) \/ Disconnect(c)
  PROVE  NothingMissed'
<1>1. Typed /\ Seen(c) /\ Followed(c) /\ Queued(c)
  BY DEF NothingMissed
<1>2. UNCHANGED <<seq, record, stored, ring, last, shown>>
  BY DEF Subscribe, Disconnect
<1>3. /\ stream' \in [Clients -> {"away", "replayed", "live"}]
      /\ channel' \in [Clients -> Seq(Nat)]
  BY <1>1, Empty DEF Typed, Subscribe, Disconnect
<1>4. \A d \in Clients : d # c => stream'[d] = stream[d] /\ channel'[d] = channel[d]
  BY <1>1 DEF Typed, Subscribe, Disconnect
<1>5. \/ stream[c] = "replayed" /\ stream'[c] = "live" /\ channel'[c] = channel[c]
      \/ stream'[c] = "away" /\ channel'[c] = <<>>
  BY <1>1 DEF Typed, Subscribe, Disconnect
<1>6. Seen(c)'
  BY <1>1, <1>2 DEF Seen
<1>7. Followed(c)'
  BY <1>1, <1>2, <1>5 DEF Followed, InChannel, Pending
<1>8. Queued(c)'
  BY <1>1, <1>2, <1>5, Empty DEF Queued, InRing
<1>9. last' \in [Clients -> Nat] /\ shown' \in [Clients -> SUBSET Nat]
  BY <1>1, <1>2 DEF Typed
<1> QED BY <1>2, <1>3, <1>4, <1>6, <1>7, <1>8, <1>9, ClientKeeps

LEMMA DeliverKeeps ==
  ASSUME NothingMissed, NEW c \in Clients, Deliver(c)
  PROVE  NothingMissed'
<1> DEFINE q == channel[c]
           id == Head(q)
<1>1. Typed /\ Seen(c) /\ Followed(c) /\ Queued(c) /\ Numbered /\ InOrder
  BY DEF NothingMissed
<1>2. /\ stream[c] = "live" /\ q # <<>> /\ q \in Seq(Nat)
      /\ channel' = [channel EXCEPT ![c] = Tail(q)]
      /\ shown' = [shown EXCEPT ![c] = @ \cup {id}] /\ last' = [last EXCEPT ![c] = id]
      /\ UNCHANGED <<seq, record, stored, ring, stream>>
  BY <1>1 DEF Deliver, Typed
<1>3. /\ Tail(q) \in Seq(Nat) /\ id \in Nat /\ 1 \in DOMAIN q /\ id = q[1]
      /\ \A i \in DOMAIN Tail(q) : i + 1 \in DOMAIN q /\ Tail(q)[i] = q[i + 1] /\ i \in Nat
      /\ \A i \in DOMAIN q : i \in Nat /\ (i # 1 => i - 1 \in DOMAIN Tail(q) /\ Tail(q)[i - 1] = q[i])
  BY <1>2, Dropped
<1>4. \A i \in DOMAIN q : id <= q[i] /\ q[i] \in Nat
  <2> SUFFICES ASSUME NEW i \in DOMAIN q
               PROVE  id <= q[i] /\ q[i] \in Nat
    OBVIOUS
  <2>1. q[i] \in Nat /\ i >= 1 /\ i \in Nat
    BY <1>2
  <2>2. i > 1 => q[1] < q[i]
    BY <1>1, <1>3, <2>1 DEF Queued
  <2> QED BY <1>3, <2>1, <2>2
<1>5. InRing(id)
  BY <1>1, <1>3 DEF Queued
<1>6. \A h \in Handlers : stored[h] => id < record[h] /\ record[h] \in Nat
  BY <1>1, <1>3 DEF Queued, Typed
<1> HIDE DEF id
<1>7. /\ channel'[c] = Tail(q) /\ shown'[c] = shown[c] \cup {id} /\ last'[c] = id
      /\ stream'[c] = stream[c]
  BY <1>1, <1>2 DEF Typed
<1>8. \A j : InChannel(c, j) /\ j # id => InChannel(c, j)'
  <2> SUFFICES ASSUME NEW i \in DOMAIN q, q[i] # id
               PROVE  \E k \in DOMAIN channel'[c] : channel'[c][k] = q[i]
    BY DEF InChannel
  <2>1. i # 1
    BY <1>3
  <2> QED BY <1>3, <1>7, <2>1
<1>9. Seen(c)'
  <2> SUFFICES ASSUME NEW i \in DOMAIN ring, ring[i] <= id
               PROVE  ring[i] \in shown[c] \cup {id}
    BY <1>2, <1>7 DEF Seen
  <2>1. ring[i] \in shown[c] \/ InChannel(c, ring[i]) \/ Pending(ring[i])
    BY <1>1, <1>2 DEF Followed
  <2>2. ring[i] \in Nat
    BY <1>1 DEF Typed
  <2>3. InChannel(c, ring[i]) => ring[i] = id
    BY <1>3, <1>4, <2>2 DEF InChannel
  <2>4. ~Pending(ring[i])
    BY <1>3, <1>6, <2>2 DEF Pending
  <2> QED BY <2>1, <2>3, <2>4
<1>10. Followed(c)'
  <2>1. ASSUME NEW i \in DOMAIN ring, NEW j, j = ring[i]
        PROVE  j \in shown[c] \cup {id} \/ InChannel(c, j)' \/ Pending(j)
    BY <1>1, <1>2, <1>8, <2>1 DEF Followed
  <2> QED BY <1>2, <1>7, <2>1 DEF Followed, InChannel, Pending
<1>11. Queued(c)'
  <2>1. ASSUME NEW i \in DOMAIN Tail(q)
        PROVE  InRing(Tail(q)[i]) /\ \A h \in Handlers : stored[h] => Tail(q)[i] < record[h]
    <3>1. i + 1 \in DOMAIN q /\ Tail(q)[i] = q[i + 1]
      BY <1>3
    <3>2. InRing(q[i + 1]) /\ \A h \in Handlers : stored[h] => q[i + 1] < record[h]
      BY <1>1, <3>1 DEF Queued
    <3> QED BY <3>1, <3>2
  <2>2. ASSUME NEW i \in DOMAIN Tail(q), NEW j \in DOMAIN Tail(q), i < j
        PROVE  Tail(q)[i] < Tail(q)[j]
    <3>1. /\ i + 1 \in DOMAIN q /\ Tail(q)[i] = q[i + 1] /\ i \in Nat
          /\ j + 1 \in DOMAIN q /\ Tail(q)[j] = q[j + 1] /\ j \in Nat
      BY <1>3
    <3>2. i + 1 < j + 1
      BY <2>2, <3>1
    <3>3. q[i + 1] < q[j + 1]
      BY <1>1, <3>1, <3>2 DEF Queued
    <3> QED BY <3>1, <3>3
  <2> HIDE DEF q
  <2> QED BY <1>2, <1>5, <1>7, <2>1, <2>2 DEF Queued, InRing
<1>12. /\ stream' \in [Clients -> {"away", "replayed", "live"}]
       /\ channel' \in [Clients -> Seq(Nat)]
       /\ last' \in [Clients -> Nat] /\ shown' \in [Clients -> SUBSET Nat]
  BY <1>1, <1>2, <1>3 DEF Typed
<1>13. \A d \in Clients : d # c =>
         /\ stream'[d] = stream[d] /\ channel'[d] = channel[d]
         /\ last'[d] = last[d] /\ shown'[d] = shown[d]
  BY <1>1, <1>2 DEF Typed
<1> QED BY <1>2, <1>9, <1>10, <1>11, <1>12, <1>13, ClientKeeps

-----------------------------------------------------------------------------
(* The theorem *)

LEMMA SinkStarts == Init => SinkInv
<1> SUFFICES ASSUME Init PROVE NothingMissed
  BY DEF SinkInv
<1>1. Typed
  BY SinkBounds, Empty DEF Init, Typed
<1>2. Numbered /\ Kept /\ InOrder
  BY Empty DEF Init, Numbered, Kept, InOrder
<1>3. \A c \in Clients : Seen(c) /\ Followed(c) /\ Queued(c)
  BY Empty DEF Init, Seen, Followed, Queued
<1> QED BY <1>1, <1>2, <1>3 DEF NothingMissed

LEMMA SinkStep == SinkInv /\ [Next]_vars => SinkInv'
<1> SUFFICES ASSUME SinkInv, [Next]_vars, mishaps' = {}
             PROVE  NothingMissed'
  BY DEF SinkInv
<1>1. CASE UNCHANGED vars
  <2>1. NothingMissed /\ UNCHANGED vars
    BY <1>1 DEF SinkInv, vars
  <2> QED BY <2>1 DEF vars, NothingMissed, Typed, Numbered, Kept, InOrder, Seen, Followed,
             Queued, InRing, InChannel, Taken, Pending
<1>2. ASSUME NEW h \in Handlers, Log(h)
      PROVE  NothingMissed'
  <2>1. NothingMissed
    BY <1>2 DEF SinkInv, Log, TakeID, Store, FanOut
  <2> QED BY <1>2, <2>1, SinkBounds, TakeIDKeeps, StoreKeeps, FanOutKeeps DEF Log
<1>3. ASSUME NEW c \in Clients, Follow(c)
      PROVE  NothingMissed'
  <2>1. NothingMissed
    BY <1>3 DEF SinkInv, Follow, Replay, Subscribe, Deliver, Disconnect
  <2> QED BY <1>3, <2>1, ReplayKeeps, SubscribeKeeps, DeliverKeeps DEF Follow
<1> QED BY <1>1, <1>2, <1>3 DEF Next

(* A live client that has drained its channel while nobody is recording    *)
(* has received every record, over all its connections, unless one was     *)
(* evicted from the ring, older than what a replay shows, dropped because  *)
(* the client was slow, fanned out between a replay and the subscription   *)
(* behind it, or recorded out of order (handleLogsStream, LogSink.Record). *)
THEOREM NoRecordIsMissed == Spec => []TailKept
<1>1. SinkInv => TailKept
  <2> SUFFICES ASSUME NothingMissed, NEW c \in Clients, AtRest(c), NEW id \in 1 .. seq
               PROVE  id \in shown[c]
    BY DEF SinkInv, TailKept, Complete
  <2>1. Typed /\ Numbered /\ Kept /\ Followed(c)
    BY DEF NothingMissed
  <2>2. id \in Nat /\ id # 0
    BY <2>1 DEF Typed
  <2>3. ~Taken(id) /\ ~Pending(id) /\ ~InChannel(c, id)
    BY <2>2, Empty DEF AtRest, Taken, Pending, InChannel
  <2>4. InRing(id)
    BY <2>1, <2>3 DEF Kept
  <2> QED BY <2>1, <2>3, <2>4 DEF InRing, Followed, AtRest
<1> QED BY <1>1, SinkStarts, SinkStep, PTL DEF Spec

=============================================================================
