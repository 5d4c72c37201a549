------------------------------ MODULE LogSink ------------------------------
(***************************************************************************)
(* The capture of log records for the dashboard (internal/server): handlers *)
(* in every goroutine Record into a ring and fan out to the subscribed     *)
(* streams; a stream (handleLogsStream) replays the ring beyond the        *)
(* client's Last-Event-ID and then follows its channel.  Filters are left  *)
(* out.  RequestRing has the same shape without the IDs.                   *)
(***************************************************************************)
EXTENDS Naturals, Sequences, FiniteSets

CONSTANTS
    Handlers,    \* goroutines that log
    Clients,     \* browsers that follow the stream
    Capacity,    \* of the ring
    Buffer,      \* of a subscription's channel
    ReplayMax,   \* records a stream replays when it opens
    MaxRecords,  \* bound: records in all
    MaxConnects  \* bound: connections of a client

ASSUME SinkBounds ==
    /\ Capacity \in Nat \ {0} /\ Buffer \in Nat /\ ReplayMax \in Nat \ {0}
    /\ MaxRecords \in Nat

VARIABLES
    seq,       \* LogSink.seq
    record,    \* record[h]: the ID handler h is recording, 0 between records
    stored,    \* stored[h]: it is in the ring
    ring,      \* the IDs in the ring, oldest first
    stream,    \* stream[c]: "away", "replayed" or "live"
    channel,   \* channel[c]: the subscription's buffer
    last,      \* last[c]: the client's last event ID
    shown,     \* shown[c]: the records the client has received
    connects,
    mishaps    \* history: what may have cost a client a record

vars == <<seq, record, stored, ring, stream, channel, last, shown, connects, mishaps>>

IDs == 1 .. MaxRecords
Mishaps == {"evicted", "truncated", "slow", "gap", "reordered"}

TypeOK ==
    /\ seq \in 0 .. MaxRecords
    /\ record \in [Handlers -> 0 .. MaxRecords]
    /\ stored \in [Handlers -> BOOLEAN]
    /\ ring \in Seq(IDs) /\ Len(ring) <= Capacity
    /\ stream \in [Clients -> {"away", "replayed", "live"}]
    /\ \A c \in Clients : channel[c] \in Seq(IDs) /\ Len(channel[c]) <= Buffer
    /\ last \in [Clients -> 0 .. MaxRecords]
    /\ shown \in [Clients -> SUBSET IDs]
    /\ connects \in [Clients -> 0 .. MaxConnects]
    /\ mishaps \subseteq Mishaps

Init ==
    /\ seq = 0
    /\ record = [h \in Handlers |-> 0]
    /\ stored = [h \in Handlers |-> FALSE]
    /\ ring = <<>>
    /\ stream = [c \in Clients |-> "away"]
    /\ channel = [c \in Clients |-> <<>>]
    /\ last = [c \in Clients |-> 0]
    /\ shown = [c \in Clients |-> {}]
    /\ connects = [c \in Clients |-> 0]
    /\ mishaps = {}

If(b, m) == IF b THEN {m} ELSE {}
EndOf(s) == s[Len(s)]

-----------------------------------------------------------------------------
(* Record: seq.Add(1), then the ring under s.mu, then the fan-out under      *)
(* s.subsMu; other handlers may come between any two of them.               *)

TakeID(h) ==
    /\ record[h] = 0
    /\ seq < MaxRecords
    /\ seq' = seq + 1
    /\ record' = [record EXCEPT ![h] = seq + 1]
    /\ UNCHANGED <<stored, ring, stream, channel, last, shown, connects, mishaps>>

Pushed(id) == IF Len(ring) < Capacity THEN Append(ring, id)
              ELSE Append(Tail(ring), id)

Store(h) ==
    /\ record[h] # 0 /\ ~stored[h]
    /\ ring' = Pushed(record[h])
    /\ stored' = [stored EXCEPT ![h] = TRUE]
    /\ mishaps' = mishaps \cup If(Len(ring) = Capacity, "evicted")
                          \cup If(ring # <<>> /\ EndOf(ring) > record[h], "reordered")
    /\ UNCHANGED <<seq, record, stream, channel, last, shown, connects>>

Room(c) == Len(channel[c]) < Buffer

(* Mutant: the send waits for a slow subscriber.                            *)
FanOutBlocking(h) ==
    /\ stored[h]
    /\ \A c \in Clients : stream[c] = "live" => Room(c)
    /\ channel' = [c \in Clients |->
           IF stream[c] = "live" THEN Append(channel[c], record[h]) ELSE channel[c]]
    /\ mishaps' = mishaps \cup If(\E c \in Clients : stream[c] = "replayed", "gap")
                          \cup If(\E g \in Handlers \ {h} : stored[g], "reordered")
    /\ record' = [record EXCEPT ![h] = 0]
    /\ stored' = [stored EXCEPT ![h] = FALSE]
    /\ UNCHANGED <<seq, ring, stream, last, shown, connects>>

FanOut(h) ==
    /\ stored[h]
    /\ channel' = [c \in Clients |->
           IF stream[c] = "live" /\ Room(c) THEN Append(channel[c], record[h])
           ELSE channel[c]]
    /\ mishaps' = mishaps
           \cup If(\E c \in Clients : stream[c] = "live" /\ ~Room(c), "slow")
           \cup If(\E c \in Clients : stream[c] = "replayed", "gap")
           \cup If(\E g \in Handlers \ {h} : stored[g], "reordered")
    /\ record' = [record EXCEPT ![h] = 0]
    /\ stored' = [stored EXCEPT ![h] = FALSE]
    /\ UNCHANGED <<seq, ring, stream, last, shown, connects>>

-----------------------------------------------------------------------------
(* handleLogsStream, and the browser's EventSource behind it.               *)

(* Mutant: the replay begins behind the oldest record it should show.       *)
BeyondNext(id) == {i \in DOMAIN ring : ring[i] > id + 1}

(* Where the ring holds a record the client has not seen, by its last ID.   *)
Beyond(id) == {i \in DOMAIN ring : ring[i] > id}

(* Of these Snapshot gives the newest ReplayMax and drops the older.        *)
Snapshot(id) ==
    {i \in Beyond(id) : Cardinality({j \in Beyond(id) : j > i}) < ReplayMax}

Replay(c) ==
    /\ stream[c] = "away"
    /\ connects[c] < MaxConnects
    /\ connects' = [connects EXCEPT ![c] = @ + 1]
    /\ LET replay == Snapshot(last[c]) IN
         /\ shown' = [shown EXCEPT ![c] = @ \cup {ring[i] : i \in replay}]
         /\ last' = [last EXCEPT ![c] = IF replay = {} THEN @
                       ELSE ring[CHOOSE i \in replay : \A j \in replay : j <= i]]
         /\ mishaps' = mishaps \cup If(replay # Beyond(last[c]), "truncated")
    /\ stream' = [stream EXCEPT ![c] = "replayed"]
    /\ UNCHANGED <<seq, record, stored, ring, channel>>

Subscribe(c) ==
    /\ stream[c] = "replayed"
    /\ stream' = [stream EXCEPT ![c] = "live"]
    /\ UNCHANGED <<seq, record, stored, ring, channel, last, shown, connects, mishaps>>

Deliver(c) ==
    /\ stream[c] = "live"
    /\ channel[c] # <<>>
    /\ channel' = [channel EXCEPT ![c] = Tail(@)]
    /\ shown' = [shown EXCEPT ![c] = @ \cup {Head(channel[c])}]
    /\ last' = [last EXCEPT ![c] = Head(channel[c])]
    /\ UNCHANGED <<seq, record, stored, ring, stream, connects, mishaps>>

(* The connection breaks; cancel drops what the channel still holds.        *)
Disconnect(c) ==
    /\ stream[c] = "live"
    /\ stream' = [stream EXCEPT ![c] = "away"]
    /\ channel' = [channel EXCEPT ![c] = <<>>]
    /\ UNCHANGED <<seq, record, stored, ring, last, shown, connects, mishaps>>

Log(h) == TakeID(h) \/ Store(h) \/ FanOut(h)
Follow(c) == Replay(c) \/ Subscribe(c) \/ Deliver(c) \/ Disconnect(c)

Next == (\E h \in Handlers : Log(h)) \/ (\E c \in Clients : Follow(c))

Spec == Init /\ [][Next]_vars

(* A goroutine that logs goes on running; no stream needs to read.          *)
LogSpec == Spec /\ \A h \in Handlers : WF_vars(Store(h) \/ FanOut(h))

-----------------------------------------------------------------------------
(* No handler is recording, and client c has all its channel held.          *)
AtRest(c) ==
    /\ stream[c] = "live" /\ channel[c] = <<>>
    /\ \A h \in Handlers : record[h] = 0

Complete(c) == \A id \in 1 .. seq : id \in shown[c]

(* A client that is live and has drained its channel has received every     *)
(* record, over all its reconnects, if no record was evicted, none was      *)
(* beyond what a replay shows, none was dropped because the client was      *)
(* slow, none was fanned out between its replay and its subscription, and   *)
(* no two were recorded out of order.                                       *)
TailKept == mishaps = {} => \A c \in Clients : AtRest(c) => Complete(c)

(* Logging never waits: every record is soon over, whatever the streams do  *)
(* ("A slow consumer misses events; the server never stalls on slog").      *)
NeverStalls == \A h \in Handlers : record[h] # 0 ~> record[h] = 0

=============================================================================
