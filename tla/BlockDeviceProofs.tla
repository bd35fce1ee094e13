------------------------- MODULE BlockDeviceProofs -------------------------
(***************************************************************************)
(* The block device for any device, cache, number of callers and requests: *)
(* types; what sync mode promises; what coalescing promises to callers     *)
(* that write whole chunks; how dirty_bytes keeps its account; and, in     *)
(* either mode, that the device is the disk of BlockDeviceDisk.            *)
(***************************************************************************)
EXTENDS BlockDeviceDisk, SequenceTheorems, FiniteSetTheorems, WellFoundedInduction, TLAPS

----------------------------------------------------------------------------
(* Inductive invariants of BlockDevice.  Shapes is what the worker, the    *)
(* channel, the cache and the tasks hold in whatever mode; TypeOK follows. *)
(* InSync adds, for a device that is in sync mode all along, where the     *)
(* last data written to each block is: on the target, or on its way there  *)
(* from the one write that is being served.                                *)

----------------------------------------------------------------------------
(* Whatever the mode *)

\* Callers in the channel wait for an answer, and so does the one served.
Waiting(c) == call[c] # None /\ reply[c] = None

ChannelOK ==
    /\ call = [c \in Callers |-> call[c]]
    /\ reply = [c \in Callers |-> reply[c]]
    /\ \A c \in Callers : call[c] # None => call[c] \in Request
    /\ \A c \in Callers : reply[c] # None => call[c] # None
    /\ queue \in Seq(Callers) /\ Len(queue) <= QueueBound
    /\ \A i \in 1 .. Len(queue) : Waiting(queue[i]) /\ queue[i] # serving
    /\ \A i, j \in 1 .. Len(queue) : queue[i] = queue[j] => i = j
    /\ serving \in Callers => Waiting(serving)
    /\ writes \in Value

\* The worker serves a request of the kind its place is for.
WorkerOK ==
    /\ wpc \in WorkerPlaces
    /\ serving \in Callers \cup {"timer", "close", None}
    /\ (serving = None) <=> (wpc = "select")
    /\ wpc \in {"chunk", "joined", "joinFailed", "modify", "ack"} => serving \in Callers
    /\ \A c \in Callers : serving = c =>
          /\ wpc \in {"chunk", "joined", "joinFailed"} => call[c].op = "read"
          /\ wpc \in {"modify", "ack"} => call[c].op = "write"
          /\ wpc \in {"drain", "await"} => call[c].op \in {"write", "flush"}
          /\ call[c].op \in {"read", "write"} => ~Nothing(c)
          /\ wpc = "modify" => DOMAIN buffer = BytesOf(Start(c), Count(c))
    /\ chunk \in Nat /\ IsBuffer(buffer)
    /\ wpc = "joined" => InFlight(chunk)

\* What a buffer that is written covers: blocks of the device, all bytes of each.
WholeBlocks(data) ==
    /\ IsBuffer(data)
    /\ \A b \in DOMAIN data, e \in Byte : BlockOf(e) = BlockOf(b) => e \in DOMAIN data

BlocksIn(data) == {BlockOf(b) : b \in DOMAIN data}

DirtyOK ==
    \A l \in DOMAIN dirty : WholeBlocks(dirty[l]) /\ l * BlockSize \in DOMAIN dirty[l]

FlightOK ==
    /\ \A l \in DOMAIN flight :
          /\ flight[l] = [data |-> flight[l].data, left |-> flight[l].left,
                          status |-> flight[l].status]
          /\ WholeBlocks(flight[l].data)
          /\ flight[l].left \subseteq BlocksIn(flight[l].data)
    /\ wpc # "await" => flight = <<>>

StraysOK ==
    \A w \in strays :
        /\ w = [data |-> w.data, left |-> w.left]
        /\ WholeBlocks(w.data) /\ w.left \subseteq BlocksIn(w.data)

\* A cached or fetched chunk.
IsChunk(k, data) ==
    /\ k \in Nat /\ OnDevice(k)
    /\ DOMAIN data = BytesOf(k, ChunkBlocks)
    /\ IsBuffer(data)

CacheOK ==
    /\ \A k \in DOMAIN cache : IsChunk(k, cache[k])
    /\ prefetch # None =>
          /\ prefetch = [next |-> prefetch.next, held |-> prefetch.held, end |-> prefetch.end]
          /\ prefetch.next \in Nat
          /\ prefetch.held # None => IsChunk(prefetch.next, prefetch.held)
    /\ raWindow \in Nat

TargetOK ==
    /\ media \in [Byte -> Value] /\ stable \in [Byte -> Value]
    /\ written \in [Byte -> Value]
    /\ doubtful \subseteq Lba

Shapes ==
    /\ ChannelOK /\ WorkerOK
    /\ DirtyOK /\ FlightOK /\ StraysOK
    /\ CacheOK /\ TargetOK

----------------------------------------------------------------------------
(* In sync mode *)

AlwaysInSync == SyncAtStart = TRUE /\ SyncModes \subseteq {TRUE}

\* A buffer has the last data written to b, if that is not in doubt.
Exact(data, b) == Trusted(b) => data[b] = written[b]

Settled(b) == Exact(media, b) /\ Exact(stable, b)

\* The write that c waits for is on its way to the blocks that are left, and
\* touches nothing else.
OnItsWay(c, data, left) ==
    /\ call[c].op = "write"
    /\ DOMAIN data = BytesOf(Start(c), Count(c))
    /\ \A b \in DOMAIN data : Exact(data, b)
    /\ \A b \in Byte : BlockOf(b) \notin left => Exact(media, b)
    /\ \A b \in Byte \ DOMAIN data : Settled(b)

\* No write is coalesced: what is dirty is that of the write being served.
InSync ==
    /\ sync = TRUE
    /\ \A c \in Callers : (call[c] # None /\ call[c].op = "setSync") => call[c].value = TRUE
    /\ serving # "timer" /\ wpc # "ack"
    /\ serving = "close" => wpc = "done"
    /\ wpc # "drain" => dirty = NoEntries
    /\ wpc \notin {"drain", "await"} => \A b \in Byte : Settled(b)
    /\ wpc = "modify" => \A b \in DOMAIN buffer : Exact(buffer, b)
    /\ \A c \in Callers : serving = c =>
          /\ wpc = "drain" => /\ DOMAIN dirty = {Start(c)}
                              /\ OnItsWay(c, dirty[Start(c)], BlocksIn(dirty[Start(c)]))
          /\ wpc = "await" => /\ DOMAIN flight = {Start(c)}
                              /\ OnItsWay(c, flight[Start(c)].data, flight[Start(c)].left)
    /\ \A l \in DOMAIN flight : flight[l].status = "ok" => flight[l].left = {}
    /\ \A w \in strays : w.left \subseteq doubtful

----------------------------------------------------------------------------
(* Reads in sync mode, as long as nothing is fetched while a write is served *)

Fetching == prefetch # None /\ prefetch.held # None

ReadaheadApart == Fetching => wpc \notin {"modify", "drain", "await"}

ChunkAligned(k) == k % ChunkBlocks = 0

ChunksAligned ==
    /\ \A k \in DOMAIN cache \cup {chunk} : ChunkAligned(k)
    /\ prefetch # None => ChunkAligned(prefetch.next)

CachedExact ==
    /\ \A k \in DOMAIN cache : \A b \in DOMAIN cache[k] : Exact(cache[k], b)
    /\ Fetching => \A b \in DOMAIN prefetch.held : Exact(prefetch.held, b)

\* What read_blocks has assembled when it has come to its chunk.
Assembled ==
    \A c \in Callers : (serving = c /\ wpc \in {"chunk", "joined", "joinFailed"}) =>
        \A b \in BytesOf(Start(c), Count(c)) :
            b < chunk * BlockSize => b \in DOMAIN buffer /\ Exact(buffer, b)

ReadsOK == ChunksAligned /\ CachedExact /\ Assembled

----------------------------------------------------------------------------

USE GeometryAssumption DEF GeometryAssumption

----------------------------------------------------------------------------
(* Bytes and blocks *)

LEMMA Division ==
    ASSUME NEW a \in Nat, NEW m \in Nat \ {0}
    PROVE  /\ a \div m \in Nat
           /\ (a \div m) * m \in Nat
           /\ (a \div m) * m <= a
           /\ a < (a \div m) * m + m
           /\ a % m = a - (a \div m) * m
BY SMT

LEMMA Monotone ==
    ASSUME NEW m \in Nat, NEW i \in Int, NEW j \in Int, i <= j
    PROVE  i * m <= j * m /\ i * m \in Int /\ j * m \in Int
BY SMT

(* The blocks of a range of bytes are those the bytes are in. *)
LEMMA BytesInBlocks ==
    ASSUME NEW l \in Nat, NEW n \in Nat, NEW b \in Nat
    PROVE  b \in BytesOf(l, n) <=> BlockOf(b) \in l .. l + n - 1
<1> DEFINE q == BlockOf(b)
           B == BlockSize
<1>1. q \in Nat /\ q * B \in Nat /\ q * B <= b /\ b < q * B + B
    BY Division DEF BlockOf
<1>2. (q + 1) * B = q * B + B /\ B \in Nat \ {0}
    BY <1>1
<1>3. l * B \in Nat /\ (l + n) * B \in Nat
    BY <1>2
<1> HIDE DEF q, B
<1>4. ASSUME l <= q PROVE l * B <= b
    BY <1>1, <1>2, <1>4, Monotone
<1>5. ASSUME ~(l <= q) PROVE ~(l * B <= b)
    <2>1. (q + 1) * B <= l * B
        BY <1>1, <1>2, <1>5, Monotone
    <2> QED
        BY <1>1, <1>2, <1>3, <2>1
<1>6. ASSUME q < l + n PROVE b < (l + n) * B
    <2>1. (q + 1) * B <= (l + n) * B
        BY <1>1, <1>2, <1>6, Monotone
    <2> QED
        BY <1>1, <1>2, <1>3, <2>1
<1>7. ASSUME ~(q < l + n) PROVE ~(b < (l + n) * B)
    <2>1. (l + n) * B <= q * B
        BY <1>1, <1>2, <1>7, Monotone
    <2> QED
        BY <1>1, <1>3, <2>1
<1>8. b \in BytesOf(l, n) <=> l * B <= b /\ b < (l + n) * B
    BY <1>3 DEF BytesOf, B
<1>9. q \in l .. l + n - 1 <=> l <= q /\ q < l + n
    BY <1>1
<1>10. b \in BytesOf(l, n) <=> q \in l .. l + n - 1
    BY <1>4, <1>5, <1>6, <1>7, <1>8, <1>9, Zenon
<1> QED
    BY <1>10 DEF q

LEMMA BytesAreNat ==
    ASSUME NEW l \in Nat, NEW n \in Nat, NEW b \in BytesOf(l, n)
    PROVE  b \in Nat
<1>1. l * BlockSize \in Nat /\ (l + n) * BlockSize \in Nat
    OBVIOUS
<1> QED
    BY <1>1 DEF BytesOf

LEMMA DeviceBytes ==
    /\ Byte = BytesOf(0, TotalBlocks) /\ Byte \subseteq Nat
    /\ \A b \in Byte : BlockOf(b) \in Lba
    /\ \A b \in Nat : BlockOf(b) \in Lba => b \in Byte
<1>1. 0 * BlockSize = 0 /\ (0 + TotalBlocks) * BlockSize = TotalBytes /\ TotalBytes \in Nat
    BY DEF TotalBytes
<1>2. Byte = BytesOf(0, TotalBlocks) /\ Byte \subseteq Nat
    BY <1>1 DEF Byte, BytesOf
<1>3. \A b \in Nat : b \in Byte <=> BlockOf(b) \in Lba
    BY <1>2, BytesInBlocks DEF Lba
<1> QED
    BY <1>2, <1>3

LEMMA InDevice ==
    ASSUME NEW l \in Nat, NEW n \in Nat, l + n <= TotalBlocks
    PROVE  BytesOf(l, n) \subseteq Byte
<1> SUFFICES ASSUME NEW b \in BytesOf(l, n) PROVE b \in Byte
    OBVIOUS
<1>1. b \in Nat
    BY BytesAreNat
<1>2. BlockOf(b) \in l .. l + n - 1
    BY <1>1, BytesInBlocks
<1> QED
    BY <1>1, <1>2, DeviceBytes DEF Lba

(* compute_alignment: the blocks cover the range and lie on the device, and *)
(* an aligned range is all the bytes of its blocks.                         *)
LEMMA Alignment ==
    ASSUME NEW offset \in Nat, NEW size \in Nat
    PROVE  LET start == StartLba(offset)
               count == BlockCount(offset, size)
           IN  /\ start \in Nat /\ count \in Nat
               /\ size # 0 => count # 0
               /\ BlocksOf(offset, size) = start .. start + count - 1
               /\ Extent(offset, size) \subseteq BytesOf(start, count)
               /\ Aligned(offset, size) => Extent(offset, size) = BytesOf(start, count)
               /\ offset + size <= TotalBytes => start + count <= TotalBlocks
<1> DEFINE B == BlockSize
           s == offset \div B
           x == offset + size + B - 1
           e == x \div B
<1>1. B \in Nat \ {0} /\ x \in Nat
    OBVIOUS
<1>2. s \in Nat /\ s * B \in Nat /\ s * B <= offset /\ offset < s * B + B
      /\ offset % B = offset - s * B
    BY <1>1, Division
<1>3. e \in Nat /\ e * B \in Nat /\ e * B <= x /\ x < e * B + B
    BY <1>1, Division
<1>4. StartLba(offset) = s /\ BlockCount(offset, size) = e - s /\ EndLba(offset, size) = e
    BY DEF StartLba, BlockCount, EndLba
<1>5. x = offset + size + B - 1 /\ (s + 1) * B = s * B + B /\ (e + 1) * B = e * B + B
    BY <1>2, <1>3
<1> HIDE DEF B, s, e, x
<1>6. s <= e
    <2> SUFFICES ASSUME e < s PROVE FALSE
        BY <1>2, <1>3
    <2>1. (e + 1) * B <= s * B
        BY <1>1, <1>2, <1>3, Monotone
    <2> QED
        BY <1>1, <1>2, <1>3, <1>5, <2>1
<1>7. size # 0 => s # e
    BY <1>1, <1>2, <1>3, <1>5
<1>8. BytesOf(s, e - s) = s * B .. e * B - 1
    BY <1>2, <1>3 DEF BytesOf, B
<1>9. Extent(offset, size) \subseteq BytesOf(s, e - s)
    BY <1>1, <1>2, <1>3, <1>5, <1>8 DEF Extent
<1>10. ASSUME Aligned(offset, size) PROVE Extent(offset, size) = BytesOf(s, e - s)
    <2>1. offset = s * B
        BY <1>1, <1>2, <1>10 DEF Aligned, B
    <2> DEFINE t == size \div B
    <2>2. t \in Nat /\ t * B = size
        BY <1>1, <1>10, Division DEF Aligned, B
    <2>3. offset + size = (s + t) * B
        BY <1>1, <1>2, <2>1, <2>2
    <2> HIDE DEF t
    <2>4. e = s + t
        <3>1. (s + t + 1) * B = (s + t) * B + B /\ (s + t) * B \in Nat
            BY <1>1, <1>2, <2>2
        <3>2. ASSUME e < s + t PROVE FALSE
            <4>1. (e + 1) * B <= (s + t) * B
                BY <1>1, <1>2, <1>3, <2>2, <3>2, Monotone
            <4> QED
                BY <1>1, <1>2, <1>3, <1>5, <2>3, <3>1, <4>1
        <3>3. ASSUME s + t < e PROVE FALSE
            <4>1. (s + t + 1) * B <= e * B
                BY <1>1, <1>2, <1>3, <2>2, <3>3, Monotone
            <4> QED
                BY <1>1, <1>2, <1>3, <1>5, <2>3, <3>1, <4>1
        <3> QED
            BY <1>2, <1>3, <2>2, <3>2, <3>3
    <2>5. offset + size = e * B
        BY <2>3, <2>4
    <2> QED
        BY <1>8, <2>1, <2>5 DEF Extent
<1>11. ASSUME offset + size <= TotalBytes PROVE e <= TotalBlocks
    <2> SUFFICES ASSUME TotalBlocks < e PROVE FALSE
        BY <1>3
    <2>1. (TotalBlocks + 1) * B <= e * B
        BY <1>1, <1>3, Monotone
    <2>2. (TotalBlocks + 1) * B = TotalBytes + B /\ TotalBytes \in Nat
        BY <1>1 DEF TotalBytes, B
    <2> QED
        BY <1>1, <1>3, <1>5, <1>11, <2>1, <2>2
<1>12. BlocksOf(offset, size) = s .. e - 1
    BY <1>4 DEF BlocksOf
<1> QED
    BY <1>2, <1>3, <1>4, <1>6, <1>7, <1>9, <1>10, <1>11, <1>12

----------------------------------------------------------------------------
(* What a write covers *)

(* The bytes of whole blocks of the device. *)
LEMMA Blockwise ==
    ASSUME NEW l \in Nat, NEW n \in Nat, l + n <= TotalBlocks, NEW data,
           DOMAIN data = BytesOf(l, n), \A b \in DOMAIN data : data[b] \in Value
    PROVE  /\ WholeBlocks(data)
           /\ BlocksIn(data) \subseteq l .. l + n - 1
           /\ n # 0 => l * BlockSize \in DOMAIN data
<1>1. DOMAIN data \subseteq Byte
    BY InDevice
<1>2. \A b \in DOMAIN data : b \in Nat /\ BlockOf(b) \in l .. l + n - 1
    BY BytesAreNat, BytesInBlocks
<1>3. ASSUME NEW b \in DOMAIN data, NEW e \in Byte, BlockOf(e) = BlockOf(b)
      PROVE  e \in DOMAIN data
    BY <1>2, <1>3, BytesInBlocks, DeviceBytes
<1>4. ASSUME n # 0 PROVE l * BlockSize \in BytesOf(l, n)
    <2>1. (l + n) * BlockSize = l * BlockSize + n * BlockSize /\ l * BlockSize \in Nat
        BY SMT
    <2>2. n * BlockSize \in Nat /\ n * BlockSize > 0
        BY <1>4, Monotone, SMT
    <2> QED
        BY <2>1, <2>2 DEF BytesOf
<1> QED
    BY <1>1, <1>2, <1>3, <1>4 DEF WholeBlocks, IsBuffer, BlocksIn

(* The range of a call that asks for something, as the worker computes it. *)
LEMMA RangeOfCall ==
    ASSUME NEW c, call[c].offset \in Nat, call[c].size \in Nat
    PROVE  /\ Start(c) \in Nat
           /\ ~Nothing(c) => Size(c) \in Nat /\ Count(c) \in Nat
           /\ ~Nothing(c) => Extent(Offset(c), Size(c)) \subseteq BytesOf(Start(c), Count(c))
           /\ (~Nothing(c) /\ call[c].op # "read") =>
                 /\ Count(c) # 0 /\ Start(c) + Count(c) <= TotalBlocks
                 /\ BlocksOf(Offset(c), Size(c)) = Start(c) .. Start(c) + Count(c) - 1
                 /\ Aligned(Offset(c), Size(c)) =>
                       Extent(Offset(c), Size(c)) = BytesOf(Start(c), Count(c))
<1> DEFINE o == call[c].offset
           n == call[c].size
<1>1. o \in Nat /\ n \in Nat /\ Offset(c) = o
    BY DEF Offset
<1>2. StartLba(o) \in Nat
    BY <1>1, Alignment
<1>3. CASE Nothing(c)
    BY <1>1, <1>2, <1>3 DEF Start
<1>4. CASE ~Nothing(c)
    <2>1. n # 0 /\ o < TotalBytes /\ TotalBytes \in Nat
        BY <1>1, <1>4 DEF Nothing, TotalBytes
    <2>2. TotalBytes - o \in Nat \ {0}
        BY <1>1, <2>1
    <2>3. (TotalBytes - o) % Word \in Nat
        BY <2>2, Division
    <2>4. /\ Size(c) \in Nat
          /\ call[c].op # "read" => Size(c) # 0 /\ o + Size(c) <= TotalBytes
        BY <1>1, <2>1, <2>2, <2>3 DEF Size, ClampRead, ClampWrite, Lesser
    <2> DEFINE m == Size(c)
    <2> HIDE DEF o, n, m
    <2>5. /\ BlockCount(o, m) \in Nat
          /\ m # 0 => BlockCount(o, m) # 0
          /\ BlocksOf(o, m) = StartLba(o) .. StartLba(o) + BlockCount(o, m) - 1
          /\ Extent(o, m) \subseteq BytesOf(StartLba(o), BlockCount(o, m))
          /\ Aligned(o, m) => Extent(o, m) = BytesOf(StartLba(o), BlockCount(o, m))
          /\ o + m <= TotalBytes => StartLba(o) + BlockCount(o, m) <= TotalBlocks
        BY <1>1, <2>4, Alignment DEF m
    <2>6. Start(c) = StartLba(o) /\ Count(c) = BlockCount(o, m)
        BY <1>1 DEF Start, Count, m
    <2> QED
        BY <1>1, <1>2, <1>4, <2>4, <2>5, <2>6 DEF m
<1> QED
    BY <1>3, <1>4

----------------------------------------------------------------------------
(* Shapes: what a step does to the channel and the caller that is served *)

LEMMA Apart ==
    /\ None \notin Callers /\ "timer" \notin Callers /\ "close" \notin Callers
    /\ None # "timer" /\ None # "close"
    /\ \A r \in Request : r # None
BY BlockDeviceAssumption DEF BlockDeviceAssumption

(* The channel, a fact at a time. *)
LEMMA ChannelFacts ==
    ASSUME Shapes
    PROVE  /\ call = [c \in Callers |-> call[c]] /\ reply = [c \in Callers |-> reply[c]]
           /\ \A c \in Callers : call[c] # None => call[c] \in Request
           /\ \A c \in Callers : reply[c] # None => call[c] # None
           /\ queue \in Seq(Callers) /\ Len(queue) \in Nat /\ Len(queue) <= QueueBound
           /\ \A i \in 1 .. Len(queue) : queue[i] \in Callers
           /\ \A i \in 1 .. Len(queue) : Waiting(queue[i])
           /\ \A i \in 1 .. Len(queue) : queue[i] # serving
           /\ \A i, j \in 1 .. Len(queue) : queue[i] = queue[j] => i = j
           /\ serving \in Callers => Waiting(serving)
           /\ writes \in Value
<1>1. ChannelOK
    BY DEF Shapes
<1>2. queue \in Seq(Callers)
    BY <1>1 DEF ChannelOK
<1>3. /\ \A i \in 1 .. Len(queue) : queue[i] \in Callers
      /\ Len(queue) \in Nat
    BY <1>2, ElementOfSeq, LenProperties
<1> QED
    BY <1>1, <1>2, <1>3 DEF ChannelOK

LEMMA SteadyCall ==
    ASSUME NEW c, call'[c] = call[c]
    PROVE  /\ Start(c)' = Start(c) /\ Count(c)' = Count(c)
           /\ Offset(c)' = Offset(c) /\ Size(c)' = Size(c)
           /\ Nothing(c)' <=> Nothing(c)
           /\ Payload(c)' = Payload(c)
BY DEF Start, Count, Offset, Size, Nothing, Payload, Extent, StartLba, EndLba, BlockCount,
       ClampRead, ClampWrite, Lesser, TotalBytes

LEMMA RequestTyped ==
    ASSUME Shapes, NEW c \in Callers, call[c] # None
    PROVE  /\ call[c].offset \in Nat /\ call[c].size \in Nat
           /\ call[c].op = "write" => call[c].value \in Value
           /\ call[c].op = "setSync" => call[c].value \in BOOLEAN
BY DEF Shapes, ChannelOK, Request, Value

(* A caller asks. *)
LEMMA ChannelCall ==
    ASSUME Shapes, NEW c \in Callers, NEW request \in Request, Call(c, request),
           writes' \in Value
    PROVE  ChannelOK' /\ serving # c
<1>1. /\ call[c] = None /\ Len(queue) < QueueBound /\ queue' = Append(queue, c)
      /\ call' = [call EXCEPT ![c] = request] /\ UNCHANGED <<reply, serving>>
    BY DEF Call, DeviceRest, workVars
<1>2. /\ queue' \in Seq(Callers) /\ Len(queue') = Len(queue) + 1
      /\ \A i \in 1 .. Len(queue) : queue'[i] = queue[i]
      /\ queue'[Len(queue) + 1] = c
    BY <1>1, ChannelFacts, AppendProperties
<1>3. /\ call' = [d \in Callers |-> call'[d]]
      /\ call'[c] = request /\ request # None
      /\ \A d \in Callers : d # c => call'[d] = call[d]
    BY <1>1, ChannelFacts, Apart
<1>4. /\ \A i \in 1 .. Len(queue) : queue[i] # c
      /\ serving # c /\ reply[c] = None
    BY <1>1, ChannelFacts DEF Waiting
<1>5. QueueBound \in Nat
    BY BlockDeviceAssumption DEF BlockDeviceAssumption
<1>6. \A i \in 1 .. Len(queue') : i \in 1 .. Len(queue) \/ i = Len(queue) + 1
    BY <1>2, ChannelFacts
<1>7. \A d \in Callers : (Waiting(d) \/ d = c) => call'[d] # None /\ reply'[d] = None
    BY <1>1, <1>3, <1>4 DEF Waiting
<1>8. ASSUME NEW i \in 1 .. Len(queue')
      PROVE  /\ queue'[i] \in Callers /\ (Waiting(queue'[i]) \/ queue'[i] = c)
             /\ queue'[i] # serving'
    <2>1. CASE i \in 1 .. Len(queue)
        BY <1>1, <1>2, <2>1, ChannelFacts
    <2>2. CASE i = Len(queue) + 1
        BY <1>1, <1>2, <1>4, <2>2
    <2> QED
        BY <1>6, <2>1, <2>2
<1>9. ASSUME NEW i \in 1 .. Len(queue'), NEW j \in 1 .. Len(queue'), queue'[i] = queue'[j]
      PROVE  i = j
    BY <1>2, <1>4, <1>6, <1>9, ChannelFacts
<1>10. \A d \in Callers : /\ call'[d] # None => call'[d] \in Request
                          /\ reply'[d] # None => call'[d] # None
    BY <1>1, <1>3, <1>4, ChannelFacts
<1>11. serving' \in Callers => call'[serving'] # None /\ reply'[serving'] = None
    BY <1>1, <1>7, ChannelFacts
<1>12. reply' = [d \in Callers |-> reply'[d]] /\ Len(queue') <= QueueBound
    BY <1>1, <1>2, <1>5, ChannelFacts
<1> QED
    BY <1>2, <1>3, <1>4, <1>7, <1>8, <1>9, <1>10, <1>11, <1>12 DEF ChannelOK, Waiting

(* A caller is given its answer back. *)
LEMMA ChannelReturn ==
    ASSUME Shapes, NEW c \in Callers, Return(c)
    PROVE  ChannelOK' /\ serving # c
<1>1. /\ reply[c] # None /\ reply' = [reply EXCEPT ![c] = None]
      /\ call' = [call EXCEPT ![c] = None] /\ UNCHANGED <<queue, serving, writes>>
    BY DEF Return, DeviceRest, workVars
<1>2. /\ \A i \in 1 .. Len(queue) : queue[i] # c
      /\ serving # c
    BY <1>1, ChannelFacts DEF Waiting
<1>3. /\ call' = [d \in Callers |-> call'[d]] /\ reply' = [d \in Callers |-> reply'[d]]
      /\ call'[c] = None /\ reply'[c] = None
      /\ \A d \in Callers : d # c => call'[d] = call[d] /\ reply'[d] = reply[d]
    BY <1>1, ChannelFacts
<1>4. \A d \in Callers : (Waiting(d) /\ d # c) => call'[d] # None /\ reply'[d] = None
    BY <1>3 DEF Waiting
<1>5. \A d \in Callers : /\ call'[d] # None => call'[d] \in Request
                         /\ reply'[d] # None => call'[d] # None
    BY <1>3, ChannelFacts
<1>6. \A i \in 1 .. Len(queue') : /\ call'[queue'[i]] # None /\ reply'[queue'[i]] = None
                                  /\ queue'[i] # serving'
    BY <1>1, <1>2, <1>4, ChannelFacts
<1>7. serving' \in Callers => call'[serving'] # None /\ reply'[serving'] = None
    BY <1>1, <1>2, <1>4, ChannelFacts
<1> QED
    BY <1>1, <1>2, <1>3, <1>5, <1>6, <1>7, ChannelFacts DEF ChannelOK, Waiting

(* The worker takes a request and keeps it, or answers it. *)
LEMMA ChannelTakes ==
    ASSUME Shapes, NEW c \in Callers, NEW op, Takes(c, op), UNCHANGED <<call, writes>>,
           \/ serving' = c /\ UNCHANGED reply
           \/ serving' = None /\ \E r : reply' = [reply EXCEPT ![c] = r]
    PROVE  ChannelOK' /\ Waiting(c) /\ serving = None /\ call[c].op = op
<1>1. /\ wpc = "select" /\ queue # <<>> /\ c = Head(queue) /\ queue' = Tail(queue)
      /\ call[c].op = op
    BY DEF Takes
<1>2. serving = None
    BY <1>1 DEF Shapes, WorkerOK
<1>3. /\ queue' \in Seq(Callers) /\ Len(queue') = Len(queue) - 1
      /\ \A i \in 1 .. Len(queue') : queue'[i] = queue[i + 1]
      /\ c = queue[1] /\ Len(queue) # 0
    BY <1>1, ChannelFacts, HeadTailProperties, LenProperties, EmptySeq
<1>4. /\ \A i \in 1 .. Len(queue') : i + 1 \in 1 .. Len(queue) /\ i + 1 # 1
      /\ 1 \in 1 .. Len(queue) /\ Len(queue') <= QueueBound
    BY <1>3, ChannelFacts, BlockDeviceAssumption DEF BlockDeviceAssumption
<1>5. Waiting(c)
    BY <1>3, <1>4, ChannelFacts
<1>6. ASSUME NEW i \in 1 .. Len(queue')
      PROVE  queue'[i] \in Callers /\ queue'[i] # c /\ Waiting(queue'[i])
    BY <1>3, <1>4, ChannelFacts
<1>7. ASSUME NEW i \in 1 .. Len(queue'), NEW j \in 1 .. Len(queue'), queue'[i] = queue'[j]
      PROVE  i = j
    <2>1. i + 1 = j + 1
        BY <1>3, <1>4, <1>7, ChannelFacts
    <2> QED
        BY <2>1
<1>8. /\ reply' = [d \in Callers |-> reply'[d]]
      /\ \A d \in Callers : d # c => reply'[d] = reply[d]
      /\ serving' = c => reply' = reply
    BY Apart, ChannelFacts
<1>9. \A i \in 1 .. Len(queue') : /\ call'[queue'[i]] # None /\ reply'[queue'[i]] = None
                                  /\ queue'[i] # serving'
    BY <1>6, <1>8, Apart DEF Waiting
<1>10. serving' \in Callers => call'[serving'] # None /\ reply'[serving'] = None
    BY <1>5, <1>8, Apart DEF Waiting
<1>11. \A d \in Callers : /\ call'[d] # None => call'[d] \in Request
                          /\ reply'[d] # None => call'[d] # None
    BY <1>5, <1>8, ChannelFacts DEF Waiting
<1>12. call' = [d \in Callers |-> call'[d]] /\ writes' \in Value
    BY ChannelFacts
<1>13. ChannelOK'
    BY <1>3, <1>4, <1>7, <1>8, <1>9, <1>10, <1>11, <1>12 DEF ChannelOK, Waiting
<1> QED
    BY <1>1, <1>2, <1>5, <1>13

(* The worker answers the caller it serves. *)
LEMMA ChannelReplies ==
    ASSUME Shapes, serving \in Callers, NEW r, reply' = [reply EXCEPT ![serving] = r],
           serving' = None, UNCHANGED <<call, queue, writes>>
    PROVE  ChannelOK'
<1>1. /\ reply' = [d \in Callers |-> reply'[d]]
      /\ \A d \in Callers : d # serving => reply'[d] = reply[d]
    BY ChannelFacts
<1>2. \A i \in 1 .. Len(queue') : /\ call'[queue'[i]] # None /\ reply'[queue'[i]] = None
                                  /\ queue'[i] # serving'
    BY <1>1, Apart, ChannelFacts DEF Waiting
<1>3. \A d \in Callers : /\ call'[d] # None => call'[d] \in Request
                         /\ reply'[d] # None => call'[d] # None
    BY <1>1, ChannelFacts DEF Waiting
<1> QED
    BY <1>1, <1>2, <1>3, Apart, ChannelFacts DEF ChannelOK, Waiting

(* The channel is left alone. *)
LEMMA ChannelSame ==
    ASSUME Shapes, UNCHANGED <<call, reply, queue, writes>>,
           \/ serving' = serving
           \/ serving' \in {"timer", "close", None}
    PROVE  ChannelOK'
<1>1. \A i \in 1 .. Len(queue') : /\ call'[queue'[i]] # None /\ reply'[queue'[i]] = None
                                  /\ queue'[i] # serving'
    BY Apart, ChannelFacts DEF Waiting
<1>2. serving' \in Callers => call'[serving'] # None /\ reply'[serving'] = None
    BY Apart, ChannelFacts DEF Waiting
<1> QED
    BY <1>1, <1>2, ChannelFacts DEF ChannelOK, Waiting

----------------------------------------------------------------------------
(* Shapes: the parts a step leaves alone, and where it leaves the worker *)

LEMMA Frames ==
    ASSUME Shapes
    PROVE  /\ UNCHANGED dirty => DirtyOK'
           /\ (UNCHANGED flight /\ (wpc = "await" => wpc' = "await")) => FlightOK'
           /\ UNCHANGED strays => StraysOK'
           /\ UNCHANGED <<cache, prefetch, raWindow>> => CacheOK'
           /\ UNCHANGED <<media, stable, written, doubtful>> => TargetOK'
<1>1. UNCHANGED dirty => DirtyOK'
    BY DEF Shapes, DirtyOK, WholeBlocks, IsBuffer
<1>2. (UNCHANGED flight /\ (wpc = "await" => wpc' = "await")) => FlightOK'
    BY DEF Shapes, FlightOK, WholeBlocks, IsBuffer, BlocksIn
<1>3. UNCHANGED strays => StraysOK'
    BY DEF Shapes, StraysOK
<1>4. UNCHANGED <<cache, prefetch, raWindow>> => CacheOK'
    BY DEF Shapes, CacheOK, IsChunk, IsBuffer
<1>5. UNCHANGED <<media, stable, written, doubtful>> => TargetOK'
    BY DEF Shapes, TargetOK
<1> QED
    BY <1>1, <1>2, <1>3, <1>4, <1>5

LEMMA DataStays ==
    ASSUME Shapes, DataRest, UNCHANGED media, wpc = "await" => wpc' = "await"
    PROVE  DirtyOK' /\ FlightOK' /\ StraysOK' /\ CacheOK' /\ TargetOK'
BY Frames DEF DataRest, dirtyVars, raVars, ghostVars

LEMMA WorkerNext ==
    ASSUME serving' \in Callers => call'[serving'] = call[serving'],
           wpc' \in WorkerPlaces,
           serving' \in Callers \cup {"timer", "close", None},
           (serving' = None) <=> (wpc' = "select"),
           wpc' \in {"chunk", "joined", "joinFailed", "modify", "ack"} => serving' \in Callers,
           \A c \in Callers : serving' = c =>
              /\ wpc' \in {"chunk", "joined", "joinFailed"} => call[c].op = "read"
              /\ wpc' \in {"modify", "ack"} => call[c].op = "write"
              /\ wpc' \in {"drain", "await"} => call[c].op \in {"write", "flush"}
              /\ call[c].op \in {"read", "write"} => ~Nothing(c)
              /\ wpc' = "modify" => DOMAIN buffer' = BytesOf(Start(c), Count(c)),
           chunk' \in Nat, IsBuffer(buffer'),
           wpc' = "joined" =>
              prefetch' # None /\ prefetch'.held # None /\ prefetch'.next = chunk'
    PROVE  WorkerOK'
<1>1. ASSUME NEW c \in Callers, serving' = c
      PROVE  /\ wpc' \in {"chunk", "joined", "joinFailed"} => call'[c].op = "read"
             /\ wpc' \in {"modify", "ack"} => call'[c].op = "write"
             /\ wpc' \in {"drain", "await"} => call'[c].op \in {"write", "flush"}
             /\ call'[c].op \in {"read", "write"} => ~(Nothing(c)')
             /\ wpc' = "modify" => DOMAIN buffer' = BytesOf(Start(c)', Count(c)')
    <2>1. call'[c] = call[c]
        BY <1>1
    <2>2. Start(c)' = Start(c) /\ Count(c)' = Count(c) /\ (Nothing(c)' <=> Nothing(c))
        BY <2>1, SteadyCall
    <2> QED
        BY <1>1, <2>1, <2>2
<1>2. \A c \in Callers : serving' = c =>
             /\ wpc' \in {"chunk", "joined", "joinFailed"} => call'[c].op = "read"
             /\ wpc' \in {"modify", "ack"} => call'[c].op = "write"
             /\ wpc' \in {"drain", "await"} => call'[c].op \in {"write", "flush"}
             /\ call'[c].op \in {"read", "write"} => ~(Nothing(c)')
             /\ wpc' = "modify" => DOMAIN buffer' = BytesOf(Start(c)', Count(c)')
    BY <1>1, Zenon
<1>3. IsBuffer(buffer)' /\ (wpc' = "joined" => InFlight(chunk)')
    BY DEF IsBuffer, InFlight, Byte, TotalBytes, Value
<1> QED
    BY <1>2, <1>3 DEF WorkerOK, BytesOf

(* The worker is back at the select. *)
LEMMA WorkerBack ==
    ASSUME wpc' = "select", serving' = None, chunk' \in Nat, IsBuffer(buffer')
    PROVE  WorkerOK'
<1>1. serving' \notin Callers
    BY Apart
<1> QED
    BY <1>1, WorkerNext DEF WorkerPlaces

LEMMA EmptyBuffer == IsBuffer(<<>>)
BY DEF IsBuffer

LEMMA ServedIs ==
    ASSUME Shapes, serving \in Callers
    PROVE  /\ call[serving] \in Request /\ Waiting(serving)
           /\ wpc \in {"chunk", "joined", "joinFailed"} => call[serving].op = "read"
           /\ wpc \in {"modify", "ack"} => call[serving].op = "write"
           /\ wpc \in {"drain", "await"} => call[serving].op \in {"write", "flush"}
           /\ call[serving].op \in {"read", "write"} => ~Nothing(serving)
           /\ wpc = "modify" => DOMAIN buffer = BytesOf(Start(serving), Count(serving))
           /\ call[serving].offset \in Nat /\ call[serving].size \in Nat
<1> DEFINE c == serving
<1>1. c \in Callers /\ serving = c
    OBVIOUS
<1>2. WorkerOK
    BY DEF Shapes
<1>3. Waiting(c) /\ call[c] \in Request /\ call[c] # None
    BY ChannelFacts DEF Waiting
<1>4. call[c].offset \in Nat /\ call[c].size \in Nat
    BY <1>3, RequestTyped
<1> QED
    BY <1>2, <1>3, <1>4 DEF WorkerOK

LEMMA WorkerFacts ==
    ASSUME Shapes
    PROVE  /\ wpc \in WorkerPlaces
           /\ serving \in Callers \cup {"timer", "close", None}
           /\ (serving = None) <=> (wpc = "select")
           /\ wpc \in {"chunk", "joined", "joinFailed", "modify", "ack"} => serving \in Callers
           /\ chunk \in Nat /\ IsBuffer(buffer)
           /\ wpc = "joined" => prefetch # None /\ prefetch.held # None /\ prefetch.next = chunk
BY DEF Shapes, WorkerOK, InFlight

----------------------------------------------------------------------------
(* Shapes: steps of the worker that only move it or answer *)

LEMMA ShapesInit ==
    ASSUME Init
    PROVE  Shapes
<1>1. None \notin Callers /\ Len(queue) = 0 /\ QueueBound \in Nat /\ RaMin \in Nat
      /\ MaxWrites \in Nat
    BY BlockDeviceAssumption DEF Init, BlockDeviceAssumption
<1>2. ChannelOK
    BY <1>1 DEF Init, ChannelOK, Waiting, Value
<1>3. IsBuffer(<<>>) /\ Zeroes \in [Byte -> Value]
    BY <1>1 DEF IsBuffer, Zeroes, Value
<1>4. WorkerOK
    BY <1>1, <1>3 DEF Init, WorkerOK, WorkerPlaces
<1>5. DirtyOK /\ FlightOK /\ StraysOK
    BY DEF Init, DirtyOK, FlightOK, StraysOK, NoEntries
<1>6. CacheOK /\ TargetOK
    BY <1>1, <1>3 DEF Init, CacheOK, TargetOK
<1> QED
    BY <1>2, <1>4, <1>5, <1>6 DEF Shapes

(* A request that is answered as soon as it is taken. *)
LEMMA ShapesAnswers ==
    ASSUME Shapes, NEW c \in Callers, NEW op, Takes(c, op), NEW ok, NEW data,
           Reply(c, ok, data), DataRest, WorkerOnly
    PROVE  Shapes'
<1>1. /\ wpc = "select" /\ wpc' = "select" /\ serving' = None /\ chunk' = 0 /\ buffer' = <<>>
      /\ reply' = [reply EXCEPT ![c] = Outcome(ok, data)] /\ UNCHANGED <<call, media, writes>>
    BY DEF Takes, Reply, WorkerOnly
<1>2. ChannelOK'
    BY <1>1, ChannelTakes
<1>3. WorkerOK'
    BY <1>1, WorkerBack, EmptyBuffer
<1>4. DirtyOK' /\ FlightOK' /\ StraysOK' /\ CacheOK' /\ TargetOK'
    BY <1>1, DataStays
<1> QED
    BY <1>2, <1>3, <1>4 DEF Shapes

(* A request that is taken and not yet answered. *)
LEMMA ShapesServes ==
    ASSUME Shapes, NEW c \in Callers, NEW op, Takes(c, op), NEW there, Serves(c, there),
           DataRest, WorkerOnly,
           there \in {"chunk", "modify", "drain"}, chunk' \in Nat, IsBuffer(buffer'),
           there = "chunk" => op = "read", there = "drain" => op = "flush",
           there = "modify" => op = "write" /\ DOMAIN buffer' = BytesOf(Start(c), Count(c)),
           op \in {"read", "write"} => ~Nothing(c)
    PROVE  Shapes'
<1>1. /\ wpc = "select" /\ wpc' = there /\ serving' = c /\ call[c].op = op
      /\ UNCHANGED <<call, reply, media, writes>>
    BY DEF Takes, Serves, WorkerOnly
<1>2. ChannelOK'
    BY <1>1, ChannelTakes
<1>3. WorkerOK'
    BY <1>1, Apart, WorkerNext DEF WorkerPlaces
<1>4. DirtyOK' /\ FlightOK' /\ StraysOK' /\ CacheOK' /\ TargetOK'
    BY <1>1, DataStays
<1> QED
    BY <1>2, <1>3, <1>4 DEF Shapes

(* The timer, and the end of the channel. *)
LEMMA ShapesUnasked ==
    ASSUME Shapes, NEW who \in {"timer", "close"}, NEW there \in {"drain", "done"},
           Unasked(who, there), WorkerOnly
    PROVE  Shapes'
<1>1. /\ wpc = "select" /\ wpc' = there /\ serving' = who /\ DataRest
      /\ UNCHANGED <<call, reply, queue, chunk, buffer, media, writes>>
    BY DEF Unasked, Serves, WorkerOnly
<1>2. ChannelOK'
    BY <1>1, ChannelSame
<1>3. IsBuffer(buffer') /\ chunk' \in Nat
    BY <1>1, WorkerFacts
<1>4. WorkerOK'
    BY <1>1, <1>3, Apart, WorkerNext DEF WorkerPlaces
<1>5. DirtyOK' /\ FlightOK' /\ StraysOK' /\ CacheOK' /\ TargetOK'
    BY <1>1, DataStays
<1> QED
    BY <1>2, <1>4, <1>5 DEF Shapes

(* The caller that is served is answered. *)
LEMMA BackToSelect ==
    ASSUME Shapes, serving \in Callers, NEW ok, NEW data, Replies(ok, data),
           UNCHANGED <<call, writes>>
    PROVE  ChannelOK' /\ WorkerOK' /\ wpc' = "select"
<1>1. /\ wpc' = "select" /\ serving' = None /\ chunk' = 0 /\ buffer' = <<>>
      /\ reply' = [reply EXCEPT ![serving] = Outcome(ok, data)] /\ UNCHANGED queue
    BY DEF Replies, Reply
<1>2. ChannelOK'
    BY <1>1, ChannelReplies
<1>3. WorkerOK'
    BY <1>1, WorkerBack, EmptyBuffer
<1> QED
    BY <1>1, <1>2, <1>3

LEMMA ShapesReplies ==
    ASSUME Shapes, serving \in Callers, NEW ok, NEW data, Replies(ok, data),
           wpc # "await", DataRest, WorkerOnly
    PROVE  Shapes'
<1>1. ChannelOK' /\ WorkerOK' /\ UNCHANGED media
    BY BackToSelect DEF WorkerOnly
<1>2. DirtyOK' /\ FlightOK' /\ StraysOK' /\ CacheOK' /\ TargetOK'
    BY <1>1, DataStays
<1> QED
    BY <1>1, <1>2 DEF Shapes

----------------------------------------------------------------------------
(* Shapes: reading through the cache *)

(* What the target returns for a chunk it has. *)
LEMMA TargetChunk ==
    ASSUME Shapes, NEW k \in Nat, OnDevice(k)
    PROVE  /\ IsChunk(k, ReadOfTarget(k))
           /\ \A b \in BytesOf(k, ChunkBlocks) : b \in Byte /\ ReadOfTarget(k)[b] = media[b]
<1>1. BytesOf(k, ChunkBlocks) \subseteq Byte
    BY InDevice DEF OnDevice
<1>2. media \in [Byte -> Value]
    BY DEF Shapes, TargetOK
<1>3. ReadOfTarget(k) = [b \in BytesOf(k, ChunkBlocks) |-> media[b]]
    BY DEF ReadOfTarget, Restrict
<1> QED
    BY <1>1, <1>2, <1>3 DEF IsChunk, IsBuffer

LEMMA AssemblesBuffer ==
    ASSUME Shapes, NEW data, IsBuffer(data), Assembles(data)
    PROVE  chunk' \in Nat /\ IsBuffer(buffer')
<1> DEFINE part == BytesOf(Start(serving), Count(serving)) \cap DOMAIN data
<1>1. /\ buffer' = [b \in DOMAIN buffer \cup part |-> IF b \in part THEN data[b] ELSE buffer[b]]
      /\ chunk' = chunk + ChunkBlocks
    BY DEF Assembles
<1>2. chunk \in Nat /\ IsBuffer(buffer) /\ part \subseteq DOMAIN data
    BY WorkerFacts
<1> HIDE DEF part
<1>3. DOMAIN buffer' = DOMAIN buffer \cup part
    BY <1>1
<1>4. ASSUME NEW b \in DOMAIN buffer' PROVE buffer'[b] \in Value
    BY <1>1, <1>2, <1>3 DEF IsBuffer
<1> QED
    BY <1>1, <1>2, <1>3, <1>4 DEF IsBuffer

LEMMA CachedChunk ==
    ASSUME Shapes, NEW k, NEW data, IsChunk(k, data), cache' = WithChunk(k, data)
    PROVE  \A j \in DOMAIN cache' : IsChunk(j, cache'[j])
<1>1. /\ DOMAIN cache' = DOMAIN cache \cup {k}
      /\ \A j \in DOMAIN cache' : cache'[j] = IF j = k THEN data ELSE cache[j]
    BY DEF WithChunk
<1>2. \A j \in DOMAIN cache : IsChunk(j, cache[j])
    BY DEF Shapes, CacheOK
<1> QED
    BY <1>1, <1>2

(* CacheOK after a step, from what the step makes of the cache and the task. *)
LEMMA CacheNext ==
    ASSUME \A j \in DOMAIN cache' : IsChunk(j, cache'[j]),
           prefetch' # None =>
              /\ prefetch' = [next |-> prefetch'.next, held |-> prefetch'.held, end |-> prefetch'.end]
              /\ prefetch'.next \in Nat
              /\ prefetch'.held # None => IsChunk(prefetch'.next, prefetch'.held),
           raWindow' \in Nat
    PROVE  CacheOK'
BY DEF CacheOK, IsChunk, IsBuffer, OnDevice, BytesOf, Byte, TotalBytes, Value

LEMMA CacheFacts ==
    ASSUME Shapes
    PROVE  /\ \A j \in DOMAIN cache : IsChunk(j, cache[j])
           /\ prefetch # None =>
                 /\ prefetch = [next |-> prefetch.next, held |-> prefetch.held, end |-> prefetch.end]
                 /\ prefetch.next \in Nat
                 /\ prefetch.held # None => IsChunk(prefetch.next, prefetch.held)
           /\ raWindow \in Nat
BY DEF Shapes, CacheOK

(* read_blocks goes on, or waits for the readahead task. *)
LEMMA ShapesChunk ==
    ASSUME Shapes, wpc = "chunk", NEW there \in {"chunk", "joined"}, Goes(there),
           chunk' \in Nat, IsBuffer(buffer'), CacheOK',
           there = "joined" => UNCHANGED chunk /\ InFlight(chunk),
           UNCHANGED <<dirtyVars, flight, strays, prefetch, stable, ghostVars>>, WorkerOnly
    PROVE  Shapes'
<1>1. /\ wpc' = there /\ UNCHANGED <<serving, reply, queue, call, writes, media>>
      /\ UNCHANGED <<dirty, flight, strays, prefetch, stable, written, doubtful>>
    BY DEF Goes, WorkerOnly, dirtyVars, ghostVars
<1>2. ChannelOK'
    BY <1>1, ChannelSame
<1>3. serving \in Callers /\ call[serving].op = "read" /\ ~Nothing(serving)
    BY WorkerFacts, ServedIs
<1>4. wpc' = "joined" => prefetch' # None /\ prefetch'.held # None /\ prefetch'.next = chunk'
    BY <1>1 DEF InFlight
<1>5. serving' \in Callers /\ serving' # None /\ wpc' # "select" /\ wpc' \in WorkerPlaces
    BY <1>1, <1>3, Apart DEF WorkerPlaces
<1>6. WorkerOK'
    BY <1>1, <1>3, <1>4, <1>5, WorkerNext
<1>7. DirtyOK' /\ FlightOK' /\ StraysOK' /\ TargetOK'
    BY <1>1, Frames
<1> QED
    BY <1>2, <1>6, <1>7 DEF Shapes

LEMMA ShapesRead ==
    ASSUME Shapes, ChunkHit \/ ChunkFetch \/ ChunkJoin, WorkerOnly
    PROVE  Shapes'
<1>1. CASE ChunkHit
    <2>1. wpc = "chunk" /\ Assembles(cache[chunk]) /\ Goes("chunk") /\ DataRest
          /\ chunk \in DOMAIN cache
        BY <1>1 DEF ChunkHit, AtChunk
    <2>2. IsBuffer(cache[chunk])
        BY <2>1, CacheFacts DEF IsChunk
    <2>3. chunk' \in Nat /\ IsBuffer(buffer')
        BY <2>1, <2>2, AssemblesBuffer
    <2>4. CacheOK' /\ UNCHANGED <<dirtyVars, flight, strays, prefetch, stable, ghostVars>>
        BY <2>1, DataStays DEF DataRest, WorkerOnly
    <2> QED
        BY <2>1, <2>3, <2>4, ShapesChunk
<1>2. CASE ChunkFetch
    <2>1. /\ wpc = "chunk" /\ Goes("chunk") /\ OnDevice(chunk) /\ Assembles(ReadOfTarget(chunk))
          /\ cache' = WithChunk(chunk, ReadOfTarget(chunk))
          /\ UNCHANGED <<dirtyVars, flight, strays, prefetch, raVars, stable, ghostVars>>
        BY <1>2 DEF ChunkFetch, AtChunk
    <2>2. chunk \in Nat /\ IsChunk(chunk, ReadOfTarget(chunk))
        BY <2>1, WorkerFacts, TargetChunk
    <2>3. IsBuffer(ReadOfTarget(chunk))
        BY <2>2 DEF IsChunk
    <2>4. chunk' \in Nat /\ IsBuffer(buffer')
        BY <2>1, <2>3, AssemblesBuffer
    <2>5. \A j \in DOMAIN cache' : IsChunk(j, cache'[j])
        BY <2>1, <2>2, CachedChunk
    <2>6. UNCHANGED <<prefetch, raWindow>>
        BY <2>1 DEF raVars
    <2>7. CacheOK'
        BY <2>5, <2>6, CacheFacts, CacheNext
    <2>8. UNCHANGED <<dirtyVars, flight, strays, prefetch, stable, ghostVars>>
        BY <2>1
    <2> QED
        BY <2>1, <2>4, <2>7, <2>8, ShapesChunk
<1>3. CASE ChunkJoin
    <2>1. /\ wpc = "chunk" /\ InFlight(chunk) /\ Goes("joined") /\ DataRest
          /\ UNCHANGED <<chunk, buffer>>
        BY <1>3 DEF ChunkJoin, AtChunk
    <2>2. chunk' \in Nat /\ IsBuffer(buffer')
        BY <2>1, WorkerFacts
    <2>3. CacheOK' /\ UNCHANGED <<dirtyVars, flight, strays, prefetch, stable, ghostVars>>
        BY <2>1, DataStays DEF DataRest, WorkerOnly
    <2> QED
        BY <2>1, <2>2, <2>3, ShapesChunk
<1> QED
    BY <1>1, <1>2, <1>3

LEMMA ChunkLbaNat ==
    ASSUME NEW l \in Nat
    PROVE  ChunkLba(l) \in Nat /\ ChunkLba(l) <= l
BY Division DEF ChunkLba

LEMMA ShapesReadEnds ==
    ASSUME Shapes, FinishRead, WorkerOnly
    PROVE  Shapes'
<1> DEFINE s == Start(serving)
           n == Count(serving)
<1>1. /\ wpc = "chunk" /\ Readahead(s, n) /\ Replies(TRUE, Slice(buffer, serving))
      /\ UNCHANGED <<dirty, dirtyBytes, flight, strays, cache, stable, written, doubtful>>
      /\ UNCHANGED <<call, writes, media>>
    BY DEF FinishRead, WorkerOnly, dirtyVars, ghostVars
<1>2. serving \in Callers /\ call[serving].offset \in Nat /\ call[serving].size \in Nat
      /\ ~Nothing(serving)
    BY <1>1, WorkerFacts, ServedIs
<1>3. s \in Nat /\ n \in Nat
    BY <1>2, RangeOfCall
<1>4. ChannelOK' /\ WorkerOK' /\ wpc' = "select"
    BY <1>1, <1>2, BackToSelect
<1>5. DirtyOK' /\ FlightOK' /\ StraysOK' /\ TargetOK'
    BY <1>1, Frames
<1>6. CacheOK'
    <2> HIDE DEF s, n
    <2>1. ChunkLba(s + n) \in Nat
        BY <1>3, ChunkLbaNat
    <2>2. RaMin \in Nat /\ RaMax \in Nat /\ raWindow \in Nat
        BY BlockDeviceAssumption, CacheFacts DEF BlockDeviceAssumption
    <2>3. raWindow' \in Nat
        BY <1>1, <2>2 DEF Readahead, Lesser
    <2>4. \/ UNCHANGED prefetch
          \/ /\ DOMAIN prefetch' = {"next", "held", "end"}
             /\ prefetch' = [next |-> prefetch'.next, held |-> prefetch'.held, end |-> prefetch'.end]
             /\ prefetch'.next = ChunkLba(s + n) /\ prefetch'.held = None
        BY <1>1 DEF Readahead
    <2>5. \A j \in DOMAIN cache' : IsChunk(j, cache'[j])
        BY <1>1, CacheFacts
    <2> QED
        BY <2>1, <2>3, <2>4, <2>5, CacheFacts, CacheNext
<1> QED
    BY <1>4, <1>5, <1>6 DEF Shapes

----------------------------------------------------------------------------
(* Shapes: the readahead task, and what the cache evicts *)

LEMMA ServedNext ==
    ASSUME Shapes, UNCHANGED serving, serving \in Callers => call'[serving] = call[serving],
           \/ wpc' = wpc
           \/ wpc = "joined" /\ wpc' \in {"chunk", "joinFailed"}
    PROVE  /\ serving' \in Callers => call'[serving'] = call[serving']
           /\ wpc' \in WorkerPlaces
           /\ serving' \in Callers \cup {"timer", "close", None}
           /\ (serving' = None) <=> (wpc' = "select")
           /\ wpc' \in {"chunk", "joined", "joinFailed", "modify", "ack"} => serving' \in Callers
           /\ \A c \in Callers : serving' = c =>
                /\ wpc' \in {"chunk", "joined", "joinFailed"} => call[c].op = "read"
                /\ wpc' \in {"modify", "ack"} => call[c].op = "write"
                /\ wpc' \in {"drain", "await"} => call[c].op \in {"write", "flush"}
                /\ call[c].op \in {"read", "write"} => ~Nothing(c)
                /\ wpc' = "modify" => DOMAIN buffer = BytesOf(Start(c), Count(c))
<1>1. ASSUME NEW c \in Callers, serving' = c
      PROVE  /\ wpc' \in {"chunk", "joined", "joinFailed"} => call[c].op = "read"
             /\ wpc' \in {"modify", "ack"} => call[c].op = "write"
             /\ wpc' \in {"drain", "await"} => call[c].op \in {"write", "flush"}
             /\ call[c].op \in {"read", "write"} => ~Nothing(c)
             /\ wpc' = "modify" => DOMAIN buffer = BytesOf(Start(c), Count(c))
    BY <1>1, ServedIs
<1>2. /\ wpc' \in WorkerPlaces
      /\ serving' \in Callers \cup {"timer", "close", None}
      /\ (serving' = None) <=> (wpc' = "select")
      /\ wpc' \in {"chunk", "joined", "joinFailed", "modify", "ack"} => serving' \in Callers
    BY WorkerFacts DEF WorkerPlaces
<1> QED
    BY <1>1, <1>2, Zenon

LEMMA PrefetchLeaves ==
    ASSUME Shapes, PrefetchOnly, wpc' # "joined",
           \/ wpc' = wpc
           \/ wpc = "joined" /\ wpc' \in {"chunk", "joinFailed"}
    PROVE  /\ ChannelOK' /\ WorkerOK'
           /\ DirtyOK' /\ FlightOK' /\ StraysOK' /\ TargetOK'
           /\ UNCHANGED raWindow
<1>1. /\ UNCHANGED <<call, reply, queue, writes, serving, chunk, buffer>>
      /\ UNCHANGED <<dirty, flight, strays, media, stable, written, doubtful, raWindow>>
    BY DEF PrefetchOnly, callVars, dirtyVars, diskVars, ghostVars, raVars
<1>2. ChannelOK'
    BY <1>1, ChannelSame
<1>3. chunk' \in Nat /\ IsBuffer(buffer') /\ buffer' = buffer
    BY <1>1, WorkerFacts
<1>4. WorkerOK'
    BY <1>1, <1>3, ServedNext, WorkerNext
<1>5. DirtyOK' /\ FlightOK' /\ StraysOK' /\ TargetOK'
    BY <1>1, Frames
<1> QED
    BY <1>1, <1>2, <1>4, <1>5

LEMMA ShapesPrefetch ==
    ASSUME Shapes, PrefetchTask
    PROVE  Shapes'
<1>1. /\ prefetch # None /\ PrefetchOnly
      /\ DOMAIN prefetch = {"next", "held", "end"}
      /\ prefetch = [next |-> prefetch.next, held |-> prefetch.held, end |-> prefetch.end]
      /\ prefetch.next \in Nat /\ raWindow \in Nat
      /\ prefetch.held # None => IsChunk(prefetch.next, prefetch.held)
      /\ \A j \in DOMAIN cache : IsChunk(j, cache[j])
      /\ prefetch.next + ChunkBlocks \in Nat
    <2>1. PrefetchOnly /\ prefetch # None
        BY DEF PrefetchTask, PrefetchHit, PrefetchFetch, PrefetchInsert, PrefetchFails,
               PrefetchEnds, PrefetchOnly
    <2>2. prefetch = [next |-> prefetch.next, held |-> prefetch.held, end |-> prefetch.end]
          /\ prefetch.next \in Nat
        BY <2>1, CacheFacts
    <2>3. DOMAIN prefetch = {"next", "held", "end"} /\ prefetch.next + ChunkBlocks \in Nat
        BY <2>2
    <2> QED
        BY <2>1, <2>2, <2>3, CacheFacts
<1>2. prefetch.held = None => wpc # "joined"
    BY WorkerFacts
<1>3. ASSUME wpc' # "joined", wpc' = wpc \/ (wpc = "joined" /\ wpc' \in {"chunk", "joinFailed"}),
             CacheOK'
      PROVE  Shapes'
    BY <1>1, <1>3, PrefetchLeaves DEF Shapes
<1>4. ASSUME wpc' # "joined", wpc' = wpc \/ (wpc = "joined" /\ wpc' \in {"chunk", "joinFailed"})
      PROVE  raWindow' \in Nat
    BY <1>1, <1>4, PrefetchLeaves
<1>5. CASE PrefetchHit
    <2>1. /\ prefetch' = [prefetch EXCEPT !.next = @ + ChunkBlocks]
          /\ UNCHANGED <<cache, wpc>> /\ prefetch.held = None
        BY <1>5 DEF PrefetchHit, Wanted
    <2>2. /\ prefetch' = [next |-> prefetch'.next, held |-> prefetch'.held, end |-> prefetch'.end]
          /\ prefetch'.next \in Nat /\ prefetch'.held = None
        BY <1>1, <2>1
    <2>3. wpc' # "joined" /\ wpc' = wpc
        BY <1>2, <2>1
    <2>4. \A j \in DOMAIN cache' : IsChunk(j, cache'[j])
        BY <1>1, <2>1
    <2>5. CacheOK'
        BY <1>4, <2>2, <2>3, <2>4, CacheNext
    <2> QED
        BY <1>3, <2>3, <2>5
<1>6. CASE PrefetchFetch
    <2>1. /\ prefetch' = [prefetch EXCEPT !.held = ReadOfTarget(prefetch.next)]
          /\ UNCHANGED <<cache, wpc>> /\ prefetch.held = None /\ OnDevice(prefetch.next)
        BY <1>6 DEF PrefetchFetch, Wanted
    <2>2. IsChunk(prefetch.next, ReadOfTarget(prefetch.next))
        BY <1>1, <2>1, TargetChunk
    <2>3. /\ prefetch' = [next |-> prefetch'.next, held |-> prefetch'.held, end |-> prefetch'.end]
          /\ prefetch'.next = prefetch.next /\ prefetch'.held = ReadOfTarget(prefetch.next)
        BY <1>1, <2>1
    <2>4. wpc' # "joined" /\ wpc' = wpc
        BY <1>2, <2>1
    <2>5. \A j \in DOMAIN cache' : IsChunk(j, cache'[j])
        BY <1>1, <2>1
    <2>6. CacheOK'
        BY <1>1, <1>4, <2>2, <2>3, <2>4, <2>5, CacheNext
    <2> QED
        BY <1>3, <2>4, <2>6
<1>7. CASE PrefetchInsert
    <2>1. /\ prefetch' = [prefetch EXCEPT !.next = @ + ChunkBlocks, !.held = None]
          /\ cache' = WithChunk(prefetch.next, prefetch.held) /\ prefetch.held # None
          /\ wpc' = IF wpc = "joined" THEN "chunk" ELSE wpc
        BY <1>7 DEF PrefetchInsert, Wakes
    <2>2. /\ prefetch' = [next |-> prefetch'.next, held |-> prefetch'.held, end |-> prefetch'.end]
          /\ prefetch'.next \in Nat /\ prefetch'.held = None
        BY <1>1, <2>1
    <2>3. wpc' # "joined" /\ (wpc' = wpc \/ (wpc = "joined" /\ wpc' \in {"chunk", "joinFailed"}))
        BY <2>1
    <2>4. \A j \in DOMAIN cache' : IsChunk(j, cache'[j])
        BY <1>1, <2>1, CachedChunk
    <2>5. CacheOK'
        BY <1>4, <2>2, <2>3, <2>4, CacheNext
    <2> QED
        BY <1>3, <2>3, <2>5
<1>8. CASE PrefetchFails \/ PrefetchEnds
    <2>1. /\ prefetch' = None /\ UNCHANGED cache
          /\ \/ wpc' = IF wpc = "joined" THEN "joinFailed" ELSE wpc
             \/ prefetch.held = None /\ wpc' = wpc
        BY <1>8 DEF PrefetchFails, PrefetchEnds, Wakes
    <2>2. wpc' # "joined" /\ (wpc' = wpc \/ (wpc = "joined" /\ wpc' \in {"chunk", "joinFailed"}))
        BY <1>2, <2>1
    <2>3. \A j \in DOMAIN cache' : IsChunk(j, cache'[j])
        BY <1>1, <2>1
    <2>4. CacheOK'
        BY <1>4, <2>1, <2>2, <2>3, CacheNext
    <2> QED
        BY <1>3, <2>2, <2>4
<1> QED
    BY <1>5, <1>6, <1>7, <1>8 DEF PrefetchTask

LEMMA ShapesEvict ==
    ASSUME Shapes, NEW k, Evict(k)
    PROVE  Shapes'
<1>1. /\ cache' = Restrict(cache, DOMAIN cache \ {k})
      /\ UNCHANGED <<call, reply, queue, writes, wpc, serving, chunk, buffer, prefetch, raWindow>>
      /\ UNCHANGED <<dirty, flight, strays, media, stable, written, doubtful>>
    BY DEF Evict, DeviceRest, workVars, callVars, dirtyVars, diskVars, ghostVars, raVars
<1>2. \A j \in DOMAIN cache' : j \in DOMAIN cache /\ cache'[j] = cache[j]
    BY <1>1 DEF Restrict
<1>3. CacheOK'
    BY <1>1, <1>2, CacheFacts, CacheNext
<1>4. ChannelOK'
    BY <1>1, ChannelSame
<1>5. chunk' \in Nat /\ IsBuffer(buffer')
      /\ (wpc' = "joined" => prefetch' # None /\ prefetch'.held # None /\ prefetch'.next = chunk')
    BY <1>1, WorkerFacts
<1>6. WorkerOK'
    BY <1>1, <1>5, ServedNext, WorkerNext
<1>7. DirtyOK' /\ FlightOK' /\ StraysOK' /\ TargetOK'
    BY <1>1, Frames
<1> QED
    BY <1>3, <1>4, <1>6, <1>7 DEF Shapes

----------------------------------------------------------------------------
(* Shapes: callers *)

LEMMA CallIsRequest ==
    ASSUME Shapes, NEW c \in Callers, Calls(c)
    PROVE  \E request \in Request : Call(c, request) /\ writes' \in Value
<1>1. /\ Reads \subseteq Nat \X Nat /\ Writes \subseteq Nat \X Nat /\ SyncModes \subseteq BOOLEAN
      /\ MaxWrites \in Nat /\ writes \in Value
    BY BlockDeviceAssumption, ChannelFacts DEF BlockDeviceAssumption
<1>2. CASE CallRead(c)
    <2>1. PICK x \in Reads : Call(c, Ask("read", x[1], x[2], 0))
        BY <1>2 DEF CallRead
    <2>2. Ask("read", x[1], x[2], 0) \in Request
        BY <1>1 DEF Ask, Request
    <2> QED
        BY <1>1, <1>2, <2>1, <2>2 DEF CallRead
<1>3. CASE CallWrite(c)
    <2>1. PICK x \in Writes : Call(c, Ask("write", x[1], x[2], writes'))
        BY <1>3 DEF CallWrite
    <2>2. writes' \in Value
        BY <1>1, <1>3 DEF CallWrite, Value
    <2>3. Ask("write", x[1], x[2], writes') \in Request
        BY <1>1, <2>2 DEF Ask, Request, Value
    <2> QED
        BY <2>1, <2>2, <2>3
<1>4. CASE CallFlush(c)
    <2>1. Ask("flush", 0, 0, 0) \in Request
        BY <1>1 DEF Ask, Request
    <2> QED
        BY <1>1, <1>4, <2>1 DEF CallFlush
<1>5. CASE CallSetSync(c)
    <2>1. PICK mode \in SyncModes : Call(c, Ask("setSync", 0, 0, mode))
        BY <1>5 DEF CallSetSync
    <2>2. Ask("setSync", 0, 0, mode) \in Request
        BY <1>1 DEF Ask, Request
    <2> QED
        BY <1>1, <1>5, <2>1, <2>2 DEF CallSetSync
<1> QED
    BY <1>2, <1>3, <1>4, <1>5 DEF Calls

(* What a caller does reaches the channel only. *)
LEMMA ShapesDevice ==
    ASSUME Shapes, DeviceRest, UNCHANGED cache, ChannelOK',
           serving \in Callers => call'[serving] = call[serving]
    PROVE  Shapes'
<1>1. /\ UNCHANGED <<wpc, serving, chunk, buffer, cache, prefetch, raWindow>>
      /\ UNCHANGED <<dirty, flight, strays, media, stable, written, doubtful>>
    BY DEF DeviceRest, workVars, dirtyVars, diskVars, ghostVars, raVars
<1>2. chunk' \in Nat /\ IsBuffer(buffer')
      /\ (wpc' = "joined" => prefetch' # None /\ prefetch'.held # None /\ prefetch'.next = chunk')
    BY <1>1, WorkerFacts
<1>3. WorkerOK'
    BY <1>1, <1>2, ServedNext, WorkerNext
<1>4. DirtyOK' /\ FlightOK' /\ StraysOK' /\ CacheOK' /\ TargetOK'
    BY <1>1, Frames
<1> QED
    BY <1>3, <1>4 DEF Shapes

LEMMA ShapesCallers ==
    ASSUME Shapes, (\E c \in Callers : Calls(c) \/ Return(c)) \/ Close
    PROVE  Shapes'
<1>1. ASSUME NEW c \in Callers, Calls(c) PROVE Shapes'
    <2>1. PICK request \in Request : Call(c, request) /\ writes' \in Value
        BY <1>1, CallIsRequest
    <2>2. ChannelOK' /\ serving # c
        BY <2>1, ChannelCall
    <2>3. DeviceRest /\ UNCHANGED cache /\ call' = [call EXCEPT ![c] = request]
        BY <2>1 DEF Call
    <2>4. serving \in Callers => call'[serving] = call[serving]
        BY <2>2, <2>3, ChannelFacts
    <2> QED
        BY <2>2, <2>3, <2>4, ShapesDevice
<1>2. ASSUME NEW c \in Callers, Return(c) PROVE Shapes'
    <2>1. ChannelOK' /\ serving # c
        BY <1>2, ChannelReturn
    <2>2. DeviceRest /\ UNCHANGED cache /\ call' = [call EXCEPT ![c] = None]
        BY <1>2 DEF Return
    <2>3. serving \in Callers => call'[serving] = call[serving]
        BY <2>1, <2>2, ChannelFacts
    <2> QED
        BY <2>1, <2>2, <2>3, ShapesDevice
<1>3. CASE Close
    <2>1. DeviceRest /\ UNCHANGED <<cache, call, reply, queue, writes, serving>>
        BY <1>3 DEF Close, DeviceRest, workVars
    <2>2. ChannelOK'
        BY <2>1, ChannelSame
    <2> QED
        BY <2>1, <2>2, ShapesDevice
<1> QED
    BY <1>1, <1>2, <1>3

LEMMA ShapesSame ==
    ASSUME Shapes, UNCHANGED vars
    PROVE  Shapes'
<1>1. DeviceRest /\ UNCHANGED <<cache, call, reply, queue, writes, serving>>
    BY DEF vars, DeviceRest, workVars, callVars
<1>2. ChannelOK'
    BY <1>1, ChannelSame
<1> QED
    BY <1>1, <1>2, ShapesDevice

----------------------------------------------------------------------------
(* Shapes: a write, and its flush *)

(* What dirty.insert is given: the blocks of the write, whole. *)
LEMMA InsertedWhole ==
    ASSUME Shapes, NEW l \in Nat, NEW data, WholeBlocks(data), l * BlockSize \in DOMAIN data
    PROVE  LET after == Inserted(dirty, l, data)
           IN  /\ DOMAIN after = DOMAIN dirty \cup {l} /\ after[l] = data
               /\ \A k \in DOMAIN after :
                     WholeBlocks(after[k]) /\ k * BlockSize \in DOMAIN after[k]
BY DEF Inserted, Shapes, DirtyOK

LEMMA DirtyNext ==
    ASSUME \A k \in DOMAIN dirty' : WholeBlocks(dirty'[k]) /\ k * BlockSize \in DOMAIN dirty'[k]
    PROVE  DirtyOK'
BY DEF DirtyOK, WholeBlocks, IsBuffer, Byte, BlockOf, TotalBytes, Value

(* The bytes a write changes, and that they are on the device. *)
LEMMA WriteBytes ==
    ASSUME Shapes, NEW c \in Callers, call[c] # None, call[c].op = "write", ~Nothing(c)
    PROVE  /\ Start(c) \in Nat /\ Count(c) \in Nat /\ Count(c) # 0
           /\ Start(c) + Count(c) <= TotalBlocks
           /\ BytesOf(Start(c), Count(c)) \subseteq Byte
           /\ DOMAIN Payload(c) = Extent(Offset(c), Size(c))
           /\ DOMAIN Payload(c) \subseteq BytesOf(Start(c), Count(c))
           /\ Aligned(Offset(c), Size(c)) => DOMAIN Payload(c) = BytesOf(Start(c), Count(c))
           /\ BlocksOf(Offset(c), Size(c)) = Start(c) .. Start(c) + Count(c) - 1
           /\ \A b \in DOMAIN Payload(c) : Payload(c)[b] = call[c].value
           /\ call[c].value \in Value
<1>1. call[c].offset \in Nat /\ call[c].size \in Nat /\ call[c].value \in Value
    BY RequestTyped
<1>2. /\ Start(c) \in Nat /\ Count(c) \in Nat /\ Count(c) # 0
      /\ Start(c) + Count(c) <= TotalBlocks
      /\ Extent(Offset(c), Size(c)) \subseteq BytesOf(Start(c), Count(c))
      /\ Aligned(Offset(c), Size(c)) => Extent(Offset(c), Size(c)) = BytesOf(Start(c), Count(c))
      /\ BlocksOf(Offset(c), Size(c)) = Start(c) .. Start(c) + Count(c) - 1
    BY <1>1, RangeOfCall
<1>3. BytesOf(Start(c), Count(c)) \subseteq Byte
    BY <1>2, InDevice
<1>4. /\ DOMAIN Payload(c) = Extent(Offset(c), Size(c))
      /\ \A b \in DOMAIN Payload(c) : Payload(c)[b] = call[c].value
    BY DEF Payload
<1> QED
    BY <1>1, <1>2, <1>3, <1>4

LEMMA ShapesInsert ==
    ASSUME Shapes, NEW c \in Callers, serving' = c, call[c] # None, call[c].op = "write",
           ~Nothing(c), NEW data, DOMAIN data = BytesOf(Start(c), Count(c)),
           \A b \in DOMAIN data : data[b] \in Value,
           Insert(c, data), wpc # "await", ChannelOK', WorkerOnly, UNCHANGED <<chunk, buffer>>
    PROVE  Shapes'
<1>1. /\ Start(c) \in Nat /\ Count(c) \in Nat /\ Count(c) # 0
      /\ Start(c) + Count(c) <= TotalBlocks
      /\ \A b \in DOMAIN Payload(c) : Payload(c)[b] \in Value
    BY WriteBytes
<1>2. /\ dirty' = Inserted(dirty, Start(c), data)
      /\ cache' = Restrict(cache, DOMAIN cache \ ChunksOf(Start(c), Count(c)))
      /\ raWindow' = RaMin
      /\ written' = [b \in Byte |-> IF b \in DOMAIN Payload(c) THEN Payload(c)[b]
                                                               ELSE written[b]]
      /\ wpc' \in {"drain", "ack"}
      /\ UNCHANGED <<flight, strays, prefetch, stable, doubtful, media, call>>
    BY DEF Insert, Invalidate, WorkerOnly
<1>3. WholeBlocks(data) /\ Start(c) * BlockSize \in DOMAIN data
    BY <1>1, Blockwise
<1>4. \A k \in DOMAIN dirty' : WholeBlocks(dirty'[k]) /\ k * BlockSize \in DOMAIN dirty'[k]
    BY <1>1, <1>2, <1>3, InsertedWhole
<1>5. DirtyOK'
    BY <1>4, DirtyNext
<1>6. FlightOK' /\ StraysOK'
    BY <1>2, Frames
<1>7. RaMin \in Nat
    BY BlockDeviceAssumption DEF BlockDeviceAssumption
<1>8. \A j \in DOMAIN cache' : j \in DOMAIN cache /\ cache'[j] = cache[j]
    BY <1>2 DEF Restrict
<1>9. CacheOK'
    BY <1>2, <1>7, <1>8, CacheFacts, CacheNext
<1>10. written \in [Byte -> Value]
    BY DEF Shapes, TargetOK
<1>11. written' \in [Byte -> Value]
    BY <1>1, <1>2, <1>10
<1>12. TargetOK'
    BY <1>2, <1>11 DEF Shapes, TargetOK
<1>13. chunk' \in Nat /\ IsBuffer(buffer')
    BY WorkerFacts
<1>14. WorkerOK'
    BY <1>2, <1>13, Apart, WorkerNext DEF WorkerPlaces
<1> QED
    BY <1>5, <1>6, <1>9, <1>12, <1>14 DEF Shapes

(* The blocks that are read for a write of parts of them. *)
LEMMA RmwBuffer ==
    ASSUME Shapes, NEW l \in Nat, NEW n \in Nat, l + n <= TotalBlocks
    PROVE  LET data == Restrict(media, BytesOf(l, n))
           IN  /\ IsBuffer(data) /\ DOMAIN data = BytesOf(l, n)
               /\ \A b \in DOMAIN data : data[b] = media[b]
<1>1. media \in [Byte -> Value] /\ BytesOf(l, n) \subseteq Byte
    BY InDevice DEF Shapes, TargetOK
<1> QED
    BY <1>1 DEF Restrict, IsBuffer

LEMMA ModifiedIs ==
    ASSUME Shapes, serving \in Callers, call[serving].op = "write"
    PROVE  /\ DOMAIN Modified = DOMAIN buffer
           /\ \A b \in DOMAIN buffer :
                /\ Modified[b] \in Value
                /\ Modified[b] = IF b \in DOMAIN Payload(serving) THEN call[serving].value
                                                                  ELSE buffer[b]
<1>1. IsBuffer(buffer) /\ ~Nothing(serving) /\ call[serving] # None
    BY WorkerFacts, ServedIs, Apart
<1>2. /\ \A b \in DOMAIN Payload(serving) : Payload(serving)[b] = call[serving].value
      /\ call[serving].value \in Value
    BY <1>1, WriteBytes
<1> QED
    BY <1>1, <1>2 DEF Modified, IsBuffer

LEMMA TakesWaiting ==
    ASSUME Shapes, NEW c \in Callers, NEW op, Takes(c, op)
    PROVE  /\ wpc = "select" /\ Waiting(c) /\ call[c] # None /\ call[c] \in Request
           /\ call[c].op = op
           /\ call[c].offset \in Nat /\ call[c].size \in Nat /\ Start(c) \in Nat
<1>1. wpc = "select" /\ queue # <<>> /\ c = Head(queue) /\ call[c].op = op
    BY DEF Takes
<1>2. c = queue[1] /\ 1 \in 1 .. Len(queue)
    BY <1>1, ChannelFacts, HeadTailProperties, EmptySeq
<1>3. Waiting(c)
    BY <1>2, ChannelFacts
<1>4. call[c] # None /\ call[c] \in Request
    BY <1>3, ChannelFacts DEF Waiting
<1> QED
    BY <1>1, <1>3, <1>4, RequestTyped, RangeOfCall

LEMMA ShapesServe ==
    ASSUME Shapes, NEW c \in Callers, Serve(c), WorkerOnly
    PROVE  Shapes'
<1>1. ASSUME NEW op, NEW ok, AnswersAtOnce(c, op, ok) PROVE Shapes'
    BY <1>1, ShapesAnswers DEF AnswersAtOnce
<1>2. CASE ReadNothing(c) \/ WriteNothing(c) \/ RmwReadFails(c)
    BY <1>1, <1>2 DEF ReadNothing, WriteNothing, RmwReadFails
<1>3. CASE ReadDirty(c)
    BY <1>3, ShapesAnswers DEF ReadDirty
<1>4. CASE SetSyncWrites(c)
    BY <1>4, ShapesAnswers DEF SetSyncWrites
<1>5. CASE Flush(c)
    <2>1. CASE Takes(c, "flush") /\ Serves(c, "drain") /\ DataRest /\ UNCHANGED <<chunk, buffer>>
        <3>1. chunk' \in Nat /\ IsBuffer(buffer')
            BY <2>1, WorkerFacts
        <3> QED
            BY <2>1, <3>1, ShapesServes
    <2> QED
        BY <1>1, <1>5, <2>1 DEF Flush
<1>6. CASE ReadThroughCache(c)
    <2>1. /\ Takes(c, "read") /\ ~Nothing(c) /\ Serves(c, "chunk") /\ DataRest
          /\ chunk' = ChunkLba(Start(c)) /\ UNCHANGED buffer
        BY <1>6 DEF ReadThroughCache
    <2>2. chunk' \in Nat /\ IsBuffer(buffer')
        BY <2>1, TakesWaiting, ChunkLbaNat, WorkerFacts
    <2> QED
        BY <2>1, <2>2, ShapesServes
<1>7. CASE RmwRead(c)
    <2>1. /\ Takes(c, "write") /\ ~Nothing(c) /\ Serves(c, "modify") /\ DataRest
          /\ buffer' = Restrict(media, BytesOf(Start(c), Count(c))) /\ UNCHANGED chunk
        BY <1>7 DEF RmwRead
    <2>2. Start(c) \in Nat /\ Count(c) \in Nat /\ Start(c) + Count(c) <= TotalBlocks
        BY <2>1, TakesWaiting, WriteBytes
    <2>3. IsBuffer(buffer') /\ DOMAIN buffer' = BytesOf(Start(c), Count(c))
        BY <2>1, <2>2, RmwBuffer
    <2>4. chunk' \in Nat
        BY <2>1, WorkerFacts
    <2> QED
        BY <2>1, <2>3, <2>4, ShapesServes
<1>8. CASE InsertAligned(c)
    <2>1. /\ Takes(c, "write") /\ ~Nothing(c) /\ Aligned(Offset(c), Size(c)) /\ serving' = c
          /\ Insert(c, Payload(c)) /\ UNCHANGED <<chunk, buffer, reply>>
        BY <1>8 DEF InsertAligned, Insert
    <2>2. call[c] # None /\ call[c].op = "write" /\ wpc = "select"
        BY <2>1, TakesWaiting
    <2>3. /\ DOMAIN Payload(c) = BytesOf(Start(c), Count(c))
          /\ \A b \in DOMAIN Payload(c) : Payload(c)[b] \in Value
        BY <2>1, <2>2, WriteBytes
    <2>4. ChannelOK'
        BY <2>1, ChannelTakes DEF WorkerOnly
    <2> QED
        BY <2>1, <2>2, <2>3, <2>4, ShapesInsert
<1> QED
    BY <1>2, <1>3, <1>4, <1>5, <1>6, <1>7, <1>8 DEF Serve

LEMMA ShapesModify ==
    ASSUME Shapes, RmwInsert, WorkerOnly
    PROVE  Shapes'
<1>1. /\ wpc = "modify" /\ Insert(serving, Modified)
      /\ UNCHANGED <<serving, queue, chunk, buffer, reply, call, writes>>
    BY DEF RmwInsert, Insert, WorkerOnly
<1>2. /\ serving \in Callers /\ call[serving].op = "write" /\ ~Nothing(serving)
      /\ call[serving] # None /\ DOMAIN buffer = BytesOf(Start(serving), Count(serving))
    BY <1>1, WorkerFacts, ServedIs, Apart
<1>3. /\ DOMAIN Modified = BytesOf(Start(serving), Count(serving))
      /\ \A b \in DOMAIN Modified : Modified[b] \in Value
    BY <1>2, ModifiedIs
<1>4. ChannelOK'
    BY <1>1, ChannelSame
<1>5. serving' = serving /\ wpc # "await" /\ UNCHANGED <<chunk, buffer>>
    BY <1>1
<1> QED
    BY <1>1, <1>2, <1>3, <1>4, <1>5, ShapesInsert

(* A task is spawned for each dirty entry. *)
LEMMA Drained ==
    ASSUME Shapes, Drain, WorkerOnly
    PROVE  /\ DOMAIN flight' = DOMAIN dirty
           /\ \A l \in DOMAIN dirty :
                flight'[l] = [data |-> dirty[l], left |-> BlocksIn(dirty[l]), status |-> "running"]
BY DEF Drain, BlocksIn

LEMMA FlightNext ==
    ASSUME \A l \in DOMAIN flight' :
              /\ flight'[l] = [data |-> flight'[l].data, left |-> flight'[l].left,
                               status |-> flight'[l].status]
              /\ WholeBlocks(flight'[l].data)
              /\ flight'[l].left \subseteq BlocksIn(flight'[l].data),
           wpc' # "await" => flight' = <<>>
    PROVE  FlightOK'
BY DEF FlightOK, WholeBlocks, IsBuffer, BlocksIn, Byte, BlockOf, TotalBytes, Value

LEMMA ShapesDrain ==
    ASSUME Shapes, Drain, WorkerOnly
    PROVE  Shapes'
<1>1. /\ wpc = "drain" /\ wpc' = "await" /\ dirty' = NoEntries
      /\ UNCHANGED <<serving, reply, queue, call, writes, chunk, buffer, strays, prefetch, cache>>
      /\ UNCHANGED <<raWindow, stable, written, doubtful, media>>
    BY DEF Drain, Goes, WorkerOnly, raVars, ghostVars
<1>2. ChannelOK'
    BY <1>1, ChannelSame
<1>3. /\ chunk' \in Nat /\ IsBuffer(buffer') /\ serving # None
      /\ serving' \in Callers \cup {"timer", "close", None}
    BY <1>1, WorkerFacts
<1>4. \A c \in Callers : serving' = c =>
            /\ call[c].op \in {"read", "write"} => ~Nothing(c)
            /\ call[c].op \in {"write", "flush"}
    BY <1>1, ServedIs
<1>5. WorkerOK'
    BY <1>1, <1>3, <1>4, WorkerNext DEF WorkerPlaces
<1>6. DirtyOK'
    BY <1>1, DirtyNext DEF NoEntries
<1>7. \A l \in DOMAIN flight' :
         /\ flight'[l] = [data |-> flight'[l].data, left |-> flight'[l].left,
                          status |-> flight'[l].status]
         /\ WholeBlocks(flight'[l].data)
         /\ flight'[l].left \subseteq BlocksIn(flight'[l].data)
    <2> SUFFICES ASSUME NEW l \in DOMAIN flight'
                 PROVE  /\ flight'[l] = [data |-> flight'[l].data, left |-> flight'[l].left,
                                         status |-> flight'[l].status]
                        /\ WholeBlocks(flight'[l].data)
                        /\ flight'[l].left \subseteq BlocksIn(flight'[l].data)
        OBVIOUS
    <2>1. l \in DOMAIN dirty /\ flight'[l] =
             [data |-> dirty[l], left |-> BlocksIn(dirty[l]), status |-> "running"]
        BY Drained
    <2>2. WholeBlocks(dirty[l])
        BY <2>1 DEF Shapes, DirtyOK
    <2>3. flight'[l].data = dirty[l] /\ flight'[l].left = BlocksIn(dirty[l])
          /\ flight'[l].status = "running"
        BY <2>1
    <2> QED
        BY <2>1, <2>2, <2>3
<1>8. FlightOK'
    BY <1>1, <1>7, FlightNext
<1>9. StraysOK' /\ CacheOK' /\ TargetOK'
    BY <1>1, Frames
<1> QED
    BY <1>2, <1>5, <1>6, <1>8, <1>9 DEF Shapes

(* flush_dirty returns, to the caller, the timer or the end of the worker. *)
LEMMA FlushBack ==
    ASSUME Shapes, wpc = "await", NEW ok, FlushReturns(ok), WorkerOnly
    PROVE  /\ ChannelOK' /\ WorkerOK' /\ DirtyOK' /\ FlightOK' /\ CacheOK'
           /\ flight' = <<>>
           /\ UNCHANGED <<written, dirty>>
<1>1. /\ flight' = <<>>
      /\ UNCHANGED <<dirty, prefetch, cache, raWindow, written, call, writes, media>>
    BY DEF FlushReturns, WorkerOnly, dirtyVars, raVars
<1>2. DirtyOK' /\ FlightOK' /\ CacheOK'
    BY <1>1, Frames, FlightNext
<1>3. serving \in Callers \cup {"timer", "close"}
    BY WorkerFacts
<1>4. CASE serving = "timer"
    <2>1. wpc' = "select" /\ serving' = None /\ UNCHANGED <<reply, queue, chunk, buffer>>
        BY <1>4 DEF FlushReturns
    <2>2. ChannelOK'
        BY <1>1, <2>1, ChannelSame
    <2>3. chunk' \in Nat /\ IsBuffer(buffer')
        BY <2>1, WorkerFacts
    <2>4. WorkerOK'
        BY <2>1, <2>3, WorkerBack
    <2> QED
        BY <1>1, <1>2, <2>2, <2>4
<1>5. CASE serving = "close"
    <2>1. wpc' = "done" /\ serving' = "close" /\ UNCHANGED <<reply, queue, chunk, buffer>>
        BY <1>5 DEF FlushReturns, Goes
    <2>2. ChannelOK'
        BY <1>1, <2>1, ChannelSame
    <2>3. chunk' \in Nat /\ IsBuffer(buffer')
        BY <2>1, WorkerFacts
    <2>4. WorkerOK'
        BY <2>1, <2>3, Apart, WorkerNext DEF WorkerPlaces
    <2> QED
        BY <1>1, <1>2, <2>2, <2>4
<1>6. CASE serving \in Callers
    <2>1. serving # "timer" /\ serving # "close"
        BY <1>6, Apart
    <2>2. Replies(ok, <<>>)
        BY <2>1 DEF FlushReturns
    <2> QED
        BY <1>1, <1>2, <1>6, <2>2, BackToSelect
<1> QED
    BY <1>3, <1>4, <1>5, <1>6

(* The blocks of a call lie on the device, and those of a write do. *)
LEMMA BlocksOnDevice ==
    /\ \A data : WholeBlocks(data) => BlocksIn(data) \subseteq Lba
    /\ \A l, n \in Nat : l + n <= TotalBlocks => l .. l + n - 1 \subseteq Lba
<1>1. ASSUME NEW data, WholeBlocks(data) PROVE BlocksIn(data) \subseteq Lba
    BY <1>1, DeviceBytes DEF WholeBlocks, IsBuffer, BlocksIn
<1>2. ASSUME NEW l \in Nat, NEW n \in Nat, l + n <= TotalBlocks
      PROVE  l .. l + n - 1 \subseteq Lba
    BY <1>2 DEF Lba
<1> QED
    BY <1>1, <1>2

(* A flush that fails leaves writes behind, and blocks in doubt. *)
LEMMA FailureLeaves ==
    ASSUME Shapes, wpc = "await", Failure
    PROVE  StraysOK' /\ doubtful' \subseteq Lba
<1>1. /\ \A l \in DOMAIN flight : /\ WholeBlocks(flight[l].data)
                                  /\ flight[l].left \subseteq BlocksIn(flight[l].data)
      /\ doubtful \subseteq Lba
    BY DEF Shapes, FlightOK, TargetOK
<1>2. ASSUME NEW w \in strays'
      PROVE  /\ w = [data |-> w.data, left |-> w.left]
             /\ WholeBlocks(w.data) /\ w.left \subseteq BlocksIn(w.data)
    <2>1. \/ w \in strays
          \/ \E l \in DOMAIN flight : w = [data |-> flight[l].data, left |-> flight[l].left]
        BY DEF Failure
    <2>2. CASE w \in strays
        BY <2>2 DEF Shapes, StraysOK
    <2>3. CASE \E l \in DOMAIN flight : w = [data |-> flight[l].data, left |-> flight[l].left]
        <3>1. PICK l \in DOMAIN flight : w = [data |-> flight[l].data, left |-> flight[l].left]
            BY <2>3
        <3>2. w.data = flight[l].data /\ w.left = flight[l].left
            BY <3>1
        <3> QED
            BY <1>1, <3>1, <3>2
    <2> QED
        BY <2>1, <2>2, <2>3
<1>3. StraysOK'
    BY <1>2 DEF StraysOK, WholeBlocks, IsBuffer, BlocksIn, Byte, BlockOf, TotalBytes, Value
<1>4. serving \in Callers => serving # "timer" /\ serving # "close"
    BY Apart
<1>5. \/ doubtful' = doubtful
      \/ /\ serving \in Callers /\ call[serving].op = "write"
         /\ doubtful' = doubtful \cup BlocksOf(Offset(serving), Size(serving))
      \/ doubtful' = doubtful \cup
            {BlockOf(b) : b \in UNION {DOMAIN flight[l].data : l \in DOMAIN flight}}
    <2>1. CASE serving \notin Callers
        BY <2>1 DEF Failure
    <2>2. CASE serving \in Callers /\ call[serving].op = "write"
        BY <2>2 DEF Failure
    <2>3. CASE serving \in Callers /\ call[serving].op # "write"
        BY <2>3 DEF Failure
    <2> QED
        BY <2>1, <2>2, <2>3
<1>6. ASSUME serving \in Callers, call[serving].op = "write"
      PROVE  BlocksOf(Offset(serving), Size(serving)) \subseteq Lba
    <2>1. call[serving] # None /\ ~Nothing(serving)
        BY <1>6, ServedIs, Apart
    <2>2. /\ Start(serving) \in Nat /\ Count(serving) \in Nat
          /\ Start(serving) + Count(serving) <= TotalBlocks
          /\ BlocksOf(Offset(serving), Size(serving)) =
                Start(serving) .. Start(serving) + Count(serving) - 1
        BY <1>6, <2>1, WriteBytes
    <2> QED
        BY <2>2, BlocksOnDevice
<1>7. {BlockOf(b) : b \in UNION {DOMAIN flight[l].data : l \in DOMAIN flight}} \subseteq Lba
    <2>1. ASSUME NEW l \in DOMAIN flight, NEW b \in DOMAIN flight[l].data
          PROVE  BlockOf(b) \in Lba
        BY <1>1, DeviceBytes DEF WholeBlocks, IsBuffer
    <2> QED
        BY <2>1
<1>8. doubtful' \subseteq Lba
    BY <1>1, <1>5, <1>6, <1>7
<1> QED
    BY <1>3, <1>8

LEMMA ShapesFlushEnds ==
    ASSUME Shapes, FlushFails \/ SynchronizeCache \/ SynchronizeFails, WorkerOnly
    PROVE  Shapes'
<1>1. media \in [Byte -> Value] /\ stable \in [Byte -> Value] /\ written \in [Byte -> Value]
      /\ doubtful \subseteq Lba
    BY DEF Shapes, TargetOK
<1>2. UNCHANGED media
    BY DEF WorkerOnly
<1>3. CASE SynchronizeCache
    <2>1. /\ wpc = "await" /\ FlushReturns(TRUE) /\ stable' = media
          /\ UNCHANGED <<strays, doubtful>>
        BY <1>3 DEF SynchronizeCache
    <2>2. /\ ChannelOK' /\ WorkerOK' /\ DirtyOK' /\ FlightOK' /\ CacheOK'
          /\ UNCHANGED written
        BY <2>1, FlushBack
    <2>3. TargetOK'
        BY <1>1, <1>2, <2>1, <2>2 DEF TargetOK
    <2>4. StraysOK'
        BY <2>1, Frames
    <2> QED
        BY <2>2, <2>3, <2>4 DEF Shapes
<1>4. CASE FlushFails \/ SynchronizeFails
    <2>1. wpc = "await" /\ Failure /\ FlushReturns(FALSE) /\ UNCHANGED stable
        BY <1>4 DEF FlushFails, SynchronizeFails, Failure
    <2>2. /\ ChannelOK' /\ WorkerOK' /\ DirtyOK' /\ FlightOK' /\ CacheOK'
          /\ UNCHANGED written
        BY <2>1, FlushBack
    <2>3. StraysOK' /\ doubtful' \subseteq Lba
        BY <2>1, FailureLeaves
    <2>4. TargetOK'
        BY <1>1, <1>2, <2>1, <2>2, <2>3 DEF TargetOK
    <2> QED
        BY <2>2, <2>3, <2>4 DEF Shapes
<1> QED
    BY <1>3, <1>4

----------------------------------------------------------------------------
(* Shapes: the target *)

(* A block of a write lands. *)
LEMMA LandedIs ==
    ASSUME Shapes, NEW data, WholeBlocks(data), NEW block \in BlocksIn(data),
           media' = Landed(data, block)
    PROVE  /\ media' \in [Byte -> Value]
           /\ \A b \in Byte : media'[b] = IF BlockOf(b) = block THEN data[b] ELSE media[b]
           /\ \A b \in Byte : BlockOf(b) = block => b \in DOMAIN data
<1>1. media \in [Byte -> Value]
    BY DEF Shapes, TargetOK
<1>2. PICK x \in DOMAIN data : block = BlockOf(x)
    BY DEF BlocksIn
<1>3. \A b \in Byte : BlockOf(b) = block => b \in DOMAIN data /\ data[b] \in Value
    BY <1>2 DEF WholeBlocks, IsBuffer
<1> QED
    BY <1>1, <1>3 DEF Landed

LEMMA ShapesTarget ==
    ASSUME Shapes, TargetOnly, FlightOK', StraysOK', media' \in [Byte -> Value]
    PROVE  Shapes'
<1>1. /\ UNCHANGED <<call, reply, queue, writes, wpc, serving, chunk, buffer>>
      /\ UNCHANGED <<dirty, prefetch, cache, raWindow, stable, written, doubtful>>
    BY DEF TargetOnly, callVars, workVars, dirtyVars, raVars, ghostVars
<1>2. ChannelOK'
    BY <1>1, ChannelSame
<1>3. chunk' \in Nat /\ IsBuffer(buffer')
      /\ (wpc' = "joined" => prefetch' # None /\ prefetch'.held # None /\ prefetch'.next = chunk')
    BY <1>1, WorkerFacts
<1>4. WorkerOK'
    BY <1>1, <1>3, ServedNext, WorkerNext
<1>5. DirtyOK' /\ CacheOK'
    BY <1>1, Frames
<1>6. TargetOK'
    BY <1>1 DEF Shapes, TargetOK
<1> QED
    BY <1>2, <1>4, <1>5, <1>6 DEF Shapes

(* Records of which one field is replaced. *)
LEMMA TaskExcept ==
    ASSUME NEW r, r = [data |-> r.data, left |-> r.left, status |-> r.status], NEW x
    PROVE  /\ [r EXCEPT !.left = x] = [data |-> r.data, left |-> x, status |-> r.status]
           /\ [r EXCEPT !.status = x] = [data |-> r.data, left |-> r.left, status |-> x]
<1> DEFINE d == r.data
           y == r.left
           t == r.status
<1> HIDE DEF d, y, t
<1>1. r = [data |-> d, left |-> y, status |-> t]
    BY DEF d, y, t
<1>2. [r EXCEPT !.left = x] = [data |-> d, left |-> x, status |-> t]
    BY <1>1
<1>3. [r EXCEPT !.status = x] = [data |-> d, left |-> y, status |-> x]
    BY <1>1
<1> QED
    BY <1>2, <1>3 DEF d, y, t

LEMMA StrayExcept ==
    ASSUME NEW r, r = [data |-> r.data, left |-> r.left], NEW x
    PROVE  [r EXCEPT !.left = x] = [data |-> r.data, left |-> x]
<1> DEFINE d == r.data
           y == r.left
<1> HIDE DEF d, y
<1>1. r = [data |-> d, left |-> y]
    BY DEF d, y
<1>2. [r EXCEPT !.left = x] = [data |-> d, left |-> x]
    BY <1>1
<1> QED
    BY <1>2 DEF d

LEMMA FlightFacts ==
    ASSUME Shapes, NEW l \in DOMAIN flight
    PROVE  /\ flight[l] = [data |-> flight[l].data, left |-> flight[l].left,
                           status |-> flight[l].status]
           /\ WholeBlocks(flight[l].data)
           /\ flight[l].left \subseteq BlocksIn(flight[l].data)
           /\ wpc = "await"
BY DEF Shapes, FlightOK

(* A task's record is replaced by one with less left, or another status. *)
LEMMA FlightStep ==
    ASSUME Shapes, NEW l \in DOMAIN flight, NEW left, NEW status,
           left \subseteq flight[l].left, UNCHANGED wpc,
           flight' = [flight EXCEPT ![l] = [data |-> flight[l].data, left |-> left,
                                            status |-> status]]
    PROVE  FlightOK'
<1>1. /\ DOMAIN flight' = DOMAIN flight
      /\ flight'[l] = [data |-> flight[l].data, left |-> left, status |-> status]
      /\ \A k \in DOMAIN flight : k # l => flight'[k] = flight[k]
    OBVIOUS
<1>2. flight'[l].data = flight[l].data /\ flight'[l].left = left /\ flight'[l].status = status
    BY <1>1
<1>3. ASSUME NEW k \in DOMAIN flight'
      PROVE  /\ flight'[k] = [data |-> flight'[k].data, left |-> flight'[k].left,
                              status |-> flight'[k].status]
             /\ WholeBlocks(flight'[k].data)
             /\ flight'[k].left \subseteq BlocksIn(flight'[k].data)
    <2>1. CASE k = l
        BY <1>1, <1>2, <2>1, FlightFacts
    <2>2. CASE k # l
        BY <1>1, <2>2, FlightFacts
    <2> QED
        BY <2>1, <2>2
<1>4. wpc' = "await"
    BY FlightFacts
<1> QED
    BY <1>3, <1>4, FlightNext

LEMMA ShapesFlight ==
    ASSUME Shapes, Target
    PROVE  Shapes'
<1> SUFFICES ASSUME NEW l \in DOMAIN flight, WriteLands(l) \/ WriteSucceeds(l) \/ WriteFails(l)
             PROVE  Shapes'
    BY DEF Target
<1>1. /\ TargetOnly /\ UNCHANGED <<strays, wpc>>
    BY DEF WriteLands, WriteSucceeds, WriteFails, TargetOnly, workVars
<1>2. media \in [Byte -> Value] /\ StraysOK'
    BY <1>1, Frames DEF Shapes, TargetOK
<1>3. flight[l] = [data |-> flight[l].data, left |-> flight[l].left, status |-> flight[l].status]
    BY FlightFacts
<1>4. CASE WriteLands(l)
    <2>1. PICK block \in flight[l].left :
             /\ media' = Landed(flight[l].data, block)
             /\ flight' = [flight EXCEPT ![l].left = @ \ {block}]
        BY <1>4 DEF WriteLands
    <2>2. flight' = [flight EXCEPT ![l] = [data |-> flight[l].data,
                        left |-> flight[l].left \ {block}, status |-> flight[l].status]]
        BY <1>3, <2>1, TaskExcept
    <2> DEFINE left == flight[l].left \ {block}
               status == flight[l].status
    <2>3. FlightOK'
        <3>1. left \subseteq flight[l].left /\ flight' =
                 [flight EXCEPT ![l] = [data |-> flight[l].data, left |-> left, status |-> status]]
            BY <2>2
        <3> HIDE DEF left, status
        <3> QED
            BY <1>1, <3>1, FlightStep
    <2>4. media' \in [Byte -> Value]
        BY <2>1, FlightFacts, LandedIs
    <2> QED
        BY <1>1, <1>2, <2>3, <2>4, ShapesTarget
<1>5. CASE WriteSucceeds(l) \/ WriteFails(l)
    <2>1. UNCHANGED media
        BY <1>5 DEF WriteSucceeds, WriteFails
    <2>2. PICK status : flight' = [flight EXCEPT ![l].status = status]
        BY <1>5 DEF WriteSucceeds, WriteFails
    <2>3. flight' = [flight EXCEPT ![l] = [data |-> flight[l].data,
                        left |-> flight[l].left, status |-> status]]
        BY <1>3, <2>2, TaskExcept
    <2>4. FlightOK'
        BY <1>1, <2>3, FlightStep
    <2> QED
        BY <1>1, <1>2, <2>1, <2>4, ShapesTarget
<1> QED
    BY <1>4, <1>5

(* A write nobody awaits reaches a block of it. *)
LEMMA StrayFacts ==
    ASSUME Shapes, NEW w \in strays
    PROVE  /\ w = [data |-> w.data, left |-> w.left]
           /\ WholeBlocks(w.data) /\ w.left \subseteq BlocksIn(w.data)
BY DEF Shapes, StraysOK

LEMMA ShapesStray ==
    ASSUME Shapes, NEW w \in strays, StrayLands(w)
    PROVE  Shapes'
<1>1. PICK block \in w.left :
         /\ media' = Landed(w.data, block)
         /\ strays' = (strays \ {w}) \cup
               (IF w.left = {block} THEN {} ELSE {[w EXCEPT !.left = @ \ {block}]})
    BY DEF StrayLands
<1>2. TargetOnly /\ UNCHANGED <<flight, wpc>>
    BY DEF StrayLands, TargetOnly, workVars
<1>3. ASSUME NEW v \in strays'
      PROVE  /\ v = [data |-> v.data, left |-> v.left]
             /\ WholeBlocks(v.data) /\ v.left \subseteq BlocksIn(v.data)
    <2>1. CASE v \in strays
        BY <2>1, StrayFacts
    <2>2. CASE v = [w EXCEPT !.left = @ \ {block}]
        <3>1. v = [data |-> w.data, left |-> w.left \ {block}]
            BY <2>2, StrayFacts, StrayExcept
        <3>2. v.data = w.data /\ v.left = w.left \ {block}
            BY <3>1
        <3> QED
            BY <3>1, <3>2, StrayFacts
    <2> QED
        BY <1>1, <2>1, <2>2
<1>4. StraysOK'
    BY <1>3 DEF StraysOK, WholeBlocks, IsBuffer, BlocksIn, Byte, BlockOf, TotalBytes, Value
<1>5. FlightOK'
    BY <1>2, Frames
<1>6. media' \in [Byte -> Value]
    BY <1>1, StrayFacts, LandedIs
<1> QED
    BY <1>2, <1>4, <1>5, <1>6, ShapesTarget

----------------------------------------------------------------------------
(* Shapes is inductive *)

LEMMA ShapesContinue ==
    ASSUME Shapes, Continue, WorkerOnly
    PROVE  Shapes'
<1>1. CASE ChunkFetchFails
    <2>1. wpc \in {"chunk", "joinFailed"} /\ Replies(FALSE, <<>>) /\ DataRest
        BY <1>1 DEF ChunkFetchFails, AtChunk
    <2>2. serving \in Callers /\ wpc # "await"
        BY <2>1, WorkerFacts
    <2> QED
        BY <2>1, <2>2, ShapesReplies
<1>2. CASE WriteCoalesced
    <2>1. wpc = "ack" /\ Replies(TRUE, <<>>) /\ DataRest
        BY <1>2 DEF WriteCoalesced
    <2>2. serving \in Callers /\ wpc # "await"
        BY <2>1, WorkerFacts
    <2> QED
        BY <2>1, <2>2, ShapesReplies
<1>3. CASE ChannelClosed
    <2>1. \E there \in {"drain", "done"} : Unasked("close", there)
        BY <1>3 DEF ChannelClosed
    <2> QED
        BY <2>1, ShapesUnasked
<1> QED
    BY <1>1, <1>2, <1>3, ShapesRead, ShapesReadEnds, ShapesModify, ShapesDrain,
       ShapesFlushEnds DEF Continue

LEMMA ShapesStep ==
    ASSUME Shapes, [Next]_vars
    PROVE  Shapes'
<1>1. CASE Worker
    BY <1>1, ShapesServe, ShapesContinue DEF Worker
<1>2. CASE Timer
    <2>1. Unasked("timer", "drain") /\ WorkerOnly
        BY <1>2 DEF Timer, CoalesceTimer
    <2> QED
        BY <2>1, ShapesUnasked
<1> QED
    BY <1>1, <1>2, ShapesCallers, ShapesPrefetch, ShapesFlight, ShapesEvict, ShapesStray,
       ShapesSame DEF Next

LEMMA ShapesAreTyped ==
    ASSUME Shapes
    PROVE  TypeOK
<1>1. /\ \A c \in Callers : reply[c] # None => call[c] # None
      /\ Len(queue) <= QueueBound
    BY ChannelFacts
<1>2. /\ wpc \in WorkerPlaces
      /\ serving \in Callers \cup {"timer", "close", None}
      /\ (serving = None) <=> (wpc = "select")
      /\ IsBuffer(buffer)
      /\ wpc = "joined" => InFlight(chunk)
    BY DEF Shapes, WorkerOK
<1>3. IsBuffer(media) /\ IsBuffer(stable) /\ IsBuffer(written) /\ doubtful \subseteq Lba
    BY DEF Shapes, TargetOK, IsBuffer
<1>4. \A l \in DOMAIN dirty : IsBuffer(dirty[l]) /\ l * BlockSize \in DOMAIN dirty[l]
    BY DEF Shapes, DirtyOK, WholeBlocks
<1>5. \A k \in DOMAIN cache : OnDevice(k) /\ DOMAIN cache[k] = BytesOf(k, ChunkBlocks)
    BY CacheFacts DEF IsChunk
<1>6. flight # <<>> => wpc = "await"
    BY DEF Shapes, FlightOK
<1> QED
    BY <1>1, <1>2, <1>3, <1>4, <1>5, <1>6 DEF TypeOK

(* Whatever the mode, the callers and the target do: the worker serves one  *)
(* request at a time and answers it once, the chunks and the dirty entries  *)
(* are whole and on the device, writes of a flush are in progress only      *)
(* while the worker awaits them, and a worker that waits for the readahead  *)
(* task waits for a fetch that is under way.                                *)
THEOREM BlockDeviceTyped == Spec => []TypeOK
<1>1. Init => Shapes
    BY ShapesInit
<1>2. Shapes /\ [Next]_vars => Shapes'
    BY ShapesStep
<1>3. Shapes => TypeOK
    BY ShapesAreTyped
<1> QED
    BY <1>1, <1>2, <1>3, PTL DEF Spec

----------------------------------------------------------------------------
(* Sync mode.  Buffers that have the last data written, and a write on its  *)
(* way, over whatever the target, the history and the doubts are: what      *)
(* Exact, Settled and OnItsWay say of one state.                            *)

Right(data, b, last, doubts) == BlockOf(b) \notin doubts => data[b] = last[b]

BothRight(b, m, s, last, doubts) == Right(m, b, last, doubts) /\ Right(s, b, last, doubts)

Delivering(range, data, left, m, s, last, doubts) ==
    /\ DOMAIN data = range
    /\ \A b \in DOMAIN data : Right(data, b, last, doubts)
    /\ \A b \in Byte : BlockOf(b) \notin left => Right(m, b, last, doubts)
    /\ \A b \in Byte \ DOMAIN data : BothRight(b, m, s, last, doubts)

LEMMA InSyncFacts ==
    ASSUME InSync
    PROVE  /\ sync = TRUE
           /\ \A c \in Callers : (call[c] # None /\ call[c].op = "setSync") => call[c].value = TRUE
           /\ serving # "timer" /\ wpc # "ack"
           /\ serving = "close" => wpc = "done"
           /\ wpc # "drain" => dirty = NoEntries
           /\ wpc \notin {"drain", "await"} =>
                 \A b \in Byte : BothRight(b, media, stable, written, doubtful)
           /\ wpc = "modify" => \A b \in DOMAIN buffer : Right(buffer, b, written, doubtful)
           /\ \A c \in Callers : (serving = c /\ wpc = "drain") =>
                 /\ DOMAIN dirty = {Start(c)} /\ call[c].op = "write"
                 /\ Delivering(BytesOf(Start(c), Count(c)), dirty[Start(c)],
                               BlocksIn(dirty[Start(c)]), media, stable, written, doubtful)
           /\ \A c \in Callers : (serving = c /\ wpc = "await") =>
                 /\ DOMAIN flight = {Start(c)} /\ call[c].op = "write"
                 /\ Delivering(BytesOf(Start(c), Count(c)), flight[Start(c)].data,
                               flight[Start(c)].left, media, stable, written, doubtful)
           /\ \A l \in DOMAIN flight : flight[l].status = "ok" => flight[l].left = {}
           /\ \A w \in strays : w.left \subseteq doubtful
<1>1. \A data, b : Exact(data, b) <=> Right(data, b, written, doubtful)
    BY DEF Exact, Trusted, Right
<1>2. \A b : Settled(b) <=> BothRight(b, media, stable, written, doubtful)
    BY <1>1 DEF Settled, BothRight
<1>3. ASSUME NEW c, NEW data, NEW left, OnItsWay(c, data, left)
      PROVE  /\ call[c].op = "write"
             /\ Delivering(BytesOf(Start(c), Count(c)), data, left,
                           media, stable, written, doubtful)
    BY <1>1, <1>2, <1>3 DEF OnItsWay, Delivering
<1> QED
    BY <1>1, <1>2, <1>3 DEF InSync

LEMMA InSyncNext ==
    ASSUME sync' = TRUE,
           \A c \in Callers : (call'[c] # None /\ call'[c].op = "setSync") => call'[c].value = TRUE,
           serving' # "timer", wpc' # "ack",
           serving' = "close" => wpc' = "done",
           wpc' # "drain" => dirty' = NoEntries,
           wpc' \notin {"drain", "await"} =>
                 \A b \in Byte : BothRight(b, media', stable', written', doubtful'),
           wpc' = "modify" => \A b \in DOMAIN buffer' : Right(buffer', b, written', doubtful'),
           serving' \in Callers => call'[serving'] = call[serving'],
           \A c \in Callers : (serving' = c /\ wpc' = "drain") =>
                 /\ DOMAIN dirty' = {Start(c)} /\ call[c].op = "write"
                 /\ Delivering(BytesOf(Start(c), Count(c)), dirty'[Start(c)],
                       BlocksIn(dirty'[Start(c)]), media', stable', written', doubtful'),
           \A c \in Callers : (serving' = c /\ wpc' = "await") =>
                 /\ DOMAIN flight' = {Start(c)} /\ call[c].op = "write"
                 /\ Delivering(BytesOf(Start(c), Count(c)), flight'[Start(c)].data,
                       flight'[Start(c)].left, media', stable', written', doubtful'),
           \A l \in DOMAIN flight' : flight'[l].status = "ok" => flight'[l].left = {},
           \A w \in strays' : w.left \subseteq doubtful'
    PROVE  InSync'
<1>1. \A data, b : (BlockOf(b) \notin doubtful' => data[b] = written'[b])
                       <=> Right(data, b, written', doubtful')
    BY DEF Right
<1>2. \A b : (/\ BlockOf(b) \notin doubtful' => media'[b] = written'[b]
              /\ BlockOf(b) \notin doubtful' => stable'[b] = written'[b])
                       <=> BothRight(b, media', stable', written', doubtful')
    BY <1>1 DEF BothRight
<1>3. (wpc \notin {"drain", "await"} => \A b \in Byte : Settled(b))'
    BY <1>2 DEF Settled, Exact, Trusted, BlockOf
<1>4. (wpc = "modify" => \A b \in DOMAIN buffer : Exact(buffer, b))'
    BY <1>1 DEF Exact, Trusted, BlockOf
<1>5. ASSUME NEW c \in Callers, serving' = c
      PROVE  Start(c)' = Start(c) /\ Count(c)' = Count(c) /\ call'[c] = call[c]
    BY <1>5, SteadyCall
<1>6. ASSUME NEW c \in Callers, serving' = c, wpc' = "drain"
      PROVE  (/\ DOMAIN dirty = {Start(c)}
              /\ OnItsWay(c, dirty[Start(c)], BlocksIn(dirty[Start(c)])))'
    <2> DEFINE l == Start(c)
               n == Count(c)
               range == BytesOf(l, n)
    <2>1. Start(c)' = l /\ Count(c)' = n /\ call'[c] = call[c]
        BY <1>5, <1>6
    <2>2. DOMAIN dirty' = {l} /\ call[c].op = "write"
          /\ Delivering(range, dirty'[l], BlocksIn(dirty'[l]), media', stable', written', doubtful')
        BY <1>6
    <2> HIDE DEF l, n
    <2> QED
        BY <1>1, <1>2, <2>1, <2>2 DEF OnItsWay, Delivering, Settled, Exact, Trusted, BlocksIn
<1>7. ASSUME NEW c \in Callers, serving' = c, wpc' = "await"
      PROVE  (/\ DOMAIN flight = {Start(c)}
              /\ OnItsWay(c, flight[Start(c)].data, flight[Start(c)].left))'
    <2> DEFINE l == Start(c)
               n == Count(c)
               range == BytesOf(l, n)
    <2>1. Start(c)' = l /\ Count(c)' = n /\ call'[c] = call[c]
        BY <1>5, <1>7
    <2>2. DOMAIN flight' = {l} /\ call[c].op = "write"
          /\ Delivering(range, flight'[l].data, flight'[l].left, media', stable', written', doubtful')
        BY <1>7
    <2> HIDE DEF l, n
    <2> QED
        BY <1>1, <1>2, <2>1, <2>2 DEF OnItsWay, Delivering, Settled, Exact, Trusted
<1> QED
    BY <1>3, <1>4, <1>6, <1>7, Zenon DEF InSync

(* A step after which no write is on its way, and the data is where it was. *)
LEMMA SyncQuiet ==
    ASSUME InSync, wpc \notin {"drain", "await"}, wpc' \notin {"drain", "await", "ack"},
           sync' = TRUE, UNCHANGED <<call, dirty, flight, strays, media, stable, written, doubtful>>,
           serving' # "timer", serving' = "close" => wpc' = "done",
           wpc' = "modify" => \A b \in DOMAIN buffer' : Right(buffer', b, written, doubtful)
    PROVE  InSync'
BY InSyncFacts, InSyncNext

(* A step outside of the worker that the data has no part in. *)
LEMMA SyncElsewhere ==
    ASSUME InSync, UNCHANGED <<serving, sync, buffer, dirty, flight, strays>>,
           UNCHANGED <<media, stable, written, doubtful>>,
           \/ wpc' = wpc
           \/ wpc = "joined" /\ wpc' \in {"chunk", "joinFailed"},
           \A c \in Callers : (call'[c] # None /\ call'[c].op = "setSync") => call'[c].value = TRUE,
           serving \in Callers => call'[serving] = call[serving]
    PROVE  InSync'
<1>1. /\ sync' = TRUE /\ serving' # "timer" /\ wpc' # "ack"
      /\ serving' = "close" => wpc' = "done"
      /\ wpc' # "drain" => dirty' = NoEntries
      /\ wpc' = "modify" => wpc = "modify"
      /\ wpc' = "drain" => wpc = "drain"
      /\ wpc' = "await" => wpc = "await"
      /\ wpc' \notin {"drain", "await"} => wpc \notin {"drain", "await"}
    BY InSyncFacts
<1> QED
    BY <1>1, InSyncFacts, InSyncNext

LEMMA SyncInit ==
    ASSUME Init, AlwaysInSync
    PROVE  InSync
<1>1. /\ sync = TRUE /\ serving = None /\ wpc = "select" /\ dirty = NoEntries
      /\ flight = <<>> /\ strays = {}
      /\ media = Zeroes /\ stable = Zeroes /\ written = Zeroes
      /\ \A c \in Callers : call[c] = None
    BY DEF Init, AlwaysInSync
<1>2. \A b \in Byte : Settled(b)
    BY <1>1 DEF Settled, Exact
<1>3. serving \notin Callers /\ serving # "timer" /\ serving # "close"
    BY <1>1, Apart
<1> QED
    BY <1>1, <1>2, <1>3 DEF InSync

(* Taking a request, unless it is a write that is inserted at once. *)
LEMMA SyncTakes ==
    ASSUME Shapes, InSync, NEW c \in Callers, NEW op, Takes(c, op), DataRest, WorkerOnly,
           sync' = TRUE, wpc' \in {"select", "chunk", "modify"}, serving' \in Callers \cup {None},
           wpc' = "modify" => \A b \in DOMAIN buffer' : Right(buffer', b, written, doubtful)
    PROVE  InSync'
<1>1. /\ wpc = "select"
      /\ UNCHANGED <<call, dirty, flight, strays, media, stable, written, doubtful>>
    BY DEF Takes, DataRest, WorkerOnly, dirtyVars, ghostVars
<1>2. serving' # "timer" /\ serving' # "close"
    BY Apart
<1> QED
    BY <1>1, <1>2, SyncQuiet

LEMMA SyncServe ==
    ASSUME Shapes, InSync, NEW c \in Callers, Serve(c), WorkerOnly, ~InsertAligned(c)
    PROVE  InSync'
<1>1. sync = TRUE /\ (wpc = "select" => dirty = NoEntries)
      /\ (call[c] # None /\ call[c].op = "setSync" => call[c].value = TRUE)
    BY InSyncFacts
<1>2. ASSUME NEW op, NEW ok, AnswersAtOnce(c, op, ok) PROVE InSync'
    <2>1. Takes(c, op) /\ DataRest /\ wpc' = "select" /\ serving' = None /\ UNCHANGED sync
        BY <1>2 DEF AnswersAtOnce, Reply
    <2> QED
        BY <1>1, <2>1, SyncTakes
<1>3. CASE ReadNothing(c) \/ WriteNothing(c) \/ RmwReadFails(c)
    BY <1>2, <1>3 DEF ReadNothing, WriteNothing, RmwReadFails
<1>4. CASE ReadDirty(c)
    <2>1. Takes(c, "read") /\ DataRest /\ wpc' = "select" /\ serving' = None /\ UNCHANGED sync
        BY <1>4 DEF ReadDirty, Reply
    <2> QED
        BY <1>1, <2>1, SyncTakes
<1>5. CASE SetSyncWrites(c)
    <2>1. /\ Takes(c, "setSync") /\ DataRest /\ wpc' = "select" /\ serving' = None
          /\ sync' = call[c].value
        BY <1>5 DEF SetSyncWrites, Reply
    <2>2. sync' = TRUE
        BY <1>1, <2>1, TakesWaiting
    <2> QED
        BY <2>1, <2>2, SyncTakes
<1>6. CASE Flush(c)
    BY <1>1, <1>2, <1>6 DEF Flush, Takes
<1>7. CASE ReadThroughCache(c)
    <2>1. Takes(c, "read") /\ DataRest /\ wpc' = "chunk" /\ serving' = c /\ UNCHANGED sync
        BY <1>7 DEF ReadThroughCache, Serves
    <2> QED
        BY <1>1, <2>1, SyncTakes
<1>8. CASE RmwRead(c)
    <2>1. /\ Takes(c, "write") /\ ~Nothing(c) /\ DataRest /\ wpc' = "modify" /\ serving' = c
          /\ UNCHANGED sync /\ buffer' = Restrict(media, BytesOf(Start(c), Count(c)))
        BY <1>8 DEF RmwRead, Serves
    <2>2. Start(c) \in Nat /\ Count(c) \in Nat /\ Start(c) + Count(c) <= TotalBlocks
          /\ wpc = "select"
        BY <2>1, TakesWaiting, WriteBytes
    <2>3. /\ DOMAIN buffer' \subseteq Byte
          /\ \A b \in DOMAIN buffer' : buffer'[b] = media[b]
        BY <2>1, <2>2, RmwBuffer DEF IsBuffer
    <2>4. \A b \in Byte : Right(media, b, written, doubtful)
        BY <2>2, InSyncFacts DEF BothRight
    <2>5. \A b \in DOMAIN buffer' : Right(buffer', b, written, doubtful)
        BY <2>3, <2>4 DEF Right
    <2> QED
        BY <1>1, <2>1, <2>5, SyncTakes
<1> QED
    BY <1>3, <1>4, <1>5, <1>6, <1>7, <1>8 DEF Serve

(* read_blocks. *)
LEMMA SyncRead ==
    ASSUME Shapes, InSync, WorkerOnly,
           ChunkHit \/ ChunkFetch \/ ChunkJoin \/ ChunkFetchFails \/ FinishRead
    PROVE  InSync'
<1>1. /\ wpc \in {"chunk", "joinFailed"}
      /\ wpc' \in {"chunk", "joined", "select"}
      /\ serving' = serving \/ serving' = None
      /\ UNCHANGED <<sync, call, dirty, flight, strays, media, stable, written, doubtful>>
    BY DEF ChunkHit, ChunkFetch, ChunkJoin, ChunkFetchFails, FinishRead, AtChunk, Goes, Replies,
           Reply, DataRest, WorkerOnly, dirtyVars, ghostVars
<1>2. sync = TRUE /\ serving \in Callers
    BY <1>1, InSyncFacts, WorkerFacts
<1>3. serving' # "timer" /\ serving' # "close"
    BY <1>1, <1>2, Apart
<1> QED
    BY <1>1, <1>2, <1>3, SyncQuiet

(* Nothing is dirty at the select: the timer does not fire, and the worker ends. *)
LEMMA SyncUnasked ==
    ASSUME Shapes, InSync, WorkerOnly, CoalesceTimer \/ ChannelClosed
    PROVE  InSync'
<1>1. wpc = "select" /\ DataRest /\ UNCHANGED sync
    BY DEF CoalesceTimer, ChannelClosed, Unasked
<1>2. dirty = NoEntries /\ sync = TRUE
    BY <1>1, InSyncFacts
<1>3. serving' = "close" /\ wpc' = "done"
    BY <1>2 DEF CoalesceTimer, ChannelClosed, Unasked, Serves
<1>4. UNCHANGED <<call, dirty, flight, strays, media, stable, written, doubtful>>
    BY <1>1 DEF DataRest, WorkerOnly, dirtyVars, ghostVars
<1> QED
    BY <1>1, <1>2, <1>3, <1>4, SyncQuiet

(* Callers, the readahead task and the cache. *)
LEMMA SyncCallers ==
    ASSUME Shapes, InSync, AlwaysInSync, (\E c \in Callers : Calls(c) \/ Return(c)) \/ Close
    PROVE  InSync'
<1>1. DeviceRest
    BY DEF Calls, CallRead, CallWrite, CallFlush, CallSetSync, Call, Return, Close
<1>2. /\ UNCHANGED <<wpc, serving, sync, buffer, dirty, flight, strays>>
      /\ UNCHANGED <<media, stable, written, doubtful>>
    BY <1>1 DEF DeviceRest, workVars, dirtyVars, diskVars, ghostVars
<1>3. \A c \in Callers : (call[c] # None /\ call[c].op = "setSync") => call[c].value = TRUE
    BY InSyncFacts
<1>4. ASSUME NEW c \in Callers, NEW request \in Request, Call(c, request),
             request.op = "setSync" => request.value = TRUE, writes' \in Value
      PROVE  InSync'
    <2>1. call' = [call EXCEPT ![c] = request] /\ serving # c
        BY <1>4, ChannelCall DEF Call
    <2>2. \A d \in Callers : call'[d] = IF d = c THEN request ELSE call[d]
        BY <2>1, ChannelFacts
    <2> QED
        BY <1>2, <1>3, <1>4, <2>1, <2>2, SyncElsewhere
<1>5. ASSUME NEW c \in Callers, Calls(c) PROVE InSync'
    <2>1. PICK request \in Request : Call(c, request) /\ writes' \in Value
        BY <1>5, CallIsRequest
    <2>2. call'[c] = request
        BY <2>1, ChannelFacts DEF Call
    <2>3. request.op = "setSync" => request.value = TRUE
        <3>1. CASE CallSetSync(c)
            <4>1. PICK mode \in SyncModes : Call(c, Ask("setSync", 0, 0, mode))
                BY <3>1 DEF CallSetSync
            <4>2. call'[c] = Ask("setSync", 0, 0, mode) /\ mode = TRUE
                BY <4>1, ChannelFacts DEF Call, AlwaysInSync
            <4> QED
                BY <2>2, <4>2 DEF Ask
        <3>2. CASE CallRead(c) \/ CallWrite(c) \/ CallFlush(c)
            <4>1. ASSUME NEW op \in {"read", "write", "flush"}, NEW o, NEW n, NEW v,
                         Call(c, Ask(op, o, n, v))
                  PROVE  request.op = op
                <5>1. request = Ask(op, o, n, v)
                    BY <2>2, <4>1, ChannelFacts DEF Call
                <5> QED
                    BY <5>1 DEF Ask
            <4>2. request.op \in {"read", "write", "flush"}
                BY <3>2, <4>1 DEF CallRead, CallWrite, CallFlush
            <4> QED
                BY <4>2
        <3> QED
            BY <1>5, <3>1, <3>2 DEF Calls
    <2> QED
        BY <1>4, <2>1, <2>3
<1>6. ASSUME NEW c \in Callers, Return(c) PROVE InSync'
    <2>1. call' = [call EXCEPT ![c] = None] /\ serving # c
        BY <1>6, ChannelReturn DEF Return
    <2>2. \A d \in Callers : call'[d] = IF d = c THEN None ELSE call[d]
        BY <2>1, ChannelFacts
    <2> QED
        BY <1>2, <1>3, <2>1, <2>2, SyncElsewhere
<1>7. CASE Close
    <2>1. UNCHANGED call
        BY <1>7 DEF Close
    <2> QED
        BY <1>2, <1>3, <2>1, SyncElsewhere
<1> QED
    BY <1>5, <1>6, <1>7

LEMMA SyncBeside ==
    ASSUME Shapes, InSync, PrefetchTask \/ (\E k \in DOMAIN cache : Evict(k)) \/ UNCHANGED vars
    PROVE  InSync'
<1>1. CASE PrefetchTask
    <2>1. PrefetchOnly /\ (wpc' = wpc \/ (wpc = "joined" /\ wpc' \in {"chunk", "joinFailed"}))
        BY <1>1 DEF PrefetchTask, PrefetchHit, PrefetchFetch, PrefetchInsert, PrefetchFails,
                    PrefetchEnds, PrefetchOnly, Wakes
    <2>2. /\ UNCHANGED <<call, serving, sync, buffer, dirty, flight, strays>>
          /\ UNCHANGED <<media, stable, written, doubtful>>
        BY <2>1 DEF PrefetchOnly, callVars, dirtyVars, diskVars, ghostVars
    <2>3. \A c \in Callers : (call'[c] # None /\ call'[c].op = "setSync") => call'[c].value = TRUE
        BY <2>2, InSyncFacts
    <2> QED
        BY <2>1, <2>2, <2>3, SyncElsewhere
<1>2. CASE (\E k \in DOMAIN cache : Evict(k)) \/ UNCHANGED vars
    <2>1. /\ UNCHANGED <<wpc, call, serving, sync, buffer, dirty, flight, strays>>
          /\ UNCHANGED <<media, stable, written, doubtful>>
        BY <1>2 DEF Evict, DeviceRest, workVars, callVars, dirtyVars, diskVars, ghostVars, vars
    <2>2. \A c \in Callers : (call'[c] # None /\ call'[c].op = "setSync") => call'[c].value = TRUE
        BY <2>1, InSyncFacts
    <2> QED
        BY <2>1, <2>2, SyncElsewhere
<1> QED
    BY <1>1, <1>2

(* A write, or the blocks modified for it, goes into the empty dirty map: *)
(* they are exact by the history's account of the write.                  *)
LEMMA SyncInsert ==
    ASSUME Shapes, InSync, NEW c \in Callers, serving' = c, call[c] # None,
           call[c].op = "write", ~Nothing(c),
           NEW data, DOMAIN data = BytesOf(Start(c), Count(c)),
           \A b \in DOMAIN data : IF b \in DOMAIN Payload(c) THEN data[b] = call[c].value
                                                  ELSE Right(data, b, written, doubtful),
           wpc \in {"select", "modify"}, Insert(c, data), WorkerOnly
    PROVE  InSync'
<1> DEFINE l == Start(c)
           n == Count(c)
<1>1. /\ l \in Nat /\ n \in Nat /\ l + n <= TotalBlocks /\ BytesOf(l, n) \subseteq Byte
      /\ DOMAIN Payload(c) \subseteq BytesOf(l, n)
      /\ \A b \in DOMAIN Payload(c) : Payload(c)[b] = call[c].value
    BY WriteBytes
<1>2. sync = TRUE /\ dirty = NoEntries
      /\ \A b \in Byte : BothRight(b, media, stable, written, doubtful)
    BY InSyncFacts
<1>3. /\ dirty' = Inserted(dirty, l, data) /\ wpc' = "drain"
      /\ written' = [b \in Byte |-> IF b \in DOMAIN Payload(c) THEN Payload(c)[b]
                                                               ELSE written[b]]
      /\ UNCHANGED <<sync, flight, strays, stable, doubtful, media, call>>
    BY <1>2 DEF Insert, WorkerOnly
<1> HIDE DEF l, n
<1>4. DOMAIN dirty' = {l} /\ dirty'[l] = data
    BY <1>2, <1>3 DEF Inserted, NoEntries
<1>5. \A b \in Byte : written'[b] = IF b \in DOMAIN Payload(c) THEN call[c].value ELSE written[b]
    BY <1>1, <1>3
<1>6. \A b \in DOMAIN data : b \in Byte
    BY <1>1 DEF l, n
<1>7. \A b \in DOMAIN data : Right(data, b, written', doubtful')
    BY <1>3, <1>5, <1>6 DEF Right
<1>8. \A b \in Byte \ DOMAIN data : BothRight(b, media', stable', written', doubtful')
    <2>1. \A b \in Byte \ DOMAIN data : written'[b] = written[b]
        BY <1>1, <1>5 DEF l, n
    <2> QED
        BY <1>2, <1>3, <2>1 DEF BothRight, Right
<1>9. \A b \in Byte : BlockOf(b) \notin BlocksIn(data) => Right(media', b, written', doubtful')
    BY <1>8 DEF BlocksIn, BothRight
<1>10. Delivering(BytesOf(l, n), data, BlocksIn(data), media', stable', written', doubtful')
    BY <1>7, <1>8, <1>9 DEF Delivering, l, n
<1>11. serving' # "timer" /\ serving' # "close"
    BY Apart
<1>12. \A d \in Callers : (serving' = d /\ wpc' = "drain") =>
         /\ DOMAIN dirty' = {Start(d)} /\ call[d].op = "write"
         /\ Delivering(BytesOf(Start(d), Count(d)), dirty'[Start(d)],
                       BlocksIn(dirty'[Start(d)]), media', stable', written', doubtful')
    BY <1>4, <1>10 DEF l, n
<1>13. /\ \A d \in Callers : (call'[d] # None /\ call'[d].op = "setSync") => call'[d].value = TRUE
       /\ \A k \in DOMAIN flight' : flight'[k].status = "ok" => flight'[k].left = {}
       /\ \A w \in strays' : w.left \subseteq doubtful'
    BY <1>3, InSyncFacts
<1> QED
    BY <1>2, <1>3, <1>11, <1>12, <1>13, InSyncNext

LEMMA SyncWrite ==
    ASSUME Shapes, InSync, WorkerOnly, RmwInsert \/ \E c \in Callers : InsertAligned(c)
    PROVE  InSync'
<1>1. ASSUME NEW c \in Callers, InsertAligned(c) PROVE InSync'
    <2>1. /\ Takes(c, "write") /\ ~Nothing(c) /\ Aligned(Offset(c), Size(c)) /\ serving' = c
          /\ Insert(c, Payload(c))
        BY <1>1 DEF InsertAligned
    <2>2. call[c] # None /\ call[c].op = "write" /\ wpc = "select"
        BY <2>1, TakesWaiting
    <2>3. /\ DOMAIN Payload(c) = BytesOf(Start(c), Count(c))
          /\ \A b \in DOMAIN Payload(c) : Payload(c)[b] = call[c].value
        BY <2>1, <2>2, WriteBytes
    <2> QED
        BY <2>1, <2>2, <2>3, SyncInsert
<1>2. CASE RmwInsert
    <2>1. wpc = "modify" /\ Insert(serving, Modified) /\ serving' = serving
        BY <1>2 DEF RmwInsert
    <2>2. /\ serving \in Callers /\ call[serving].op = "write" /\ ~Nothing(serving)
          /\ call[serving] # None /\ DOMAIN buffer = BytesOf(Start(serving), Count(serving))
        BY <2>1, WorkerFacts, ServedIs, Apart
    <2>3. \A b \in DOMAIN buffer : Right(buffer, b, written, doubtful)
        BY <2>1, InSyncFacts
    <2>4. DOMAIN Modified = BytesOf(Start(serving), Count(serving))
        BY <2>2, ModifiedIs
    <2>5. \A b \in DOMAIN Modified :
             IF b \in DOMAIN Payload(serving) THEN Modified[b] = call[serving].value
             ELSE Right(Modified, b, written, doubtful)
        BY <2>2, <2>3, ModifiedIs DEF Right
    <2> QED
        BY <2>1, <2>2, <2>4, <2>5, SyncInsert
<1> QED
    BY <1>1, <1>2

(* The write is handed to its task. *)
LEMMA SyncDrain ==
    ASSUME Shapes, InSync, Drain, WorkerOnly
    PROVE  InSync'
<1>1. /\ wpc = "drain" /\ wpc' = "await" /\ dirty' = NoEntries
      /\ UNCHANGED <<serving, sync, call, strays, stable, written, doubtful, media>>
    BY DEF Drain, Goes, WorkerOnly, ghostVars
<1>2. serving \in Callers /\ sync = TRUE /\ serving # "timer" /\ serving # "close"
    BY <1>1, WorkerFacts, InSyncFacts
<1>3. PICK c \in Callers : serving = c
    BY <1>2
<1> DEFINE l == Start(c)
<1>4. /\ DOMAIN dirty = {l} /\ call[c].op = "write"
      /\ Delivering(BytesOf(l, Count(c)), dirty[l], BlocksIn(dirty[l]), media, stable, written,
                    doubtful)
    BY <1>1, <1>3, InSyncFacts
<1>5. DOMAIN flight' = {l} /\ flight'[l] =
         [data |-> dirty[l], left |-> BlocksIn(dirty[l]), status |-> "running"]
    BY <1>4, Drained
<1>6. /\ flight'[l].data = dirty[l] /\ flight'[l].left = BlocksIn(dirty[l])
      /\ flight'[l].status = "running"
    BY <1>5
<1>7. Delivering(BytesOf(l, Count(c)), flight'[l].data, flight'[l].left, media', stable',
                 written', doubtful')
    BY <1>1, <1>4, <1>6
<1>8. /\ \A d \in Callers : (call'[d] # None /\ call'[d].op = "setSync") => call'[d].value = TRUE
      /\ \A w \in strays' : w.left \subseteq doubtful'
    BY <1>1, InSyncFacts
<1>9. \A k \in DOMAIN flight' : flight'[k].status = "ok" => flight'[k].left = {}
    BY <1>5, <1>6
<1>10. \A d \in Callers : (serving' = d /\ wpc' = "await") =>
         /\ DOMAIN flight' = {Start(d)} /\ call[d].op = "write"
         /\ Delivering(BytesOf(Start(d), Count(d)), flight'[Start(d)].data,
                       flight'[Start(d)].left, media', stable', written', doubtful')
    BY <1>1, <1>3, <1>4, <1>5, <1>7
<1> QED
    BY <1>1, <1>2, <1>8, <1>9, <1>10, InSyncNext

(* What the worker awaits is the one write it serves. *)
LEMMA SyncAwait ==
    ASSUME Shapes, InSync, wpc = "await"
    PROVE  /\ serving \in Callers /\ serving # "timer" /\ serving # "close"
           /\ call[serving].op = "write" /\ call[serving] # None /\ ~Nothing(serving)
           /\ DOMAIN flight = {Start(serving)}
           /\ Delivering(BytesOf(Start(serving), Count(serving)), flight[Start(serving)].data,
                         flight[Start(serving)].left, media, stable, written, doubtful)
           /\ DOMAIN flight[Start(serving)].data = BytesOf(Start(serving), Count(serving))
           /\ BlocksIn(flight[Start(serving)].data) \subseteq
                 BlocksOf(Offset(serving), Size(serving))
<1>1. serving \in Callers /\ serving # "timer" /\ serving # "close"
    BY WorkerFacts, InSyncFacts
<1>2. PICK c \in Callers : serving = c
    BY <1>1
<1>3. /\ DOMAIN flight = {Start(c)} /\ call[c].op = "write"
      /\ Delivering(BytesOf(Start(c), Count(c)), flight[Start(c)].data,
                    flight[Start(c)].left, media, stable, written, doubtful)
    BY <1>2, InSyncFacts
<1>4. call[c] # None /\ ~Nothing(c)
    BY <1>2, <1>3, ServedIs, Apart
<1>5. DOMAIN flight[Start(c)].data = BytesOf(Start(c), Count(c))
    BY <1>3 DEF Delivering
<1>6. /\ Start(c) \in Nat /\ Count(c) \in Nat /\ Start(c) + Count(c) <= TotalBlocks
      /\ BlocksOf(Offset(c), Size(c)) = Start(c) .. Start(c) + Count(c) - 1
    BY <1>3, <1>4, WriteBytes
<1>7. BlocksIn(flight[Start(c)].data) \subseteq Start(c) .. Start(c) + Count(c) - 1
    BY <1>5, <1>6, BytesAreNat, BytesInBlocks DEF BlocksIn
<1> QED
    BY <1>1, <1>2, <1>3, <1>4, <1>5, <1>6, <1>7

LEMMA SyncFlushEnds ==
    ASSUME Shapes, InSync, FlushFails \/ SynchronizeCache \/ SynchronizeFails, WorkerOnly
    PROVE  /\ InSync'
           /\ SynchronizeCache => \A b \in Byte : Right(stable', b, written, doubtful)
<1> DEFINE c == serving
           l == Start(serving)
           data == flight[l].data
           blocks == BlocksOf(Offset(serving), Size(serving))
<1>1. /\ wpc = "await"
      /\ FlushReturns(FALSE) \/ FlushReturns(TRUE)
      /\ UNCHANGED <<call, media>>
    BY DEF FlushFails, SynchronizeCache, SynchronizeFails, Failure, WorkerOnly
<1>2. /\ c \in Callers /\ c # "timer" /\ c # "close" /\ call[c].op = "write"
      /\ DOMAIN flight = {l}
      /\ Delivering(BytesOf(l, Count(c)), data, flight[l].left, media, stable, written, doubtful)
      /\ BlocksIn(data) \subseteq blocks
    BY <1>1, SyncAwait
<1>3. /\ wpc' = "select" /\ serving' = None /\ flight' = <<>>
      /\ UNCHANGED <<sync, dirty, written>>
    BY <1>1, <1>2 DEF FlushReturns, Replies, Reply, dirtyVars
<1>4. dirty = NoEntries /\ sync = TRUE
    BY <1>1, InSyncFacts
<1>5. serving' \notin Callers /\ serving' # "timer" /\ serving' # "close"
    BY <1>3, Apart
<1>6. ASSUME \A b \in Byte : BothRight(b, media', stable', written', doubtful'),
             \A w \in strays' : w.left \subseteq doubtful'
      PROVE  InSync'
    <2>1. \A d \in Callers : (call'[d] # None /\ call'[d].op = "setSync") => call'[d].value = TRUE
        BY <1>1, InSyncFacts
    <2>2. \A k \in DOMAIN flight' : flight'[k].status = "ok" => flight'[k].left = {}
        BY <1>3
    <2> QED
        BY <1>3, <1>4, <1>5, <1>6, <2>1, <2>2, InSyncNext
<1>7. \A b \in Byte \ DOMAIN data : BothRight(b, media, stable, written, doubtful)
    BY <1>2 DEF Delivering
<1>8. CASE SynchronizeCache
    <2>1. /\ AllWritten /\ stable' = media /\ UNCHANGED <<strays, doubtful>>
        BY <1>8 DEF SynchronizeCache
    <2>2. flight[l].left = {}
        BY <1>2, <2>1, InSyncFacts DEF AllWritten
    <2>3. \A b \in Byte : Right(media, b, written, doubtful)
        BY <1>2, <2>2 DEF Delivering
    <2>4. \A b \in Byte : BothRight(b, media', stable', written', doubtful')
        BY <1>1, <1>3, <2>1, <2>3 DEF BothRight
    <2>5. \A w \in strays' : w.left \subseteq doubtful'
        BY <2>1, InSyncFacts
    <2> QED
        BY <1>6, <2>1, <2>3, <2>4, <2>5
<1>9. CASE FlushFails \/ SynchronizeFails
    <2>1. Failure /\ UNCHANGED stable
        BY <1>9 DEF FlushFails, SynchronizeFails, Failure
    <2>2. /\ doubtful' = doubtful \cup blocks
          /\ strays' = strays \cup {[data |-> flight[k].data, left |-> flight[k].left] :
                                      k \in {j \in DOMAIN flight : flight[j].left # {}}}
        <3>1. ~(serving \notin Callers) /\ call[serving].op = "write"
            BY <1>2
        <3> QED
            BY <2>1, <3>1 DEF Failure
    <2>3. ASSUME NEW b \in Byte PROVE BothRight(b, media', stable', written', doubtful')
        <3>1. CASE b \in DOMAIN data
            BY <1>2, <2>2, <3>1 DEF BothRight, Right, BlocksIn
        <3>2. CASE b \notin DOMAIN data
            BY <1>1, <1>3, <1>7, <2>1, <2>2, <3>2 DEF BothRight, Right
        <3> QED
            BY <3>1, <3>2
    <2>4. ASSUME NEW w \in strays' PROVE w.left \subseteq doubtful'
        <3>1. CASE w \in strays
            BY <2>2, <3>1, InSyncFacts
        <3>2. CASE w = [data |-> flight[l].data, left |-> flight[l].left]
            <4>1. w.left = flight[l].left
                BY <3>2
            <4>2. flight[l].left \subseteq BlocksIn(data)
                BY <1>2, FlightFacts
            <4> QED
                BY <1>2, <2>2, <4>1, <4>2
        <3> QED
            BY <1>2, <2>2, <3>1, <3>2
    <2>5. InSync'
        BY <1>6, <2>3, <2>4
    <2> QED
        BY <1>8, <2>5
<1> QED
    BY <1>8, <1>9

(* A block that lands brings what was last written there; a write nobody *)
(* awaits reaches only blocks in doubt.                                  *)
LEMMA SyncFlight ==
    ASSUME Shapes, InSync, Target
    PROVE  InSync'
<1> SUFFICES ASSUME NEW l \in DOMAIN flight, WriteLands(l) \/ WriteSucceeds(l) \/ WriteFails(l)
             PROVE  InSync'
    BY DEF Target
<1>1. /\ wpc = "await"
      /\ UNCHANGED <<call, wpc, serving, sync, buffer, dirty, strays, stable, written, doubtful>>
    BY FlightFacts DEF WriteLands, WriteSucceeds, WriteFails, TargetOnly, callVars, workVars,
                       dirtyVars, ghostVars
<1>2. serving \in Callers
    BY <1>1, SyncAwait
<1>3. PICK c \in Callers : serving = c
    BY <1>2
<1> DEFINE data == flight[l].data
           left == flight[l].left
           range == BytesOf(Start(c), Count(c))
<1>4. /\ l = Start(c) /\ DOMAIN flight = {l} /\ call[c].op = "write"
      /\ Delivering(range, data, left, media, stable, written, doubtful)
    BY <1>1, <1>3, SyncAwait
<1>5. /\ flight[l] = [data |-> data, left |-> left, status |-> flight[l].status]
      /\ WholeBlocks(data) /\ left \subseteq BlocksIn(data)
    BY FlightFacts
<1>6. /\ sync = TRUE /\ serving # "timer" /\ serving # "close" /\ dirty = NoEntries
      /\ \A d \in Callers : (call'[d] # None /\ call'[d].op = "setSync") => call'[d].value = TRUE
      /\ \A w \in strays' : w.left \subseteq doubtful'
      /\ flight[l].status = "ok" => left = {}
    BY <1>1, <1>3, InSyncFacts, SyncAwait
<1>7. ASSUME DOMAIN flight' = {l}, flight'[l].data = data,
             flight'[l].status = "ok" => flight'[l].left = {},
             Delivering(range, data, flight'[l].left, media', stable', written', doubtful')
      PROVE  InSync'
    <2>1. \A d \in Callers : (serving' = d /\ wpc' = "await") =>
            /\ DOMAIN flight' = {Start(d)} /\ call[d].op = "write"
            /\ Delivering(BytesOf(Start(d), Count(d)), flight'[Start(d)].data,
                       flight'[Start(d)].left, media', stable', written', doubtful')
        BY <1>1, <1>3, <1>4, <1>7
    <2>2. \A k \in DOMAIN flight' : flight'[k].status = "ok" => flight'[k].left = {}
        BY <1>7
    <2> QED
        BY <1>1, <1>6, <2>1, <2>2, InSyncNext
<1>8. CASE WriteLands(l)
    <2>1. PICK block \in left : /\ media' = Landed(data, block)
                                /\ flight' = [flight EXCEPT ![l].left = @ \ {block}]
        BY <1>8 DEF WriteLands
    <2>2. /\ \A b \in Byte : media'[b] = IF BlockOf(b) = block THEN data[b] ELSE media[b]
          /\ \A b \in Byte : BlockOf(b) = block => b \in DOMAIN data
        BY <1>5, <2>1, LandedIs
    <2>3. /\ DOMAIN flight' = {l}
          /\ flight'[l] = [data |-> data, left |-> left \ {block}, status |-> flight[l].status]
        BY <1>4, <1>5, <2>1, TaskExcept
    <2>4. flight'[l].data = data /\ flight'[l].left = left \ {block}
          /\ flight'[l].status = flight[l].status
        BY <2>3
    <2>5. flight[l].status # "ok"
        BY <1>6, <2>1
    <2>6. ASSUME NEW b \in Byte, BlockOf(b) \notin left \ {block}
          PROVE  Right(media', b, written', doubtful')
        <3>1. CASE BlockOf(b) = block
            BY <1>1, <1>4, <2>2, <3>1 DEF Delivering, Right
        <3>2. CASE BlockOf(b) # block
            BY <1>1, <1>4, <2>2, <2>6, <3>2 DEF Delivering, Right
        <3> QED
            BY <3>1, <3>2
    <2>7. ASSUME NEW b \in Byte \ DOMAIN data
          PROVE  BothRight(b, media', stable', written', doubtful')
        BY <1>1, <1>4, <2>2 DEF Delivering, BothRight, Right
    <2>8. Delivering(range, data, left \ {block}, media', stable', written', doubtful')
        BY <1>1, <1>4, <2>6, <2>7 DEF Delivering
    <2> QED
        BY <1>7, <2>3, <2>4, <2>5, <2>8
<1>9. CASE WriteSucceeds(l) \/ WriteFails(l)
    <2>1. /\ UNCHANGED media
          /\ \/ left = {} /\ flight' = [flight EXCEPT ![l].status = "ok"]
             \/ flight' = [flight EXCEPT ![l].status = "failed"]
        BY <1>9 DEF WriteSucceeds, WriteFails
    <2>2. PICK status : /\ flight' = [flight EXCEPT ![l].status = status]
                        /\ status = "ok" => left = {}
        BY <2>1
    <2>3. /\ DOMAIN flight' = {l}
          /\ flight'[l] = [data |-> data, left |-> left, status |-> status]
        BY <1>4, <1>5, <2>2, TaskExcept
    <2>4. flight'[l].data = data /\ flight'[l].left = left /\ flight'[l].status = status
        BY <2>3
    <2>5. Delivering(range, data, left, media', stable', written', doubtful')
        BY <1>1, <1>4, <2>1
    <2> QED
        BY <1>7, <2>2, <2>3, <2>4, <2>5
<1> QED
    BY <1>8, <1>9

LEMMA SyncStray ==
    ASSUME Shapes, InSync, NEW w \in strays, StrayLands(w)
    PROVE  InSync'
<1>1. PICK block \in w.left :
         /\ media' = Landed(w.data, block)
         /\ strays' = (strays \ {w}) \cup
               (IF w.left = {block} THEN {} ELSE {[w EXCEPT !.left = @ \ {block}]})
    BY DEF StrayLands
<1>2. /\ UNCHANGED <<call, wpc, serving, sync, buffer, dirty, flight, stable, written, doubtful>>
    BY DEF StrayLands, TargetOnly, callVars, workVars, dirtyVars, ghostVars
<1>3. w.left \subseteq doubtful /\ WholeBlocks(w.data) /\ w.left \subseteq BlocksIn(w.data)
      /\ w = [data |-> w.data, left |-> w.left]
    BY StrayFacts, InSyncFacts
<1>4. \A b \in Byte : BlockOf(b) \notin doubtful => media'[b] = media[b]
    BY <1>1, <1>3, LandedIs
<1>5. ASSUME NEW v \in strays' PROVE v.left \subseteq doubtful'
    <2>1. CASE v \in strays
        BY <1>2, <2>1, InSyncFacts
    <2>2. CASE v = [w EXCEPT !.left = @ \ {block}]
        <3>1. v = [data |-> w.data, left |-> w.left \ {block}]
            BY <1>3, <2>2, StrayExcept
        <3>2. v.left = w.left \ {block}
            BY <3>1
        <3> QED
            BY <1>2, <1>3, <3>2
    <2> QED
        BY <1>1, <2>1, <2>2
<1>6. ASSUME NEW b \in Byte
      PROVE  /\ Right(media, b, written, doubtful) => Right(media', b, written', doubtful')
             /\ BothRight(b, media, stable, written, doubtful) =>
                   BothRight(b, media', stable', written', doubtful')
    BY <1>2, <1>4 DEF Right, BothRight
<1>7. ASSUME NEW range, NEW data, NEW left, DOMAIN data \subseteq Byte,
             Delivering(range, data, left, media, stable, written, doubtful)
      PROVE  Delivering(range, data, left, media', stable', written', doubtful')
    BY <1>2, <1>6, <1>7 DEF Delivering
<1>8. /\ sync = TRUE /\ serving # "timer" /\ wpc # "ack" /\ (serving = "close" => wpc = "done")
      /\ wpc # "drain" => dirty = NoEntries
      /\ \A d \in Callers : (call'[d] # None /\ call'[d].op = "setSync") => call'[d].value = TRUE
      /\ wpc = "modify" => \A b \in DOMAIN buffer : Right(buffer, b, written, doubtful)
      /\ \A k \in DOMAIN flight : flight[k].status = "ok" => flight[k].left = {}
    BY <1>2, InSyncFacts
<1>9. wpc' \notin {"drain", "await"} =>
         \A b \in Byte : BothRight(b, media', stable', written', doubtful')
    BY <1>2, <1>6, InSyncFacts
<1>10. ASSUME NEW d \in Callers, serving' = d, wpc' = "drain"
       PROVE  /\ DOMAIN dirty' = {Start(d)} /\ call[d].op = "write"
              /\ Delivering(BytesOf(Start(d), Count(d)), dirty'[Start(d)],
                       BlocksIn(dirty'[Start(d)]), media', stable', written', doubtful')
    <2>1. /\ DOMAIN dirty = {Start(d)} /\ call[d].op = "write"
          /\ Delivering(BytesOf(Start(d), Count(d)), dirty[Start(d)],
                       BlocksIn(dirty[Start(d)]), media, stable, written, doubtful)
        BY <1>2, <1>10, InSyncFacts
    <2>2. DOMAIN dirty[Start(d)] \subseteq Byte
        BY <2>1 DEF Shapes, DirtyOK, WholeBlocks, IsBuffer
    <2> QED
        BY <1>2, <1>7, <2>1, <2>2
<1>11. ASSUME NEW d \in Callers, serving' = d, wpc' = "await"
       PROVE  /\ DOMAIN flight' = {Start(d)} /\ call[d].op = "write"
              /\ Delivering(BytesOf(Start(d), Count(d)), flight'[Start(d)].data,
                       flight'[Start(d)].left, media', stable', written', doubtful')
    <2>1. /\ DOMAIN flight = {Start(d)} /\ call[d].op = "write"
          /\ Delivering(BytesOf(Start(d), Count(d)), flight[Start(d)].data,
                       flight[Start(d)].left, media, stable, written, doubtful)
        BY <1>2, <1>11, InSyncFacts
    <2>2. DOMAIN flight[Start(d)].data \subseteq Byte
        BY <2>1, FlightFacts DEF WholeBlocks, IsBuffer
    <2> QED
        BY <1>2, <1>7, <2>1, <2>2
<1> QED
    BY <1>2, <1>5, <1>8, <1>9, <1>10, <1>11, InSyncNext

----------------------------------------------------------------------------
(* InSync is inductive, and what it means *)

LEMMA SyncStep ==
    ASSUME Shapes, InSync, AlwaysInSync, [Next]_vars
    PROVE  InSync'
<1>1. CASE Worker
    <2>1. WorkerOnly
        BY <1>1 DEF Worker
    <2>2. ASSUME NEW c \in Callers, Serve(c) PROVE InSync'
        BY <2>1, <2>2, SyncServe, SyncWrite
    <2>3. CASE WriteCoalesced
        BY <2>3, InSyncFacts DEF WriteCoalesced
    <2>4. CASE Continue
        BY <2>1, <2>3, <2>4, SyncRead, SyncWrite, SyncDrain, SyncFlushEnds, SyncUnasked
           DEF Continue
    <2> QED
        BY <1>1, <2>2, <2>4 DEF Worker
<1>2. CASE Timer
    BY <1>2, SyncUnasked DEF Timer
<1> QED
    BY <1>1, <1>2, SyncCallers, SyncBeside, SyncFlight, SyncStray DEF Next

LEMMA SyncInvariant == ASSUME AlwaysInSync PROVE Spec => [](Shapes /\ InSync)
<1>1. Init => Shapes /\ InSync
    BY ShapesInit, SyncInit
<1>2. Shapes /\ InSync /\ [Next]_vars => (Shapes /\ InSync)'
    BY ShapesStep, SyncStep
<1> QED
    BY <1>1, <1>2, PTL DEF Spec

(* In sync mode nothing is left in the dirty map, and the target has the *)
(* last data written to every block that is not in doubt: handle_write   *)
(* loses no write, also when it modifies part of a block or when writes  *)
(* of failed flushes still land.                                         *)
THEOREM SyncLosesNothing == ASSUME AlwaysInSync PROVE Spec => []NoWriteLost
<1>1. ASSUME InSync PROVE NoWriteLost
    <2> SUFFICES ASSUME wpc = "select", NEW b \in Byte, Trusted(b) PROVE Kept(b)
        BY DEF NoWriteLost
    <2>1. dirty = NoEntries /\ media[b] = written[b]
        BY <1>1 DEF InSync, Settled, Exact
    <2> QED
        BY <2>1 DEF Kept, NoEntries
<1> QED
    BY <1>1, SyncInvariant, PTL

(* In sync mode the worker ends with all the data on stable storage. *)
THEOREM SyncClosedDurable == ASSUME AlwaysInSync PROVE Spec => []ClosedIsDurable
<1>1. ASSUME InSync PROVE ClosedIsDurable
    BY <1>1 DEF ClosedIsDurable, InSync, Settled, Exact
<1> QED
    BY <1>1, SyncInvariant, PTL

(* Who is answered, and by which step: in sync mode a call that may have *)
(* had to wait for a flush is the write the flush is of.                 *)
LEMMA SyncAnswer ==
    ASSUME Shapes, InSync, [Next]_vars, NEW c \in Callers, reply[c] = None, reply'[c] # None
    PROVE  \/ wpc = "select" /\ UNCHANGED <<stable, written>> /\ Takes(c, call[c].op)
           \/ serving = c /\ call[c].op = "read"
           \/ /\ serving = c /\ call[c].op = "write" /\ call[c] # None /\ ~Nothing(c)
              /\ reply'[c].ok => \A b \in Byte : Right(stable', b, written, doubtful)
<1>1. ASSUME NEW d \in Callers, NEW r, reply' = [reply EXCEPT ![d] = r]
      PROVE  c = d /\ reply'[c] = r
    BY <1>1, ChannelFacts
<1>2. ~UNCHANGED reply
    OBVIOUS
<1>3. CASE Worker
    <2>1. WorkerOnly
        BY <1>3 DEF Worker
    <2>2. ASSUME NEW d \in Callers, Serve(d)
          PROVE  wpc = "select" /\ UNCHANGED <<stable, written>> /\ Takes(c, call[c].op)
        <3>1. ASSUME NEW op, NEW ok, NEW data, Takes(d, op), Reply(d, ok, data), DataRest
              PROVE  wpc = "select" /\ UNCHANGED <<stable, written>> /\ Takes(c, call[c].op)
            <4>1. c = d
                BY <1>1, <3>1 DEF Reply
            <4> QED
                BY <3>1, <4>1 DEF Takes, DataRest, ghostVars
        <3>2. CASE InsertAligned(d) \/ RmwRead(d) \/ ReadThroughCache(d)
            BY <1>2, <3>2 DEF InsertAligned, Insert, RmwRead, ReadThroughCache, Serves
        <3>3. CASE ReadNothing(d) \/ WriteNothing(d) \/ RmwReadFails(d) \/ ReadDirty(d)
                   \/ SetSyncWrites(d)
            BY <3>1, <3>3 DEF ReadNothing, WriteNothing, RmwReadFails, ReadDirty, SetSyncWrites,
                              AnswersAtOnce
        <3>4. CASE Flush(d)
            BY <1>2, <3>1, <3>4 DEF Flush, AnswersAtOnce, Serves
        <3> QED
            BY <2>2, <3>2, <3>3, <3>4 DEF Serve
    <2>3. CASE ChunkHit \/ ChunkFetch \/ ChunkJoin \/ RmwInsert \/ Drain \/ ChannelClosed
        BY <1>2, <2>3 DEF ChunkHit, ChunkFetch, ChunkJoin, RmwInsert, Drain, ChannelClosed, Goes,
                          Insert, Unasked, Serves
    <2>4. CASE ChunkFetchFails \/ FinishRead
        <3>1. wpc \in {"chunk", "joinFailed"} /\ \E ok, data : Replies(ok, data)
            BY <2>4 DEF ChunkFetchFails, FinishRead, AtChunk
        <3>2. serving \in Callers /\ call[serving].op = "read"
            BY <3>1, WorkerFacts, ServedIs
        <3>3. c = serving
            BY <1>1, <3>1, <3>2 DEF Replies, Reply
        <3> QED
            BY <3>2, <3>3
    <2>5. CASE WriteCoalesced
        BY <2>5, InSyncFacts DEF WriteCoalesced
    <2>6. CASE FlushFails \/ SynchronizeCache \/ SynchronizeFails
        <3>1. wpc = "await"
            BY <2>6 DEF FlushFails, SynchronizeCache, SynchronizeFails
        <3>2. /\ serving \in Callers /\ serving # "timer" /\ serving # "close"
              /\ call[serving].op = "write" /\ call[serving] # None /\ ~Nothing(serving)
            BY <3>1, SyncAwait
        <3>3. \/ SynchronizeCache
              \/ FlushReturns(FALSE)
            BY <2>6 DEF FlushFails, SynchronizeFails, Failure
        <3>4. CASE SynchronizeCache
            <4>1. Replies(TRUE, <<>>)
                BY <3>2, <3>4 DEF SynchronizeCache, FlushReturns
            <4>2. c = serving
                BY <1>1, <3>2, <4>1 DEF Replies, Reply
            <4>3. \A b \in Byte : Right(stable', b, written, doubtful)
                BY <2>1, <3>4, SyncFlushEnds
            <4> QED
                BY <3>2, <4>2, <4>3
        <3>5. CASE FlushReturns(FALSE)
            <4>1. Replies(FALSE, <<>>)
                BY <3>2, <3>5 DEF FlushReturns
            <4>2. c = serving /\ reply'[c] = Outcome(FALSE, <<>>)
                BY <1>1, <3>2, <4>1 DEF Replies, Reply
            <4>3. ~reply'[c].ok
                BY <4>2 DEF Outcome
            <4> QED
                BY <3>2, <4>2, <4>3
        <3> QED
            BY <3>3, <3>4, <3>5
    <2> QED
        BY <1>3, <2>2, <2>3, <2>4, <2>5, <2>6 DEF Worker, Continue
<1>4. CASE Timer
    BY <1>2, <1>4 DEF Timer, CoalesceTimer, Unasked, Serves
<1>5. ASSUME NEW d \in Callers, Calls(d) PROVE FALSE
    BY <1>2, <1>5 DEF Calls, CallRead, CallWrite, CallFlush, CallSetSync, Call
<1>6. ASSUME NEW d \in Callers, Return(d) PROVE FALSE
    <2>1. reply' = [reply EXCEPT ![d] = None]
        BY <1>6 DEF Return
    <2> QED
        BY <1>1, <2>1
<1>7. CASE Close \/ PrefetchTask \/ Target \/ (\E k \in DOMAIN cache : Evict(k))
           \/ (\E w \in strays : StrayLands(w)) \/ UNCHANGED vars
    BY <1>2, <1>7 DEF Close, PrefetchTask, PrefetchHit, PrefetchFetch, PrefetchInsert,
       PrefetchFails, PrefetchEnds, PrefetchOnly, Target, WriteLands, WriteSucceeds, WriteFails,
       TargetOnly, Evict, StrayLands, callVars, vars
<1> QED
    BY <1>3, <1>4, <1>5, <1>6, <1>7 DEF Next

LEMMA StepIsDurable ==
    ASSUME Shapes, InSync, [Next]_vars, NEW c \in Callers, NEW op \in {"flush", "write"},
           Succeeds(c, op), NEW b \in Byte, Trusted(b)
    PROVE  stable'[b] = written[b]
<1>1. reply[c] = None /\ reply'[c] # None /\ call[c].op = op /\ reply'[c].ok
    BY DEF Succeeds, Answers
<1>2. \/ wpc = "select" /\ UNCHANGED <<stable, written>>
      \/ \A e \in Byte : Right(stable', e, written, doubtful)
    BY <1>1, SyncAnswer
<1>3. wpc = "select" => Right(stable, b, written, doubtful)
    BY InSyncFacts DEF BothRight
<1> QED
    BY <1>2, <1>3 DEF Right, Trusted

(* In sync mode, too, what was written before a flush that succeeded      *)
(* survives a power failure of the target, but for blocks of failed calls. *)
THEOREM SyncFlushDurable == ASSUME AlwaysInSync PROVE Spec => FlushMakesDurable
<1>1. ASSUME Shapes, InSync, [Next]_vars, NEW c \in Callers, Succeeds(c, "flush"),
             NEW b \in Byte, Trusted(b)
      PROVE  stable'[b] = written[b]
    BY <1>1, StepIsDurable
<1>2. Shapes /\ InSync /\ [Next]_vars =>
         [\A c \in Callers : Succeeds(c, "flush") =>
            \A b \in Byte : Trusted(b) => stable'[b] = written[b]]_vars
    BY <1>1
<1> QED
    BY <1>2, SyncInvariant, PTL DEF FlushMakesDurable, Spec

(* With sync_writes set a write that succeeds is on stable storage when it *)
(* is answered: the target has carried it out and synchronized its cache.  *)
THEOREM SyncWritesDurable == ASSUME AlwaysInSync PROVE Spec => SyncWriteDurable
<1>1. ASSUME Shapes, InSync, [Next]_vars, NEW c \in Callers, Succeeds(c, "write"),
             NEW b \in DOMAIN Payload(c), Trusted(b)
      PROVE  stable'[b] = written[b]
    <2>1. reply[c] = None /\ reply'[c] # None /\ call[c].op = "write"
        BY <1>1 DEF Succeeds, Answers
    <2>2. call[c] # None
        BY <1>1, <2>1, SyncAnswer, TakesWaiting, Apart
    <2>3. b \in Byte
        <3>1. CASE ~Nothing(c)
            BY <2>1, <2>2, <3>1, <1>1, WriteBytes
        <3>2. CASE Nothing(c)
            <4>1. call[c].offset \in Nat /\ call[c].size \in Nat
                BY <1>1, <2>2, RequestTyped
            <4>2. b \in Extent(call[c].offset, ClampWrite(call[c].offset, call[c].size))
                BY <1>1, <2>1 DEF Payload, Offset, Size
            <4>3. TotalBytes \in Nat
                BY DEF TotalBytes
            <4> QED
                BY <3>2, <4>1, <4>2, <4>3 DEF Nothing, Offset, Extent, ClampWrite, Lesser
        <3> QED
            BY <3>1, <3>2
    <2> QED
        BY <1>1, <2>3, StepIsDurable
<1>2. Shapes /\ InSync /\ [Next]_vars =>
         [\A c \in Callers : (Succeeds(c, "write") /\ sync) =>
            \A b \in DOMAIN Payload(c) : Trusted(b) => stable'[b] = written[b]]_vars
    BY <1>1
<1> QED
    BY <1>2, SyncInvariant, PTL DEF SyncWriteDurable, Spec

----------------------------------------------------------------------------
(* Reads in sync mode: chunks *)

(* The chunk a block is in is the one aligned chunk that has it. *)
LEMMA AlignedChunk ==
    ASSUME NEW k \in Nat, ChunkAligned(k), NEW l \in Nat
    PROVE  /\ ChunkAligned(k + ChunkBlocks)
           /\ ChunkAligned(ChunkLba(l))
           /\ l \in k .. k + ChunkBlocks - 1 => ChunkLba(l) = k
           /\ k > ChunkLba(l) => k > l
<1> DEFINE m == ChunkBlocks
           q == k \div m
           p == l \div m
           x == k + m
           r == x \div m
           y == p * m
           s == y \div m
<1>0. m \in Nat \ {0}
    OBVIOUS
<1>1. q \in Nat /\ q * m = k
    BY <1>0, Division DEF ChunkAligned
<1>2. p \in Nat /\ y \in Nat /\ y <= l /\ l < y + m
    BY <1>0, Division
<1>3. x \in Nat /\ r \in Nat /\ r * m \in Nat /\ r * m <= x /\ x < r * m + m
      /\ x % m = x - r * m
    <2>1. x \in Nat
        BY <1>0
    <2> HIDE DEF x
    <2> QED
        BY <1>0, <2>1, Division
<1>4. s \in Nat /\ s * m \in Nat /\ s * m <= y /\ y < s * m + m /\ y % m = y - s * m
    <2> HIDE DEF y
    <2> QED
        BY <1>0, <1>2, Division
<1>5. x = k + m /\ y = p * m
    OBVIOUS
<1>6. \A i, j \in Nat : /\ i < j => i * m + m <= j * m
                        /\ (i + 1) * m = i * m + m
    <2> TAKE i, j \in Nat
    <2>1. (i + 1) * m = i * m + m
        BY <1>0
    <2>2. i < j => (i + 1) * m <= j * m
        BY <1>0, Monotone
    <2> QED
        BY <2>1, <2>2
<1> HIDE DEF m, q, p, x, r, y, s
<1>7. x = (q + 1) * m
    BY <1>1, <1>5, <1>6
<1>8. r = q + 1
    <2>1. ~(r < q + 1)
        BY <1>0, <1>1, <1>3, <1>6, <1>7
    <2>2. ~(q + 1 < r)
        BY <1>0, <1>1, <1>3, <1>6, <1>7
    <2> QED
        BY <1>1, <1>3, <2>1, <2>2
<1>9. x % m = 0
    BY <1>3, <1>7, <1>8
<1>10. s = p
    <2>1. ~(s < p)
        BY <1>0, <1>2, <1>4, <1>5, <1>6
    <2>2. ~(p < s)
        BY <1>0, <1>2, <1>4, <1>5, <1>6
    <2> QED
        BY <1>2, <1>4, <2>1, <2>2
<1>11. y % m = 0
    BY <1>4, <1>5, <1>10
<1>12. ASSUME l \in k .. k + m - 1 PROVE y = k
    <2>1. k <= l /\ l < k + m
        BY <1>0, <1>2, <1>12
    <2>2. ~(q < p)
        BY <1>0, <1>1, <1>2, <1>5, <1>6, <2>1
    <2>3. ~(p < q)
        BY <1>0, <1>1, <1>2, <1>5, <1>6, <2>1
    <2>4. p = q
        BY <1>1, <1>2, <2>2, <2>3
    <2> QED
        BY <1>1, <1>5, <2>4
<1>13. ASSUME k > y PROVE k > l
    <2>1. ~(q <= p)
        <3> SUFFICES ASSUME q <= p PROVE FALSE
            OBVIOUS
        <3>1. q * m <= p * m
            BY <1>0, <1>1, <1>2, Monotone
        <3> QED
            BY <1>1, <1>2, <1>5, <1>13, <3>1
    <2>2. y + m <= k
        BY <1>1, <1>2, <1>5, <1>6, <2>1
    <2> QED
        BY <1>0, <1>2, <2>2
<1>14. ChunkLba(l) = y /\ m = ChunkBlocks /\ x = k + ChunkBlocks
    BY DEF ChunkLba, y, p, m, x
<1> QED
    BY <1>9, <1>11, <1>12, <1>13, <1>14 DEF ChunkAligned, m, x

(* invalidate_range drops every chunk the blocks of a write are in. *)
LEMMA Invalidated ==
    ASSUME NEW k \in Nat, ChunkAligned(k), NEW l \in Nat, NEW n \in Nat,
           k \notin ChunksOf(l, n), NEW b \in BytesOf(k, ChunkBlocks)
    PROVE  b \notin BytesOf(l, n)
<1>1. b \in Nat
    BY BytesAreNat
<1>2. BlockOf(b) \in Nat /\ BlockOf(b) \in k .. k + ChunkBlocks - 1
    BY <1>1, BytesInBlocks
<1>3. ChunkLba(BlockOf(b)) = k
    BY <1>2, AlignedChunk
<1>4. BlockOf(b) \notin l .. l + n - 1
    BY <1>3 DEF ChunksOf
<1> QED
    BY <1>1, <1>4, BytesInBlocks

(* Bytes of a block before the one that begins at k. *)
LEMMA BytesBefore ==
    ASSUME NEW k \in Nat, NEW b \in Nat
    PROVE  /\ b < k * BlockSize <=> BlockOf(b) < k
           /\ BlockOf(b) \in Nat
<1>1. b \in BytesOf(0, k) <=> BlockOf(b) \in 0 .. 0 + k - 1
    BY BytesInBlocks
<1>2. 0 * BlockSize = 0 /\ 0 + k = k /\ k * BlockSize \in Nat
    OBVIOUS
<1>3. b \in BytesOf(0, k) <=> b < k * BlockSize
    BY <1>2 DEF BytesOf
<1>4. BlockOf(b) \in Nat
    BY Division DEF BlockOf
<1> QED
    BY <1>1, <1>3, <1>4

----------------------------------------------------------------------------
(* Reads in sync mode: what the cache and the buffer hold *)

Reading(pc) == pc \in {"chunk", "joined", "joinFailed"}

(* The bytes of the range that come before chunk k are in the buffer. *)
Filled(data, k, range, last, doubts) ==
    \A b \in range : b < k * BlockSize => b \in DOMAIN data /\ Right(data, b, last, doubts)

AllRight(data, last, doubts) == \A b \in DOMAIN data : Right(data, b, last, doubts)

LEMMA ReadsFacts ==
    ASSUME ReadsOK
    PROVE  /\ \A k \in DOMAIN cache : ChunkAligned(k) /\ AllRight(cache[k], written, doubtful)
           /\ ChunkAligned(chunk)
           /\ prefetch # None => ChunkAligned(prefetch.next)
           /\ (prefetch # None /\ prefetch.held # None) =>
                 AllRight(prefetch.held, written, doubtful)
           /\ \A c \in Callers : (serving = c /\ Reading(wpc)) =>
                 Filled(buffer, chunk, BytesOf(Start(c), Count(c)), written, doubtful)
<1>1. \A data, b : Exact(data, b) <=> Right(data, b, written, doubtful)
    BY DEF Exact, Trusted, Right
<1>2. ChunksAligned /\ CachedExact /\ Assembled
    BY DEF ReadsOK
<1> QED
    BY <1>1, <1>2 DEF ChunksAligned, CachedExact, Assembled, Fetching, AllRight, Filled, Reading

LEMMA ReadsNext ==
    ASSUME \A k \in DOMAIN cache' : ChunkAligned(k) /\ AllRight(cache'[k], written', doubtful'),
           ChunkAligned(chunk'),
           prefetch' # None => ChunkAligned(prefetch'.next),
           (prefetch' # None /\ prefetch'.held # None) =>
                 AllRight(prefetch'.held, written', doubtful'),
           serving' \in Callers => call'[serving'] = call[serving'],
           \A c \in Callers : (serving' = c /\ Reading(wpc')) =>
                 Filled(buffer', chunk', BytesOf(Start(c), Count(c)), written', doubtful')
    PROVE  ReadsOK'
<1>1. \A data, b : (BlockOf(b) \notin doubtful' => data[b] = written'[b])
                       <=> Right(data, b, written', doubtful')
    BY DEF Right
<1>2. ChunksAligned'
    BY DEF ChunksAligned, ChunkAligned
<1>3. CachedExact'
    BY <1>1 DEF CachedExact, Fetching, Exact, Trusted, AllRight, BlockOf
<1>4. ASSUME NEW c \in Callers, serving' = c, wpc' \in {"chunk", "joined", "joinFailed"}
      PROVE  (\A b \in BytesOf(Start(c), Count(c)) :
                 b < chunk * BlockSize => b \in DOMAIN buffer /\ Exact(buffer, b))'
    <2> DEFINE l == Start(c)
               n == Count(c)
               range == BytesOf(l, n)
    <2>1. Start(c)' = l /\ Count(c)' = n
        BY <1>4, SteadyCall
    <2>2. Filled(buffer', chunk', range, written', doubtful')
        BY <1>4 DEF Reading
    <2> HIDE DEF l, n
    <2> QED
        BY <1>1, <2>1, <2>2 DEF Filled, Exact, Trusted, BytesOf, BlockOf
<1>5. Assembled'
    BY <1>4 DEF Assembled
<1> QED
    BY <1>2, <1>3, <1>5 DEF ReadsOK

(* More blocks in doubt ask for less. *)
LEMMA MoreDoubt ==
    ASSUME NEW last, NEW doubts, NEW more, doubts \subseteq more
    PROVE  /\ \A data : AllRight(data, last, doubts) => AllRight(data, last, more)
           /\ \A data, k, range :
                Filled(data, k, range, last, doubts) => Filled(data, k, range, last, more)
BY DEF AllRight, Filled, Right

(* A step that leaves what the cache has, and what a read has assembled. *)
LEMMA ReadsKeep ==
    ASSUME ReadsOK, UNCHANGED written, doubtful \subseteq doubtful',
           \A k \in DOMAIN cache' : k \in DOMAIN cache /\ cache'[k] = cache[k],
           ChunkAligned(chunk'),
           prefetch' # None => ChunkAligned(prefetch'.next),
           (prefetch' # None /\ prefetch'.held # None) =>
                 AllRight(prefetch'.held, written, doubtful),
           serving' \in Callers => call'[serving'] = call[serving'],
           Reading(wpc') => Reading(wpc) /\ UNCHANGED <<serving, chunk, buffer>>
    PROVE  ReadsOK'
<1>1. \A k \in DOMAIN cache' : ChunkAligned(k) /\ AllRight(cache'[k], written', doubtful')
    BY ReadsFacts, MoreDoubt
<1>2. (prefetch' # None /\ prefetch'.held # None) => AllRight(prefetch'.held, written', doubtful')
    BY MoreDoubt
<1>3. \A c \in Callers : (serving' = c /\ Reading(wpc')) =>
                 Filled(buffer', chunk', BytesOf(Start(c), Count(c)), written', doubtful')
    BY ReadsFacts, MoreDoubt
<1> QED
    BY <1>1, <1>2, <1>3, ReadsNext

(* The same, for a step that does not touch the cache or the task at all. *)
LEMMA ReadsApart ==
    ASSUME ReadsOK, UNCHANGED <<written, cache, prefetch>>, doubtful \subseteq doubtful',
           chunk' \in {chunk, 0},
           serving' \in Callers => call'[serving'] = call[serving'],
           Reading(wpc') => Reading(wpc) /\ UNCHANGED <<serving, chunk, buffer>>
    PROVE  ReadsOK'
<1>1. ChunkAligned(0)
    BY DEF ChunkAligned
<1> QED
    BY <1>1, ReadsFacts, ReadsKeep

LEMMA ReadsInit ==
    ASSUME Init
    PROVE  ReadsOK
<1>1. chunk = 0 /\ cache = <<>> /\ prefetch = None /\ wpc = "select"
    BY DEF Init
<1>2. 0 % ChunkBlocks = 0
    OBVIOUS
<1>3. DOMAIN cache = {}
    BY <1>1
<1> QED
    BY <1>1, <1>2, <1>3 DEF ReadsOK, ChunksAligned, ChunkAligned, CachedExact, Assembled, Fetching

(* Steps of the worker that have nothing to do with a read in progress. *)
LEMMA ReadsServe ==
    ASSUME Shapes, ReadsOK, NEW c \in Callers, Serve(c), WorkerOnly, ~InsertAligned(c)
    PROVE  ReadsOK'
<1>1. UNCHANGED <<call, media>>
    BY DEF WorkerOnly
<1>2. ASSUME DataRest, chunk' \in {chunk, 0}, ~Reading(wpc') PROVE ReadsOK'
    BY <1>1, <1>2, ReadsApart DEF DataRest, ghostVars
<1>3. ASSUME NEW op, NEW ok, NEW data, Takes(c, op), Reply(c, ok, data), DataRest PROVE ReadsOK'
    BY <1>2, <1>3 DEF Reply, Reading
<1>4. CASE ReadNothing(c) \/ WriteNothing(c) \/ RmwReadFails(c) \/ ReadDirty(c) \/ SetSyncWrites(c)
    BY <1>3, <1>4 DEF ReadNothing, WriteNothing, RmwReadFails, ReadDirty, SetSyncWrites,
                      AnswersAtOnce
<1>5. CASE Flush(c)
    BY <1>2, <1>3, <1>5 DEF Flush, AnswersAtOnce, Serves, Reading
<1>6. CASE RmwRead(c)
    BY <1>2, <1>6 DEF RmwRead, Serves, Reading
<1>7. CASE ReadThroughCache(c)
    <2>1. /\ Takes(c, "read") /\ ~Nothing(c) /\ DataRest /\ wpc' = "chunk" /\ serving' = c
          /\ chunk' = ChunkLba(Start(c)) /\ UNCHANGED buffer
        BY <1>7 DEF ReadThroughCache, Serves
    <2>2. Start(c) \in Nat /\ Count(c) \in Nat
        BY <2>1, TakesWaiting, RangeOfCall
    <2>3. ChunkAligned(0) /\ 0 \in Nat
        BY DEF ChunkAligned
    <2>4. ChunkAligned(chunk') /\ chunk' \in Nat /\ chunk' <= Start(c)
        BY <2>1, <2>2, <2>3, AlignedChunk, ChunkLbaNat
    <2>5. ASSUME NEW b \in BytesOf(Start(c), Count(c)) PROVE ~(b < chunk' * BlockSize)
        <3>1. b \in Nat /\ BlockOf(b) \in Start(c) .. Start(c) + Count(c) - 1
            BY <2>2, BytesAreNat, BytesInBlocks
        <3>2. BlockOf(b) \in Nat /\ ~(BlockOf(b) < chunk')
            BY <2>2, <2>4, <3>1, BytesBefore
        <3> QED
            BY <2>4, <3>1, <3>2, BytesBefore
    <2>6. Filled(buffer', chunk', BytesOf(Start(c), Count(c)), written', doubtful')
        BY <2>5 DEF Filled
    <2>7. UNCHANGED <<call, cache, prefetch, written, doubtful>>
        BY <1>1, <2>1 DEF DataRest, ghostVars
    <2> QED
        BY <2>1, <2>4, <2>6, <2>7, ReadsFacts, ReadsNext
<1> QED
    BY <1>4, <1>5, <1>6, <1>7 DEF Serve

LEMMA ReadsElsewhere ==
    ASSUME Shapes, ReadsOK, WorkerOnly,
           \/ ChunkJoin \/ ChunkFetchFails \/ WriteCoalesced \/ Drain
           \/ CoalesceTimer \/ ChannelClosed
           \/ FlushFails \/ SynchronizeCache \/ SynchronizeFails
    PROVE  ReadsOK'
<1>1. UNCHANGED call
    BY DEF WorkerOnly
<1>2. CASE ChunkJoin
    BY <1>1, <1>2, ReadsApart DEF ChunkJoin, AtChunk, Goes, DataRest, ghostVars, Reading
<1>3. CASE ChunkFetchFails \/ WriteCoalesced
    BY <1>1, <1>3, ReadsApart DEF ChunkFetchFails, WriteCoalesced, Replies, Reply, DataRest,
                                  ghostVars, Reading
<1>4. CASE Drain
    BY <1>1, <1>4, ReadsApart DEF Drain, Goes, ghostVars, Reading
<1>5. CASE CoalesceTimer \/ ChannelClosed
    BY <1>1, <1>5, ReadsApart DEF CoalesceTimer, ChannelClosed, Unasked, Serves, DataRest,
                                  ghostVars, Reading
<1>6. CASE FlushFails \/ SynchronizeCache \/ SynchronizeFails
    <2>1. /\ wpc = "await" /\ (FlushReturns(FALSE) \/ FlushReturns(TRUE))
          /\ doubtful \subseteq doubtful'
        BY <1>6 DEF FlushFails, SynchronizeCache, SynchronizeFails, Failure
    <2>2. UNCHANGED <<written, cache, prefetch>> /\ chunk' \in {chunk, 0} /\ ~Reading(wpc')
        BY <2>1 DEF FlushReturns, Goes, Replies, Reply, Reading
    <2> QED
        BY <1>1, <2>1, <2>2, ReadsApart
<1> QED
    BY <1>2, <1>3, <1>4, <1>5, <1>6

(* A write drops the chunks it is in from the cache; the readahead task has *)
(* fetched none of them.                                                    *)
LEMMA ReadsInsert ==
    ASSUME Shapes, ReadsOK, NEW c \in Callers, call[c] # None, call[c].op = "write", ~Nothing(c),
           NEW data, Insert(c, data), WorkerOnly, UNCHANGED chunk,
           Fetching => prefetch.next \notin ChunksOf(Start(c), Count(c))
    PROVE  ReadsOK'
<1> DEFINE l == Start(c)
           n == Count(c)
<1>1. /\ l \in Nat /\ n \in Nat
      /\ DOMAIN Payload(c) \subseteq BytesOf(l, n)
    BY WriteBytes
<1>2. /\ cache' = Restrict(cache, DOMAIN cache \ ChunksOf(l, n)) /\ wpc' \in {"drain", "ack"}
      /\ written' = [b \in Byte |-> IF b \in DOMAIN Payload(c) THEN Payload(c)[b]
                                                               ELSE written[b]]
      /\ UNCHANGED <<doubtful, call, prefetch>>
    BY DEF Insert, Invalidate, WorkerOnly
<1>3. Fetching => prefetch.next \notin ChunksOf(l, n)
    OBVIOUS
<1> HIDE DEF l, n
<1>4. ASSUME NEW k, NEW chunkData, IsChunk(k, chunkData), k \notin ChunksOf(l, n),
             ChunkAligned(k), AllRight(chunkData, written, doubtful)
      PROVE  AllRight(chunkData, written', doubtful')
    <2>1. k \in Nat /\ DOMAIN chunkData = BytesOf(k, ChunkBlocks) /\ DOMAIN chunkData \subseteq Byte
        BY <1>4 DEF IsChunk, IsBuffer
    <2>2. \A b \in DOMAIN chunkData : b \notin DOMAIN Payload(c)
        BY <1>1, <1>4, <2>1, Invalidated
    <2>3. \A b \in DOMAIN chunkData : written'[b] = written[b]
        BY <1>2, <2>1, <2>2
    <2> QED
        BY <1>2, <1>4, <2>3 DEF AllRight, Right
<1>5. ASSUME NEW k \in DOMAIN cache'
      PROVE  ChunkAligned(k) /\ AllRight(cache'[k], written', doubtful')
    <2>1. k \in DOMAIN cache /\ k \notin ChunksOf(l, n) /\ cache'[k] = cache[k]
        BY <1>2, <1>5 DEF Restrict
    <2> QED
        BY <1>4, <2>1, ReadsFacts, CacheFacts
<1>6. ASSUME prefetch' # None, prefetch'.held # None
      PROVE  AllRight(prefetch'.held, written', doubtful')
    BY <1>2, <1>3, <1>4, <1>6, ReadsFacts, CacheFacts DEF Fetching
<1> QED
    BY <1>2, <1>5, <1>6, ReadsFacts, ReadsNext DEF Reading

(* The write of c enters the dirty map. *)
Inserts(c) == InsertAligned(c) \/ (RmwInsert /\ serving = c)

LEMMA InsertsWrite ==
    ASSUME Shapes, NEW c \in Callers, Inserts(c)
    PROVE  /\ call[c] # None /\ call[c].op = "write" /\ ~Nothing(c)
           /\ \E data : Insert(c, data)
           /\ UNCHANGED chunk /\ serving' = c /\ serving \in {c, None}
<1>1. CASE InsertAligned(c)
    <2>1. Takes(c, "write") /\ ~Nothing(c) /\ Insert(c, Payload(c)) /\ UNCHANGED chunk
          /\ serving' = c
        BY <1>1 DEF InsertAligned
    <2>2. call[c] # None /\ call[c].op = "write" /\ serving = None
        BY <2>1, TakesWaiting, WorkerFacts
    <2> QED
        BY <2>1, <2>2 DEF Takes, Insert
<1>2. CASE RmwInsert /\ serving = c
    <2>1. wpc = "modify" /\ Insert(c, Modified) /\ UNCHANGED <<chunk, serving>>
        BY <1>2 DEF RmwInsert
    <2>2. call[c].op = "write" /\ ~Nothing(c) /\ call[c] # None
        BY <1>2, <2>1, ServedIs, Apart
    <2> QED
        BY <1>2, <2>1, <2>2 DEF Insert
<1> QED
    BY <1>1, <1>2 DEF Inserts

LEMMA ReadsWrite ==
    ASSUME Shapes, ReadsOK, WorkerOnly, NEW c \in Callers, Inserts(c),
           Fetching => prefetch.next \notin ChunksOf(Start(c), Count(c))
    PROVE  ReadsOK'
BY InsertsWrite, ReadsInsert

(* A chunk that is exact fills in what a read wants of it. *)
LEMMA ReadsAssemble ==
    ASSUME Shapes, ReadsOK, NEW data, wpc = "chunk", Assembles(data), Goes("chunk"), WorkerOnly,
           IsChunk(chunk, data), AllRight(data, written, doubtful),
           UNCHANGED <<written, doubtful, prefetch>>,
           \A k \in DOMAIN cache' : ChunkAligned(k) /\ AllRight(cache'[k], written, doubtful)
    PROVE  ReadsOK'
<1>1. serving \in Callers /\ ~Nothing(serving)
      /\ call[serving].offset \in Nat /\ call[serving].size \in Nat
    BY WorkerFacts, ServedIs
<1>2. PICK c \in Callers : serving = c
    BY <1>1
<1> DEFINE l == Start(c)
           n == Count(c)
           range == BytesOf(l, n)
           part == range \cap DOMAIN data
<1>3. l \in Nat /\ n \in Nat
    BY <1>1, <1>2, RangeOfCall
<1>4. /\ buffer' = [b \in DOMAIN buffer \cup part |-> IF b \in part THEN data[b] ELSE buffer[b]]
      /\ chunk' = chunk + ChunkBlocks
      /\ wpc' = "chunk" /\ serving' = c /\ UNCHANGED call
    BY <1>2 DEF Assembles, Goes, WorkerOnly
<1>5. chunk \in Nat /\ DOMAIN data = BytesOf(chunk, ChunkBlocks) /\ ChunkAligned(chunk)
    BY WorkerFacts, ReadsFacts DEF IsChunk
<1>6. Filled(buffer, chunk, range, written, doubtful)
    BY <1>2, ReadsFacts DEF Reading
<1> HIDE DEF l, n
<1>7. ChunkAligned(chunk')
    <2>1. 0 \in Nat
        OBVIOUS
    <2> QED
        BY <1>4, <1>5, <2>1, AlignedChunk
<1>8. ASSUME NEW b \in range, b < chunk' * BlockSize
      PROVE  b \in DOMAIN buffer' /\ Right(buffer', b, written, doubtful)
    <2>1. b \in Nat
        BY <1>3, BytesAreNat
    <2>2. CASE b \in part
        BY <1>4, <2>2 DEF AllRight, Right
    <2>3. CASE b \notin part
        <3>1. b \notin BytesOf(chunk, ChunkBlocks)
            BY <1>5, <2>3
        <3>2. b < chunk * BlockSize
            <4>1. chunk * BlockSize \in Nat
                BY <1>5
            <4> QED
                BY <1>4, <1>5, <1>8, <2>1, <3>1, <4>1 DEF BytesOf
        <3>3. b \in DOMAIN buffer /\ Right(buffer, b, written, doubtful)
            BY <1>6, <3>2 DEF Filled
        <3> QED
            BY <1>4, <2>3, <3>3 DEF Right
    <2> QED
        BY <2>2, <2>3
<1>9. Filled(buffer', chunk', range, written', doubtful')
    BY <1>8 DEF Filled
<1>10. \A d \in Callers : (serving' = d /\ Reading(wpc')) =>
                 Filled(buffer', chunk', BytesOf(Start(d), Count(d)), written', doubtful')
    BY <1>4, <1>9 DEF l, n
<1> QED
    BY <1>4, <1>7, <1>10, ReadsFacts, ReadsNext

LEMMA CachedRight ==
    ASSUME ReadsOK, NEW k, NEW data, ChunkAligned(k), AllRight(data, written, doubtful),
           cache' = WithChunk(k, data)
    PROVE  \A j \in DOMAIN cache' : ChunkAligned(j) /\ AllRight(cache'[j], written, doubtful)
<1>1. /\ DOMAIN cache' = DOMAIN cache \cup {k}
      /\ \A j \in DOMAIN cache' : cache'[j] = IF j = k THEN data ELSE cache[j]
    BY DEF WithChunk
<1> QED
    BY <1>1, ReadsFacts

LEMMA ReadsChunk ==
    ASSUME Shapes, ReadsOK, WorkerOnly, ChunkHit \/ ChunkFetch,
           ChunkFetch => AllRight(ReadOfTarget(chunk), written, doubtful)
    PROVE  ReadsOK'
<1>1. CASE ChunkHit
    <2>1. /\ wpc = "chunk" /\ Assembles(cache[chunk]) /\ Goes("chunk") /\ DataRest
          /\ chunk \in DOMAIN cache
        BY <1>1 DEF ChunkHit, AtChunk
    <2>2. IsChunk(chunk, cache[chunk]) /\ AllRight(cache[chunk], written, doubtful)
        BY <2>1, CacheFacts, ReadsFacts
    <2>3. UNCHANGED <<written, doubtful, prefetch, cache>>
        BY <2>1 DEF DataRest, ghostVars
    <2>4. \A k \in DOMAIN cache' : ChunkAligned(k) /\ AllRight(cache'[k], written, doubtful)
        BY <2>3, ReadsFacts
    <2> QED
        BY <2>1, <2>2, <2>3, <2>4, ReadsAssemble
<1>2. CASE ChunkFetch
    <2>1. /\ wpc = "chunk" /\ Goes("chunk") /\ OnDevice(chunk) /\ Assembles(ReadOfTarget(chunk))
          /\ cache' = WithChunk(chunk, ReadOfTarget(chunk))
          /\ UNCHANGED <<written, doubtful, prefetch>>
        BY <1>2 DEF ChunkFetch, AtChunk, ghostVars
    <2>2. chunk \in Nat /\ ChunkAligned(chunk)
        BY WorkerFacts, ReadsFacts
    <2>3. IsChunk(chunk, ReadOfTarget(chunk)) /\ AllRight(ReadOfTarget(chunk), written, doubtful)
        BY <1>2, <2>1, <2>2, TargetChunk
    <2>4. \A k \in DOMAIN cache' : ChunkAligned(k) /\ AllRight(cache'[k], written, doubtful)
        BY <2>1, <2>2, <2>3, CachedRight
    <2> QED
        BY <2>1, <2>3, <2>4, ReadsAssemble
<1> QED
    BY <1>1, <1>2

LEMMA ReadsFinish ==
    ASSUME Shapes, ReadsOK, WorkerOnly, FinishRead
    PROVE  ReadsOK'
<1>1. /\ wpc = "chunk" /\ Readahead(Start(serving), Count(serving))
      /\ wpc' = "select" /\ chunk' = 0
      /\ UNCHANGED <<cache, written, doubtful, call>>
      /\ serving' = None
    BY DEF FinishRead, Replies, Reply, WorkerOnly, ghostVars
<1>2. serving \in Callers /\ call[serving].offset \in Nat /\ call[serving].size \in Nat
      /\ ~Nothing(serving)
    BY <1>1, WorkerFacts, ServedIs
<1>3. Start(serving) \in Nat /\ Count(serving) \in Nat
    BY <1>2, RangeOfCall
<1>4. ChunkAligned(0) /\ 0 \in Nat
    BY DEF ChunkAligned
<1>5. Start(serving) + Count(serving) \in Nat
    BY <1>3
<1>6. ChunkAligned(ChunkLba(Start(serving) + Count(serving)))
    BY <1>4, <1>5, AlignedChunk
<1>7. \/ UNCHANGED prefetch
      \/ prefetch'.next = ChunkLba(Start(serving) + Count(serving)) /\ prefetch'.held = None
    BY <1>1 DEF Readahead
<1>8. serving' \notin Callers /\ ~Reading(wpc')
    BY <1>1, Apart DEF Reading
<1> QED
    BY <1>1, <1>4, <1>6, <1>7, <1>8, ReadsFacts, ReadsKeep

(* The readahead task, as long as what it fetches is exact. *)
LEMMA ReadsPrefetch ==
    ASSUME Shapes, ReadsOK, PrefetchTask,
           (PrefetchFetch /\ Fetching') => AllRight(ReadOfTarget(prefetch.next), written, doubtful)
    PROVE  ReadsOK'
<1>1. prefetch # None /\ PrefetchOnly
    BY DEF PrefetchTask, PrefetchHit, PrefetchFetch, PrefetchInsert, PrefetchFails,
           PrefetchEnds, PrefetchOnly
<1>2. UNCHANGED <<call, serving, chunk, buffer, written, doubtful>>
    BY <1>1 DEF PrefetchOnly, callVars, ghostVars
<1>3. prefetch.next \in Nat /\ ChunkAligned(prefetch.next) /\ 0 \in Nat
      /\ prefetch = [next |-> prefetch.next, held |-> prefetch.held, end |-> prefetch.end]
    BY <1>1, CacheFacts, ReadsFacts
<1>4. ChunkAligned(prefetch.next + ChunkBlocks) /\ ChunkAligned(chunk')
    BY <1>2, <1>3, ReadsFacts, AlignedChunk
<1>5. wpc' = wpc \/ (wpc = "joined" /\ wpc' \in {"chunk", "joinFailed"})
    BY DEF PrefetchTask, PrefetchHit, PrefetchFetch, PrefetchInsert, PrefetchFails,
           PrefetchEnds, Wakes
<1>6. Reading(wpc') => Reading(wpc) /\ UNCHANGED <<serving, chunk, buffer>>
    BY <1>2, <1>5 DEF Reading
<1>7. CASE PrefetchHit
    <2>1. prefetch' = [prefetch EXCEPT !.next = @ + ChunkBlocks] /\ UNCHANGED cache
          /\ prefetch.held = None
        BY <1>7 DEF PrefetchHit, Wanted
    <2>2. prefetch'.next = prefetch.next + ChunkBlocks /\ prefetch'.held = None
        BY <1>3, <2>1
    <2> QED
        BY <1>2, <1>4, <1>6, <2>1, <2>2, ReadsKeep
<1>8. CASE PrefetchFetch
    <2>1. /\ prefetch' = [prefetch EXCEPT !.held = ReadOfTarget(prefetch.next)]
          /\ UNCHANGED <<cache, wpc>> /\ OnDevice(prefetch.next) /\ prefetch.held = None
        BY <1>8 DEF PrefetchFetch, Wanted
    <2>2. prefetch'.next = prefetch.next /\ prefetch'.held = ReadOfTarget(prefetch.next)
        BY <1>3, <2>1
    <2>3. Fetching' => AllRight(prefetch'.held, written, doubtful)
        BY <1>8, <2>2
    <2>4. Fetching' <=> (prefetch' # None /\ prefetch'.held # None)
        BY DEF Fetching
    <2> QED
        BY <1>2, <1>3, <1>4, <1>6, <2>1, <2>2, <2>3, <2>4, ReadsKeep
<1>9. CASE PrefetchInsert
    <2>1. /\ prefetch' = [prefetch EXCEPT !.next = @ + ChunkBlocks, !.held = None]
          /\ cache' = WithChunk(prefetch.next, prefetch.held) /\ prefetch.held # None
        BY <1>9 DEF PrefetchInsert
    <2>2. prefetch'.next = prefetch.next + ChunkBlocks /\ prefetch'.held = None
        BY <1>3, <2>1
    <2>3. \A j \in DOMAIN cache' : ChunkAligned(j) /\ AllRight(cache'[j], written', doubtful')
        BY <1>1, <1>2, <1>3, <2>1, ReadsFacts, CachedRight
    <2>4. \A c \in Callers : (serving' = c /\ Reading(wpc')) =>
                 Filled(buffer', chunk', BytesOf(Start(c), Count(c)), written', doubtful')
        BY <1>2, <1>6, ReadsFacts
    <2> QED
        BY <1>2, <1>4, <2>2, <2>3, <2>4, ReadsNext
<1>10. CASE PrefetchFails \/ PrefetchEnds
    <2>1. prefetch' = None /\ UNCHANGED cache
        BY <1>10 DEF PrefetchFails, PrefetchEnds
    <2> QED
        BY <1>2, <1>4, <1>6, <2>1, ReadsKeep
<1> QED
    BY <1>7, <1>8, <1>9, <1>10 DEF PrefetchTask

(* Callers, the target and what the cache evicts. *)
LEMMA ReadsBeside ==
    ASSUME Shapes, ReadsOK,
           \/ (\E c \in Callers : Calls(c) \/ Return(c)) \/ Close
           \/ Target \/ (\E k \in DOMAIN cache : Evict(k)) \/ (\E w \in strays : StrayLands(w))
           \/ UNCHANGED vars
    PROVE  ReadsOK'
<1>1. ASSUME NEW c \in Callers, NEW x, call' = [call EXCEPT ![c] = x], serving # c,
             DeviceRest, UNCHANGED cache
      PROVE  ReadsOK'
    <2>1. serving' \in Callers => call'[serving'] = call[serving']
        BY <1>1, ChannelFacts DEF DeviceRest, workVars
    <2> QED
        BY <1>1, <2>1, ReadsApart DEF DeviceRest, workVars, ghostVars
<1>2. ASSUME NEW c \in Callers, Calls(c) PROVE ReadsOK'
    <2>1. PICK request \in Request : Call(c, request) /\ writes' \in Value
        BY <1>2, CallIsRequest
    <2>2. serving # c
        BY <2>1, ChannelCall
    <2> QED
        BY <1>1, <2>1, <2>2 DEF Call
<1>3. ASSUME NEW c \in Callers, Return(c) PROVE ReadsOK'
    <2>1. serving # c
        BY <1>3, ChannelReturn
    <2> QED
        BY <1>1, <1>3, <2>1 DEF Return
<1>4. CASE Close \/ Target \/ (\E w \in strays : StrayLands(w)) \/ UNCHANGED vars
    <2>1. /\ UNCHANGED <<call, wpc, serving, chunk, buffer>>
          /\ UNCHANGED <<cache, prefetch, written, doubtful>>
        BY <1>4 DEF Close, DeviceRest, Target, WriteLands, WriteSucceeds, WriteFails, StrayLands,
                    TargetOnly, callVars, workVars, ghostVars, vars
    <2> QED
        BY <2>1, ReadsApart
<1>5. ASSUME NEW k \in DOMAIN cache, Evict(k) PROVE ReadsOK'
    <2>1. /\ cache' = Restrict(cache, DOMAIN cache \ {k})
          /\ UNCHANGED <<call, wpc, serving, chunk, buffer, prefetch, written, doubtful>>
        BY <1>5 DEF Evict, DeviceRest, callVars, workVars, ghostVars
    <2>2. \A j \in DOMAIN cache' : j \in DOMAIN cache /\ cache'[j] = cache[j]
        BY <2>1 DEF Restrict
    <2> QED
        BY <2>1, <2>2, ReadsFacts, ReadsKeep
<1> QED
    BY <1>2, <1>3, <1>4, <1>5

LEMMA ReadsStep ==
    ASSUME Shapes, ReadsOK, [Next]_vars,
           \A c \in Callers : (Inserts(c) /\ Fetching)
                => prefetch.next \notin ChunksOf(Start(c), Count(c)),
           ChunkFetch => AllRight(ReadOfTarget(chunk), written, doubtful),
           (PrefetchFetch /\ Fetching') => AllRight(ReadOfTarget(prefetch.next), written, doubtful)
    PROVE  ReadsOK'
<1>1. CASE Worker
    <2>1. WorkerOnly
        BY <1>1 DEF Worker
    <2>2. ASSUME NEW c \in Callers, Serve(c) PROVE ReadsOK'
        BY <2>1, <2>2, ReadsServe, ReadsWrite DEF Inserts
    <2>3. CASE RmwInsert
        <3>1. serving \in Callers
            BY <2>3, WorkerFacts DEF RmwInsert
        <3> QED
            BY <2>1, <2>3, <3>1, ReadsWrite DEF Inserts
    <2>4. CASE Continue
        BY <2>1, <2>3, <2>4, ReadsChunk, ReadsElsewhere, ReadsFinish DEF Continue
    <2> QED
        BY <1>1, <2>2, <2>4 DEF Worker
<1>2. CASE Timer
    BY <1>2, ReadsElsewhere DEF Timer
<1> QED
    BY <1>1, <1>2, ReadsBeside, ReadsPrefetch DEF Next

(* While no write is served what the target returns is exact. *)
LEMMA FetchedExact ==
    ASSUME Shapes, InSync, NEW k \in Nat, OnDevice(k), wpc \notin {"drain", "await"}
    PROVE  IsChunk(k, ReadOfTarget(k)) /\ AllRight(ReadOfTarget(k), written, doubtful)
<1>1. \A b \in Byte : Right(media, b, written, doubtful)
    BY InSyncFacts DEF BothRight
<1>2. IsChunk(k, ReadOfTarget(k))
      /\ \A b \in BytesOf(k, ChunkBlocks) : b \in Byte /\ ReadOfTarget(k)[b] = media[b]
    BY TargetChunk
<1> QED
    BY <1>1, <1>2 DEF IsChunk, AllRight, Right

LEMMA SyncReadsStep ==
    ASSUME Shapes, InSync, ReadsOK, ReadaheadApart', [Next]_vars
    PROVE  ReadsOK'
<1>1. ASSUME NEW c \in Callers, Inserts(c) PROVE ~Fetching
    <2>1. PICK data : Insert(c, data)
        BY <1>1, InsertsWrite
    <2>2. wpc' = "drain" /\ UNCHANGED prefetch
        BY <2>1, InSyncFacts DEF Insert
    <2> QED
        BY <2>2 DEF ReadaheadApart, Fetching
<1>2. ASSUME ChunkFetch PROVE AllRight(ReadOfTarget(chunk), written, doubtful)
    BY <1>2, WorkerFacts, FetchedExact DEF ChunkFetch, AtChunk
<1>3. ASSUME PrefetchFetch, Fetching'
      PROVE  AllRight(ReadOfTarget(prefetch.next), written, doubtful)
    <2>1. prefetch # None /\ OnDevice(prefetch.next) /\ UNCHANGED wpc
        BY <1>3 DEF PrefetchFetch, PrefetchOnly
    <2>2. prefetch.next \in Nat
        BY <2>1, CacheFacts
    <2>3. wpc \notin {"drain", "await"}
        BY <1>3, <2>1 DEF ReadaheadApart
    <2> QED
        BY <2>1, <2>2, <2>3, FetchedExact
<1> QED
    BY <1>1, <1>2, <1>3, ReadsStep

----------------------------------------------------------------------------
(* What a read is answered *)

LEMMA ReadAnswer ==
    ASSUME Shapes, [Next]_vars, NEW c \in Callers, Succeeds(c, "read")
    PROVE  /\ call[c] # None /\ call[c].offset \in Nat /\ call[c].size \in Nat
           /\ \/ Nothing(c) /\ reply'[c].data = <<>>
              \/ /\ ~Nothing(c) /\ ReadDirty(c)
                 /\ reply'[c].data = Slice(Overlap(dirty, Start(c), Count(c)), c)
              \/ /\ ~Nothing(c) /\ serving = c /\ wpc = "chunk" /\ ~AtChunk
                 /\ reply'[c].data = Slice(buffer, c)
<1>1. reply[c] = None /\ reply'[c] # None /\ call[c].op = "read" /\ reply'[c].ok
    BY DEF Succeeds, Answers
<1>2. ASSUME NEW d \in Callers, NEW r, reply' = [reply EXCEPT ![d] = r]
      PROVE  c = d /\ reply'[c] = r
    BY <1>1, <1>2, ChannelFacts
<1>3. ASSUME NEW d \in Callers, NEW ok, NEW data, Reply(d, ok, data)
      PROVE  c = d /\ reply'[c].data = data
    <2>1. c = d /\ reply'[c] = Outcome(ok, data)
        BY <1>2, <1>3 DEF Reply
    <2> QED
        BY <2>1 DEF Outcome
<1>4. ~UNCHANGED reply
    BY <1>1
<1> DEFINE Answer ==
        \/ Nothing(c) /\ reply'[c].data = <<>>
        \/ /\ ~Nothing(c) /\ ReadDirty(c)
           /\ reply'[c].data = Slice(Overlap(dirty, Start(c), Count(c)), c)
        \/ /\ ~Nothing(c) /\ serving = c /\ wpc = "chunk" /\ ~AtChunk
           /\ reply'[c].data = Slice(buffer, c)
           Known == call[c] # None /\ call[c].offset \in Nat /\ call[c].size \in Nat
<1>5. ASSUME NEW d \in Callers, Serve(d) PROVE Known /\ Answer
    <2>1. CASE InsertAligned(d) \/ RmwRead(d) \/ ReadThroughCache(d)
        BY <1>4, <2>1 DEF InsertAligned, Insert, RmwRead, ReadThroughCache, Serves
    <2>2. ASSUME NEW op, NEW ok, op # "read", AnswersAtOnce(d, op, ok) PROVE FALSE
        <3>1. c = d /\ call[d].op = op
            BY <1>3, <2>2 DEF AnswersAtOnce, Takes
        <3> QED
            BY <1>1, <2>2, <3>1
    <2>3. CASE WriteNothing(d) \/ RmwReadFails(d)
        BY <2>2, <2>3 DEF WriteNothing, RmwReadFails
    <2>4. CASE Flush(d)
        BY <1>4, <2>2, <2>4 DEF Flush, Serves
    <2>5. CASE SetSyncWrites(d)
        <3>1. c = d /\ call[d].op = "setSync"
            BY <1>3, <2>5 DEF SetSyncWrites, Takes
        <3> QED
            BY <1>1, <3>1
    <2>6. CASE ReadNothing(d)
        <3>1. Takes(d, "read") /\ Reply(d, TRUE, <<>>) /\ Nothing(d)
            BY <2>6 DEF ReadNothing, AnswersAtOnce
        <3> QED
            BY <1>3, <3>1, TakesWaiting
    <2>7. CASE ReadDirty(d)
        <3>1. /\ Takes(d, "read") /\ ~Nothing(d)
              /\ Reply(d, TRUE, Slice(Overlap(dirty, Start(d), Count(d)), d))
            BY <2>7 DEF ReadDirty
        <3>2. c = d /\ reply'[c].data = Slice(Overlap(dirty, Start(d), Count(d)), d)
            BY <1>3, <3>1
        <3> QED
            BY <2>7, <3>1, <3>2, TakesWaiting
    <2> QED
        BY <1>5, <2>1, <2>3, <2>4, <2>5, <2>6, <2>7 DEF Serve
<1>6. CASE Continue
    <2>1. CASE ChunkHit \/ ChunkFetch \/ ChunkJoin \/ RmwInsert \/ Drain \/ ChannelClosed
        BY <1>4, <2>1 DEF ChunkHit, ChunkFetch, ChunkJoin, RmwInsert, Drain, ChannelClosed, Goes,
                          Insert, Unasked, Serves
    <2>2. CASE ChunkFetchFails
        <3>1. wpc \in {"chunk", "joinFailed"} /\ Reply(serving, FALSE, <<>>)
            BY <2>2 DEF ChunkFetchFails, AtChunk, Replies
        <3>2. reply'[c] = Outcome(FALSE, <<>>)
            BY <1>2, <3>1, WorkerFacts DEF Reply
        <3>3. ~reply'[c].ok
            BY <3>2 DEF Outcome
        <3> QED
            BY <1>1, <3>3
    <2>3. CASE FinishRead
        <3>1. wpc = "chunk" /\ ~AtChunk /\ Reply(serving, TRUE, Slice(buffer, serving))
            BY <2>3 DEF FinishRead, Replies
        <3>2. serving \in Callers
            BY <3>1, WorkerFacts
        <3>3. c = serving /\ reply'[c] = Outcome(TRUE, Slice(buffer, serving))
            BY <1>2, <3>1, <3>2 DEF Reply
        <3>4. reply'[c].data = Slice(buffer, serving)
            BY <3>3 DEF Outcome
        <3>5. serving = c /\ reply'[c].data = Slice(buffer, c)
            BY <3>3, <3>4
        <3> QED
            BY <1>1, <3>1, <3>5, ServedIs, Apart
    <2>4. CASE WriteCoalesced
        <3>1. wpc = "ack" /\ Reply(serving, TRUE, <<>>)
            BY <2>4 DEF WriteCoalesced, Replies
        <3>2. serving \in Callers /\ call[serving].op = "write"
            BY <3>1, WorkerFacts, ServedIs
        <3> QED
            BY <1>1, <1>3, <3>1, <3>2
    <2>5. CASE FlushFails \/ SynchronizeCache \/ SynchronizeFails
        <3>1. wpc = "await" /\ (FlushReturns(TRUE) \/ FlushReturns(FALSE))
            BY <2>5 DEF FlushFails, SynchronizeCache, SynchronizeFails, Failure
        <3>2. CASE serving \in Callers
            <4>1. call[serving].op # "read" /\ serving # "timer" /\ serving # "close"
                BY <3>1, <3>2, ServedIs, Apart
            <4>2. \E ok : Reply(serving, ok, <<>>)
                BY <3>1, <4>1 DEF FlushReturns, Replies
            <4> QED
                BY <1>1, <1>3, <3>2, <4>1, <4>2
        <3>3. CASE serving \notin Callers
            <4>1. serving = "timer" \/ serving = "close"
                BY <3>1, <3>3, WorkerFacts
            <4> QED
                BY <1>4, <3>1, <4>1 DEF FlushReturns, Goes
        <3> QED
            BY <3>2, <3>3
    <2> QED
        BY <1>6, <2>1, <2>2, <2>3, <2>4, <2>5 DEF Continue
<1>7. ASSUME NEW d \in Callers, Calls(d) PROVE FALSE
    BY <1>4, <1>7 DEF Calls, CallRead, CallWrite, CallFlush, CallSetSync, Call
<1>8. ASSUME NEW d \in Callers, Return(d) PROVE FALSE
    <2>1. reply' = [reply EXCEPT ![d] = None]
        BY <1>8 DEF Return
    <2> QED
        BY <1>1, <1>2, <2>1
<1>9. CASE Timer \/ Close \/ PrefetchTask \/ Target \/ (\E k \in DOMAIN cache : Evict(k))
           \/ (\E w \in strays : StrayLands(w)) \/ UNCHANGED vars
    BY <1>4, <1>9 DEF Timer, CoalesceTimer, Unasked, Serves, Close, PrefetchTask, PrefetchHit,
       PrefetchFetch, PrefetchInsert, PrefetchFails, PrefetchEnds, PrefetchOnly, Target,
       WriteLands, WriteSucceeds, WriteFails, TargetOnly, Evict, StrayLands, callVars, vars
<1> QED
    BY <1>5, <1>6, <1>7, <1>8, <1>9 DEF Next, Worker

(* A read that succeeds returns all the bytes asked for that are on the   *)
(* device, and no others, unless handle_read has to keep a size in a u32  *)
(* that is too large for it.                                              *)
THEOREM ReadsAreComplete == ASSUME TotalBytes < Word PROVE Spec => ReadComplete
<1>1. ASSUME Shapes, [Next]_vars, NEW c \in Callers, Succeeds(c, "read")
      PROVE  DOMAIN reply'[c].data =
                Extent(Offset(c), Lesser(call[c].size, TotalBytes - Offset(c)))
    <2> DEFINE o == call[c].offset
               n == call[c].size
    <2>1. o \in Nat /\ n \in Nat /\ Offset(c) = o /\ call[c].op = "read"
          /\ TotalBytes \in Nat
        BY <1>1, ReadAnswer DEF Offset, Succeeds, Answers, TotalBytes
    <2>2. CASE Nothing(c) /\ reply'[c].data = <<>>
        <3>1. DOMAIN reply'[c].data = {}
            BY <2>2
        <3>2. Extent(o, Lesser(n, TotalBytes - o)) = {}
            BY <2>1, <2>2 DEF Nothing, Extent, Lesser
        <3> QED
            BY <2>1, <3>1, <3>2
    <2>3. ASSUME ~Nothing(c), NEW data, reply'[c].data = Slice(data, c)
          PROVE  DOMAIN reply'[c].data =
                    Extent(Offset(c), Lesser(call[c].size, TotalBytes - Offset(c)))
        <3>1. DOMAIN reply'[c].data = Extent(o, Size(c))
            BY <2>1, <2>3 DEF Slice, Restrict
        <3>2. TotalBytes - o \in 0 .. Word - 1
            BY <2>1, <2>3 DEF Nothing
        <3> DEFINE x == TotalBytes - o
        <3>3. x % Word = x
            <4> HIDE DEF x
            <4> QED
                BY <3>2 DEF x
        <3>4. Size(c) = Lesser(n, TotalBytes - o)
            BY <2>1, <3>3 DEF Size, ClampRead
        <3> QED
            BY <2>1, <3>1, <3>4
    <2> QED
        BY <1>1, <2>2, <2>3, ReadAnswer
<1>2. Shapes /\ [Next]_vars =>
         [\A c \in Callers : Succeeds(c, "read") =>
            DOMAIN reply'[c].data =
               Extent(Offset(c), Lesser(call[c].size, TotalBytes - Offset(c)))]_vars
    BY <1>1
<1>3. Init => Shapes
    BY ShapesInit
<1>4. Shapes /\ [Next]_vars => Shapes'
    BY ShapesStep
<1> QED
    BY <1>2, <1>3, <1>4, PTL DEF ReadComplete, Spec

(* What a read that has come to its end returns is exact. *)
LEMMA AssembledRight ==
    ASSUME Shapes, ReadsOK, NEW c \in Callers, call[c].offset \in Nat, call[c].size \in Nat,
           ~Nothing(c), serving = c, wpc = "chunk", ~AtChunk,
           NEW b \in Extent(Offset(c), Size(c))
    PROVE  Right(buffer, b, written, doubtful)
<1> DEFINE l == Start(c)
           n == Count(c)
<1>1. /\ l \in Nat /\ n \in Nat
      /\ Extent(Offset(c), Size(c)) \subseteq BytesOf(l, n)
    BY RangeOfCall
<1>2. /\ chunk \in Nat /\ ChunkAligned(chunk)
      /\ chunk > LastChunk(l, n)
      /\ Filled(buffer, chunk, BytesOf(l, n), written, doubtful)
    <2>1. chunk \in Nat /\ ChunkAligned(chunk)
        BY WorkerFacts, ReadsFacts
    <2>2. LastChunk(l, n) \in Nat
        BY <1>1, ChunkLbaNat DEF LastChunk
    <2>3. ~(chunk <= LastChunk(l, n))
        BY DEF AtChunk
    <2>4. Filled(buffer, chunk, BytesOf(l, n), written, doubtful)
        BY ReadsFacts DEF Reading
    <2> QED
        BY <2>1, <2>2, <2>3, <2>4
<1> HIDE DEF l, n
<1>3. b \in BytesOf(l, n) /\ b \in Nat /\ BlockOf(b) \in l .. l + n - 1
    BY <1>1, BytesAreNat, BytesInBlocks
<1>4. n # 0 /\ l + n - 1 \in Nat /\ l + n # 0 /\ BlockOf(b) <= l + n - 1
    BY <1>1, <1>3
<1>5. chunk > l + n - 1
    BY <1>2, <1>4, AlignedChunk DEF LastChunk
<1>6. BlockOf(b) \in Nat /\ BlockOf(b) < chunk
    BY <1>1, <1>2, <1>3, <1>4, <1>5, BytesBefore
<1>7. b < chunk * BlockSize
    BY <1>2, <1>3, <1>6, BytesBefore
<1> QED
    BY <1>2, <1>3, <1>7 DEF Filled

(* In sync mode a read returns the data of the last write to every byte     *)
(* that no failed call has left in doubt, from the cache or the target,     *)
(* whatever is evicted and read ahead, as long as no fetch of the readahead *)
(* task is under way while a write is served.                               *)
THEOREM SyncReadsYourWrites ==
    ASSUME AlwaysInSync PROVE Spec /\ []ReadaheadApart => ReadYourWrites
<1>1. ASSUME Shapes, InSync, ReadsOK, [Next]_vars, NEW c \in Callers, Succeeds(c, "read"),
             NEW b \in DOMAIN reply'[c].data, Trusted(b)
      PROVE  reply'[c].data[b] = written[b]
    <2>1. CASE Nothing(c) /\ reply'[c].data = <<>>
        BY <2>1
    <2>2. CASE ReadDirty(c)
        <3>1. dirty = NoEntries
            BY <2>2, InSyncFacts, <1>1 DEF ReadDirty, Takes
        <3>2. AtOrBefore(dirty, Start(c)) = {}
            BY <3>1 DEF AtOrBefore, NoEntries
        <3> QED
            BY <2>2, <3>2 DEF ReadDirty, Overlaps
    <2>3. CASE ~Nothing(c) /\ serving = c /\ wpc = "chunk" /\ ~AtChunk
               /\ reply'[c].data = Slice(buffer, c)
        <3>1. b \in Extent(Offset(c), Size(c)) /\ reply'[c].data[b] = buffer[b]
            BY <1>1, <2>3 DEF Slice, Restrict
        <3>2. Right(buffer, b, written, doubtful)
            BY <1>1, <2>3, <3>1, ReadAnswer, AssembledRight
        <3> QED
            BY <1>1, <3>1, <3>2 DEF Right, Trusted
    <2> QED
        BY <1>1, <2>1, <2>2, <2>3, ReadAnswer
<1>2. Shapes /\ InSync /\ ReadsOK /\ [Next]_vars =>
         [\A c \in Callers : Succeeds(c, "read") =>
            \A b \in DOMAIN reply'[c].data :
               Trusted(b) => reply'[c].data[b] = written[b]]_vars
    BY <1>1
<1>3. Init => Shapes /\ InSync /\ ReadsOK
    BY ShapesInit, SyncInit, ReadsInit
<1>4. Shapes /\ InSync /\ ReadsOK /\ ReadaheadApart' /\ [Next]_vars
         => (Shapes /\ InSync /\ ReadsOK)'
    BY ShapesStep, SyncStep, SyncReadsStep
<1> QED
    BY <1>2, <1>3, <1>4, PTL DEF ReadYourWrites, Spec

----------------------------------------------------------------------------
(* The size of what is dirty *)

Held(entries) == UNION {{l} \X DOMAIN entries[l] : l \in DOMAIN entries}

BytesCounted == IsFiniteSet(Held(dirty)) /\ dirtyBytes = Cardinality(Held(dirty))

(* What insert makes of total_bytes is the size of what it makes of the    *)
(* entries, whether one is dropped or not.                                 *)
LEMMA InsertedTotal ==
    ASSUME NEW entries, NEW l, NEW data, IsFiniteSet(DOMAIN data), IsFiniteSet(Held(entries))
    PROVE  /\ IsFiniteSet(Held(Inserted(entries, l, data)))
           /\ Cardinality(Held(Inserted(entries, l, data)))
                 = InsertedBytes(Cardinality(Held(entries)), entries, l, data)
<1> DEFINE old == IF l \in DOMAIN entries THEN DOMAIN entries[l] ELSE {}
           H == Held(entries)
           A == {l} \X old
           B == {l} \X DOMAIN data
<1>1. /\ Held(Inserted(entries, l, data)) = (H \ A) \cup B
      /\ A \subseteq H
      /\ (H \ A) \cap B = {}
    <2>1. \A x : x \in H <=> \E k \in DOMAIN entries : x \in {k} \X DOMAIN entries[k]
        BY DEF Held
    <2>2. \A x : x \in Held(Inserted(entries, l, data)) <=>
             \/ x \in B
             \/ \E k \in DOMAIN entries : k # l /\ x \in {k} \X DOMAIN entries[k]
        BY DEF Held, Inserted
    <2>3. \A x : x \in A <=> l \in DOMAIN entries /\ x \in {l} \X DOMAIN entries[l]
        OBVIOUS
    <2>4. \A x, k, S : (x \in {k} \X S) => x[1] = k
        OBVIOUS
    <2> HIDE DEF H, A
    <2>5. \A x : x \in H \ A <=> \E k \in DOMAIN entries : k # l /\ x \in {k} \X DOMAIN entries[k]
        BY <2>1, <2>3, <2>4
    <2>6. A \subseteq H
        BY <2>1, <2>3
    <2>7. (H \ A) \cap B = {}
        BY <2>4, <2>5
    <2>8. Held(Inserted(entries, l, data)) = (H \ A) \cup B
        BY <2>2, <2>5
    <2> QED
        BY <2>6, <2>7, <2>8
<1>2. IsFiniteSet(old)
    <2>1. CASE l \in DOMAIN entries
        <3> DEFINE f == [x \in A |-> x[2]]
        <3>1. IsFiniteSet(A)
            BY <1>1, FS_Subset
        <3>2. f \in Surjection(A, old)
            <4>1. \A x \in old : <<l, x>> \in A /\ f[<<l, x>>] = x
                OBVIOUS
            <4>2. f \in [A -> old]
                OBVIOUS
            <4> QED
                BY <4>1, <4>2 DEF Surjection
        <3> QED
            BY <3>1, <3>2, FS_Surjection
    <2>2. CASE l \notin DOMAIN entries
        BY <2>2, FS_EmptySet
    <2> QED
        BY <2>1, <2>2
<1>3. /\ IsFiniteSet(A) /\ Cardinality(A) = Cardinality(old) /\ Cardinality(old) \in Nat
      /\ IsFiniteSet(B) /\ Cardinality(B) = Cardinality(DOMAIN data)
      /\ Cardinality(DOMAIN data) \in Nat
    <2>1. IsFiniteSet({l}) /\ Cardinality({l}) = 1
        BY FS_Singleton
    <2> HIDE DEF old
    <2>2. Cardinality(old) \in Nat /\ Cardinality(DOMAIN data) \in Nat
        BY <1>2, FS_CardinalityType
    <2>3. /\ IsFiniteSet(A) /\ Cardinality(A) = 1 * Cardinality(old)
          /\ IsFiniteSet(B) /\ Cardinality(B) = 1 * Cardinality(DOMAIN data)
        BY <1>2, <2>1, FS_Product
    <2> QED
        BY <2>2, <2>3
<1> HIDE DEF A, B, H
<1>4. IsFiniteSet(H \ A) /\ Cardinality(H \ A) = Cardinality(H) - Cardinality(A)
    <2>1. H \cap A = A /\ IsFiniteSet(H)
        BY <1>1 DEF H
    <2> QED
        BY <2>1, FS_Difference
<1>5. /\ IsFiniteSet((H \ A) \cup B)
      /\ Cardinality((H \ A) \cup B) = Cardinality(H \ A) + Cardinality(B) - 0
    <2> DEFINE rest == H \ A
    <2>1. IsFiniteSet(rest) /\ Cardinality(rest \cap B) = 0
        BY <1>1, <1>4, FS_EmptySet
    <2> HIDE DEF rest
    <2>2. /\ IsFiniteSet(rest \cup B)
          /\ Cardinality(rest \cup B) = Cardinality(rest) + Cardinality(B) - 0
        BY <1>3, <2>1, FS_Union
    <2> QED
        BY <2>2 DEF rest
<1>6. Cardinality(H) \in Nat
    BY FS_CardinalityType DEF H
<1>7. Cardinality(old) = IF l \in DOMAIN entries THEN EntryBytes(entries[l]) ELSE 0
    BY FS_EmptySet DEF EntryBytes
<1>8. InsertedBytes(Cardinality(H), entries, l, data)
        = Cardinality(H) - Cardinality(old) + Cardinality(DOMAIN data)
    BY <1>7 DEF InsertedBytes, EntryBytes
<1> HIDE DEF old
<1> QED
    BY <1>1, <1>3, <1>4, <1>5, <1>6, <1>8 DEF H

LEMMA CountedInsert ==
    ASSUME Shapes', BytesCounted, NEW c, NEW data, Insert(c, data)
    PROVE  BytesCounted'
<1>1. /\ dirty' = Inserted(dirty, Start(c), data)
      /\ dirtyBytes' = InsertedBytes(dirtyBytes, dirty, Start(c), data)
    BY DEF Insert
<1>2. Start(c) \in DOMAIN dirty' /\ dirty'[Start(c)] = data
    BY <1>1 DEF Inserted
<1>3. DOMAIN data \subseteq Byte
    <2>1. DirtyOK'
        BY DEF Shapes
    <2>2. \A l \in DOMAIN dirty' : DOMAIN dirty'[l] \subseteq Byte
        BY <2>1 DEF DirtyOK, WholeBlocks, IsBuffer
    <2> QED
        BY <1>2, <2>2
<1>4. IsFiniteSet(DOMAIN data)
    <2>1. IsFiniteSet(Byte)
        <3>1. TotalBytes - 1 \in Int
            BY DEF TotalBytes
        <3> QED
            BY <3>1, FS_Interval DEF Byte
    <2> QED
        BY <1>3, <2>1, FS_Subset
<1>5. IsFiniteSet(Held(dirty)) /\ dirtyBytes = Cardinality(Held(dirty))
    BY DEF BytesCounted
<1>6. /\ IsFiniteSet(Held(dirty'))
      /\ Cardinality(Held(dirty')) = InsertedBytes(dirtyBytes, dirty, Start(c), data)
    BY <1>1, <1>4, <1>5, InsertedTotal
<1>7. Held(dirty)' = Held(dirty')
    BY DEF Held
<1> QED
    BY <1>1, <1>6, <1>7 DEF BytesCounted

LEMMA CountedEmpty ==
    ASSUME dirty' = NoEntries, dirtyBytes' = 0
    PROVE  BytesCounted'
<1>1. Held(dirty)' = {}
    BY DEF Held, NoEntries
<1> QED
    BY <1>1, FS_EmptySet DEF BytesCounted

LEMMA CountedStep ==
    ASSUME Shapes', BytesCounted, [Next]_vars
    PROVE  BytesCounted'
<1>1. UNCHANGED dirtyVars => BytesCounted'
    BY DEF dirtyVars, BytesCounted, Held
<1>2. ASSUME NEW c \in Callers, Serve(c) PROVE BytesCounted'
    BY <1>1, <1>2, CountedInsert DEF Serve, ReadNothing, ReadDirty, ReadThroughCache, WriteNothing,
       InsertAligned, RmwRead, RmwReadFails, Flush, SetSyncWrites, AnswersAtOnce, DataRest
<1>3. CASE Continue
    <2>1. CASE Drain
        BY <2>1, CountedEmpty DEF Drain
    <2>2. CASE RmwInsert
        BY <2>2, CountedInsert DEF RmwInsert
    <2>3. CASE ~Drain /\ ~RmwInsert
        BY <1>1, <1>3, <2>3 DEF Continue, ChunkHit, ChunkFetch, ChunkJoin, ChunkFetchFails, FinishRead,
           WriteCoalesced, FlushFails, Failure, FlushReturns, SynchronizeCache, SynchronizeFails,
           ChannelClosed, Unasked, DataRest
    <2> QED
        BY <2>1, <2>2, <2>3
<1>4. CASE ~Worker
    BY <1>1, <1>4 DEF Next, Calls, CallRead, CallWrite, CallFlush, CallSetSync, Call, Return, Close,
       DeviceRest, Timer, CoalesceTimer, Unasked, DataRest, PrefetchTask, PrefetchHit, PrefetchFetch,
       PrefetchInsert, PrefetchFails, PrefetchEnds, PrefetchOnly, Target, WriteLands, WriteSucceeds,
       WriteFails, StrayLands, TargetOnly, Evict, vars
<1> QED
    BY <1>2, <1>3, <1>4 DEF Worker

(* Through inserts that replace an entry and inserts that overlap one,     *)
(* drains and failed flushes, total_bytes of the DirtyMap, by which        *)
(* handle_write decides to flush, is the size of its entries.              *)
THEOREM DirtyBytesAreExact == Spec => []DirtyBytesExact
<1>1. Init => BytesCounted
    <2>1. dirty = NoEntries => Held(dirty) = {}
        BY DEF Held, NoEntries
    <2> QED
        BY <2>1, FS_EmptySet DEF Init, BytesCounted
<1>2. BytesCounted => DirtyBytesExact
    BY DEF BytesCounted, DirtyBytesExact, Held
<1>3. Shapes /\ [Next]_vars => Shapes'
    BY ShapesStep
<1>4. Shapes' /\ BytesCounted /\ [Next]_vars => BytesCounted'
    BY CountedStep
<1> QED
    BY <1>1, <1>2, <1>3, <1>4, ShapesInit, PTL DEF Spec

----------------------------------------------------------------------------
(* Coalescing, for callers that write whole chunks to a target that does  *)
(* not fail: every entry of the dirty map, and every write of the flush   *)
(* in progress, is the newest data of its chunk.                          *)

\* Every write is one whole chunk of the device.
ChunkWrites ==
    \A x \in Writes : \E k \in Lba :
        /\ ChunkAligned(k) /\ OnDevice(k)
        /\ x = <<k * BlockSize, ChunkBlocks * BlockSize>>

\* The callers make the requests they are said to make.
AskedFor ==
    \A c \in Callers : call[c] # None =>
        /\ call[c].op = "read" => <<call[c].offset, call[c].size>> \in Reads
        /\ call[c].op = "write" => <<call[c].offset, call[c].size>> \in Writes
        /\ call[c].op = "setSync" => call[c].value \in SyncModes

\* Chunk l, as it was last written.
LatestChunk(l, data, last) ==
    /\ l \in Nat /\ ChunkAligned(l) /\ OnDevice(l)
    /\ DOMAIN data = BytesOf(l, ChunkBlocks)
    /\ \A b \in DOMAIN data : data[b] = last[b]

IsDirty(b) == \E l \in DOMAIN dirty : b \in DOMAIN dirty[l]
InFlush(b) == \E l \in DOMAIN flight : b \in DOMAIN flight[l].data
Underway(b) == \E l \in DOMAIN flight : b \in DOMAIN flight[l].data /\ BlockOf(b) \in flight[l].left

Coalesced ==
    /\ doubtful = {} /\ strays = {}
    /\ wpc # "modify"
    /\ wpc \in {"await", "done"} => dirty = NoEntries
    /\ wpc = "ack" => ~sync
    /\ \A l \in DOMAIN dirty : LatestChunk(l, dirty[l], written)
    /\ \A l \in DOMAIN flight :
          /\ LatestChunk(l, flight[l].data, written)
          /\ flight[l].status # "failed"
          /\ flight[l].status = "ok" => flight[l].left = {}
    /\ \A b \in Byte : media[b] = written[b] \/ IsDirty(b) \/ Underway(b)
    /\ \A b \in Byte : stable[b] = written[b] \/ IsDirty(b) \/ InFlush(b)

----------------------------------------------------------------------------
(* Whole chunks *)

LEMMA Quotient ==
    ASSUME NEW m \in Nat \ {0}, NEW q \in Nat, NEW r \in 0 .. m - 1
    PROVE  (q * m + r) \div m = q /\ q * m \in Nat
<1> DEFINE a == q * m + r
           d == a \div m
<1>1. q * m \in Nat /\ a \in Nat /\ (q + 1) * m = q * m + m
    BY SMT
<1>2. d \in Nat /\ d * m \in Nat /\ d * m <= a /\ a < d * m + m
    <2> HIDE DEF a
    <2> QED
        BY <1>1, Division
<1>3. (d + 1) * m = d * m + m
    <2> HIDE DEF d
    <2> QED
        BY <1>2, SMT
<1>4. a = q * m + r /\ r \in Nat /\ r < m
    OBVIOUS
<1> HIDE DEF a, d
<1>5. ~(d < q)
    <2> SUFFICES ASSUME d < q PROVE FALSE
        OBVIOUS
    <2>1. (d + 1) * m <= q * m
        BY <1>2, Monotone
    <2> QED
        BY <1>1, <1>2, <1>3, <1>4, <2>1
<1>6. ~(q < d)
    <2> SUFFICES ASSUME q < d PROVE FALSE
        OBVIOUS
    <2>1. (q + 1) * m <= d * m
        BY <1>2, Monotone
    <2> QED
        BY <1>1, <1>2, <1>4, <2>1
<1> QED
    BY <1>1, <1>2, <1>5, <1>6 DEF a, d

(* The range of n whole blocks, as compute_alignment sees it. *)
LEMMA WholeRange ==
    ASSUME NEW k \in Nat, NEW n \in Nat \ {0}, k + n <= TotalBlocks
    PROVE  LET offset == k * BlockSize
               size == n * BlockSize
           IN  /\ offset \in Nat /\ size \in Nat \ {0} /\ offset + size <= TotalBytes
               /\ Aligned(offset, size)
               /\ StartLba(offset) = k /\ BlockCount(offset, size) = n
               /\ Extent(offset, size) = BytesOf(k, n)
<1> DEFINE B == BlockSize
           o == k * B
           s == n * B
<1>1. B \in Nat \ {0} /\ o \in Nat /\ s \in Nat
    BY SMT
<1>2. 1 * B <= n * B /\ (k + n) * B = o + s /\ (k + n) * B <= TotalBlocks * B
    BY <1>1, Monotone, SMT
<1>3. s # 0 /\ o + s <= TotalBytes
    BY <1>1, <1>2 DEF TotalBytes
<1>4. (k * B + 0) \div B = k /\ (n * B + 0) \div B = n
    BY <1>1, Quotient
<1>5. ((k + n) * B + (B - 1)) \div B = k + n
    BY <1>1, Quotient
<1>6. StartLba(o) = k
    BY <1>1, <1>4 DEF StartLba, B
<1>7. EndLba(o, s) = k + n
    <2>1. o + s + B - 1 = (k + n) * B + (B - 1)
        BY <1>1, <1>2
    <2> HIDE DEF o, s
    <2> QED
        BY <1>5, <2>1 DEF EndLba, B
<1>8. o % B = 0 /\ s % B = 0
    <2>1. o % B = o - (o \div B) * B /\ s % B = s - (s \div B) * B
        <3> HIDE DEF o, s
        <3> QED
            BY <1>1, Division
    <2> QED
        BY <1>1, <1>4, <2>1
<1>9. Extent(o, s) = BytesOf(k, n)
    BY <1>1, <1>2 DEF Extent, BytesOf, B
<1> HIDE DEF o, s, B
<1>10. BlockCount(o, s) = n
    BY <1>6, <1>7 DEF BlockCount
<1> QED
    BY <1>1, <1>3, <1>6, <1>8, <1>9, <1>10 DEF o, s, B, Aligned

(* Chunks do not overlap. *)
LEMMA ChunksApart ==
    ASSUME NEW j \in Nat, NEW k \in Nat, ChunkAligned(j), ChunkAligned(k),
           NEW b, b \in BytesOf(j, ChunkBlocks), b \in BytesOf(k, ChunkBlocks)
    PROVE  j = k
<1>1. b \in Nat /\ BlockOf(b) \in j .. j + ChunkBlocks - 1
      /\ BlockOf(b) \in k .. k + ChunkBlocks - 1
    BY BytesAreNat, BytesInBlocks
<1>2. BlockOf(b) \in Nat
    BY <1>1
<1> QED
    BY <1>1, <1>2, AlignedChunk

(* A write of a chunk, as handle_write sees it. *)
LEMMA ChunkWriteIs ==
    ASSUME Shapes, AskedFor, ChunkWrites, NEW c \in Callers, call[c] # None, call[c].op = "write"
    PROVE  /\ ~Nothing(c) /\ Aligned(Offset(c), Size(c))
           /\ Start(c) \in Nat /\ ChunkAligned(Start(c)) /\ OnDevice(Start(c))
           /\ Count(c) = ChunkBlocks
           /\ DOMAIN Payload(c) = BytesOf(Start(c), ChunkBlocks)
           /\ DOMAIN Payload(c) = Extent(call[c].offset, call[c].size)
<1>1. <<call[c].offset, call[c].size>> \in Writes
    BY DEF AskedFor
<1>2. PICK k \in Lba : /\ ChunkAligned(k) /\ OnDevice(k)
                       /\ call[c].offset = k * BlockSize
                       /\ call[c].size = ChunkBlocks * BlockSize
    BY <1>1 DEF ChunkWrites
<1> DEFINE o == k * BlockSize
           s == ChunkBlocks * BlockSize
<1>3. k \in Nat /\ ChunkBlocks \in Nat \ {0} /\ k + ChunkBlocks <= TotalBlocks
    BY <1>2 DEF Lba, OnDevice
<1>4. /\ o \in Nat /\ s \in Nat \ {0} /\ o + s <= TotalBytes
      /\ Aligned(o, s) /\ StartLba(o) = k /\ BlockCount(o, s) = ChunkBlocks
      /\ Extent(o, s) = BytesOf(k, ChunkBlocks)
    BY <1>3, WholeRange
<1>5. call[c].offset = o /\ call[c].size = s
    BY <1>2
<1> HIDE DEF o, s
<1>6. TotalBytes \in Nat
    BY DEF TotalBytes
<1>7. Offset(c) = o /\ Size(c) = s
    BY <1>4, <1>5, <1>6 DEF Offset, Size, ClampWrite, Lesser
<1>8. ~Nothing(c) /\ Start(c) = k /\ Count(c) = ChunkBlocks
    BY <1>4, <1>5, <1>6, <1>7 DEF Nothing, Start, Count
<1>9. DOMAIN Payload(c) = Extent(o, s)
    BY <1>7 DEF Payload
<1> QED
    BY <1>2, <1>3, <1>4, <1>5, <1>7, <1>8, <1>9

----------------------------------------------------------------------------
(* What the callers ask *)

LEMMA AskedForInit ==
    ASSUME Init
    PROVE  AskedFor
BY DEF Init, AskedFor

LEMMA AskedForStep ==
    ASSUME Shapes, AskedFor, [Next]_vars
    PROVE  AskedFor'
<1>1. CASE UNCHANGED call
    BY <1>1 DEF AskedFor
<1>2. ASSUME NEW c \in Callers, NEW r, call' = [call EXCEPT ![c] = r],
             r # None =>
                /\ r.op = "read" => <<r.offset, r.size>> \in Reads
                /\ r.op = "write" => <<r.offset, r.size>> \in Writes
                /\ r.op = "setSync" => r.value \in SyncModes
      PROVE  AskedFor'
    <2>1. \A d \in Callers : call'[d] = IF d = c THEN r ELSE call[d]
        BY <1>2, ChannelFacts
    <2> QED
        BY <1>2, <2>1 DEF AskedFor
<1>3. ASSUME NEW c \in Callers, Calls(c) PROVE AskedFor'
    <2>1. ASSUME NEW op, NEW o, NEW s, NEW v, Call(c, Ask(op, o, s, v)),
                 op = "read" => <<o, s>> \in Reads, op = "write" => <<o, s>> \in Writes,
                 op = "setSync" => v \in SyncModes
          PROVE  AskedFor'
        <3>1. call' = [call EXCEPT ![c] = Ask(op, o, s, v)]
            BY <2>1 DEF Call
        <3>2. LET r == Ask(op, o, s, v)
              IN  r.op = op /\ r.offset = o /\ r.size = s /\ r.value = v
            BY DEF Ask
        <3> QED
            BY <1>2, <2>1, <3>1, <3>2
    <2>2. CASE CallRead(c)
        <3>1. PICK x \in Reads : Call(c, Ask("read", x[1], x[2], 0))
            BY <2>2 DEF CallRead
        <3>2. <<x[1], x[2]>> = x
            BY BlockDeviceAssumption DEF BlockDeviceAssumption
        <3> QED
            BY <2>1, <3>1, <3>2
    <2>3. CASE CallWrite(c)
        <3>1. PICK x \in Writes : Call(c, Ask("write", x[1], x[2], writes'))
            BY <2>3 DEF CallWrite
        <3>2. <<x[1], x[2]>> = x
            BY BlockDeviceAssumption DEF BlockDeviceAssumption
        <3> QED
            BY <2>1, <3>1, <3>2
    <2>4. CASE CallFlush(c)
        BY <2>1, <2>4 DEF CallFlush
    <2>5. CASE CallSetSync(c)
        BY <2>1, <2>5 DEF CallSetSync
    <2> QED
        BY <1>3, <2>2, <2>3, <2>4, <2>5 DEF Calls
<1>4. ASSUME NEW c \in Callers, Return(c) PROVE AskedFor'
    <2>1. call' = [call EXCEPT ![c] = None]
        BY <1>4 DEF Return
    <2> QED
        BY <1>2, <2>1
<1>5. CASE Worker \/ Timer \/ Close \/ PrefetchTask \/ Target
           \/ (\E k \in DOMAIN cache : Evict(k)) \/ (\E w \in strays : StrayLands(w))
           \/ UNCHANGED vars
    <2>1. UNCHANGED call
        BY <1>5 DEF Worker, Timer, WorkerOnly, Close, PrefetchTask, PrefetchHit, PrefetchFetch,
           PrefetchInsert, PrefetchFails, PrefetchEnds, PrefetchOnly, Target, WriteLands,
           WriteSucceeds, WriteFails, TargetOnly, Evict, StrayLands, callVars, vars
    <2> QED
        BY <1>1, <2>1
<1> QED
    BY <1>3, <1>4, <1>5 DEF Next

----------------------------------------------------------------------------
(* Coalesced is inductive *)

LEMMA CoalescedInit ==
    ASSUME Init
    PROVE  Coalesced
<1>1. /\ wpc = "select" /\ dirty = <<>> /\ flight = <<>> /\ strays = {} /\ doubtful = {}
      /\ media = Zeroes /\ stable = Zeroes /\ written = Zeroes
    BY DEF Init, NoEntries
<1> QED
    BY <1>1 DEF Coalesced

(* A step that moves no data. *)
LEMMA CoalescedSame ==
    ASSUME Coalesced,
           UNCHANGED <<dirty, flight, strays, media, stable, written, doubtful>>,
           wpc' # "modify", wpc' = "await" => wpc = "await",
           wpc' = "done" => dirty = NoEntries,
           wpc' = "ack" => wpc = "ack" /\ UNCHANGED sync
    PROVE  Coalesced'
BY DEF Coalesced, LatestChunk, IsDirty, Underway, InFlush

LEMMA CoalescedServe ==
    ASSUME Shapes, AskedFor, ChunkWrites, Coalesced, NEW c \in Callers, Serve(c), WorkerOnly,
           ~InsertAligned(c)
    PROVE  Coalesced'
<1>1. ~RmwRead(c)
    <2> SUFFICES ASSUME RmwRead(c) PROVE FALSE
        OBVIOUS
    <2>1. Takes(c, "write") /\ ~Aligned(Offset(c), Size(c))
        BY DEF RmwRead
    <2> QED
        BY <2>1, TakesWaiting, ChunkWriteIs
<1>2. DataRest /\ wpc' \in {"select", "chunk", "drain"}
    BY <1>1 DEF Serve, ReadNothing, ReadDirty, ReadThroughCache, WriteNothing, RmwReadFails, Flush,
                SetSyncWrites, AnswersAtOnce, Reply, Serves
<1> QED
    BY <1>2, CoalescedSame DEF DataRest, WorkerOnly, dirtyVars, ghostVars

LEMMA CoalescedOther ==
    ASSUME Shapes, Coalesced,
           \/ /\ WorkerOnly
              /\ \/ ChunkHit \/ ChunkFetch \/ ChunkJoin \/ ChunkFetchFails \/ FinishRead
                 \/ WriteCoalesced \/ CoalesceTimer \/ ChannelClosed
           \/ (\E c \in Callers : Calls(c) \/ Return(c)) \/ Close
           \/ PrefetchTask \/ (\E k \in DOMAIN cache : Evict(k)) \/ UNCHANGED vars
    PROVE  Coalesced'
<1>1. UNCHANGED <<dirty, flight, strays, media, stable, written, doubtful>>
    BY DEF ChunkHit, ChunkFetch, ChunkJoin, ChunkFetchFails, FinishRead, WriteCoalesced,
           CoalesceTimer, ChannelClosed, Unasked, DataRest, WorkerOnly, Calls, CallRead, CallWrite,
           CallFlush, CallSetSync, Call, Return, Close, DeviceRest, PrefetchTask, PrefetchHit,
           PrefetchFetch, PrefetchInsert, PrefetchFails, PrefetchEnds, PrefetchOnly, Evict,
           dirtyVars, diskVars, ghostVars, vars
<1>2. CASE WorkerOnly /\ (ChunkHit \/ ChunkFetch \/ ChunkJoin \/ ChunkFetchFails \/ FinishRead
                           \/ WriteCoalesced)
    <2>1. wpc' \in {"chunk", "joined", "select"}
        BY <1>2 DEF ChunkHit, ChunkFetch, ChunkJoin, ChunkFetchFails, FinishRead, WriteCoalesced,
                    Goes, Replies, Reply
    <2> QED
        BY <1>1, <2>1, CoalescedSame
<1>3. CASE CoalesceTimer \/ ChannelClosed
    <2>1. wpc' \in {"drain", "done"} /\ (wpc' = "done" => dirty = NoEntries)
        BY <1>3 DEF CoalesceTimer, ChannelClosed, Unasked, Serves
    <2> QED
        BY <1>1, <2>1, CoalescedSame
<1>4. CASE (\E c \in Callers : Calls(c) \/ Return(c)) \/ Close
           \/ (\E k \in DOMAIN cache : Evict(k)) \/ UNCHANGED vars
    <2>1. UNCHANGED <<wpc, sync>>
        BY <1>4 DEF Calls, CallRead, CallWrite, CallFlush, CallSetSync, Call, Return, Close,
                    DeviceRest, Evict, workVars, vars
    <2> QED
        BY <1>1, <2>1, CoalescedSame DEF Coalesced
<1>5. CASE PrefetchTask
    <2>1. UNCHANGED sync /\ (wpc' = wpc \/ wpc' \in {"chunk", "joinFailed"})
        BY <1>5 DEF PrefetchTask, PrefetchHit, PrefetchFetch, PrefetchInsert, PrefetchFails,
                    PrefetchEnds, PrefetchOnly, Wakes
    <2> QED
        BY <1>1, <2>1, CoalescedSame DEF Coalesced
<1> QED
    BY <1>2, <1>3, <1>4, <1>5

(* A chunk takes the place of the entry of the same chunk and touches no other. *)
LEMMA CoalescedInsert ==
    ASSUME Shapes, AskedFor, ChunkWrites, Coalesced, NEW c \in Callers, InsertAligned(c), WorkerOnly
    PROVE  Coalesced'
<1> DEFINE l == Start(c)
           data == Payload(c)
<1>1. Takes(c, "write") /\ Insert(c, data) /\ wpc = "select"
    BY DEF InsertAligned, Takes
<1>2. call[c] # None /\ call[c].op = "write"
    BY <1>1, TakesWaiting
<1>3. l \in Nat /\ ChunkAligned(l) /\ OnDevice(l) /\ DOMAIN data = BytesOf(l, ChunkBlocks)
    BY <1>2, ChunkWriteIs
<1>4. /\ dirty' = Inserted(dirty, l, data)
      /\ written' = [b \in Byte |-> IF b \in DOMAIN data THEN data[b] ELSE written[b]]
      /\ wpc' \in {"drain", "ack"} /\ (wpc' = "ack" => ~sync)
      /\ UNCHANGED <<sync, flight, strays, stable, doubtful, media>>
    BY <1>1 DEF Insert, WorkerOnly
<1> HIDE DEF l, data
<1>5. /\ DOMAIN dirty' = DOMAIN dirty \cup {l} /\ dirty'[l] = data
      /\ \A k \in DOMAIN dirty : k # l => dirty'[k] = dirty[k]
    BY <1>4 DEF Inserted
<1>6. flight = <<>>
    BY <1>1 DEF Shapes, FlightOK
<1>7. DOMAIN data \subseteq Byte
    BY <1>3, InDevice DEF OnDevice
<1>8. LatestChunk(l, data, written')
    BY <1>3, <1>4, <1>7 DEF LatestChunk
<1>9. ASSUME NEW k \in DOMAIN dirty, k # l PROVE LatestChunk(k, dirty[k], written')
    <2>1. LatestChunk(k, dirty[k], written)
        BY DEF Coalesced
    <2>2. \A b \in DOMAIN dirty[k] : b \notin DOMAIN data
        BY <1>3, <1>9, <2>1, ChunksApart DEF LatestChunk
    <2>3. DOMAIN dirty[k] \subseteq Byte
        BY <2>1, InDevice DEF LatestChunk, OnDevice
    <2> QED
        BY <1>4, <2>1, <2>2, <2>3 DEF LatestChunk
<1>10. \A k \in DOMAIN dirty' : LatestChunk(k, dirty'[k], written')
    BY <1>5, <1>8, <1>9
<1>11. ASSUME NEW b \in Byte
       PROVE  /\ media'[b] = written'[b] \/ \E k \in DOMAIN dirty' : b \in DOMAIN dirty'[k]
              /\ stable'[b] = written'[b] \/ \E k \in DOMAIN dirty' : b \in DOMAIN dirty'[k]
    <2>1. CASE b \in DOMAIN data
        BY <1>5, <2>1
    <2>2. ASSUME NEW k \in DOMAIN dirty, b \in DOMAIN dirty[k]
          PROVE  \E j \in DOMAIN dirty' : b \in DOMAIN dirty'[j]
        <3>1. CASE k = l
            <4>1. b \in DOMAIN data
                BY <1>3, <2>2, <3>1 DEF Coalesced, LatestChunk
            <4> QED
                BY <1>5, <4>1
        <3>2. CASE k # l
            BY <1>5, <2>2, <3>2
        <3> QED
            BY <3>1, <3>2
    <2>3. CASE b \notin DOMAIN data /\ ~IsDirty(b)
        <3>1. ~Underway(b) /\ ~InFlush(b)
            BY <1>6 DEF Underway, InFlush
        <3>2. media[b] = written[b] /\ stable[b] = written[b]
            BY <2>3, <3>1 DEF Coalesced
        <3> QED
            BY <1>4, <2>3, <3>2
    <2> QED
        BY <2>1, <2>2, <2>3 DEF IsDirty
<1>12. /\ doubtful' = {} /\ strays' = {} /\ wpc' # "modify" /\ wpc' \notin {"await", "done"}
       /\ wpc' = "ack" => ~sync'
    BY <1>4 DEF Coalesced
<1>13. flight' = <<>>
    BY <1>4, <1>6
<1> QED
    BY <1>10, <1>11, <1>12, <1>13 DEF Coalesced, LatestChunk, IsDirty, BytesOf, Byte, TotalBytes,
                                      OnDevice, ChunkAligned

\* What Coalesced says of dirty, flight, media and stable, given the history.
Accounted(d, f, m, s, last) ==
    /\ \A l \in DOMAIN d : LatestChunk(l, d[l], last)
    /\ \A l \in DOMAIN f :
          /\ LatestChunk(l, f[l].data, last)
          /\ f[l].status # "failed"
          /\ f[l].status = "ok" => f[l].left = {}
    /\ \A b \in Byte :
          \/ m[b] = last[b] \/ \E l \in DOMAIN d : b \in DOMAIN d[l]
          \/ \E l \in DOMAIN f : b \in DOMAIN f[l].data /\ BlockOf(b) \in f[l].left
    /\ \A b \in Byte :
          \/ s[b] = last[b] \/ \E l \in DOMAIN d : b \in DOMAIN d[l]
          \/ \E l \in DOMAIN f : b \in DOMAIN f[l].data

LEMMA CoalescedFacts ==
    ASSUME Coalesced
    PROVE  /\ doubtful = {} /\ strays = {} /\ wpc # "modify"
           /\ wpc \in {"await", "done"} => dirty = NoEntries
           /\ wpc = "ack" => ~sync
           /\ Accounted(dirty, flight, media, stable, written)
BY DEF Coalesced, Accounted, IsDirty, Underway, InFlush

LEMMA CoalescedNext ==
    ASSUME doubtful' = {}, strays' = {}, wpc' # "modify",
           wpc' \in {"await", "done"} => dirty' = NoEntries, wpc' = "ack" => ~sync',
           Accounted(dirty', flight', media', stable', written')
    PROVE  Coalesced'
BY DEF Coalesced, Accounted, IsDirty, Underway, InFlush, LatestChunk, BytesOf, Byte, TotalBytes,
       OnDevice, ChunkAligned, BlockOf

(* The entries become the writes of the flush. *)
LEMMA CoalescedDrain ==
    ASSUME Shapes, Coalesced, Drain, WorkerOnly
    PROVE  Coalesced'
<1>1. /\ wpc = "drain" /\ wpc' = "await" /\ dirty' = NoEntries
      /\ UNCHANGED <<strays, stable, written, doubtful, media>>
    BY DEF Drain, Goes, WorkerOnly, ghostVars
<1>2. /\ DOMAIN flight' = DOMAIN dirty
      /\ \A l \in DOMAIN dirty :
            flight'[l] = [data |-> dirty[l], left |-> BlocksIn(dirty[l]), status |-> "running"]
    BY Drained
<1>3. \A l \in DOMAIN dirty : /\ flight'[l].data = dirty[l]
                              /\ flight'[l].left = BlocksIn(dirty[l])
                              /\ flight'[l].status = "running"
    BY <1>2
<1>4. flight = <<>> /\ DOMAIN flight = {}
    BY <1>1 DEF Shapes, FlightOK
<1>5. Accounted(dirty, flight, media, stable, written)
    BY CoalescedFacts
<1>6. ASSUME NEW l \in DOMAIN dirty, NEW b \in DOMAIN dirty[l]
      PROVE  b \in DOMAIN flight'[l].data /\ BlockOf(b) \in flight'[l].left
    BY <1>3, <1>6 DEF BlocksIn
<1>7. \A b \in Byte :
         /\ \/ media[b] = written[b]
            \/ \E l \in DOMAIN flight' : b \in DOMAIN flight'[l].data /\ BlockOf(b) \in flight'[l].left
         /\ \/ stable[b] = written[b]
            \/ \E l \in DOMAIN flight' : b \in DOMAIN flight'[l].data
    BY <1>2, <1>4, <1>5, <1>6 DEF Accounted
<1>8. \A l \in DOMAIN flight' :
          /\ LatestChunk(l, flight'[l].data, written)
          /\ flight'[l].status # "failed"
          /\ flight'[l].status = "ok" => flight'[l].left = {}
    BY <1>2, <1>3, <1>5 DEF Accounted
<1>9. DOMAIN dirty' = {}
    BY <1>1 DEF NoEntries
<1>10. Accounted(dirty', flight', media', stable', written')
    BY <1>1, <1>7, <1>8, <1>9 DEF Accounted
<1> QED
    BY <1>1, <1>10, CoalescedFacts, CoalescedNext

(* A block of a write of the flush lands, or the write is answered. *)
LEMMA CoalescedFlight ==
    ASSUME Shapes, Coalesced, MayFail = FALSE, Target
    PROVE  Coalesced'
<1> SUFFICES ASSUME NEW l \in DOMAIN flight, WriteLands(l) \/ WriteSucceeds(l)
             PROVE  Coalesced'
    BY DEF Target, WriteFails
<1>1. /\ wpc = "await"
      /\ UNCHANGED <<wpc, sync, dirty, strays, stable, written, doubtful>>
    BY FlightFacts DEF WriteLands, WriteSucceeds, TargetOnly, workVars, dirtyVars, ghostVars
<1> DEFINE data == flight[l].data
           left == flight[l].left
<1>2. /\ flight[l] = [data |-> data, left |-> left, status |-> flight[l].status]
      /\ WholeBlocks(data) /\ left \subseteq BlocksIn(data)
    BY FlightFacts
<1>3. Accounted(dirty, flight, media, stable, written)
    BY CoalescedFacts
<1>4. /\ LatestChunk(l, data, written) /\ flight[l].status # "failed"
      /\ flight[l].status = "ok" => left = {}
    BY <1>3 DEF Accounted
<1>5. ASSUME NEW rest, NEW status, rest \subseteq left,
             flight' = [flight EXCEPT ![l] = [data |-> data, left |-> rest, status |-> status]],
             status # "failed", status = "ok" => rest = {},
             \A b \in Byte : IF BlockOf(b) \in left \ rest
                             THEN b \in DOMAIN data /\ media'[b] = data[b] ELSE media'[b] = media[b]
      PROVE  Coalesced'
    <2>1. /\ DOMAIN flight' = DOMAIN flight
          /\ flight'[l].data = data /\ flight'[l].left = rest /\ flight'[l].status = status
          /\ \A k \in DOMAIN flight : k # l => flight'[k] = flight[k]
        BY <1>5
    <2>2. \A k \in DOMAIN flight' :
             /\ LatestChunk(k, flight'[k].data, written)
             /\ flight'[k].status # "failed"
             /\ flight'[k].status = "ok" => flight'[k].left = {}
        BY <1>3, <1>4, <1>5, <2>1 DEF Accounted
    <2>3. ASSUME NEW b \in Byte
          PROVE  \/ media'[b] = written[b] \/ \E k \in DOMAIN dirty : b \in DOMAIN dirty[k]
                 \/ \E k \in DOMAIN flight' : /\ b \in DOMAIN flight'[k].data
                                              /\ BlockOf(b) \in flight'[k].left
        <3>1. CASE BlockOf(b) \in left \ rest
            BY <1>4, <1>5, <3>1 DEF LatestChunk
        <3>2. ASSUME BlockOf(b) \notin left \ rest, NEW k \in DOMAIN flight,
                     b \in DOMAIN flight[k].data, BlockOf(b) \in flight[k].left
              PROVE  b \in DOMAIN flight'[k].data /\ BlockOf(b) \in flight'[k].left
            BY <2>1, <3>2
        <3>3. CASE BlockOf(b) \notin left \ rest
            <4>1. media'[b] = media[b]
                BY <1>5, <3>3
            <4>2. \/ media[b] = written[b] \/ \E k \in DOMAIN dirty : b \in DOMAIN dirty[k]
                  \/ \E k \in DOMAIN flight : /\ b \in DOMAIN flight[k].data
                                              /\ BlockOf(b) \in flight[k].left
                BY <1>3 DEF Accounted
            <4> QED
                BY <2>1, <3>2, <3>3, <4>1, <4>2
        <3> QED
            BY <3>1, <3>3
    <2>4. \A b \in Byte :
             \/ stable[b] = written[b] \/ \E k \in DOMAIN dirty : b \in DOMAIN dirty[k]
             \/ \E k \in DOMAIN flight' : b \in DOMAIN flight'[k].data
        <3>1. \A k \in DOMAIN flight : flight'[k].data = flight[k].data
            BY <2>1
        <3> QED
            BY <1>3, <2>1, <3>1 DEF Accounted
    <2>5. Accounted(dirty', flight', media', stable', written')
        BY <1>1, <1>3, <2>2, <2>3, <2>4 DEF Accounted
    <2> QED
        BY <1>1, <2>5, CoalescedFacts, CoalescedNext
<1>6. CASE WriteLands(l)
    <2>1. PICK block \in left : /\ media' = Landed(data, block)
                                /\ flight' = [flight EXCEPT ![l].left = @ \ {block}]
        BY <1>6 DEF WriteLands
    <2>2. /\ \A b \in Byte : media'[b] = IF BlockOf(b) = block THEN data[b] ELSE media[b]
          /\ \A b \in Byte : BlockOf(b) = block => b \in DOMAIN data
        BY <1>2, <2>1, LandedIs
    <2> DEFINE rest == left \ {block}
               status == flight[l].status
    <2>3. flight' = [flight EXCEPT ![l] = [data |-> data, left |-> rest, status |-> status]]
        BY <1>2, <2>1, TaskExcept
    <2>4. rest \subseteq left /\ (status = "ok" => rest = {}) /\ status # "failed"
          /\ left \ rest = {block}
        BY <1>4
    <2> HIDE DEF rest, status
    <2> QED
        BY <1>5, <2>2, <2>3, <2>4
<1>7. CASE WriteSucceeds(l)
    <2>1. UNCHANGED media /\ left = {} /\ flight' = [flight EXCEPT ![l].status = "ok"]
        BY <1>7 DEF WriteSucceeds
    <2>2. flight' = [flight EXCEPT ![l] = [data |-> data, left |-> left, status |-> "ok"]]
        BY <1>2, <2>1, TaskExcept
    <2> QED
        BY <1>5, <2>1, <2>2
<1> QED
    BY <1>6, <1>7

(* A flush ends with everything on stable storage. *)
LEMMA CoalescedSynchronized ==
    ASSUME Shapes, Coalesced, SynchronizeCache, WorkerOnly
    PROVE  /\ Coalesced'
           /\ dirty = NoEntries
           /\ \A b \in Byte : stable'[b] = written[b] /\ media[b] = written[b]
<1>1. /\ wpc = "await" /\ AllWritten /\ stable' = media /\ FlushReturns(TRUE)
      /\ UNCHANGED <<strays, doubtful, media>>
    BY DEF SynchronizeCache, WorkerOnly
<1>2. flight' = <<>> /\ UNCHANGED <<dirty, written>> /\ wpc' \in {"select", "done"}
    BY <1>1 DEF FlushReturns, Goes, Replies, Reply, dirtyVars
<1>3. dirty = NoEntries /\ DOMAIN dirty = {}
    BY <1>1, CoalescedFacts DEF NoEntries
<1>4. \A b \in Byte : media[b] = written[b]
    BY <1>1, <1>3, CoalescedFacts DEF Accounted, AllWritten
<1>5. Accounted(dirty', flight', media', stable', written')
    BY <1>1, <1>2, <1>3, <1>4 DEF Accounted
<1> QED
    BY <1>1, <1>2, <1>3, <1>4, <1>5, CoalescedFacts, CoalescedNext

LEMMA CoalescedStep ==
    ASSUME Shapes, AskedFor, ChunkWrites, MayFail = FALSE, Coalesced, [Next]_vars
    PROVE  Coalesced'
<1>1. ~FlushFails /\ ~SynchronizeFails /\ ~RmwInsert
    BY CoalescedFacts DEF FlushFails, FirstFailed, SynchronizeFails, RmwInsert, Accounted
<1>2. ASSUME NEW w \in strays PROVE FALSE
    BY <1>2, CoalescedFacts
<1>3. CASE Worker
    <2>1. WorkerOnly
        BY <1>3 DEF Worker
    <2>2. ASSUME NEW c \in Callers, Serve(c) PROVE Coalesced'
        BY <2>1, <2>2, CoalescedServe, CoalescedInsert
    <2>3. CASE Continue
        BY <1>1, <2>1, <2>3, CoalescedOther, CoalescedDrain, CoalescedSynchronized DEF Continue
    <2> QED
        BY <1>3, <2>2, <2>3 DEF Worker
<1>4. CASE Timer
    BY <1>4, CoalescedOther DEF Timer
<1> QED
    BY <1>2, <1>3, <1>4, CoalescedOther, CoalescedFlight DEF Next

LEMMA CoalescedInvariant ==
    ASSUME ChunkWrites, MayFail = FALSE PROVE Spec => [](Shapes /\ AskedFor /\ Coalesced)
<1>1. Init => Shapes /\ AskedFor /\ Coalesced
    BY ShapesInit, AskedForInit, CoalescedInit
<1>2. Shapes /\ AskedFor /\ Coalesced /\ [Next]_vars => (Shapes /\ AskedFor /\ Coalesced)'
    BY ShapesStep, AskedForStep, CoalescedStep
<1> QED
    BY <1>1, <1>2, PTL DEF Spec

(* Between two requests every byte that was written is in the entry of its *)
(* chunk, or on the target.                                                *)
THEOREM CoalescedLosesNothing ==
    ASSUME ChunkWrites, MayFail = FALSE PROVE Spec => []NoWriteLost
<1>1. ASSUME Shapes, Coalesced PROVE NoWriteLost
    <2> SUFFICES ASSUME wpc = "select", NEW b \in Byte PROVE Kept(b)
        BY DEF NoWriteLost
    <2>1. flight = <<>> /\ DOMAIN flight = {}
        BY <1>1 DEF Shapes, FlightOK
    <2>2. Accounted(dirty, flight, media, stable, written)
        BY <1>1, CoalescedFacts
    <2>3. CASE \E l \in DOMAIN dirty : b \in DOMAIN dirty[l]
        BY <2>2, <2>3 DEF Kept, Accounted, LatestChunk
    <2>4. CASE ~\E l \in DOMAIN dirty : b \in DOMAIN dirty[l]
        <3>1. {l \in DOMAIN dirty : b \in DOMAIN dirty[l]} = {}
            BY <2>4
        <3>2. media[b] = written[b]
            BY <2>1, <2>2, <2>4 DEF Accounted
        <3> QED
            BY <3>1, <3>2 DEF Kept
    <2> QED
        BY <2>3, <2>4
<1> QED
    BY <1>1, CoalescedInvariant, PTL

(* The worker ends with all the data on stable storage, also when it was *)
(* still coalescing when the device was closed.                          *)
THEOREM CoalescedClosedDurable ==
    ASSUME ChunkWrites, MayFail = FALSE PROVE Spec => []ClosedIsDurable
<1>1. ASSUME Shapes, Coalesced PROVE ClosedIsDurable
    <2> SUFFICES ASSUME wpc = "done", NEW b \in Byte PROVE stable[b] = written[b]
        BY DEF ClosedIsDurable
    <2>1. DOMAIN flight = {} /\ DOMAIN dirty = {}
        BY <1>1 DEF Shapes, FlightOK, Coalesced, NoEntries
    <2> QED
        BY <1>1, <2>1, CoalescedFacts DEF Accounted
<1> QED
    BY <1>1, CoalescedInvariant, PTL

(* The steps that answer a write or a flush with success. *)
LEMMA WriteOrFlushAnswer ==
    ASSUME Shapes, [Next]_vars, NEW c \in Callers, NEW op \in {"write", "flush"}, Succeeds(c, op)
    PROVE  /\ call[c] # None /\ call[c].op = op
           /\ \/ WriteNothing(c) /\ op = "write"
              \/ Flush(c) /\ dirty = NoEntries /\ wpc = "select" /\ UNCHANGED stable /\ op = "flush"
              \/ WriteCoalesced /\ op = "write"
              \/ SynchronizeCache /\ serving = c /\ WorkerOnly
<1>1. reply[c] = None /\ reply'[c] # None /\ call[c].op = op /\ reply'[c].ok
    BY DEF Succeeds, Answers
<1>2. ASSUME NEW d \in Callers, NEW r, reply' = [reply EXCEPT ![d] = r]
      PROVE  c = d /\ reply'[c] = r
    BY <1>1, <1>2, ChannelFacts
<1>3. ASSUME NEW d \in Callers, NEW ok \in BOOLEAN, NEW data, Reply(d, ok, data)
      PROVE  c = d /\ ok = TRUE
    <2>1. c = d /\ reply'[c] = Outcome(ok, data)
        BY <1>2, <1>3 DEF Reply
    <2>2. reply'[c].ok = ok
        BY <2>1 DEF Outcome
    <2> QED
        BY <1>1, <2>1, <2>2
<1>4. ~UNCHANGED reply
    BY <1>1
<1> DEFINE By ==
        \/ WriteNothing(c) /\ op = "write"
        \/ Flush(c) /\ dirty = NoEntries /\ wpc = "select" /\ UNCHANGED stable /\ op = "flush"
        \/ WriteCoalesced /\ op = "write"
        \/ SynchronizeCache /\ serving = c /\ WorkerOnly
           Known == call[c] # None
<1>5. ASSUME NEW d \in Callers, Serve(d) PROVE Known /\ By
    <2>1. CASE InsertAligned(d) \/ RmwRead(d) \/ ReadThroughCache(d)
        BY <1>4, <2>1 DEF InsertAligned, Insert, RmwRead, ReadThroughCache, Serves
    <2>2. ASSUME NEW o, Takes(d, o), NEW ok \in BOOLEAN, NEW data, Reply(d, ok, data)
          PROVE  c = d /\ ok = TRUE /\ o = op /\ Known /\ wpc = "select"
        BY <1>1, <1>3, <2>2, TakesWaiting
    <2>3. ASSUME NEW o, NEW ok \in BOOLEAN, AnswersAtOnce(d, o, ok)
          PROVE  c = d /\ ok = TRUE /\ o = op /\ Known /\ wpc = "select" /\ UNCHANGED stable
        <3>1. Takes(d, o) /\ Reply(d, ok, <<>>) /\ UNCHANGED stable
            BY <2>3 DEF AnswersAtOnce, DataRest
        <3> QED
            BY <2>2, <3>1
    <2>4. CASE ReadNothing(d) \/ ReadDirty(d) \/ SetSyncWrites(d)
        <3>1. ASSUME NEW o \in {"read", "setSync"}, Takes(d, o), NEW data, Reply(d, TRUE, data)
              PROVE  FALSE
            BY <2>2, <3>1
        <3> QED
            BY <2>4, <3>1, Zenon DEF ReadNothing, ReadDirty, SetSyncWrites, AnswersAtOnce
    <2>5. CASE WriteNothing(d)
        <3>1. AnswersAtOnce(d, "write", TRUE)
            BY <2>5 DEF WriteNothing
        <3>2. c = d /\ "write" = op /\ Known
            BY <2>3, <3>1
        <3>3. WriteNothing(c)
            BY <2>5, <3>2
        <3> QED
            BY <3>2, <3>3
    <2>6. CASE RmwReadFails(d)
        BY <2>3, <2>6 DEF RmwReadFails
    <2>7. CASE Flush(d)
        BY <1>4, <2>3, <2>7 DEF Flush, Serves
    <2> QED
        BY <1>5, <2>1, <2>4, <2>5, <2>6, <2>7 DEF Serve
<1>6. CASE Continue /\ WorkerOnly
    <2>1. CASE ChunkHit \/ ChunkFetch \/ ChunkJoin \/ RmwInsert \/ Drain \/ ChannelClosed
        BY <1>4, <2>1 DEF ChunkHit, ChunkFetch, ChunkJoin, RmwInsert, Drain, ChannelClosed, Goes,
                          Insert, Unasked, Serves
    <2>2. CASE ChunkFetchFails \/ FinishRead
        <3>1. /\ wpc \in {"chunk", "joinFailed"}
              /\ \E ok \in BOOLEAN : \E data : Reply(serving, ok, data)
            BY <2>2 DEF ChunkFetchFails, FinishRead, AtChunk, Replies
        <3>2. serving \in Callers /\ call[serving].op = "read"
            BY <3>1, WorkerFacts, ServedIs
        <3> QED
            BY <1>1, <1>3, <3>1, <3>2
    <2>3. CASE WriteCoalesced
        <3>1. wpc = "ack" /\ Reply(serving, TRUE, <<>>)
            BY <2>3 DEF WriteCoalesced, Replies
        <3>2. serving \in Callers /\ call[serving].op = "write" /\ call[serving] # None
            BY <3>1, WorkerFacts, ServedIs, Apart
        <3> QED
            BY <1>1, <1>3, <2>3, <3>1, <3>2
    <2>4. CASE FlushFails \/ SynchronizeCache \/ SynchronizeFails
        <3>1. wpc = "await" /\ (FlushReturns(TRUE) \/ FlushReturns(FALSE))
            BY <2>4 DEF FlushFails, SynchronizeCache, SynchronizeFails, Failure
        <3>2. serving \in Callers
            <4> SUFFICES ASSUME serving \notin Callers PROVE FALSE
                OBVIOUS
            <4>1. serving = "timer" \/ serving = "close"
                BY <3>1, WorkerFacts
            <4> QED
                BY <1>4, <3>1, <4>1 DEF FlushReturns, Goes
        <3>3. serving # "timer" /\ serving # "close" /\ call[serving] # None
            BY <3>2, ServedIs, Apart
        <3>4. c = serving
            BY <1>3, <3>1, <3>2, <3>3 DEF FlushReturns, Replies
        <3>5. ~Failure
            BY <1>3, <3>2, <3>3 DEF Failure, FlushReturns, Replies
        <3>6. SynchronizeCache
            BY <2>4, <3>5, Zenon DEF FlushFails, SynchronizeFails
        <3>7. call[c] # None /\ serving = c
            BY <3>3, <3>4
        <3>8. WorkerOnly
            BY <1>6
        <3>9. By
            BY <3>6, <3>7, <3>8
        <3> QED
            BY <1>1, <3>7, <3>9
    <2> QED
        BY <1>6, <2>1, <2>2, <2>3, <2>4 DEF Continue
<1>7. ASSUME NEW d \in Callers, Calls(d) PROVE FALSE
    BY <1>4, <1>7 DEF Calls, CallRead, CallWrite, CallFlush, CallSetSync, Call
<1>8. ASSUME NEW d \in Callers, Return(d) PROVE FALSE
    <2>1. reply' = [reply EXCEPT ![d] = None]
        BY <1>8 DEF Return
    <2> QED
        BY <1>1, <1>2, <2>1
<1>9. CASE Timer \/ Close \/ PrefetchTask \/ Target \/ (\E k \in DOMAIN cache : Evict(k))
           \/ (\E w \in strays : StrayLands(w)) \/ UNCHANGED vars
    BY <1>4, <1>9 DEF Timer, CoalesceTimer, Unasked, Serves, Close, PrefetchTask, PrefetchHit,
       PrefetchFetch, PrefetchInsert, PrefetchFails, PrefetchEnds, PrefetchOnly, Target,
       WriteLands, WriteSucceeds, WriteFails, TargetOnly, Evict, StrayLands, callVars, vars
<1> QED
    BY <1>1, <1>5, <1>6, <1>7, <1>8, <1>9 DEF Next, Worker

(* What a flush that is answered at once finds, and one that is not leaves. *)
LEMMA CoalescedAnswer ==
    ASSUME Shapes, Coalesced,
           \/ dirty = NoEntries /\ wpc = "select" /\ UNCHANGED stable
           \/ SynchronizeCache /\ WorkerOnly
    PROVE  \A b \in Byte : stable'[b] = written[b]
<1>1. CASE dirty = NoEntries /\ wpc = "select" /\ UNCHANGED stable
    <2>1. DOMAIN flight = {} /\ DOMAIN dirty = {}
        BY <1>1 DEF Shapes, FlightOK, NoEntries
    <2> QED
        BY <1>1, <2>1, CoalescedFacts DEF Accounted
<1> QED
    BY <1>1, CoalescedSynchronized

(* When flush() has succeeded every write before it survives a power       *)
(* failure, whatever was coalesced, and whoever else had it written back.  *)
THEOREM CoalescedFlushDurable ==
    ASSUME ChunkWrites, MayFail = FALSE PROVE Spec => FlushMakesDurable
<1>1. ASSUME Shapes, Coalesced, [Next]_vars, NEW c \in Callers, Succeeds(c, "flush"), NEW b \in Byte
      PROVE  stable'[b] = written[b]
    BY <1>1, WriteOrFlushAnswer, CoalescedAnswer
<1>2. Shapes /\ Coalesced /\ [Next]_vars =>
         [\A c \in Callers : Succeeds(c, "flush") =>
            \A b \in Byte : Trusted(b) => stable'[b] = written[b]]_vars
    BY <1>1
<1> QED
    BY <1>2, CoalescedInvariant, PTL DEF FlushMakesDurable, Spec

(* A write that is answered while sync_writes is set is on stable storage, *)
(* also when set_sync_writes has just switched from coalescing.            *)
THEOREM CoalescedSyncDurable ==
    ASSUME ChunkWrites, MayFail = FALSE PROVE Spec => SyncWriteDurable
<1>1. ASSUME Shapes, AskedFor, Coalesced, ChunkWrites, [Next]_vars, NEW c \in Callers,
             Succeeds(c, "write"), sync, NEW b \in DOMAIN Payload(c)
      PROVE  stable'[b] = written[b]
    <2>1. call[c] # None /\ call[c].op = "write"
        BY <1>1, WriteOrFlushAnswer
    <2>2. ~Nothing(c) /\ b \in Byte
        <3>1. /\ ~Nothing(c) /\ Start(c) \in Nat /\ OnDevice(Start(c))
              /\ DOMAIN Payload(c) = BytesOf(Start(c), ChunkBlocks)
            BY <1>1, <2>1, ChunkWriteIs
        <3> QED
            BY <1>1, <3>1, InDevice DEF OnDevice
    <2>3. ~WriteNothing(c) /\ ~WriteCoalesced
        BY <1>1, <2>2, CoalescedFacts DEF WriteNothing, WriteCoalesced
    <2>4. SynchronizeCache /\ WorkerOnly
        BY <1>1, <2>3, WriteOrFlushAnswer
    <2> QED
        BY <1>1, <2>2, <2>4, CoalescedAnswer
<1>2. Shapes /\ AskedFor /\ Coalesced /\ ChunkWrites /\ [Next]_vars =>
         [\A c \in Callers : (Succeeds(c, "write") /\ sync) =>
            \A b \in DOMAIN Payload(c) : Trusted(b) => stable'[b] = written[b]]_vars
    BY <1>1
<1>3. [](Shapes /\ AskedFor /\ Coalesced /\ ChunkWrites) <=> [](Shapes /\ AskedFor /\ Coalesced)
    BY PTL
<1> QED
    BY <1>2, CoalescedInvariant, PTL DEF SyncWriteDurable, Spec

----------------------------------------------------------------------------
(* Reads of a device that coalesces *)

\* Every read is within one chunk, of which the device has all blocks.
ReadsInChunks ==
    \A x \in Reads : x[2] # 0 =>
        \E k \in Nat : ChunkAligned(k) /\ OnDevice(k) /\ Extent(x[1], x[2]) \subseteq BytesOf(k, ChunkBlocks)

(* A bounded set of numbers has a greatest element. *)
LEMMA Greatest ==
    ASSUME NEW l \in Nat, NEW S, S \subseteq 0 .. l, S # {}
    PROVE  Max(S) \in S /\ \A k \in S : k <= Max(S)
<1> DEFINE T == {n \in Nat : \E k \in S : n = l - k}
<1>1. T \subseteq Nat /\ T # {}
    <2>1. PICK k \in S : TRUE
        OBVIOUS
    <2>2. l - k \in Nat /\ k \in Nat
        OBVIOUS
    <2>3. l - k \in T
        BY <2>2
    <2> QED
        BY <2>3
<1>2. PICK n \in T : \A m \in T : ~(<<m, n>> \in OpToRel(<, Nat))
    BY <1>1, WFMin, NatLessThanWellFounded
<1>3. PICK k \in S : n = l - k
    OBVIOUS
<1>4. ASSUME NEW j \in S PROVE j <= k
    <2>1. l - j \in Nat /\ l - j \in T /\ n \in Nat /\ j \in Nat /\ k \in Nat
        OBVIOUS
    <2>2. ~(l - j < n)
        BY <1>2, <2>1 DEF OpToRel
    <2> QED
        BY <1>3, <2>1, <2>2
<1>5. \E x \in S : \A y \in S : x >= y
    BY <1>4
<1>6. Max(S) \in S /\ \A y \in S : Max(S) >= y
    BY <1>5 DEF Max
<1> QED
    BY <1>6

(* A read within chunk k, as read_blocks sees it. *)
LEMMA ChunkReadIs ==
    ASSUME Shapes, AskedFor, ReadsInChunks, NEW c \in Callers, call[c] # None,
           call[c].op = "read", ~Nothing(c)
    PROVE  /\ Start(c) \in Nat /\ Count(c) \in Nat /\ Size(c) \in Nat
           /\ ChunkLba(Start(c)) \in Nat /\ ChunkAligned(ChunkLba(Start(c)))
           /\ OnDevice(ChunkLba(Start(c)))
           /\ ChunkLba(Start(c)) <= Start(c)
           /\ Start(c) + Count(c) <= ChunkLba(Start(c)) + ChunkBlocks
           /\ LastChunk(Start(c), Count(c)) <= ChunkLba(Start(c))
           /\ Extent(call[c].offset, call[c].size)
                 \subseteq BytesOf(ChunkLba(Start(c)), ChunkBlocks)
           /\ Extent(Offset(c), Size(c)) \subseteq BytesOf(Start(c), Count(c))
<1> DEFINE o == call[c].offset
           s == call[c].size
<1>1. <<o, s>> \in Reads /\ o \in Nat /\ s \in Nat
    BY ChannelFacts, RequestTyped DEF AskedFor
<1>2. s # 0 /\ o < TotalBytes /\ TotalBytes \in Nat
    BY <1>1 DEF Nothing, Offset, TotalBytes
<1>3. PICK k \in Nat : ChunkAligned(k) /\ OnDevice(k) /\ Extent(o, s) \subseteq BytesOf(k, ChunkBlocks)
    BY <1>1, <1>2 DEF ReadsInChunks
<1>4. Start(c) \in Nat /\ Count(c) \in Nat /\ Size(c) \in Nat /\ Offset(c) = o
      /\ Extent(Offset(c), Size(c)) \subseteq BytesOf(Start(c), Count(c))
    BY <1>1, RangeOfCall DEF Offset
<1>5. Size(c) <= s
    BY <1>1, <1>2 DEF Size, ClampRead, Lesser, Offset
<1> DEFINE m == k + ChunkBlocks
           B == BlockSize
<1>6. m \in Nat /\ m * B \in Nat /\ k * B \in Nat /\ B \in Nat \ {0} /\ k < m
    BY SMT
<1>7. k * B <= o /\ o + s <= m * B
    <2>1. o \in Extent(o, s) /\ o + s - 1 \in Extent(o, s)
        BY <1>1, <1>2 DEF Extent
    <2>2. o \in BytesOf(k, ChunkBlocks) /\ o + s - 1 \in BytesOf(k, ChunkBlocks)
        BY <1>3, <2>1
    <2> HIDE DEF o, s
    <2> QED
        BY <1>1, <1>6, <2>2 DEF BytesOf
<1>8. Start(c) \in k .. k + ChunkBlocks - 1
    <2>1. o \in BytesOf(k, ChunkBlocks)
        BY <1>1, <1>2, <1>3 DEF Extent
    <2>2. Start(c) = BlockOf(o)
        BY <1>4 DEF Start, StartLba, BlockOf
    <2> QED
        BY <1>1, <2>1, <2>2, BytesInBlocks
<1>9. ChunkLba(Start(c)) = k
    BY <1>3, <1>4, <1>8, AlignedChunk
<1>10. Start(c) + Count(c) <= m
    <2> DEFINE x == o + Size(c) + B - 1
               e == x \div B
    <2>1. x \in Nat /\ x < m * B + B
        <3> HIDE DEF o, s, m, B
        <3> QED
            BY <1>1, <1>4, <1>5, <1>6, <1>7
    <2>2. e \in Nat /\ e * B \in Nat /\ e * B <= x
        <3> HIDE DEF x
        <3> QED
            BY <1>6, <2>1, Division DEF B
    <2>3. (m + 1) * B = m * B + B
        BY <1>6
    <2>4. Start(c) + Count(c) = e
        <3>1. Count(c) = e - Start(c)
            BY <1>4 DEF Count, BlockCount, Start, EndLba
        <3> HIDE DEF e
        <3> QED
            BY <1>4, <2>2, <3>1
    <2> HIDE DEF x, e, m, B
    <2>5. ~(m + 1 <= e)
        <3> SUFFICES ASSUME m + 1 <= e PROVE FALSE
            OBVIOUS
        <3>1. (m + 1) * B <= e * B
            BY <1>6, <2>2, Monotone
        <3> QED
            BY <1>6, <2>1, <2>2, <2>3, <3>1
    <2> QED
        BY <1>6, <2>2, <2>4, <2>5
<1> HIDE DEF o, s, B
<1>11. LastChunk(Start(c), Count(c)) <= k
    <2> DEFINE last == IF Start(c) + Count(c) = 0 THEN 0 ELSE Start(c) + Count(c) - 1
    <2>1. last \in Nat /\ last < m /\ LastChunk(Start(c), Count(c)) = ChunkLba(last)
        BY <1>4, <1>6, <1>10 DEF LastChunk
    <2> HIDE DEF last
    <2>2. CASE last >= k
        BY <1>3, <2>1, <2>2, AlignedChunk
    <2>3. CASE last < k
        BY <2>1, <2>3, ChunkLbaNat
    <2> QED
        BY <2>1, <2>2, <2>3
<1> QED
    BY <1>3, <1>4, <1>8, <1>9, <1>10, <1>11 DEF o, s

(* The chunk of a read is dirty exactly if read_overlap finds the read.  *)
LEMMA ChunkOverlap ==
    ASSUME NEW k \in Nat, ChunkAligned(k), NEW l \in Nat, NEW n \in Nat,
           ChunkLba(l) = k, l + n <= k + ChunkBlocks,
           \A j \in DOMAIN dirty : /\ j \in Nat /\ ChunkAligned(j)
                                   /\ DOMAIN dirty[j] = BytesOf(j, ChunkBlocks)
    PROVE  /\ k \in DOMAIN dirty => /\ Overlaps(dirty, l, n)
                                    /\ Overlap(dirty, l, n) = Restrict(dirty[k], BytesOf(l, n))
           /\ (Overlaps(dirty, l, n) /\ n # 0) => k \in DOMAIN dirty
<1> DEFINE S == AtOrBefore(dirty, l)
           B == BlockSize
<1>1. /\ \A j \in S : j \in DOMAIN dirty /\ j \in Nat /\ ChunkAligned(j) /\ j <= l /\ j <= k
      /\ k <= l
    <2>1. \A j \in S : j \in DOMAIN dirty /\ j \in Nat /\ ChunkAligned(j) /\ j <= l
        BY DEF AtOrBefore
    <2>2. ASSUME NEW j \in S PROVE ~(j > k)
        BY <2>1, AlignedChunk
    <2> QED
        BY <2>1, <2>2, ChunkLbaNat
<1>2. ASSUME NEW j \in DOMAIN dirty
      PROVE  j * B + EntryBytes(dirty[j]) = (j + ChunkBlocks) * B /\ (j + ChunkBlocks) * B \in Nat
    <2>1. j \in Nat /\ j * B \in Nat /\ (j + ChunkBlocks) * B \in Nat
        BY <1>2
    <2>2. j * B <= (j + ChunkBlocks) * B
        BY <2>1, Monotone
    <2>3. Cardinality(j * B .. (j + ChunkBlocks) * B - 1) = (j + ChunkBlocks) * B - j * B
        <3> DEFINE x == j * B
                   y == (j + ChunkBlocks) * B - 1
        <3>1. x \in Int /\ y \in Int /\ x <= y + 1
            BY <2>1, <2>2
        <3> HIDE DEF x, y
        <3>2. Cardinality(x .. y) = IF x > y THEN 0 ELSE y - x + 1
            BY <3>1, FS_Interval
        <3>3. Cardinality(x .. y) = y - x + 1
            BY <3>1, <3>2
        <3> QED
            BY <2>1, <3>3 DEF x, y
    <2>4. DOMAIN dirty[j] = j * B .. (j + ChunkBlocks) * B - 1
        BY <1>2 DEF BytesOf
    <2> QED
        BY <2>1, <2>3, <2>4 DEF EntryBytes
<1>3. (l + n) * B \in Nat
    OBVIOUS
<1>4. ASSUME k \in DOMAIN dirty
      PROVE  /\ Overlaps(dirty, l, n)
             /\ Overlap(dirty, l, n) = Restrict(dirty[k], BytesOf(l, n))
    <2>1. k \in S
        BY <1>1, <1>4 DEF AtOrBefore
    <2>2. Max(S) = k
        <3>1. k >= k /\ \A y \in S : k >= y
            BY <1>1
        <3>2. \A x \in S : (\A y \in S : x >= y) => x = k
            BY <1>1, <2>1
        <3> HIDE DEF S
        <3> QED
            BY <2>1, <3>1, <3>2 DEF Max
    <2>3. (l + n) * B <= (k + ChunkBlocks) * B
        BY Monotone
    <2> QED
        BY <1>2, <1>3, <1>4, <2>1, <2>2, <2>3 DEF Overlaps, Overlap
<1>5. ASSUME Overlaps(dirty, l, n), n # 0
      PROVE  k \in DOMAIN dirty
    <2> DEFINE m == Max(S)
    <2>1. S # {} /\ (l + n) * B <= m * B + EntryBytes(dirty[m])
        BY <1>5 DEF Overlaps
    <2>2. S \subseteq 0 .. l
        BY <1>1
    <2>3. m \in S
        BY <2>1, <2>2, Greatest
    <2> HIDE DEF m
    <2>4. m \in Nat /\ m \in DOMAIN dirty /\ ChunkAligned(m) /\ m <= k /\ k <= l
        BY <1>1, <2>3
    <2>5. (l + n) * B <= (m + ChunkBlocks) * B
        BY <1>2, <2>1, <2>4
    <2>6. l + n <= m + ChunkBlocks
        <3> SUFFICES ASSUME m + ChunkBlocks + 1 <= l + n PROVE FALSE
            BY <2>4
        <3>1. (m + ChunkBlocks + 1) * B <= (l + n) * B
              /\ (m + ChunkBlocks + 1) * B = (m + ChunkBlocks) * B + B
            BY <2>4, Monotone
        <3> QED
            BY <1>2, <1>3, <2>4, <2>5, <3>1
    <2>7. l \in m .. m + ChunkBlocks - 1
        BY <1>5, <2>4, <2>6
    <2>8. ChunkLba(l) = m
        BY <2>4, <2>7, AlignedChunk
    <2> QED
        BY <2>4, <2>8
<1> QED
    BY <1>4, <1>5

\* What read_blocks reads is not in the dirty map.
ServesClean ==
    \A c \in Callers : (serving = c /\ Reading(wpc)) =>
        ChunkLba(Start(c)) \notin DOMAIN dirty /\ chunk >= ChunkLba(Start(c))

\* The readahead task fetches no chunk that is still to be written back.
ReadaheadElsewhere == Fetching => prefetch.next \notin DOMAIN dirty \cup DOMAIN flight

LEMMA CleanKeeps ==
    ASSUME Shapes, ServesClean, serving' \in Callers => call'[serving'] = call[serving'],
           Reading(wpc') => Reading(wpc) /\ chunk' \in {chunk, chunk + ChunkBlocks}
                            /\ UNCHANGED <<serving, dirty>>
    PROVE  ServesClean'
<1> SUFFICES ASSUME NEW c \in Callers, serving' = c, Reading(wpc)'
             PROVE  (ChunkLba(Start(c)) \notin DOMAIN dirty /\ chunk >= ChunkLba(Start(c)))'
    BY DEF ServesClean
<1>1. Reading(wpc) /\ chunk' \in {chunk, chunk + ChunkBlocks} /\ UNCHANGED <<serving, dirty>>
    BY DEF Reading
<1>2. Start(c)' = Start(c)
    BY SteadyCall
<1>3. ChunkLba(Start(c)) \notin DOMAIN dirty /\ chunk >= ChunkLba(Start(c))
    BY <1>1 DEF ServesClean
<1>5. chunk \in Nat /\ Start(c) \in Nat
    <2>1. call[c].offset \in Nat /\ call[c].size \in Nat
        BY <1>1, ServedIs
    <2> QED
        BY <2>1, RangeOfCall, WorkerFacts
<1>6. ChunkLba(Start(c)) \in Nat
    BY <1>5, ChunkLbaNat
<1>7. chunk' >= ChunkLba(Start(c))
    BY <1>1, <1>3, <1>5, <1>6
<1> QED
    BY <1>1, <1>2, <1>3, <1>7 DEF ChunkLba

LEMMA CleanServe ==
    ASSUME Shapes, AskedFor, ReadsInChunks, Coalesced, ServesClean,
           NEW c \in Callers, Serve(c), WorkerOnly
    PROVE  ServesClean'
<1>1. UNCHANGED call
    BY DEF WorkerOnly
<1>2. ASSUME ~Reading(wpc') PROVE ServesClean'
    BY <1>1, <1>2, CleanKeeps
<1>3. CASE ReadThroughCache(c)
    <2> DEFINE k == ChunkLba(Start(c))
    <2>1. /\ Takes(c, "read") /\ ~Nothing(c) /\ DataRest /\ wpc' = "chunk" /\ serving' = c
          /\ ~Overlaps(dirty, Start(c), Count(c)) /\ chunk' = k
        BY <1>3 DEF ReadThroughCache, Serves
    <2>2. /\ Start(c) \in Nat /\ Count(c) \in Nat /\ k \in Nat /\ ChunkAligned(k)
          /\ Start(c) + Count(c) <= k + ChunkBlocks
        BY <2>1, TakesWaiting, ChunkReadIs
    <2>3. \A j \in DOMAIN dirty : /\ j \in Nat /\ ChunkAligned(j)
                                  /\ DOMAIN dirty[j] = BytesOf(j, ChunkBlocks)
        BY CoalescedFacts DEF Accounted, LatestChunk
    <2> HIDE DEF k
    <2>4. k \notin DOMAIN dirty
        BY <2>1, <2>2, <2>3, ChunkOverlap DEF k
    <2>5. dirty' = dirty
        BY <2>1 DEF DataRest, dirtyVars
    <2>6. ASSUME NEW d \in Callers, serving' = d, Reading(wpc)'
          PROVE  (ChunkLba(Start(d)) \notin DOMAIN dirty /\ chunk >= ChunkLba(Start(d)))'
        <3>1. d = c
            BY <2>1, <2>6
        <3>2. Start(c)' = Start(c)
            BY <1>1, <2>1, SteadyCall
        <3>3. ChunkLba(Start(d))' = k
            BY <3>1, <3>2 DEF ChunkLba, k
        <3> QED
            BY <2>1, <2>2, <2>4, <2>5, <3>3 DEF k
    <2> QED
        BY <2>6 DEF ServesClean
<1>4. CASE ~ReadThroughCache(c)
    <2>1. ~Reading(wpc')
        BY <1>4 DEF Serve, ReadNothing, ReadDirty, WriteNothing, InsertAligned, Insert, RmwRead,
           RmwReadFails, Flush, SetSyncWrites, AnswersAtOnce, Reply, Serves, Reading
    <2> QED
        BY <1>2, <2>1
<1> QED
    BY <1>3, <1>4

LEMMA CleanStep ==
    ASSUME Shapes, AskedFor, ReadsInChunks, Coalesced, ServesClean, [Next]_vars
    PROVE  ServesClean'
<1>1. ASSUME NEW c \in Callers, NEW x, call' = [call EXCEPT ![c] = x], serving # c, DeviceRest
      PROVE  ServesClean'
    <2>1. serving' = serving /\ (serving' \in Callers => call'[serving'] = call[serving'])
        BY <1>1, ChannelFacts DEF DeviceRest, workVars
    <2> QED
        BY <1>1, <2>1, CleanKeeps DEF DeviceRest, workVars, dirtyVars
<1>2. CASE Worker
    <2>1. WorkerOnly /\ UNCHANGED call
        BY <1>2 DEF Worker, WorkerOnly
    <2>2. CASE Continue
        <3>1. Reading(wpc') => Reading(wpc) /\ chunk' \in {chunk, chunk + ChunkBlocks}
                               /\ UNCHANGED <<serving, dirty>>
            <4>1. CASE ChunkHit \/ ChunkFetch \/ ChunkJoin
                BY <4>1 DEF ChunkHit, ChunkFetch, ChunkJoin, AtChunk, Assembles, Goes, DataRest,
                            dirtyVars, Reading
            <4>2. CASE ~(ChunkHit \/ ChunkFetch \/ ChunkJoin)
                BY <2>2, <4>2 DEF Continue, ChunkFetchFails, FinishRead, RmwInsert, Insert,
                    WriteCoalesced, Drain, FlushFails, SynchronizeCache, SynchronizeFails, Failure,
                    FlushReturns, ChannelClosed, Unasked, Serves, Goes, Replies, Reply, Reading
            <4> QED
                BY <4>1, <4>2
        <3> QED
            BY <2>1, <3>1, CleanKeeps
    <2> QED
        BY <1>2, <2>1, <2>2, CleanServe DEF Worker
<1>3. CASE Timer
    BY <1>3, CleanKeeps DEF Timer, CoalesceTimer, Unasked, Serves, WorkerOnly, Reading
<1>4. ASSUME NEW c \in Callers, Calls(c) PROVE ServesClean'
    <2>1. PICK request \in Request : Call(c, request) /\ writes' \in Value
        BY <1>4, CallIsRequest
    <2> QED
        BY <1>1, <2>1, ChannelCall DEF Call
<1>5. ASSUME NEW c \in Callers, Return(c) PROVE ServesClean'
    BY <1>1, <1>5, ChannelReturn DEF Return
<1>6. CASE PrefetchTask
    <2>1. UNCHANGED <<call, serving, chunk, dirty>>
        BY <1>6 DEF PrefetchTask, PrefetchHit, PrefetchFetch, PrefetchInsert, PrefetchFails,
                    PrefetchEnds, PrefetchOnly, callVars, dirtyVars
    <2>2. wpc' = wpc \/ (wpc = "joined" /\ wpc' \in {"chunk", "joinFailed"})
        BY <1>6 DEF PrefetchTask, PrefetchHit, PrefetchFetch, PrefetchInsert, PrefetchFails,
                    PrefetchEnds, Wakes
    <2> QED
        BY <2>1, <2>2, CleanKeeps DEF Reading
<1>7. CASE Close \/ Target \/ (\E k \in DOMAIN cache : Evict(k)) \/ (\E w \in strays : StrayLands(w))
           \/ UNCHANGED vars
    <2>1. UNCHANGED <<call, wpc, serving, chunk, dirty>>
        BY <1>7 DEF Close, DeviceRest, Target, WriteLands, WriteSucceeds, WriteFails, StrayLands,
                    TargetOnly, Evict, callVars, workVars, dirtyVars, vars
    <2> QED
        BY <2>1, CleanKeeps
<1> QED
    BY <1>2, <1>3, <1>4, <1>5, <1>6, <1>7 DEF Next

(* What the target returns for a chunk that is not dirty and not on its way. *)
LEMMA CleanChunk ==
    ASSUME Shapes, Coalesced, NEW k \in Nat, ChunkAligned(k), OnDevice(k),
           k \notin DOMAIN dirty, k \notin DOMAIN flight
    PROVE  AllRight(ReadOfTarget(k), written, doubtful)
<1>1. IsChunk(k, ReadOfTarget(k))
      /\ \A b \in BytesOf(k, ChunkBlocks) : b \in Byte /\ ReadOfTarget(k)[b] = media[b]
    BY TargetChunk
<1>2. Accounted(dirty, flight, media, stable, written)
    BY CoalescedFacts
<1>3. ASSUME NEW b \in BytesOf(k, ChunkBlocks) PROVE media[b] = written[b]
    <2>1. ASSUME NEW l, LatestChunk(l, dirty[l], written), b \in DOMAIN dirty[l] PROVE l = k
        BY <2>1, ChunksApart DEF LatestChunk
    <2>2. ASSUME NEW l, LatestChunk(l, flight[l].data, written), b \in DOMAIN flight[l].data
          PROVE  l = k
        BY <2>2, ChunksApart DEF LatestChunk
    <2> QED
        BY <1>1, <1>2, <2>1, <2>2 DEF Accounted
<1> QED
    BY <1>1, <1>3 DEF AllRight, Right, IsChunk

(* A read has but one chunk to come to. *)
LEMMA AtItsChunk ==
    ASSUME Shapes, AskedFor, ReadsInChunks, ServesClean, ReadsOK, AtChunk
    PROVE  /\ chunk \in Nat /\ ChunkAligned(chunk) /\ OnDevice(chunk)
           /\ chunk \notin DOMAIN dirty /\ chunk \notin DOMAIN flight
<1>1. wpc = "chunk" /\ chunk <= LastChunk(Start(serving), Count(serving))
    BY DEF AtChunk
<1>2. PICK c \in Callers : serving = c
    BY <1>1, WorkerFacts
<1>3. call[c] # None /\ call[c].op = "read" /\ ~Nothing(c)
    BY <1>1, <1>2, ServedIs DEF Waiting
<1> DEFINE k == ChunkLba(Start(c))
<1>4. /\ Start(c) \in Nat /\ Count(c) \in Nat /\ k \in Nat /\ OnDevice(k)
      /\ LastChunk(Start(c), Count(c)) <= k
    BY <1>3, ChunkReadIs
<1>5. k \notin DOMAIN dirty /\ chunk >= k
    BY <1>1, <1>2 DEF ServesClean, Reading
<1>6. LastChunk(Start(c), Count(c)) \in Nat
    BY <1>4, ChunkLbaNat DEF LastChunk
<1>7. chunk \in Nat /\ ChunkAligned(chunk)
    BY WorkerFacts, ReadsFacts
<1> HIDE DEF k
<1>8. chunk = k
    BY <1>1, <1>2, <1>4, <1>5, <1>6, <1>7
<1>9. DOMAIN flight = {}
    BY <1>1 DEF Shapes, FlightOK
<1> QED
    BY <1>4, <1>5, <1>7, <1>8, <1>9

LEMMA CoalescedReadsStep ==
    ASSUME Shapes, AskedFor, ChunkWrites, ReadsInChunks, MayFail = FALSE, Coalesced, ServesClean,
           ReadsOK, ReadaheadElsewhere', [Next]_vars
    PROVE  ReadsOK'
<1>1. ASSUME NEW c \in Callers, Inserts(c), Fetching
      PROVE  prefetch.next \notin ChunksOf(Start(c), Count(c))
    <2>1. PICK data : Insert(c, data)
        BY <1>1, InsertsWrite
    <2>2. /\ Start(c) \in Nat /\ ChunkAligned(Start(c)) /\ Count(c) = ChunkBlocks
        BY <1>1, InsertsWrite, ChunkWriteIs
    <2>3. Start(c) \in DOMAIN dirty' /\ UNCHANGED prefetch
        BY <2>1 DEF Insert, Inserted
    <2>4. prefetch.next # Start(c)
        BY <1>1, <2>3 DEF ReadaheadElsewhere, Fetching
    <2>5. ASSUME NEW l \in Start(c) .. Start(c) + ChunkBlocks - 1 PROVE ChunkLba(l) = Start(c)
        BY <2>2, <2>5, AlignedChunk
    <2> QED
        BY <2>2, <2>4, <2>5 DEF ChunksOf
<1>2. ASSUME ChunkFetch PROVE AllRight(ReadOfTarget(chunk), written, doubtful)
    BY <1>2, AtItsChunk, CleanChunk DEF ChunkFetch
<1>3. ASSUME PrefetchFetch, Fetching'
      PROVE  AllRight(ReadOfTarget(prefetch.next), written, doubtful)
    <2>1. prefetch # None /\ OnDevice(prefetch.next) /\ UNCHANGED <<dirty, flight>>
          /\ prefetch' = [prefetch EXCEPT !.held = ReadOfTarget(prefetch.next)]
        BY <1>3 DEF PrefetchFetch, PrefetchOnly, dirtyVars
    <2>2. prefetch.next \in Nat /\ ChunkAligned(prefetch.next) /\ prefetch'.next = prefetch.next
        BY <2>1, CacheFacts, ReadsFacts
    <2>3. prefetch.next \notin DOMAIN dirty /\ prefetch.next \notin DOMAIN flight
        BY <1>3, <2>1, <2>2 DEF ReadaheadElsewhere
    <2> QED
        BY <2>1, <2>2, <2>3, CleanChunk
<1> QED
    BY <1>1, <1>2, <1>3, ReadsStep

CoalescedReadInv == Shapes /\ AskedFor /\ Coalesced /\ ServesClean /\ ReadsOK

LEMMA CoalescedReadInit ==
    ASSUME Init
    PROVE  CoalescedReadInv
<1>1. ServesClean
    BY DEF Init, ServesClean, Reading
<1> QED
    BY <1>1, ShapesInit, AskedForInit, CoalescedInit, ReadsInit DEF CoalescedReadInv

LEMMA CoalescedReadStep ==
    ASSUME ChunkWrites, ReadsInChunks, MayFail = FALSE, CoalescedReadInv, ReadaheadElsewhere',
           [Next]_vars
    PROVE  CoalescedReadInv'
BY ShapesStep, AskedForStep, CoalescedStep, CleanStep, CoalescedReadsStep DEF CoalescedReadInv

(* What a read is answered: the part of the device it asks for, as it was  *)
(* last written, whether from the dirty map or through the cache.          *)
LEMMA CoalescedAnswerIs ==
    ASSUME ReadsInChunks, CoalescedReadInv, NEW c \in Callers, call[c] # None,
           call[c].op = "read", ~Nothing(c), NEW data,
           \/ ReadDirty(c) /\ data = Slice(Overlap(dirty, Start(c), Count(c)), c)
           \/ serving = c /\ wpc = "chunk" /\ ~AtChunk /\ data = Slice(buffer, c)
    PROVE  /\ DOMAIN data = Extent(Offset(c), Size(c)) /\ data = [b \in DOMAIN data |-> data[b]]
           /\ \A b \in Extent(Offset(c), Size(c)) : b \in Byte /\ data[b] = written[b]
<1>1. Shapes /\ AskedFor /\ Coalesced /\ ServesClean /\ ReadsOK
    BY DEF CoalescedReadInv
<1>2. call[c].offset \in Nat /\ call[c].size \in Nat
    BY <1>1, ChannelFacts, RequestTyped
<1> DEFINE k == ChunkLba(Start(c))
<1>4. /\ Start(c) \in Nat /\ Count(c) \in Nat /\ Size(c) \in Nat
      /\ k \in Nat /\ ChunkAligned(k) /\ OnDevice(k)
      /\ k <= Start(c) /\ Start(c) + Count(c) <= k + ChunkBlocks
      /\ Extent(Offset(c), Size(c)) \subseteq BytesOf(Start(c), Count(c))
    BY <1>1, ChunkReadIs
<1>5. doubtful = {} /\ Accounted(dirty, flight, media, stable, written)
    BY <1>1, CoalescedFacts
<1>6. ASSUME NEW b \in Extent(Offset(c), Size(c))
      PROVE  b \in BytesOf(Start(c), Count(c)) /\ b \in BytesOf(k, ChunkBlocks) /\ b \in Byte
             /\ Count(c) # 0
    <2>1. b \in BytesOf(Start(c), Count(c))
        BY <1>4, <1>6
    <2>2. b \in Nat /\ BlockOf(b) \in Start(c) .. Start(c) + Count(c) - 1
        BY <1>4, <2>1, BytesAreNat, BytesInBlocks
    <2>3. BlockOf(b) \in k .. k + ChunkBlocks - 1 /\ Count(c) # 0
        BY <1>4, <2>2
    <2>4. b \in BytesOf(k, ChunkBlocks)
        BY <1>4, <2>2, <2>3, BytesInBlocks
    <2> QED
        BY <1>4, <2>1, <2>3, <2>4, InDevice DEF OnDevice
<1>7. ASSUME NEW b \in Extent(Offset(c), Size(c)), NEW whole, data = Slice(whole, c)
      PROVE  data[b] = whole[b]
    BY <1>7 DEF Slice, Restrict
<1>8. ASSUME NEW b \in Extent(Offset(c), Size(c)) PROVE data[b] = written[b]
    <2>1. CASE ReadDirty(c) /\ data = Slice(Overlap(dirty, Start(c), Count(c)), c)
        <3>1. Overlaps(dirty, Start(c), Count(c))
            BY <2>1 DEF ReadDirty
        <3>2. \A j \in DOMAIN dirty : /\ j \in Nat /\ ChunkAligned(j)
                                      /\ DOMAIN dirty[j] = BytesOf(j, ChunkBlocks)
            BY <1>5 DEF Accounted, LatestChunk
        <3>3. /\ k \in DOMAIN dirty
              /\ Overlap(dirty, Start(c), Count(c)) = Restrict(dirty[k], BytesOf(Start(c), Count(c)))
            BY <1>4, <1>6, <1>8, <3>1, <3>2, ChunkOverlap
        <3>4. Overlap(dirty, Start(c), Count(c))[b] = dirty[k][b]
            BY <1>6, <1>8, <3>3 DEF Restrict
        <3>5. dirty[k][b] = written[b]
            <4>1. LatestChunk(k, dirty[k], written)
                BY <1>5, <3>3 DEF Accounted
            <4> QED
                BY <1>6, <1>8, <4>1 DEF LatestChunk
        <3> QED
            BY <1>7, <1>8, <2>1, <3>4, <3>5
    <2>2. CASE serving = c /\ wpc = "chunk" /\ ~AtChunk /\ data = Slice(buffer, c)
        <3>1. Right(buffer, b, written, doubtful)
            BY <1>1, <1>2, <1>8, <2>2, AssembledRight
        <3> QED
            BY <1>5, <1>7, <1>8, <2>2, <3>1 DEF Right
    <2> QED
        BY <2>1, <2>2
<1> QED
    BY <1>6, <1>8 DEF Slice, Restrict

(* A device that coalesces reads back what was written: from the dirty map, *)
(* from the cache or from the target, whatever the timer has written back   *)
(* in between, as long as the readahead task fetches no chunk that is       *)
(* waiting to be written back.                                              *)
THEOREM CoalescedReadsYourWrites ==
    ASSUME ChunkWrites, ReadsInChunks, MayFail = FALSE
    PROVE  Spec /\ []ReadaheadElsewhere => ReadYourWrites
<1>1. ASSUME ChunkWrites, ReadsInChunks, CoalescedReadInv, [Next]_vars, NEW c \in Callers,
             Succeeds(c, "read"), NEW b \in DOMAIN reply'[c].data
      PROVE  reply'[c].data[b] = written[b]
    <2>1. CASE Nothing(c) /\ reply'[c].data = <<>>
        BY <1>1, <2>1
    <2>2. CASE ~Nothing(c)
        <3>1. Shapes /\ call[c].op = "read"
            BY <1>1 DEF CoalescedReadInv, Succeeds, Answers
        <3>2. /\ call[c] # None
              /\ \/ ReadDirty(c) /\ reply'[c].data = Slice(Overlap(dirty, Start(c), Count(c)), c)
                 \/ serving = c /\ wpc = "chunk" /\ ~AtChunk /\ reply'[c].data = Slice(buffer, c)
            BY <1>1, <2>2, <3>1, ReadAnswer
        <3> DEFINE data == reply'[c].data
        <3>3. /\ DOMAIN data = Extent(Offset(c), Size(c))
              /\ \A e \in Extent(Offset(c), Size(c)) : data[e] = written[e]
            <4>1. \/ ReadDirty(c) /\ data = Slice(Overlap(dirty, Start(c), Count(c)), c)
                  \/ serving = c /\ wpc = "chunk" /\ ~AtChunk /\ data = Slice(buffer, c)
                BY <3>2
            <4> HIDE DEF data
            <4> QED
                BY <1>1, <2>2, <3>1, <3>2, <4>1, CoalescedAnswerIs
        <3> QED
            BY <1>1, <3>3
    <2> QED
        BY <1>1, <2>1, <2>2, ReadAnswer DEF CoalescedReadInv
<1>2. CoalescedReadInv /\ [Next]_vars =>
         [\A c \in Callers : Succeeds(c, "read") =>
            \A b \in DOMAIN reply'[c].data :
               Trusted(b) => reply'[c].data[b] = written[b]]_vars
    BY <1>1
<1>3. CoalescedReadInv /\ ReadaheadElsewhere' /\ [Next]_vars => CoalescedReadInv'
    BY CoalescedReadStep
<1> QED
    BY <1>2, <1>3, CoalescedReadInit, PTL DEF ReadYourWrites, Spec

----------------------------------------------------------------------------
(* The device as a disk *)

\* The write of c has been made, but not acknowledged.
Performs(c) == serving = c /\ call[c].op = "write" /\ wpc \in {"ack", "drain", "await"}

LEMMA PerformedIs ==
    /\ \A c \in Callers : c \in Performed <=> Performs(c)
    /\ Performed \subseteq Callers
BY DEF Performed, Performs

LEMMA PerformedNext ==
    /\ \A c \in Callers : c \in Performed' <=>
          serving' = c /\ call'[c].op = "write" /\ wpc' \in {"ack", "drain", "await"}
    /\ Performed' \subseteq Callers
BY DEF Performed

(* A step that touches neither the request served nor a write's place. *)
LEMMA PerformedSame ==
    ASSUME serving' \in Callers \/ serving \in Callers => UNCHANGED serving,
           serving \in Callers => call'[serving].op = call[serving].op,
           (wpc' \in {"ack", "drain", "await"}) <=> (wpc \in {"ack", "drain", "await"})
    PROVE  Performed' = Performed
BY PerformedIs, PerformedNext DEF Performs

LEMMA PerformedNone ==
    ASSUME serving \notin Callers \/ wpc \notin {"ack", "drain", "await"}
           \/ call[serving].op # "write"
    PROVE  Performed = {}
BY PerformedIs DEF Performs

LEMMA PerformedNoneNext ==
    ASSUME serving' \notin Callers \/ wpc' \notin {"ack", "drain", "await"}
           \/ call'[serving'].op # "write"
    PROVE  Performed' = {}
BY PerformedNext

LEMMA DiskStutter ==
    ASSUME Newest = written, Newest' = written', Performed' = Performed,
           UNCHANGED <<call, reply, sync, written, stable>>
    PROVE  UNCHANGED D!vars
BY DEF D!vars

LEMMA DiskRead ==
    ASSUME Newest = written, Newest' = written', Performed' = Performed,
           NEW c \in Callers, Waiting(c), call[c].op = "read",
           reply' = [reply EXCEPT ![c] = [ok |-> TRUE, data |-> [b \in D!Part(c) |-> written[b]]]],
           UNCHANGED <<call, sync, written, stable>>
    PROVE  D!Next
<1>1. D!Read(c)
    BY DEF D!Read, D!Asks, D!Answer, Waiting
<1> QED
    BY <1>1 DEF D!Next

LEMMA DiskAcknowledge ==
    ASSUME Newest = written, Newest' = written', NEW c \in Callers, Waiting(c), call[c].op = "write",
           c \in Performed \/ D!Part(c) = {}, Performed' = Performed \ {c},
           reply' = [reply EXCEPT ![c] = [ok |-> TRUE, data |-> <<>>]],
           stable' = stable \/ stable' = written, sync => stable' = written,
           UNCHANGED <<call, sync, written>>
    PROVE  D!Next
<1>1. D!Acknowledge(c)
    BY DEF D!Acknowledge, D!Asks, D!Answer, Waiting
<1> QED
    BY <1>1 DEF D!Next

LEMMA DiskFlush ==
    ASSUME Newest = written, Newest' = written', Performed' = Performed,
           NEW c \in Callers, Waiting(c), call[c].op = "flush",
           reply' = [reply EXCEPT ![c] = [ok |-> TRUE, data |-> <<>>]],
           stable' = written, UNCHANGED <<call, sync, written>>
    PROVE  D!Next
<1>1. D!Flush(c)
    BY DEF D!Flush, D!Asks, D!Answer, Waiting
<1> QED
    BY <1>1 DEF D!Next

LEMMA DiskSetSync ==
    ASSUME Newest = written, Newest' = written', Performed' = Performed,
           NEW c \in Callers, Waiting(c), call[c].op = "setSync",
           reply' = [reply EXCEPT ![c] = [ok |-> TRUE, data |-> <<>>]],
           sync' = call[c].value, UNCHANGED <<call, stable, written>>
    PROVE  D!Next
<1>1. D!SetSync(c)
    BY DEF D!SetSync, D!Asks, D!Answer, Waiting
<1> QED
    BY <1>1 DEF D!Next

LEMMA DiskWriteBack ==
    ASSUME Newest = written, Newest' = written', Performed' = Performed,
           stable' = written, UNCHANGED <<call, reply, sync, written>>
    PROVE  D!Next
<1>1. D!WriteBack
    BY DEF D!WriteBack
<1> QED
    BY <1>1 DEF D!Next

LEMMA DiskWrite ==
    ASSUME Newest = written, Newest' = written', NEW c \in Callers, Waiting(c),
           call[c].op = "write", c \notin Performed, Performed' = Performed \cup {c},
           written' = [b \in Byte |-> IF b \in D!Part(c) THEN call[c].value ELSE written[b]],
           UNCHANGED <<call, reply, sync, stable>>
    PROVE  D!Next
<1>1. Byte = D!Byte
    BY DEF Byte, TotalBytes, D!Byte, D!TotalBytes
<1>2. D!Write(c)
    BY <1>1 DEF D!Write, D!Asks, Waiting
<1> QED
    BY <1>2 DEF D!Next

LEMMA DiskCall ==
    ASSUME Shapes, Newest = written, Newest' = written', NEW c \in Callers, Calls(c)
    PROVE  D!Next
<1>1. ASSUME NEW request, Call(c, request), request \in D!Requests
      PROVE  D!Next
    <2>1. /\ call[c] = None /\ call' = [call EXCEPT ![c] = request]
          /\ UNCHANGED <<reply, serving, wpc, sync, stable, written>>
        BY <1>1 DEF Call, DeviceRest, workVars, diskVars, ghostVars
    <2>2. \A d \in Callers : d # c => call'[d] = call[d]
        BY <2>1, ChannelFacts
    <2>3. serving # c
        BY <2>1, ChannelFacts DEF Waiting
    <2>4. Performed' = Performed
        BY <2>1, <2>2, <2>3, PerformedSame
    <2>5. D!Call(c)
        BY <1>1, <2>1, <2>4 DEF D!Call
    <2> QED
        BY <2>5 DEF D!Next
<1>2. CASE CallRead(c)
    <2>1. PICK x \in Reads : Call(c, Ask("read", x[1], x[2], 0))
        BY <1>2 DEF CallRead
    <2>2. Ask("read", x[1], x[2], 0) \in D!Requests
        BY DEF Ask, D!Requests
    <2> QED
        BY <1>1, <2>1, <2>2
<1>3. CASE CallWrite(c)
    <2>1. PICK x \in Writes : Call(c, Ask("write", x[1], x[2], writes'))
        BY <1>3 DEF CallWrite
    <2>2. writes' \in 1 .. MaxWrites
        BY <1>3, ChannelFacts, BlockDeviceAssumption DEF CallWrite, Value, BlockDeviceAssumption
    <2>3. Ask("write", x[1], x[2], writes') \in D!Requests
        BY <2>2 DEF Ask, D!Requests
    <2> QED
        BY <1>1, <2>1, <2>3
<1>4. CASE CallFlush(c)
    <2>1. Call(c, Ask("flush", 0, 0, 0))
        BY <1>4 DEF CallFlush
    <2>2. Ask("flush", 0, 0, 0) \in D!Requests
        BY DEF Ask, D!Requests
    <2> QED
        BY <1>1, <2>1, <2>2
<1>5. CASE CallSetSync(c)
    <2>1. PICK mode \in SyncModes : Call(c, Ask("setSync", 0, 0, mode))
        BY <1>5 DEF CallSetSync
    <2>2. Ask("setSync", 0, 0, mode) \in D!Requests
        BY DEF Ask, D!Requests
    <2> QED
        BY <1>1, <2>1, <2>2
<1> QED
    BY <1>2, <1>3, <1>4, <1>5 DEF Calls

LEMMA DiskReturn ==
    ASSUME Shapes, Newest = written, Newest' = written', NEW c \in Callers, Return(c)
    PROVE  D!Next
<1>1. /\ reply[c] # None /\ call' = [call EXCEPT ![c] = None] /\ reply' = [reply EXCEPT ![c] = None]
      /\ UNCHANGED <<serving, wpc, sync, stable, written>>
    BY DEF Return, DeviceRest, workVars, diskVars, ghostVars
<1>2. \A d \in Callers : d # c => call'[d] = call[d]
    BY <1>1, ChannelFacts
<1>3. serving # c
    BY <1>1, ChannelFacts DEF Waiting
<1>4. Performed' = Performed
    BY <1>1, <1>2, <1>3, PerformedSame
<1>5. D!Return(c)
    BY <1>1, <1>4 DEF D!Return
<1> QED
    BY <1>5 DEF D!Next

(* Whatever moves the worker, or data, without an answer. *)
LEMMA DiskUnseen ==
    ASSUME Shapes, Newest = written, Newest' = written',
           \/ /\ WorkerOnly
              /\ \/ \E c \in Callers : ReadThroughCache(c) \/ RmwRead(c)
                                       \/ (Flush(c) /\ dirty # NoEntries)
                 \/ ChunkHit \/ ChunkFetch \/ ChunkJoin \/ Drain \/ ChannelClosed \/ CoalesceTimer
           \/ Close \/ PrefetchTask \/ Target
           \/ (\E k \in DOMAIN cache : Evict(k)) \/ (\E w \in strays : StrayLands(w))
    PROVE  UNCHANGED D!vars
<1>1. ASSUME UNCHANGED <<call, reply, sync, written, stable>>, Performed' = Performed
      PROVE  UNCHANGED D!vars
    BY <1>1, DiskStutter
<1>2. ASSUME WorkerOnly, NEW c \in Callers,
             ReadThroughCache(c) \/ RmwRead(c) \/ (Flush(c) /\ dirty # NoEntries)
      PROVE  UNCHANGED D!vars
    <2>1. /\ wpc = "select" /\ serving' = c /\ UNCHANGED <<call, reply, sync, written, stable>>
          /\ \/ wpc' \in {"chunk", "modify"}
             \/ call[c].op = "flush"
        BY <1>2 DEF ReadThroughCache, RmwRead, Flush, Takes, Serves, DataRest, WorkerOnly, ghostVars
    <2>2. Performed = {} /\ Performed' = {}
        BY <2>1, PerformedNone, PerformedNoneNext
    <2> QED
        BY <1>1, <2>1, <2>2
<1>3. CASE WorkerOnly /\ (ChunkHit \/ ChunkFetch \/ ChunkJoin \/ Drain)
    <2>1. /\ UNCHANGED <<call, reply, sync, written, stable, serving>>
          /\ \/ wpc = "chunk" /\ wpc' \in {"chunk", "joined"}
             \/ wpc = "drain" /\ wpc' = "await"
        BY <1>3 DEF ChunkHit, ChunkFetch, ChunkJoin, Drain, AtChunk, Goes, DataRest, WorkerOnly,
                    ghostVars
    <2>2. Performed' = Performed
        BY <2>1, PerformedSame
    <2> QED
        BY <1>1, <2>1, <2>2
<1>4. CASE WorkerOnly /\ (ChannelClosed \/ CoalesceTimer)
    <2>1. /\ UNCHANGED <<call, reply, sync, written, stable>>
          /\ wpc = "select" /\ serving' \notin Callers
        BY <1>4, Apart DEF ChannelClosed, CoalesceTimer, Unasked, Serves, DataRest, WorkerOnly,
                    ghostVars
    <2>2. Performed = {} /\ Performed' = {}
        BY <2>1, PerformedNone, PerformedNoneNext
    <2> QED
        BY <1>1, <2>1, <2>2
<1>5. CASE Close \/ PrefetchTask \/ Target \/ (\E k \in DOMAIN cache : Evict(k))
           \/ (\E w \in strays : StrayLands(w))
    <2>1. UNCHANGED <<call, reply, sync, written, stable, serving>>
        BY <1>5 DEF Close, DeviceRest, PrefetchTask, PrefetchHit, PrefetchFetch, PrefetchInsert,
           PrefetchFails, PrefetchEnds, PrefetchOnly, Target, WriteLands, WriteSucceeds, WriteFails,
           TargetOnly, Evict, StrayLands, callVars, workVars, diskVars, ghostVars
    <2>2. wpc' = wpc \/ (wpc = "joined" /\ wpc' \in {"chunk", "joinFailed"})
        BY <1>5 DEF Close, DeviceRest, PrefetchTask, PrefetchHit, PrefetchFetch, PrefetchInsert,
           PrefetchFails, PrefetchEnds, Wakes, Target, WriteLands, WriteSucceeds, WriteFails,
           TargetOnly, Evict, StrayLands, workVars
    <2>3. Performed' = Performed
        BY <2>1, <2>2, PerformedSame
    <2> QED
        BY <1>1, <2>1, <2>3
<1> QED
    BY <1>2, <1>3, <1>4, <1>5

(* The part of the device a request is about, as handle_read and           *)
(* handle_write clamp it.                                                  *)
LEMMA CallPart ==
    ASSUME Shapes, NEW c \in Callers, call[c] # None
    PROVE  /\ Nothing(c) => D!Part(c) = {}
           /\ (~Nothing(c) /\ Size(c) = Lesser(call[c].size, TotalBytes - Offset(c))) =>
                 Extent(Offset(c), Size(c)) = D!Part(c)
<1> DEFINE o == call[c].offset
           s == call[c].size
<1>1. o \in Nat /\ s \in Nat /\ TotalBytes \in Nat
    BY ChannelFacts, RequestTyped DEF TotalBytes
<1>2. D!Part(c) = (o .. o + s - 1) \cap (0 .. TotalBytes - 1)
    BY DEF D!Part, D!Extent, D!Byte, D!TotalBytes, TotalBytes
<1>3. /\ Offset(c) = o /\ Extent(Offset(c), Size(c)) = o .. o + Size(c) - 1
      /\ Lesser(s, TotalBytes - o) = (IF s <= TotalBytes - o THEN s ELSE TotalBytes - o)
      /\ Nothing(c) <=> (s = 0 \/ o >= TotalBytes)
    BY DEF Offset, Lesser, Extent, Nothing
<1> HIDE DEF o, s
<1> QED
    BY <1>1, <1>2, <1>3 DEF o, s

LEMMA WritePart ==
    ASSUME Shapes, NEW c \in Callers, call[c] # None, call[c].op = "write"
    PROVE  /\ ~Nothing(c) => DOMAIN Payload(c) = D!Part(c)
           /\ \A b \in DOMAIN Payload(c) : Payload(c)[b] = call[c].value
<1>1. Size(c) = Lesser(call[c].size, TotalBytes - Offset(c))
    BY DEF Size, ClampWrite
<1>2. DOMAIN Payload(c) = Extent(Offset(c), Size(c))
      /\ \A b \in DOMAIN Payload(c) : Payload(c)[b] = call[c].value
    BY DEF Payload
<1> QED
    BY <1>1, <1>2, CallPart

LEMMA DiskInsert ==
    ASSUME Shapes, Newest = written, Newest' = written', WorkerOnly, NEW c \in Callers, Inserts(c)
    PROVE  D!Next
<1>1. /\ call[c] # None /\ call[c].op = "write" /\ ~Nothing(c) /\ serving' = c
    BY InsertsWrite
<1>2. PICK data : Insert(c, data)
    BY InsertsWrite
<1>3. /\ wpc' \in {"drain", "ack"} /\ UNCHANGED <<call, reply, sync, stable>>
      /\ written' = [b \in Byte |-> IF b \in DOMAIN Payload(c) THEN Payload(c)[b] ELSE written[b]]
    BY <1>2 DEF Insert, WorkerOnly
<1>4. Waiting(c) /\ wpc \in {"select", "modify"}
    BY TakesWaiting, ServedIs DEF Inserts, InsertAligned, RmwInsert, Takes
<1>5. Performed = {}
    BY <1>4, PerformedNone
<1>6. Performed' = Performed \cup {c}
    BY <1>1, <1>3, <1>5, PerformedNext
<1>7. written' = [b \in Byte |-> IF b \in D!Part(c) THEN call[c].value ELSE written[b]]
    <2>1. DOMAIN Payload(c) = D!Part(c) /\ \A b \in D!Part(c) : Payload(c)[b] = call[c].value
        BY <1>1, WritePart
    <2> QED
        BY <1>3, <2>1
<1> QED
    BY <1>1, <1>3, <1>4, <1>5, <1>6, <1>7, DiskWrite

(* What the worker answers at once. *)
LEMMA DiskAtOnce ==
    ASSUME Shapes, Newest = written, Newest' = written', WorkerOnly, NEW c \in Callers,
           \/ ReadNothing(c) \/ ReadDirty(c) \/ WriteNothing(c)
           \/ Flush(c) /\ dirty = NoEntries
           \/ SetSyncWrites(c),
           ReadDirty(c) => Slice(Overlap(dirty, Start(c), Count(c)), c)
                              = [b \in D!Part(c) |-> written[b]],
           WriteNothing(c) /\ sync => stable = written,
           Flush(c) /\ dirty = NoEntries => stable = written
    PROVE  D!Next
<1>1. wpc = "select" /\ Waiting(c) /\ Performed = {}
    <2>1. \E op : Takes(c, op)
        BY DEF ReadNothing, ReadDirty, WriteNothing, Flush, SetSyncWrites, AnswersAtOnce
    <2>2. wpc = "select" /\ Waiting(c)
        BY <2>1, TakesWaiting
    <2> QED
        BY <2>2, PerformedNone
<1>2. ASSUME NEW data, Reply(c, TRUE, data)
      PROVE  /\ reply' = [reply EXCEPT ![c] = [ok |-> TRUE, data |-> data]]
             /\ Performed' = {}
    <2>1. reply' = [reply EXCEPT ![c] = [ok |-> TRUE, data |-> data]] /\ wpc' = "select"
        BY <1>2 DEF Reply, Outcome
    <2> QED
        BY <2>1, PerformedNoneNext
<1>3. UNCHANGED <<call, written, stable>>
    BY DEF ReadNothing, ReadDirty, WriteNothing, Flush, SetSyncWrites, AnswersAtOnce, DataRest,
           WorkerOnly, ghostVars
<1>4. CASE ReadNothing(c) \/ ReadDirty(c)
    <2>1. PICK data : /\ call[c].op = "read" /\ Reply(c, TRUE, data) /\ UNCHANGED sync
                      /\ data = [b \in D!Part(c) |-> written[b]]
        <3>1. CASE ReadNothing(c)
            <4>1. Reply(c, TRUE, <<>>) /\ call[c].op = "read" /\ UNCHANGED sync /\ Nothing(c)
                BY <3>1 DEF ReadNothing, AnswersAtOnce, Takes
            <4>2. D!Part(c) = {}
                BY <1>1, <4>1, CallPart DEF Waiting
            <4>3. <<>> = [b \in D!Part(c) |-> written[b]]
                BY <4>2
            <4> QED
                BY <4>1, <4>3
        <3>2. CASE ReadDirty(c)
            BY <3>2 DEF ReadDirty, Takes
        <3> QED
            BY <1>4, <3>1, <3>2
    <2> QED
        BY <1>1, <1>2, <1>3, <2>1, DiskRead
<1>5. CASE WriteNothing(c)
    <2>1. call[c].op = "write" /\ Reply(c, TRUE, <<>>) /\ UNCHANGED sync /\ Nothing(c)
        BY <1>5 DEF WriteNothing, AnswersAtOnce, Takes
    <2>2. D!Part(c) = {}
        BY <1>1, <2>1, CallPart DEF Waiting
    <2>3. Performed' = Performed \ {c}
        BY <1>1, <1>2, <2>1
    <2> QED
        BY <1>1, <1>2, <1>3, <1>5, <2>1, <2>2, <2>3, DiskAcknowledge
<1>6. CASE Flush(c) /\ dirty = NoEntries
    <2>1. call[c].op = "flush" /\ Reply(c, TRUE, <<>>) /\ UNCHANGED sync
        BY <1>6 DEF Flush, AnswersAtOnce, Takes
    <2> QED
        BY <1>1, <1>2, <1>3, <1>6, <2>1, DiskFlush
<1>7. CASE SetSyncWrites(c)
    <2>1. call[c].op = "setSync" /\ Reply(c, TRUE, <<>>) /\ sync' = call[c].value
        BY <1>7 DEF SetSyncWrites, Takes
    <2> QED
        BY <1>1, <1>2, <1>3, <2>1, DiskSetSync
<1> QED
    BY <1>4, <1>5, <1>6, <1>7

(* What the worker answers in the end. *)
LEMMA DiskInTheEnd ==
    ASSUME Shapes, Newest = written, Newest' = written', WorkerOnly,
           FinishRead \/ WriteCoalesced \/ SynchronizeCache,
           FinishRead => Slice(buffer, serving) = [b \in D!Part(serving) |-> written[b]],
           WriteCoalesced => ~sync,
           SynchronizeCache => media = written
    PROVE  D!Next
<1>1. UNCHANGED call
    BY DEF WorkerOnly
<1>2. ASSUME NEW data, Replies(TRUE, data)
      PROVE  /\ reply' = [reply EXCEPT ![serving] = [ok |-> TRUE, data |-> data]]
             /\ Performed' = {} /\ UNCHANGED sync
    <2>1. reply' = [reply EXCEPT ![serving] = [ok |-> TRUE, data |-> data]] /\ wpc' = "select"
          /\ UNCHANGED sync
        BY <1>2 DEF Replies, Reply, Outcome
    <2> QED
        BY <2>1, PerformedNoneNext
<1>3. CASE FinishRead
    <2>1. wpc = "chunk" /\ Replies(TRUE, Slice(buffer, serving)) /\ UNCHANGED <<stable, written>>
        BY <1>3 DEF FinishRead, ghostVars
    <2>2. serving \in Callers /\ Waiting(serving) /\ call[serving].op = "read"
        BY <2>1, WorkerFacts, ServedIs
    <2>3. Performed = {}
        BY <2>1, PerformedNone
    <2>4. Slice(buffer, serving) = [b \in D!Part(serving) |-> written[b]]
        BY <1>3
    <2> QED
        BY <1>1, <1>2, <2>1, <2>2, <2>3, <2>4, DiskRead
<1>4. CASE WriteCoalesced
    <2>1. wpc = "ack" /\ Replies(TRUE, <<>>) /\ UNCHANGED <<stable, written>> /\ ~sync
        BY <1>4 DEF WriteCoalesced, DataRest, ghostVars
    <2>2. serving \in Callers /\ Waiting(serving) /\ call[serving].op = "write"
        BY <2>1, WorkerFacts, ServedIs
    <2>3. serving \in Performed /\ Performed \subseteq {serving}
        BY <2>1, <2>2, PerformedIs DEF Performs
    <2>4. Performed' = Performed \ {serving}
        BY <1>2, <2>1, <2>3
    <2> QED
        BY <1>1, <1>2, <2>1, <2>2, <2>3, <2>4, DiskAcknowledge
<1>5. CASE SynchronizeCache
    <2>1. wpc = "await" /\ FlushReturns(TRUE) /\ stable' = written /\ UNCHANGED written
        BY <1>5 DEF SynchronizeCache, FlushReturns
    <2>2. CASE serving \notin Callers
        <3>1. serving = "timer" \/ serving = "close"
            BY <2>1, <2>2, WorkerFacts
        <3>2. UNCHANGED <<reply, sync>> /\ serving' \in {None, "close"}
            BY <2>1, <3>1, Apart DEF FlushReturns, Goes
        <3>3. Performed = {} /\ Performed' = {}
            BY <2>2, <3>2, Apart, PerformedNone, PerformedNoneNext
        <3> QED
            BY <1>1, <2>1, <3>2, <3>3, DiskWriteBack
    <2>3. CASE serving \in Callers
        <3>1. Waiting(serving) /\ call[serving].op \in {"write", "flush"}
              /\ serving # "timer" /\ serving # "close"
            BY <2>1, <2>3, ServedIs, Apart
        <3>2. Replies(TRUE, <<>>)
            BY <2>1, <3>1 DEF FlushReturns
        <3>3. CASE call[serving].op = "write"
            <4>1. serving \in Performed /\ Performed \subseteq {serving}
                BY <2>1, <2>3, <3>3, PerformedIs DEF Performs
            <4>2. Performed' = Performed \ {serving}
                BY <1>2, <3>2, <4>1
            <4> QED
                BY <1>1, <1>2, <2>1, <2>3, <3>1, <3>2, <3>3, <4>1, <4>2, DiskAcknowledge
        <3>4. CASE call[serving].op = "flush"
            <4>1. Performed = {}
                BY <3>4, PerformedNone
            <4> QED
                BY <1>1, <1>2, <2>1, <2>3, <3>1, <3>2, <3>4, <4>1, DiskFlush
        <3> QED
            BY <3>1, <3>3, <3>4
    <2> QED
        BY <2>2, <2>3
<1> QED
    BY <1>3, <1>4, <1>5

(* The readahead task wakes a worker that waits for it with its chunk. *)
LEMMA NeverJoinsFailure ==
    ASSUME Shapes, MayFail = FALSE, wpc # "joinFailed", [Next]_vars
    PROVE  wpc' # "joinFailed"
<1>1. CASE PrefetchTask
    <2>1. ~(PrefetchFails /\ wpc = "joined")
        BY WorkerFacts DEF PrefetchFails, Wanted
    <2> QED
        BY <1>1, <2>1 DEF PrefetchTask, PrefetchHit, PrefetchFetch, PrefetchInsert, PrefetchFails,
                          PrefetchEnds, Wakes
<1>2. CASE Worker
    BY <1>2 DEF Worker, Serve, ReadNothing, ReadDirty, ReadThroughCache, WriteNothing, InsertAligned,
       RmwRead, RmwReadFails, Flush, SetSyncWrites, AnswersAtOnce, Reply, Serves, Continue, ChunkHit,
       ChunkFetch, ChunkJoin, ChunkFetchFails, FinishRead, RmwInsert, Insert, WriteCoalesced, Drain,
       FlushFails, SynchronizeCache, SynchronizeFails, Failure, FlushReturns, ChannelClosed, Unasked,
       Goes, Replies
<1>3. CASE ~PrefetchTask /\ ~Worker
    BY <1>3 DEF Next, Calls, CallRead, CallWrite, CallFlush, CallSetSync, Call, Return, Close,
       DeviceRest, Timer, CoalesceTimer, Unasked, Serves, Target, WriteLands, WriteSucceeds,
       WriteFails, StrayLands, TargetOnly, Evict, workVars, vars
<1> QED
    BY <1>1, <1>2, <1>3

(* A device whose newest data is what was written last, and whose flushes  *)
(* find it all on the target, takes the steps of a disk.                   *)
LEMMA DiskStep ==
    ASSUME Shapes, Newest = written, Newest' = written', MayFail = FALSE, [Next]_vars,
           \A c \in Callers : ReadDirty(c) =>
              Slice(Overlap(dirty, Start(c), Count(c)), c) = [b \in D!Part(c) |-> written[b]],
           FinishRead => Slice(buffer, serving) = [b \in D!Part(serving) |-> written[b]],
           \A c \in Callers : WriteNothing(c) /\ sync => stable = written,
           wpc = "select" /\ dirty = NoEntries => stable = written,
           wpc = "ack" => ~sync,
           SynchronizeCache => media = written,
           ~ChunkFetchFails, ~FlushFails
    PROVE  [D!Next]_D!vars
<1>1. CASE Worker
    <2>1. WorkerOnly
        BY <1>1 DEF Worker
    <2>2. ASSUME NEW c \in Callers, Serve(c) PROVE [D!Next]_D!vars
        <3>1. CASE InsertAligned(c)
            BY <2>1, <3>1, DiskInsert DEF Inserts
        <3>2. CASE ReadThroughCache(c) \/ RmwRead(c) \/ (Flush(c) /\ dirty # NoEntries)
            BY <2>1, <3>2, DiskUnseen
        <3>3. CASE \/ ReadNothing(c) \/ ReadDirty(c) \/ WriteNothing(c)
                   \/ Flush(c) /\ dirty = NoEntries
                   \/ SetSyncWrites(c)
            <4>1. Flush(c) /\ dirty = NoEntries => wpc = "select"
                BY DEF Flush, AnswersAtOnce, Takes
            <4>2. D!Next
                BY <2>1, <3>3, <4>1, DiskAtOnce
            <4> QED
                BY <4>2
        <3>4. ~RmwReadFails(c)
            BY DEF RmwReadFails
        <3> QED
            BY <2>2, <3>1, <3>2, <3>3, <3>4 DEF Serve
    <2>3. CASE Continue
        <3>1. CASE RmwInsert
            <4>1. serving \in Callers
                BY <3>1, WorkerFacts DEF RmwInsert
            <4>2. Inserts(serving)
                BY <3>1 DEF Inserts
            <4> QED
                BY <2>1, <4>1, <4>2, DiskInsert
        <3>2. CASE ChunkHit \/ ChunkFetch \/ ChunkJoin \/ Drain \/ ChannelClosed
            BY <2>1, <3>2, DiskUnseen
        <3>3. CASE FinishRead \/ WriteCoalesced \/ SynchronizeCache
            <4>1. WriteCoalesced => ~sync
                BY DEF WriteCoalesced
            <4>2. D!Next
                BY <2>1, <3>3, <4>1, DiskInTheEnd
            <4> QED
                BY <4>2
        <3>4. ~SynchronizeFails
            BY DEF SynchronizeFails
        <3> QED
            BY <2>3, <3>1, <3>2, <3>3, <3>4 DEF Continue
    <2> QED
        BY <1>1, <2>2, <2>3 DEF Worker
<1>2. CASE Timer
    BY <1>2, DiskUnseen DEF Timer
<1>3. CASE Close \/ PrefetchTask \/ Target \/ (\E k \in DOMAIN cache : Evict(k))
           \/ (\E w \in strays : StrayLands(w))
    BY <1>3, DiskUnseen
<1>4. ASSUME NEW c \in Callers, Calls(c) \/ Return(c) PROVE [D!Next]_D!vars
    BY <1>4, DiskCall, DiskReturn
<1>5. CASE UNCHANGED vars
    <2>1. UNCHANGED <<call, reply, sync, written, stable, serving, wpc>>
        BY <1>5 DEF vars, callVars, workVars, ghostVars, diskVars
    <2>2. Performed' = Performed
        BY <2>1, PerformedSame
    <2> QED
        BY <2>1, <2>2, DiskStutter
<1> QED
    BY <1>1, <1>2, <1>3, <1>4, <1>5 DEF Next

LEMMA DiskInit ==
    ASSUME Init, Newest = written
    PROVE  D!Init
<1>1. Performed = {}
    BY Apart DEF Init, Performed
<1>2. Byte = D!Byte
    BY DEF Byte, TotalBytes, D!Byte, D!TotalBytes
<1> QED
    BY <1>1, <1>2 DEF Init, D!Init, Zeroes

UpToDate == Newest = written

CoalescedDiskInv == CoalescedReadInv /\ wpc # "joinFailed"

(* Where all buffers have the last data, it is the newest. *)
LEMMA NewestIs ==
    ASSUME Shapes,
           \A l \in DOMAIN dirty :
              l \in 0 .. TotalBlocks /\ \A b \in DOMAIN dirty[l] : dirty[l][b] = written[b],
           \A l \in DOMAIN flight :
              l \in 0 .. TotalBlocks /\ \A b \in DOMAIN flight[l].data : flight[l].data[b] = written[b],
           \A b \in Byte : \/ media[b] = written[b]
                           \/ \E l \in DOMAIN dirty : b \in DOMAIN dirty[l]
                           \/ \E l \in DOMAIN flight : b \in DOMAIN flight[l].data
                                                       /\ BlockOf(b) \in flight[l].left
    PROVE  Newest = written
<1>1. written = [b \in Byte |-> written[b]]
    BY DEF Shapes, TargetOK
<1>2. ASSUME NEW b \in Byte, Covering(dirty, b) # {}
      PROVE  dirty[Max(Covering(dirty, b))][b] = written[b]
    <2>1. \A l \in Covering(dirty, b) : l \in 0 .. TotalBlocks /\ dirty[l][b] = written[b]
        BY DEF Covering
    <2> QED
        BY <1>2, <2>1, Greatest
<1>3. ASSUME NEW b \in Byte, Unlanded(b) # {}
      PROVE  flight[Max(Unlanded(b))].data[b] = written[b]
    <2>1. \A l \in Unlanded(b) : l \in 0 .. TotalBlocks /\ flight[l].data[b] = written[b]
        BY DEF Unlanded
    <2> QED
        BY <1>3, <2>1, Greatest
<1>4. ASSUME NEW b \in Byte, Covering(dirty, b) = {}, Unlanded(b) = {}
      PROVE  media[b] = written[b]
    BY <1>4 DEF Covering, Unlanded
<1>5. \A b \in Byte : written[b] = IF Covering(dirty, b) # {} THEN dirty[Max(Covering(dirty, b))][b]
                                   ELSE IF Unlanded(b) # {} THEN flight[Max(Unlanded(b))].data[b]
                                   ELSE media[b]
    BY <1>2, <1>3, <1>4
<1> QED
    BY <1>1, <1>5, Zenon DEF Newest

(* The bytes a read inside the device asks for. *)
LEMMA ReadPart ==
    ASSUME Shapes, TotalBytes < Word, NEW c \in Callers, call[c] # None, call[c].op = "read",
           ~Nothing(c)
    PROVE  Extent(Offset(c), Size(c)) = D!Part(c) /\ Offset(c) + Size(c) <= TotalBytes
           /\ Size(c) # 0 /\ Size(c) \in Nat /\ Offset(c) \in Nat
<1> DEFINE o == call[c].offset
           s == call[c].size
           x == TotalBytes - o
<1>1. o \in Nat /\ s \in Nat /\ TotalBytes \in Nat /\ Offset(c) = o
    BY ChannelFacts, RequestTyped DEF TotalBytes, Offset
<1>2. x \in 0 .. Word - 1 /\ x # 0 /\ s # 0
    BY <1>1 DEF Nothing, Offset
<1>3. x % Word = x
    <2> HIDE DEF x
    <2> QED
        BY <1>2
<1>4. Size(c) = Lesser(s, x)
    BY <1>1, <1>3 DEF Size, ClampRead
<1>5. Size(c) <= x /\ Size(c) \in Nat /\ Size(c) # 0
    <2> HIDE DEF x, s
    <2> QED
        BY <1>1, <1>2, <1>4 DEF Lesser, s
<1> QED
    BY <1>1, <1>4, <1>5, CallPart

LEMMA CoalescedNewest ==
    ASSUME Shapes, Coalesced
    PROVE  Newest = written
<1>1. Accounted(dirty, flight, media, stable, written)
    BY CoalescedFacts
<1>2. \A l, data : LatestChunk(l, data, written) =>
         l \in 0 .. TotalBlocks /\ \A b \in DOMAIN data : data[b] = written[b]
    BY DEF LatestChunk, OnDevice
<1> QED
    BY <1>1, <1>2, NewestIs DEF Accounted

LEMMA CoalescedDiskStep ==
    ASSUME ChunkWrites, ReadsInChunks, MayFail = FALSE, TotalBytes < Word, CoalescedReadInv,
           wpc # "joinFailed", Newest = written, Newest' = written', [Next]_vars
    PROVE  [D!Next]_D!vars
<1>1. Shapes /\ AskedFor /\ Coalesced /\ ServesClean /\ ReadsOK
    BY DEF CoalescedReadInv
<1>2. Accounted(dirty, flight, media, stable, written) /\ (wpc = "ack" => ~sync)
    BY <1>1, CoalescedFacts
<1>3. written = [b \in Byte |-> written[b]] /\ stable = [b \in Byte |-> stable[b]]
      /\ media = [b \in Byte |-> media[b]]
    BY <1>1 DEF Shapes, TargetOK
<1>4. ASSUME NEW c \in Callers, call[c] # None, call[c].op = "read", ~Nothing(c), NEW data,
             \/ ReadDirty(c) /\ data = Slice(Overlap(dirty, Start(c), Count(c)), c)
             \/ serving = c /\ wpc = "chunk" /\ ~AtChunk /\ data = Slice(buffer, c)
      PROVE  data = [b \in D!Part(c) |-> written[b]]
    BY <1>1, <1>4, CoalescedAnswerIs, ReadPart
<1>5. ASSUME NEW c \in Callers, ReadDirty(c)
      PROVE  Slice(Overlap(dirty, Start(c), Count(c)), c) = [b \in D!Part(c) |-> written[b]]
    <2>1. call[c] # None /\ call[c].op = "read" /\ ~Nothing(c)
        BY <1>1, <1>5, TakesWaiting DEF ReadDirty
    <2> QED
        BY <1>4, <1>5, <2>1
<1>6. ASSUME FinishRead
      PROVE  Slice(buffer, serving) = [b \in D!Part(serving) |-> written[b]]
    <2>1. wpc = "chunk" /\ ~AtChunk
        BY <1>6 DEF FinishRead
    <2>2. serving \in Callers /\ call[serving] # None /\ call[serving].op = "read" /\ ~Nothing(serving)
        BY <1>1, <2>1, WorkerFacts, ServedIs DEF Waiting
    <2> QED
        BY <1>4, <2>1, <2>2
<1>7. ASSUME NEW c \in Callers PROVE ~WriteNothing(c)
    <2> SUFFICES ASSUME Takes(c, "write"), Nothing(c) PROVE FALSE
        BY DEF WriteNothing, AnswersAtOnce
    <2> QED
        BY <1>1, TakesWaiting, ChunkWriteIs
<1>8. ASSUME wpc = "select", dirty = NoEntries PROVE stable = written
    <2>1. DOMAIN flight = {} /\ DOMAIN dirty = {}
        BY <1>1, <1>8 DEF Shapes, FlightOK, NoEntries
    <2> QED
        BY <1>2, <1>3, <2>1 DEF Accounted
<1>9. ASSUME SynchronizeCache PROVE media = written
    <2>1. /\ wpc = "await" /\ \A l \in DOMAIN flight : flight[l].left = {}
        BY <1>2, <1>9 DEF SynchronizeCache, AllWritten, Accounted
    <2>2. DOMAIN dirty = {}
        BY <1>1, <2>1, CoalescedFacts DEF NoEntries
    <2> QED
        BY <1>2, <1>3, <2>1, <2>2 DEF Accounted
<1>10. ~ChunkFetchFails
    BY <1>1, AtItsChunk DEF ChunkFetchFails
<1>11. ~FlushFails
    BY <1>2 DEF FlushFails, FirstFailed, Accounted
<1> QED
    BY <1>1, <1>2, <1>5, <1>6, <1>7, <1>8, <1>9, <1>10, <1>11, DiskStep

LEMMA CoalescedDiskInit ==
    ASSUME Init
    PROVE  D!Init /\ CoalescedReadInv /\ wpc # "joinFailed"
<1>1. CoalescedReadInv
    BY CoalescedReadInit
<1>2. Newest = written
    BY <1>1, CoalescedNewest DEF CoalescedReadInv
<1> QED
    BY <1>1, <1>2, DiskInit DEF Init

(* A device that coalesces writes of chunks is a disk: no interleaving of   *)
(* callers, no write-back by the timer, no cached read shows.               *)
THEOREM CoalescedIsDisk ==
    ASSUME ChunkWrites, ReadsInChunks, MayFail = FALSE, TotalBytes < Word
    PROVE  Spec /\ []ReadaheadElsewhere => ImplementsDisk
<1>1. Init => D!Init /\ CoalescedDiskInv
    BY CoalescedDiskInit DEF CoalescedDiskInv
<1>2. CoalescedDiskInv => UpToDate
    BY CoalescedNewest DEF CoalescedDiskInv, CoalescedReadInv, UpToDate
<1>3. CoalescedDiskInv /\ ReadaheadElsewhere' /\ [Next]_vars => CoalescedDiskInv'
    BY CoalescedReadStep, NeverJoinsFailure DEF CoalescedDiskInv, CoalescedReadInv
<1>4. CoalescedDiskInv /\ UpToDate /\ UpToDate' /\ [Next]_vars => [D!Next]_D!vars
    BY CoalescedDiskStep DEF CoalescedDiskInv, UpToDate
<1> QED
    BY <1>1, <1>2, <1>3, <1>4, PTL DEF Spec, ImplementsDisk, D!Spec

\* Every read is one whole chunk of the device.
ChunkReads ==
    \A x \in Reads : \E k \in Lba :
        /\ ChunkAligned(k) /\ OnDevice(k)
        /\ x = <<k * BlockSize, ChunkBlocks * BlockSize>>

\* The readahead task finds nothing to do.
NoFetch == prefetch # None => prefetch.held = None /\ prefetch.next = prefetch.end

LEMMA WholeChunkRead ==
    ASSUME Shapes, AskedFor, ChunkReads, TotalBytes < Word, NEW c \in Callers, call[c] # None,
           call[c].op = "read", ~Nothing(c)
    PROVE  Start(c) \in Nat /\ ChunkAligned(Start(c)) /\ Count(c) = ChunkBlocks
<1>1. <<call[c].offset, call[c].size>> \in Reads
    BY DEF AskedFor
<1>2. PICK k \in Lba : /\ ChunkAligned(k) /\ OnDevice(k)
                       /\ call[c].offset = k * BlockSize
                       /\ call[c].size = ChunkBlocks * BlockSize
    BY <1>1 DEF ChunkReads
<1> DEFINE o == k * BlockSize
           s == ChunkBlocks * BlockSize
           x == TotalBytes - o
<1>3. k \in Nat /\ ChunkBlocks \in Nat \ {0} /\ k + ChunkBlocks <= TotalBlocks
    BY <1>2 DEF Lba, OnDevice
<1>4. /\ o \in Nat /\ s \in Nat \ {0} /\ o + s <= TotalBytes
      /\ StartLba(o) = k /\ BlockCount(o, s) = ChunkBlocks
    BY <1>3, WholeRange
<1>5. call[c].offset = o /\ call[c].size = s /\ TotalBytes \in Nat
    BY <1>2 DEF TotalBytes
<1> HIDE DEF o, s
<1>6. x \in 0 .. Word - 1 /\ s <= x
    BY <1>4, <1>5
<1>7. x % Word = x
    <2> HIDE DEF x
    <2> QED
        BY <1>6
<1>8. Offset(c) = o /\ Size(c) = s
    BY <1>5, <1>6, <1>7 DEF Offset, Size, ClampRead, Lesser
<1> QED
    BY <1>2, <1>3, <1>4, <1>8 DEF Start, Count

LEMMA ChunkReadsInChunks == ChunkReads => ReadsInChunks
<1> SUFFICES ASSUME ChunkReads, NEW x \in Reads
             PROVE  \E k \in Nat : ChunkAligned(k) /\ OnDevice(k)
                                   /\ Extent(x[1], x[2]) \subseteq BytesOf(k, ChunkBlocks)
    BY DEF ReadsInChunks
<1>1. PICK k \in Lba : /\ ChunkAligned(k) /\ OnDevice(k)
                       /\ x = <<k * BlockSize, ChunkBlocks * BlockSize>>
    BY DEF ChunkReads
<1>2. k \in Nat /\ ChunkBlocks \in Nat \ {0} /\ k + ChunkBlocks <= TotalBlocks
    BY <1>1 DEF Lba, OnDevice
<1>3. Extent(x[1], x[2]) = BytesOf(k, ChunkBlocks)
    BY <1>1, <1>2, WholeRange
<1> QED
    BY <1>1, <1>2, <1>3

LEMMA NoFetchStep ==
    ASSUME Shapes, AskedFor, ChunkReads, TotalBytes < Word, RaMax = 0, NoFetch, [Next]_vars
    PROVE  NoFetch'
<1>1. UNCHANGED prefetch => NoFetch'
    BY DEF NoFetch
<1>2. CASE FinishRead
    <2>1. wpc = "chunk" /\ Readahead(Start(serving), Count(serving))
        BY <1>2 DEF FinishRead
    <2>2. serving \in Callers /\ call[serving] # None /\ call[serving].op = "read" /\ ~Nothing(serving)
        BY <2>1, WorkerFacts, ServedIs DEF Waiting
    <2> DEFINE end == Start(serving) + Count(serving)
               window == Lesser(raWindow * 2, RaMax)
    <2>3. Start(serving) \in Nat /\ ChunkAligned(Start(serving)) /\ Count(serving) = ChunkBlocks
        BY <2>2, WholeChunkRead
    <2>4. end \in Nat /\ ChunkAligned(end) /\ end \in end .. end + ChunkBlocks - 1
        BY <2>3, AlignedChunk
    <2>5. window = 0
        <3>1. raWindow \in Nat
            BY CacheFacts
        <3> QED
            BY <3>1 DEF Lesser
    <2> HIDE DEF window, end
    <2>6. ChunkLba(end) = end /\ end + window = end
        BY <2>4, <2>5, AlignedChunk
    <2>7. UNCHANGED prefetch
          \/ prefetch' = [next |-> ChunkLba(end), held |-> None, end |-> end + window]
        BY <2>1 DEF Readahead, end, window
    <2>8. ASSUME prefetch' = [next |-> ChunkLba(end), held |-> None, end |-> end + window]
          PROVE  prefetch'.held = None /\ prefetch'.next = prefetch'.end
        BY <2>4, <2>6, <2>8
    <2>9. CASE prefetch' = [next |-> ChunkLba(end), held |-> None, end |-> end + window]
        <3>1. prefetch'.held = None /\ prefetch'.next = prefetch'.end
            BY <2>8, <2>9
        <3> QED
            BY <3>1 DEF NoFetch
    <2> QED
        BY <1>1, <2>7, <2>9
<1>3. CASE PrefetchTask
    <2>1. prefetch # None
        BY <1>3 DEF PrefetchTask, PrefetchHit, PrefetchFetch, PrefetchInsert, PrefetchFails,
                    PrefetchEnds, PrefetchOnly
    <2>2. prefetch.held = None /\ ~(prefetch.next < prefetch.end)
        BY <2>1, CacheFacts DEF NoFetch
    <2>3. prefetch' = None
        BY <1>3, <2>2 DEF PrefetchTask, PrefetchHit, PrefetchFetch, PrefetchInsert, PrefetchFails,
                          PrefetchEnds, Wanted
    <2> QED
        BY <2>3 DEF NoFetch
<1>4. CASE ~FinishRead /\ ~PrefetchTask
    <2>1. UNCHANGED prefetch
        <3>1. CASE Worker
            BY <1>4, <3>1 DEF Worker, Serve, ReadNothing, ReadDirty, ReadThroughCache, WriteNothing,
               InsertAligned, RmwRead, RmwReadFails, Flush, SetSyncWrites, AnswersAtOnce, Continue,
               ChunkHit, ChunkFetch, ChunkJoin, ChunkFetchFails, RmwInsert, Insert, WriteCoalesced,
               Drain, FlushFails, SynchronizeCache, SynchronizeFails, Failure, FlushReturns,
               ChannelClosed, Unasked, DataRest
        <3>2. CASE ~Worker
            BY <1>4, <3>2 DEF Next, Calls, CallRead, CallWrite, CallFlush, CallSetSync, Call, Return,
               Close, DeviceRest, Timer, CoalesceTimer, Unasked, DataRest, Target, WriteLands,
               WriteSucceeds, WriteFails, StrayLands, TargetOnly, Evict, vars
        <3> QED
            BY <3>1, <3>2
    <2> QED
        BY <1>1, <2>1
<1> QED
    BY <1>2, <1>3, <1>4

LEMMA NothingAhead ==
    ASSUME ChunkReads, TotalBytes < Word, RaMax = 0
    PROVE  Spec => []ReadaheadElsewhere
<1>1. Init => Shapes /\ AskedFor /\ NoFetch
    BY ShapesInit, AskedForInit DEF Init, NoFetch
<1>2. Shapes /\ AskedFor /\ NoFetch /\ [Next]_vars => (Shapes /\ AskedFor /\ NoFetch)'
    BY ShapesStep, AskedForStep, NoFetchStep
<1>3. NoFetch => ReadaheadElsewhere
    BY DEF NoFetch, ReadaheadElsewhere, Fetching
<1> QED
    BY <1>1, <1>2, <1>3, PTL DEF Spec

(* Without readahead nothing has to be asked of a behaviour: a device that  *)
(* coalesces, reads and writes chunks on a target that does not fail is a   *)
(* disk.                                                                    *)
THEOREM ChunkwiseIsDisk ==
    ASSUME ChunkWrites, ChunkReads, RaMax = 0, MayFail = FALSE, TotalBytes < Word
    PROVE  Spec => ImplementsDisk
<1>1. ReadsInChunks
    BY ChunkReadsInChunks
<1>2. Spec => []ReadaheadElsewhere
    BY NothingAhead
<1>3. Spec /\ []ReadaheadElsewhere => ImplementsDisk
    BY <1>1, CoalescedIsDisk
<1> QED
    BY <1>2, <1>3, PTL

----------------------------------------------------------------------------
(* A device in sync mode as a disk *)

NothingFailed ==
    /\ wpc # "joinFailed" /\ doubtful = {}
    /\ \A l \in DOMAIN flight : flight[l].status # "failed"

LEMMA NothingFails ==
    ASSUME Shapes, MayFail = FALSE, NothingFailed, [Next]_vars
    PROVE  NothingFailed'
<1>1. wpc' # "joinFailed"
    BY NeverJoinsFailure DEF NothingFailed
<1>2. ~FlushFails /\ ~SynchronizeFails
    BY DEF NothingFailed, FlushFails, FirstFailed, SynchronizeFails
<1>3. UNCHANGED <<doubtful, flight>> => NothingFailed'
    BY <1>1 DEF NothingFailed
<1>4. CASE Drain /\ WorkerOnly
    <2>1. UNCHANGED doubtful
        BY <1>4 DEF Drain, ghostVars
    <2> QED
        BY <1>1, <1>4, <2>1, Drained DEF NothingFailed
<1>5. CASE SynchronizeCache
    BY <1>1, <1>5 DEF NothingFailed, SynchronizeCache, FlushReturns
<1>6. CASE Target
    <2>1. PICK l \in DOMAIN flight : WriteLands(l) \/ WriteSucceeds(l)
        BY <1>6 DEF Target, WriteFails
    <2>2. PICK left : \/ flight' = [flight EXCEPT ![l].left = left]
                      \/ flight' = [flight EXCEPT ![l].status = "ok"]
        BY <2>1 DEF WriteLands, WriteSucceeds
    <2>3. flight[l] = [data |-> flight[l].data, left |-> flight[l].left, status |-> flight[l].status]
        BY FlightFacts
    <2>4. /\ DOMAIN flight' = DOMAIN flight
          /\ flight'[l].status \in {flight[l].status, "ok"}
          /\ \A k \in DOMAIN flight : k # l => flight'[k] = flight[k]
        BY <2>2, <2>3
    <2>5. UNCHANGED doubtful
        BY <2>1 DEF WriteLands, WriteSucceeds, TargetOnly, ghostVars
    <2> QED
        BY <1>1, <2>4, <2>5 DEF NothingFailed
<1>7. CASE Worker /\ ~Drain /\ ~SynchronizeCache
    BY <1>2, <1>3, <1>7 DEF Worker, Serve, ReadNothing, ReadDirty, ReadThroughCache, WriteNothing,
       InsertAligned, RmwRead, RmwReadFails, Flush, SetSyncWrites, AnswersAtOnce, Continue, ChunkHit,
       ChunkFetch, ChunkJoin, ChunkFetchFails, FinishRead, RmwInsert, Insert, WriteCoalesced,
       ChannelClosed, Unasked, DataRest, ghostVars
<1>8. CASE ~Worker /\ ~Target
    BY <1>3, <1>8 DEF Next, Calls, CallRead, CallWrite, CallFlush, CallSetSync, Call, Return, Close,
       DeviceRest, Timer, CoalesceTimer, Unasked, DataRest, PrefetchTask, PrefetchHit, PrefetchFetch,
       PrefetchInsert, PrefetchFails, PrefetchEnds, PrefetchOnly, StrayLands, TargetOnly, Evict,
       ghostVars, vars
<1> QED
    BY <1>4, <1>5, <1>6, <1>7, <1>8 DEF Worker

LEMMA SyncNewest ==
    ASSUME Shapes, InSync, NothingFailed
    PROVE  Newest = written
<1>1. \A data, b : Right(data, b, written, doubtful) <=> data[b] = written[b]
    BY DEF NothingFailed, Right
<1>2. ASSUME NEW data, WholeBlocks(data), NEW b \in Byte, BlockOf(b) \in BlocksIn(data)
      PROVE  b \in DOMAIN data
    BY <1>2 DEF WholeBlocks, BlocksIn
<1>3. CASE wpc = "drain"
    <2>1. PICK c \in Callers : serving = c
        BY <1>3, WorkerFacts, InSyncFacts
    <2>2. /\ DOMAIN dirty = {Start(c)} /\ call[c].op = "write"
          /\ Delivering(BytesOf(Start(c), Count(c)), dirty[Start(c)],
                        BlocksIn(dirty[Start(c)]), media, stable, written, doubtful)
        BY <1>3, <2>1, InSyncFacts
    <2>3. Start(c) \in 0 .. TotalBlocks
        <3>1. call[c] # None /\ ~Nothing(c)
            BY <2>1, <2>2, ServedIs, Apart
        <3> QED
            BY <2>2, <3>1, WriteBytes
    <2>4. WholeBlocks(dirty[Start(c)])
        BY <2>2 DEF Shapes, DirtyOK
    <2>5. DOMAIN flight = {}
        BY <1>3 DEF Shapes, FlightOK
    <2>6. \A b \in Byte : media[b] = written[b] \/ b \in DOMAIN dirty[Start(c)]
        BY <1>1, <1>2, <2>2, <2>4 DEF Delivering
    <2>7. \A b \in DOMAIN dirty[Start(c)] : dirty[Start(c)][b] = written[b]
        BY <1>1, <2>2 DEF Delivering
    <2> QED
        BY <2>2, <2>3, <2>5, <2>6, <2>7, NewestIs
<1>4. CASE wpc = "await"
    <2> DEFINE c == serving
    <2>1. /\ DOMAIN flight = {Start(c)} /\ call[c].op = "write" /\ call[c] # None /\ ~Nothing(c)
          /\ Delivering(BytesOf(Start(c), Count(c)), flight[Start(c)].data,
                        flight[Start(c)].left, media, stable, written, doubtful)
          /\ c \in Callers
        BY <1>4, SyncAwait
    <2>2. Start(c) \in 0 .. TotalBlocks
        BY <2>1, WriteBytes
    <2>3. WholeBlocks(flight[Start(c)].data)
          /\ flight[Start(c)].left \subseteq BlocksIn(flight[Start(c)].data)
        BY <2>1, FlightFacts
    <2>4. DOMAIN dirty = {}
        BY <1>4, InSyncFacts DEF NoEntries
    <2>5. \A b \in Byte : media[b] = written[b]
                          \/ (b \in DOMAIN flight[Start(c)].data /\ BlockOf(b) \in flight[Start(c)].left)
        BY <1>1, <1>2, <2>1, <2>3 DEF Delivering
    <2>6. \A b \in DOMAIN flight[Start(c)].data : flight[Start(c)].data[b] = written[b]
        BY <1>1, <2>1 DEF Delivering
    <2> HIDE DEF c
    <2> QED
        BY <2>1, <2>2, <2>4, <2>5, <2>6, NewestIs
<1>5. CASE wpc \notin {"drain", "await"}
    <2>1. DOMAIN dirty = {} /\ DOMAIN flight = {}
        BY <1>5, InSyncFacts DEF Shapes, FlightOK, NoEntries
    <2>2. \A b \in Byte : media[b] = written[b]
        BY <1>1, <1>5, InSyncFacts DEF BothRight
    <2> QED
        BY <2>1, <2>2, NewestIs
<1> QED
    BY <1>3, <1>4, <1>5

(* On a device of whole chunks read_blocks comes to no part of one. *)
LEMMA ChunkOnDevice ==
    ASSUME Shapes, ReadsOK, TotalBytes < Word, ChunkAligned(TotalBlocks), AtChunk
    PROVE  OnDevice(chunk)
<1>1. wpc = "chunk" /\ chunk <= LastChunk(Start(serving), Count(serving))
    BY DEF AtChunk
<1>2. PICK c \in Callers : serving = c
    BY <1>1, WorkerFacts
<1>3. call[c] # None /\ call[c].op = "read" /\ ~Nothing(c)
    BY <1>1, <1>2, ServedIs DEF Waiting
<1>4. Offset(c) \in Nat /\ Size(c) \in Nat /\ Size(c) # 0 /\ Offset(c) + Size(c) <= TotalBytes
    BY <1>3, ReadPart
<1>5. /\ Start(c) \in Nat /\ Count(c) \in Nat /\ Count(c) # 0
      /\ Start(c) + Count(c) <= TotalBlocks
    BY <1>4, Alignment DEF Start, Count
<1> DEFINE last == Start(c) + Count(c) - 1
<1>6. last \in Nat /\ last < TotalBlocks /\ LastChunk(Start(c), Count(c)) = ChunkLba(last)
    BY <1>5 DEF LastChunk
<1> HIDE DEF last
<1>7. chunk \in Nat /\ ChunkAligned(chunk) /\ chunk < TotalBlocks
    <2>1. ChunkLba(last) \in Nat /\ ChunkLba(last) <= last
        BY <1>6, ChunkLbaNat
    <2> QED
        BY <1>1, <1>2, <1>6, <2>1, WorkerFacts, ReadsFacts
<1>8. TotalBlocks \in TotalBlocks .. TotalBlocks + ChunkBlocks - 1
    OBVIOUS
<1>9. ChunkLba(TotalBlocks) = TotalBlocks
    BY <1>8, AlignedChunk
<1>10. ~(TotalBlocks \in chunk .. chunk + ChunkBlocks - 1)
    BY <1>7, <1>9, AlignedChunk
<1> QED
    BY <1>7, <1>10 DEF OnDevice

SyncDiskInv == Shapes /\ InSync /\ ReadsOK /\ NothingFailed

LEMMA SyncDiskStep ==
    ASSUME MayFail = FALSE, TotalBytes < Word, ChunkAligned(TotalBlocks), SyncDiskInv,
           Newest = written, Newest' = written', [Next]_vars
    PROVE  [D!Next]_D!vars
<1>1. Shapes /\ InSync /\ ReadsOK /\ NothingFailed
    BY DEF SyncDiskInv
<1>2. \A data, b : Right(data, b, written, doubtful) <=> data[b] = written[b]
    BY <1>1 DEF NothingFailed, Right
<1>3. written = [b \in Byte |-> written[b]] /\ stable = [b \in Byte |-> stable[b]]
      /\ media = [b \in Byte |-> media[b]]
    BY <1>1 DEF Shapes, TargetOK
<1>4. ASSUME NEW c \in Callers PROVE ~ReadDirty(c)
    <2> SUFFICES ASSUME wpc = "select", Overlaps(dirty, Start(c), Count(c)) PROVE FALSE
        BY DEF ReadDirty, Takes
    <2>1. dirty = NoEntries
        BY <1>1, InSyncFacts
    <2>2. AtOrBefore(dirty, Start(c)) = {}
        BY <2>1 DEF AtOrBefore, NoEntries
    <2> QED
        BY <2>2 DEF Overlaps
<1>5. ASSUME FinishRead
      PROVE  Slice(buffer, serving) = [b \in D!Part(serving) |-> written[b]]
    <2>1. wpc = "chunk" /\ ~AtChunk
        BY <1>5 DEF FinishRead
    <2>2. PICK c \in Callers : serving = c
        BY <1>1, <2>1, WorkerFacts
    <2>3. call[c] # None /\ call[c].op = "read" /\ ~Nothing(c)
          /\ call[c].offset \in Nat /\ call[c].size \in Nat
        BY <1>1, <2>1, <2>2, ServedIs DEF Waiting
    <2>4. Extent(Offset(c), Size(c)) = D!Part(c)
        BY <1>1, <2>3, ReadPart
    <2>5. \A b \in Extent(Offset(c), Size(c)) : buffer[b] = written[b]
        BY <1>1, <1>2, <2>1, <2>2, <2>3, AssembledRight
    <2> QED
        BY <2>2, <2>4, <2>5 DEF Slice, Restrict
<1>6. ASSUME wpc = "select" PROVE stable = written
    <2>1. \A b \in Byte : stable[b] = written[b]
        BY <1>1, <1>2, <1>6, InSyncFacts DEF BothRight
    <2> QED
        BY <1>3, <2>1
<1>7. ASSUME NEW c \in Callers, WriteNothing(c) PROVE stable = written
    BY <1>6, <1>7 DEF WriteNothing, AnswersAtOnce, Takes
<1>8. ASSUME SynchronizeCache PROVE media = written
    <2>1. wpc = "await" /\ AllWritten
        BY <1>8 DEF SynchronizeCache
    <2>2. /\ DOMAIN flight = {Start(serving)}
          /\ Delivering(BytesOf(Start(serving), Count(serving)), flight[Start(serving)].data,
                        flight[Start(serving)].left, media, stable, written, doubtful)
        BY <1>1, <2>1, SyncAwait
    <2>3. flight[Start(serving)].left = {}
        BY <1>1, <2>1, <2>2, InSyncFacts DEF AllWritten
    <2>4. \A b \in Byte : media[b] = written[b]
        BY <1>2, <2>2, <2>3 DEF Delivering
    <2> QED
        BY <1>3, <2>4
<1>9. ~ChunkFetchFails
    BY <1>1, ChunkOnDevice DEF ChunkFetchFails, NothingFailed
<1>10. ~FlushFails
    BY <1>1 DEF FlushFails, FirstFailed, NothingFailed
<1>11. wpc # "ack"
    BY <1>1, InSyncFacts
<1> QED
    BY <1>1, <1>4, <1>5, <1>6, <1>7, <1>8, <1>9, <1>10, <1>11, DiskStep

(* In sync mode any device of whole chunks is a disk, whatever is read and  *)
(* written, aligned or not, cached, evicted and read ahead, as long as no   *)
(* fetch of the readahead task is under way while a write is served.        *)
THEOREM SyncIsDisk ==
    ASSUME AlwaysInSync, MayFail = FALSE, TotalBytes < Word, ChunkAligned(TotalBlocks)
    PROVE  Spec /\ []ReadaheadApart => ImplementsDisk
<1>1. ASSUME Init PROVE SyncDiskInv
    <2>1. Shapes /\ InSync /\ ReadsOK
        BY <1>1, ShapesInit, SyncInit, ReadsInit
    <2>2. wpc = "select" /\ doubtful = {} /\ flight = <<>>
        BY <1>1 DEF Init
    <2>3. DOMAIN flight = {}
        BY <2>2
    <2> QED
        BY <2>1, <2>2, <2>3 DEF SyncDiskInv, NothingFailed
<1>2. SyncDiskInv => UpToDate
    BY SyncNewest DEF SyncDiskInv, UpToDate
<1>3. Init => D!Init
    BY <1>1, <1>2, DiskInit DEF UpToDate
<1>4. SyncDiskInv /\ ReadaheadApart' /\ [Next]_vars => SyncDiskInv'
    BY ShapesStep, SyncStep, SyncReadsStep, NothingFails DEF SyncDiskInv
<1>5. SyncDiskInv /\ UpToDate /\ UpToDate' /\ [Next]_vars => [D!Next]_D!vars
    BY SyncDiskStep DEF UpToDate
<1> QED
    BY <1>1, <1>2, <1>3, <1>4, <1>5, PTL DEF Spec, ImplementsDisk, D!Spec
=============================================================================
