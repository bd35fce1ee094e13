---------------------------- MODULE BlockDevice ----------------------------
(***************************************************************************)
(* The block device (crates/iscsi-lib/src/block): callers that block on a  *)
(* reply, the channel of requests, the one worker task that serves them    *)
(* with a write coalescing buffer and a cache of chunks, the write tasks a *)
(* flush spawns and the readahead task.                                    *)
(*                                                                         *)
(* The worker holds one request at a time, and a step of it ends where it  *)
(* awaits the target or another task.  A read of the target returns what   *)
(* is there at one instant; a write lands block by block, in any order, at *)
(* any time after it was issued, also after its task has reported an error *)
(* (a timed-out command may still be executed) or nobody awaits it any     *)
(* more.  SYNCHRONIZE CACHE makes persistent what has landed.              *)
(*                                                                         *)
(* The bytes of a write all carry the number of the write; 0 is what the   *)
(* device held at first.  written and doubtful are history: the contents   *)
(* of a device that never fails, and the blocks a call has told its caller *)
(* it failed on.                                                           *)
(***************************************************************************)
EXTENDS DirtyMap, Sequences

CONSTANTS
    Callers,        \* threads that use the device
    None,
    Reads,          \* <<offset, size>> of the reads they make
    Writes,         \* <<offset, size>> of the writes they make
    SyncModes,      \* arguments of set_sync_writes
    QueueBound,     \* capacity of the channel (256)
    CoalesceMax,    \* coalesce_max_bytes
    SyncAtStart,    \* sync_writes when the device is spawned
    RaMin, RaMax,   \* readahead window limits, in blocks
    MaxWrites,      \* bound: writes the callers make
    MayFail         \* commands to the target may fail

\* What a caller may ask.
Request ==
    [op : {"read", "write", "flush"}, offset : Nat, size : Nat, value : 0 .. MaxWrites]
    \cup [op : {"setSync"}, offset : Nat, size : Nat, value : BOOLEAN]

ASSUME BlockDeviceAssumption ==
    /\ None \notin Callers \cup {"timer", "close"} \cup Request
    /\ Callers \cap {"timer", "close"} = {}
    /\ Reads \subseteq Nat \X Nat
    /\ Writes \subseteq Nat \X Nat
    /\ SyncModes \subseteq BOOLEAN
    /\ QueueBound \in Nat \ {0}
    /\ CoalesceMax \in Nat
    /\ SyncAtStart \in BOOLEAN
    /\ RaMin \in Nat /\ RaMax \in Nat
    /\ MaxWrites \in Nat
    /\ MayFail \in BOOLEAN

VARIABLES
    call, reply,   \* what each caller has asked, and has been answered
    queue,         \* callers whose requests are in the channel, in order
    closed,        \* all handles of the device have been dropped
    \* the worker
    wpc,           \* where it is
    serving,       \* the caller it serves, "timer", "close" or None
    chunk,         \* read_blocks: the chunk it has come to
    buffer,        \* read_blocks: assembled; handle_write: write_data
    sync,          \* sync_writes
    dirty,         \* DirtyMap entries
    dirtyBytes,    \* DirtyMap total_bytes
    \* the tasks it spawns
    flight,        \* the writes of the flush that is being awaited, by lba
    strays,        \* writes that nobody awaits any more
    prefetch,      \* the readahead task; None when ra_inflight is clear
    \* the cache
    cache,         \* cached chunks
    lastLba, raWindow, raStart,
    \* the target (external)
    media,         \* what a READ returns
    stable,        \* what a power failure leaves
    \* history
    writes, written, doubtful

callVars  == <<call, reply, queue, closed>>
dirtyVars == <<dirty, dirtyBytes>>
raVars    == <<lastLba, raWindow, raStart>>
diskVars  == <<media, stable>>
ghostVars == <<written, doubtful>>
workVars  == <<wpc, serving, chunk, buffer, sync>>
vars == <<callVars, workVars, dirtyVars, flight, strays, prefetch, cache,
          raVars, diskVars, writes, ghostVars>>

Zeroes == [b \in Byte |-> 0]

Init ==
    /\ call = [c \in Callers |-> None]
    /\ reply = [c \in Callers |-> None]
    /\ queue = <<>>
    /\ closed = FALSE
    /\ wpc = "select" /\ serving = None
    /\ chunk = 0 /\ buffer = <<>>
    /\ sync = SyncAtStart
    /\ dirty = NoEntries /\ dirtyBytes = 0
    /\ flight = <<>> /\ strays = {}
    /\ prefetch = None
    /\ cache = <<>>
    /\ lastLba = None /\ raWindow = RaMin /\ raStart = 0
    /\ media = Zeroes /\ stable = Zeroes
    /\ writes = 0 /\ written = Zeroes /\ doubtful = {}

----------------------------------------------------------------------------
(* Callers: read_bytes, write_bytes, flush, set_sync_writes *)

Ask(op, offset, size, value) ==
    [op |-> op, offset |-> offset, size |-> size, value |-> value]

DeviceRest == UNCHANGED <<workVars, dirtyVars, flight, strays, prefetch, raVars,
                          diskVars, ghostVars>>

\* send().await waits while the channel is full; the caller then blocks on
\* the reply.
Call(c, request) ==
    /\ call[c] = None /\ ~closed
    /\ Len(queue) < QueueBound
    /\ call' = [call EXCEPT ![c] = request]
    /\ queue' = Append(queue, c)
    /\ DeviceRest /\ UNCHANGED <<reply, closed, cache>>

CallRead(c) ==
    /\ \E x \in Reads : Call(c, Ask("read", x[1], x[2], 0))
    /\ UNCHANGED writes

CallWrite(c) ==
    /\ writes < MaxWrites
    /\ writes' = writes + 1
    /\ \E x \in Writes : Call(c, Ask("write", x[1], x[2], writes'))

CallFlush(c) == Call(c, Ask("flush", 0, 0, 0)) /\ UNCHANGED writes

CallSetSync(c) ==
    /\ \E mode \in SyncModes : Call(c, Ask("setSync", 0, 0, mode))
    /\ UNCHANGED writes

Return(c) ==
    /\ reply[c] # None
    /\ reply' = [reply EXCEPT ![c] = None]
    /\ call' = [call EXCEPT ![c] = None]
    /\ DeviceRest /\ UNCHANGED <<queue, closed, cache, writes>>

\* A call borrows the handle, so the last one is dropped between calls.
Close ==
    /\ ~closed
    /\ \A c \in Callers : call[c] = None
    /\ closed' = TRUE
    /\ DeviceRest /\ UNCHANGED <<call, reply, queue, cache, writes>>

----------------------------------------------------------------------------
(* The worker: run *)

\* What no step of the worker changes, and what a step that moves no data and
\* makes no call of the cache leaves alone as well.
WorkerOnly == UNCHANGED <<call, closed, media, writes>>
DataRest == UNCHANGED <<dirtyVars, flight, strays, prefetch, cache, raVars, stable,
                        ghostVars>>

Goes(there) == wpc' = there /\ UNCHANGED <<serving, reply, queue, sync>>

Outcome(ok, data) == [ok |-> ok, data |-> data]

\* reply.send, and back to the select.
Reply(c, ok, data) ==
    /\ reply' = [reply EXCEPT ![c] = Outcome(ok, data)]
    /\ wpc' = "select"
    /\ serving' = None
    /\ chunk' = 0 /\ buffer' = <<>>

Replies(ok, data) == Reply(serving, ok, data) /\ UNCHANGED <<queue, sync>>

\* rx.recv() has a request for the worker.
Takes(c, op) ==
    /\ wpc = "select"
    /\ queue # <<>> /\ c = Head(queue)
    /\ queue' = Tail(queue)
    /\ call[c].op = op

Serves(c, there) ==
    /\ serving' = c
    /\ wpc' = there
    /\ UNCHANGED reply

SetSyncWrites(c) ==
    /\ Takes(c, "setSync")
    /\ sync' = call[c].value
    /\ Reply(c, TRUE, <<>>)
    /\ DataRest

AnswersAtOnce(c, op, ok) ==
    /\ Takes(c, op)
    /\ Reply(c, ok, <<>>)
    /\ DataRest /\ UNCHANGED sync

\* Fault: a flush is answered before the data has been written back.
FlushAtOnce(c) == AnswersAtOnce(c, "flush", TRUE)

\* A flush with nothing to write back is answered at once.
Flush(c) ==
    \/ dirty = NoEntries /\ AnswersAtOnce(c, "flush", TRUE)
    \/ /\ dirty # NoEntries
       /\ Takes(c, "flush")
       /\ Serves(c, "drain")
       /\ DataRest /\ UNCHANGED <<chunk, buffer, sync>>

\* The worker acts when no request is waiting.
Unasked(who, there) ==
    /\ wpc = "select" /\ queue = <<>>
    /\ Serves(who, there)
    /\ DataRest /\ UNCHANGED <<queue, chunk, buffer, sync>>

\* Fault: the timer's test for dirty data is the wrong way round.
TimerWhenClean == ~closed /\ dirty = NoEntries /\ Unasked("timer", "drain")

\* The select is biased: the timer is looked at when recv() has to wait.
CoalesceTimer == ~closed /\ dirty # NoEntries /\ Unasked("timer", "drain")

\* Fault: the worker ends without a last flush.
ClosedAtOnce == closed /\ Unasked("close", "done")

\* recv() returns None.
ChannelClosed ==
    closed /\ Unasked("close", IF dirty = NoEntries THEN "done" ELSE "drain")

----------------------------------------------------------------------------
(* handle_read *)

\* The range the request of c is about, clamped to the device.
Offset(c) == call[c].offset
Size(c) == IF call[c].op = "read" THEN ClampRead(Offset(c), call[c].size)
                                  ELSE ClampWrite(Offset(c), call[c].size)
Start(c) == StartLba(Offset(c))
Count(c) == BlockCount(Offset(c), Size(c))
Nothing(c) == call[c].size = 0 \/ Offset(c) >= TotalBytes

Slice(data, c) == Restrict(data, Extent(Offset(c), Size(c)))

ReadNothing(c) == AnswersAtOnce(c, "read", TRUE) /\ Nothing(c)

ReadDirty(c) ==
    /\ Takes(c, "read")
    /\ ~Nothing(c)
    /\ Overlaps(dirty, Start(c), Count(c))
    /\ Reply(c, TRUE, Slice(Overlap(dirty, Start(c), Count(c)), c))
    /\ DataRest /\ UNCHANGED sync

ReadThroughCache(c) ==
    /\ Takes(c, "read")
    /\ ~Nothing(c)
    /\ ~Overlaps(dirty, Start(c), Count(c))
    /\ Serves(c, "chunk")
    /\ chunk' = ChunkLba(Start(c))
    /\ DataRest /\ UNCHANGED <<buffer, sync>>

\* read_blocks: a turn of the loop adds the part of the chunk that is asked for.
AtChunk == wpc = "chunk" /\ chunk <= LastChunk(Start(serving), Count(serving))

Assembles(data) ==
    LET part == BytesOf(Start(serving), Count(serving)) \cap DOMAIN data
    IN  /\ buffer' = [b \in DOMAIN buffer \cup part |->
                        IF b \in part THEN data[b] ELSE buffer[b]]
        /\ chunk' = chunk + ChunkBlocks

ChunkHit ==
    /\ AtChunk
    /\ chunk \in DOMAIN cache
    /\ Assembles(cache[chunk])
    /\ Goes("chunk")
    /\ DataRest

InFlight(k) == prefetch # None /\ prefetch.held # None /\ prefetch.next = k

WithChunk(k, data) ==
    [j \in DOMAIN cache \cup {k} |-> IF j = k THEN data ELSE cache[j]]

ReadOfTarget(k) == Restrict(media, BytesOf(k, ChunkBlocks))

\* A miss: the whole chunk is read and cached.
ChunkFetch ==
    /\ AtChunk
    /\ chunk \notin DOMAIN cache /\ ~InFlight(chunk)
    /\ OnDevice(chunk)
    /\ cache' = WithChunk(chunk, ReadOfTarget(chunk))
    /\ Assembles(ReadOfTarget(chunk))
    /\ Goes("chunk")
    /\ UNCHANGED <<dirtyVars, flight, strays, prefetch, raVars, stable, ghostVars>>

\* The readahead task is fetching the chunk: try_get_with waits for its result.
ChunkJoin ==
    /\ AtChunk
    /\ chunk \notin DOMAIN cache /\ InFlight(chunk)
    /\ Goes("joined")
    /\ DataRest /\ UNCHANGED <<chunk, buffer>>

\* A command that fails, or a chunk of which the device has only a part.
ChunkFetchFails ==
    /\ \/ /\ AtChunk /\ chunk \notin DOMAIN cache /\ ~InFlight(chunk)
          /\ MayFail \/ ~OnDevice(chunk)
       \/ wpc = "joinFailed"
    /\ Replies(FALSE, <<>>)
    /\ DataRest

\* maybe_trigger_readahead.  The midpoint is never before raStart, so the
\* second comparison of the code adds nothing to the first.
Readahead(start, count) ==
    LET sequential == lastLba # None /\ start = lastLba + count
        end == start + count
        window == Lesser(raWindow * 2, RaMax)
    IN  /\ lastLba' = start
        /\ IF ~sequential
           THEN raWindow' = RaMin /\ raStart' = end /\ UNCHANGED prefetch
           ELSE /\ raWindow' = window
                /\ IF end >= raStart /\ prefetch = None
                   THEN /\ raStart' = end + window
                        /\ prefetch' = [next |-> ChunkLba(end), held |-> None,
                                        end |-> end + window]
                   ELSE UNCHANGED <<raStart, prefetch>>

FinishRead ==
    /\ wpc = "chunk" /\ ~AtChunk
    /\ Readahead(Start(serving), Count(serving))
    /\ Replies(TRUE, Slice(buffer, serving))
    /\ UNCHANGED <<dirtyVars, flight, strays, cache, stable, ghostVars>>

----------------------------------------------------------------------------
(* The readahead task and the cache *)

\* Steps of the readahead task; the worker may be waiting for its fetch.
PrefetchOnly ==
    /\ prefetch # None
    /\ UNCHANGED <<callVars, serving, chunk, buffer, sync, dirtyVars, flight,
                   strays, raVars, diskVars, writes, ghostVars>>

\* Fault: a worker that waits for the fetch is not woken.
WakesNobody(there) == UNCHANGED wpc

Wakes(there) == wpc' = IF wpc = "joined" THEN there ELSE wpc

Wanted == prefetch.held = None /\ prefetch.next < prefetch.end

PrefetchHit ==
    /\ PrefetchOnly
    /\ Wanted /\ prefetch.next \in DOMAIN cache
    /\ prefetch' = [prefetch EXCEPT !.next = @ + ChunkBlocks]
    /\ UNCHANGED <<cache, wpc>>

\* The target reads the chunk; the cache has it once the answer is in.
PrefetchFetch ==
    /\ PrefetchOnly
    /\ Wanted /\ prefetch.next \notin DOMAIN cache
    /\ OnDevice(prefetch.next)
    /\ prefetch' = [prefetch EXCEPT !.held = ReadOfTarget(prefetch.next)]
    /\ UNCHANGED <<cache, wpc>>

PrefetchInsert ==
    /\ PrefetchOnly
    /\ prefetch.held # None
    /\ cache' = WithChunk(prefetch.next, prefetch.held)
    /\ prefetch' = [prefetch EXCEPT !.next = @ + ChunkBlocks, !.held = None]
    /\ Wakes("chunk")

\* Fault: the loop is left without clearing ra_inflight.
PrefetchFailsHolding ==
    /\ PrefetchOnly
    /\ \/ prefetch.held # None /\ MayFail
       \/ Wanted /\ prefetch.next \notin DOMAIN cache /\ ~OnDevice(prefetch.next)
    /\ Wakes("joinFailed")
    /\ UNCHANGED <<prefetch, cache>>

\* break, and ra_inflight is cleared.
PrefetchFails ==
    /\ PrefetchOnly
    /\ \/ prefetch.held # None /\ MayFail
       \/ Wanted /\ prefetch.next \notin DOMAIN cache /\ ~OnDevice(prefetch.next)
    /\ prefetch' = None
    /\ Wakes("joinFailed")
    /\ UNCHANGED cache

PrefetchEnds ==
    /\ PrefetchOnly
    /\ prefetch.held = None /\ prefetch.next >= prefetch.end
    /\ prefetch' = None
    /\ UNCHANGED <<cache, wpc>>

\* moka evicts what it likes to stay within its capacity.
Evict(k) ==
    /\ k \in DOMAIN cache
    /\ cache' = Restrict(cache, DOMAIN cache \ {k})
    /\ DeviceRest /\ UNCHANGED <<callVars, writes>>

----------------------------------------------------------------------------
(* handle_write *)

WriteNothing(c) == AnswersAtOnce(c, "write", TRUE) /\ Nothing(c)

Payload(c) == [b \in Extent(Offset(c), Size(c)) |-> call[c].value]

\* Fault: the chunks written to stay in the cache.
InvalidateNothing(lba, count) == UNCHANGED cache

\* invalidate_range
Invalidate(lba, count) ==
    cache' = Restrict(cache, DOMAIN cache \ ChunksOf(lba, count))

\* dirty.insert and invalidate_range, which also resets the readahead window.
Insert(c, data) ==
    /\ dirty' = Inserted(dirty, Start(c), data)
    /\ dirtyBytes' = InsertedBytes(dirtyBytes, dirty, Start(c), data)
    /\ Invalidate(Start(c), Count(c))
    /\ raWindow' = RaMin
    /\ written' = [b \in Byte |-> IF b \in DOMAIN Payload(c) THEN Payload(c)[b]
                                                             ELSE written[b]]
    /\ wpc' = IF sync \/ dirtyBytes' >= CoalesceMax THEN "drain" ELSE "ack"
    /\ UNCHANGED <<reply, sync, flight, strays, prefetch, lastLba, raStart,
                   stable, doubtful>>

InsertAligned(c) ==
    /\ Takes(c, "write")
    /\ ~Nothing(c) /\ Aligned(Offset(c), Size(c))
    /\ serving' = c
    /\ Insert(c, Payload(c))
    /\ UNCHANGED <<chunk, buffer>>

\* Read-modify-write: the blocks are read from the target.
RmwRead(c) ==
    /\ Takes(c, "write")
    /\ ~Nothing(c) /\ ~Aligned(Offset(c), Size(c))
    /\ Serves(c, "modify")
    /\ buffer' = Restrict(media, BytesOf(Start(c), Count(c)))
    /\ DataRest /\ UNCHANGED <<chunk, sync>>

RmwReadFails(c) ==
    /\ MayFail
    /\ AnswersAtOnce(c, "write", FALSE)
    /\ ~Nothing(c) /\ ~Aligned(Offset(c), Size(c))

\* Fault: the new data is not laid over the blocks that were read.
ModifiedNothing == buffer

Modified ==
    [b \in DOMAIN buffer |->
        IF b \in DOMAIN Payload(serving) THEN Payload(serving)[b] ELSE buffer[b]]

RmwInsert ==
    /\ wpc = "modify"
    /\ Insert(serving, Modified)
    /\ UNCHANGED <<serving, queue, chunk, buffer>>

WriteCoalesced ==
    /\ wpc = "ack"
    /\ Replies(TRUE, <<>>)
    /\ DataRest

----------------------------------------------------------------------------
(* flush_dirty *)

\* drain_sorted, and a task for each entry.
Drain ==
    /\ wpc = "drain"
    /\ flight' = [l \in DOMAIN dirty |->
                    [data |-> dirty[l], left |-> {BlockOf(b) : b \in DOMAIN dirty[l]},
                     status |-> "running"]]
    /\ dirty' = NoEntries /\ dirtyBytes' = 0
    /\ Goes("await")
    /\ UNCHANGED <<chunk, buffer, strays, prefetch, cache, raVars, stable, ghostVars>>

\* The tasks are awaited in order of lba.
AllWritten == \A l \in DOMAIN flight : flight[l].status = "ok"

FirstFailed(l) ==
    /\ flight[l].status = "failed"
    /\ \A k \in DOMAIN flight : k < l => flight[k].status = "ok"

\* flush_dirty returns to whoever called it.
FlushReturns(ok) ==
    /\ flight' = <<>>
    /\ CASE serving = "timer" -> /\ wpc' = "select" /\ serving' = None
                                 /\ UNCHANGED <<reply, queue, sync, chunk, buffer>>
         [] serving = "close" -> Goes("done") /\ UNCHANGED <<chunk, buffer>>
         [] OTHER             -> Replies(ok, <<>>)
    /\ UNCHANGED <<dirtyVars, prefetch, cache, raVars, written>>

Failure ==
    /\ FlushReturns(FALSE)
    /\ strays' = strays \cup {[data |-> flight[l].data, left |-> flight[l].left] :
                                l \in {k \in DOMAIN flight : flight[k].left # {}}}
    /\ doubtful' = doubtful \cup
          CASE serving \notin Callers -> {}
            [] serving \in Callers /\ call[serving].op = "write" ->
                  BlocksOf(Offset(serving), Size(serving))
            [] OTHER -> {BlockOf(b) : b \in UNION {DOMAIN flight[l].data : l \in DOMAIN flight}}
    /\ UNCHANGED stable

\* Fault: the error is not passed on to the caller of the flush.
FlushFailsSilently ==
    /\ wpc = "await"
    /\ \E l \in DOMAIN flight : FirstFailed(l)
    /\ wpc' = "select" /\ serving' = None
    /\ chunk' = 0 /\ buffer' = <<>> /\ flight' = <<>>
    /\ UNCHANGED <<reply, queue, sync, dirtyVars, prefetch, cache, raVars, stable,
                   strays, ghostVars>>

\* An error of one write ends the flush; the others run on unawaited.
FlushFails ==
    /\ wpc = "await"
    /\ \E l \in DOMAIN flight : FirstFailed(l)
    /\ Failure

\* Fault: the target's volatile cache is not flushed.
SynchronizeNothing ==
    /\ wpc = "await" /\ AllWritten
    /\ FlushReturns(TRUE)
    /\ UNCHANGED <<stable, strays, doubtful>>

SynchronizeCache ==
    /\ wpc = "await" /\ AllWritten
    /\ stable' = media
    /\ FlushReturns(TRUE)
    /\ UNCHANGED <<strays, doubtful>>

SynchronizeFails ==
    /\ MayFail
    /\ wpc = "await" /\ AllWritten
    /\ Failure

----------------------------------------------------------------------------
(* The target (external): writes of a flush land and are answered *)

TargetOnly ==
    UNCHANGED <<callVars, workVars, dirtyVars, prefetch, cache, raVars, stable,
                writes, ghostVars>>

Landed(data, block) ==
    [b \in Byte |-> IF BlockOf(b) = block THEN data[b] ELSE media[b]]

WriteLands(l) ==
    /\ \E block \in flight[l].left :
          /\ media' = Landed(flight[l].data, block)
          /\ flight' = [flight EXCEPT ![l].left = @ \ {block}]
    /\ TargetOnly /\ UNCHANGED strays

WriteSucceeds(l) ==
    /\ flight[l].status = "running" /\ flight[l].left = {}
    /\ flight' = [flight EXCEPT ![l].status = "ok"]
    /\ TargetOnly /\ UNCHANGED <<media, strays>>

\* An error or a timeout says nothing of what has landed or will.
WriteFails(l) ==
    /\ MayFail
    /\ flight[l].status = "running"
    /\ flight' = [flight EXCEPT ![l].status = "failed"]
    /\ TargetOnly /\ UNCHANGED <<media, strays>>

StrayLands(w) ==
    /\ \E block \in w.left :
          /\ media' = Landed(w.data, block)
          /\ strays' = (strays \ {w}) \cup
                (IF w.left = {block} THEN {} ELSE {[w EXCEPT !.left = @ \ {block}]})
    /\ TargetOnly /\ UNCHANGED flight

----------------------------------------------------------------------------

Calls(c) == CallRead(c) \/ CallWrite(c) \/ CallFlush(c) \/ CallSetSync(c)

Serve(c) ==
    \/ ReadNothing(c) \/ ReadDirty(c) \/ ReadThroughCache(c)
    \/ WriteNothing(c) \/ InsertAligned(c) \/ RmwRead(c) \/ RmwReadFails(c)
    \/ Flush(c) \/ SetSyncWrites(c)

Continue ==
    \/ ChunkHit \/ ChunkFetch \/ ChunkJoin \/ ChunkFetchFails \/ FinishRead
    \/ RmwInsert \/ WriteCoalesced \/ Drain \/ FlushFails \/ SynchronizeCache
    \/ SynchronizeFails \/ ChannelClosed

Worker == ((\E c \in Callers : Serve(c)) \/ Continue) /\ WorkerOnly

Timer == CoalesceTimer /\ WorkerOnly

PrefetchTask ==
    PrefetchHit \/ PrefetchFetch \/ PrefetchInsert \/ PrefetchFails \/ PrefetchEnds

Target ==
    \E l \in DOMAIN flight : WriteLands(l) \/ WriteSucceeds(l) \/ WriteFails(l)

Next ==
    \/ \E c \in Callers : Calls(c) \/ Return(c)
    \/ Close \/ Worker \/ Timer \/ PrefetchTask \/ Target
    \/ \E k \in DOMAIN cache : Evict(k)
    \/ \E w \in strays : StrayLands(w)

Spec == Init /\ [][Next]_vars

\* The runtime schedules the worker and the readahead task, and the target
\* answers every command (or the command times out).  Each time the worker is
\* back at the select it looks at the timer after the channel, so a timer that
\* finds the channel empty again and again fires in the end.
Fairness ==
    /\ WF_vars(Worker) /\ WF_vars(PrefetchTask) /\ WF_vars(Target)
    /\ SF_vars(Timer)

FairSpec == Spec /\ Fairness

----------------------------------------------------------------------------
(* Properties *)

Value == 0 .. MaxWrites
WorkerPlaces == {"select", "chunk", "joined", "joinFailed", "modify", "ack",
                 "drain", "await", "done"}

IsBuffer(f) == DOMAIN f \subseteq Byte /\ \A b \in DOMAIN f : f[b] \in Value

\* Types, and what a buffer may cover; writes of a flush are in progress, and a
\* fetch of the readahead task, whenever the worker waits for one.
TypeOK ==
    /\ \A c \in Callers : reply[c] # None => call[c] # None
    /\ Len(queue) <= QueueBound
    /\ wpc \in WorkerPlaces
    /\ serving \in Callers \cup {"timer", "close", None}
    /\ (serving = None) <=> (wpc = "select")
    /\ IsBuffer(buffer) /\ IsBuffer(media) /\ IsBuffer(stable) /\ IsBuffer(written)
    /\ \A l \in DOMAIN dirty : IsBuffer(dirty[l]) /\ l * BlockSize \in DOMAIN dirty[l]
    /\ \A k \in DOMAIN cache : OnDevice(k) /\ DOMAIN cache[k] = BytesOf(k, ChunkBlocks)
    /\ flight # <<>> => wpc = "await"
    /\ wpc = "joined" => InFlight(chunk)
    /\ doubtful \subseteq Lba

\* The step that answers the call c has made.
Answers(c, op) == reply[c] = None /\ reply'[c] # None /\ call[c].op = op

Succeeds(c, op) == Answers(c, op) /\ reply'[c].ok

Trusted(b) == BlockOf(b) \notin doubtful

\* A read returns the data of the last write, whether that is in the dirty
\* map, the cache or the target, of every block no failed call has left in
\* doubt.
ReadYourWrites ==
    [][\A c \in Callers : Succeeds(c, "read") =>
          \A b \in DOMAIN reply'[c].data :
             Trusted(b) => reply'[c].data[b] = written[b]]_vars

\* When flush() has returned Ok, everything written before it survives a power
\* failure of the target, unless a call has said that it failed.
FlushMakesDurable ==
    [][\A c \in Callers : Succeeds(c, "flush") =>
          \A b \in Byte : Trusted(b) => stable'[b] = written[b]]_vars

\* With sync_writes set a write is on the target's stable storage when it
\* returns.
SyncWriteDurable ==
    [][\A c \in Callers : (Succeeds(c, "write") /\ sync) =>
          \A b \in DOMAIN Payload(c) : Trusted(b) => stable'[b] = written[b]]_vars

\* The newest value of b is where the next flush or read will find it.
Kept(b) ==
    LET holders == {l \in DOMAIN dirty : b \in DOMAIN dirty[l]}
    IN  IF holders = {} THEN media[b] = written[b]
                        ELSE \E l \in holders : dirty[l][b] = written[b]

\* Between two requests no write has been lost, on its way through the dirty
\* map, the read-modify-write or a flush.
NoWriteLost == wpc = "select" => \A b \in Byte : Trusted(b) => Kept(b)

\* total_bytes, by which a flush is triggered, is the size of the entries.
DirtyBytesExact ==
    dirtyBytes = Cardinality(UNION {{l} \X DOMAIN dirty[l] : l \in DOMAIN dirty})

\* The last thing the worker does is to write back what is dirty.
ClosedIsDurable ==
    wpc = "done" => \A b \in Byte : Trusted(b) => stable[b] = written[b]

\* A read inside the device returns all the bytes asked for.
ReadComplete ==
    [][\A c \in Callers : Succeeds(c, "read") =>
          DOMAIN reply'[c].data =
             Extent(Offset(c), Lesser(call[c].size, TotalBytes - Offset(c)))]_vars

\* A read fails only if a command to the target does.
ValidReadsSucceed ==
    [][\A c \in Callers : Answers(c, "read") => reply'[c].ok]_vars

\* Every call returns: neither a failure nor the readahead task the worker may
\* wait for leaves a caller blocked.
EveryCallReturns ==
    \A c \in Callers : (call[c] # None) ~> (reply[c] # None)

\* ra_inflight is cleared again, however the readahead task ends.
ReadaheadReleased == (prefetch # None) ~> (prefetch = None)

\* The readahead task holds a bare pointer to a flag in the cache, which the
\* worker owns: the cache must not be dropped while the task runs.
CacheOutlivesReadahead == prefetch # None => wpc # "done"

\* What is dirty is written back, by the timer if by nothing else.
DirtyWrittenBack == (dirty # NoEntries) ~> (dirty = NoEntries)

\* That much holds unless, from some time on, the worker never finds the channel
\* empty.
DirtyWrittenBackWhenIdle ==
    []<>(dirty = NoEntries) \/ <>[](wpc = "select" => queue # <<>>)
=============================================================================
