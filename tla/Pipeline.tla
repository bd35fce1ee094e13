------------------------------ MODULE Pipeline ------------------------------
(***************************************************************************)
(* Reads and writes of blocks over a session                               *)
(* (crates/iscsi-lib/src/iscsi/pipeline.rs, command.rs).  The geometry is  *)
(* asked of the target first.  Then every call cuts its range into chunks  *)
(* of at most one burst, runs a task per chunk, awaits the tasks in order  *)
(* and returns at the first that failed: the others run on, and what a     *)
(* task sent before it gave up may still reach the medium.                 *)
(*                                                                         *)
(* The session hands a response to the task that awaits it, or to nobody   *)
(* (module Session): the target answering and the task being given the     *)
(* answer are one step here.  The target is external: it may execute the   *)
(* commands in any order, stores a write block by block, and never answers *)
(* if it likes.                                                            *)
(***************************************************************************)
EXTENDS Integers, Sequences

CONSTANTS
    Calls,         \* the calls made, each once
    None,
    Requests,      \* [op, lba, count] records: what a call may ask
    BlockSize,     \* bytes of a block
    DeviceBlocks,  \* blocks of the device
    MaxBurst,      \* negotiated.max_burst_length
    Max32, Max16,  \* u32::MAX and u16::MAX
    Sense,         \* the sense data that may come with CHECK CONDITION
    ShortReads     \* a GOOD read may return fewer blocks than asked

ASSUME PipelineAssumption ==
    /\ Requests \subseteq [op : {"read", "write"}, lba : Nat, count : Nat]
    /\ None \notin Requests
    /\ BlockSize \in Nat \ {0}
    /\ DeviceBlocks \in Nat \ {0}
    /\ MaxBurst \in Nat
    /\ Max32 \in Nat /\ Max16 \in Nat
    /\ ShortReads \in BOOLEAN

VARIABLES
    phase, attempt, overflow, total,   \* read_capacity, and the result of it
    call, reply,   \* what each call asked, and what it was answered
    tasks,         \* the task of each chunk of a call
    joined,        \* tasks that the call has awaited
    result,        \* what it has gathered from them
    media,         \* the blocks of the target
    held, stored,  \* history, as in module Blocks
    troubled       \* history: calls that met more than a UNIT ATTENTION per read

capacityVars == <<phase, attempt, overflow, total>>
callVars     == <<call, reply, joined, result>>
mediumVars   == <<media, held, stored>>
vars == <<capacityVars, callVars, tasks, mediumVars, troubled>>

Block == 0 .. DeviceBlocks - 1

Span(r) == r.lba .. r.lba + r.count - 1

Lesser(a, b) == IF a <= b THEN a ELSE b

----------------------------------------------------------------------------
(* Chunks and commands *)

\* max_read_blocks, max_write_blocks.
MaxBlocks == MaxBurst \div BlockSize

\* compute_read_chunks: the rounds of its loop, and what each cuts from the
\* front of what is left.
Rounds(count) == IF count = 0 THEN 0 ELSE (count + MaxBlocks - 1) \div MaxBlocks

Chunks(r) ==
    [k \in 1 .. Rounds(r.count) |->
        LET cut == (k - 1) * MaxBlocks IN
        [lba |-> r.lba + cut, count |-> Lesser(r.count - cut, MaxBlocks)]]

\* Fault: READ(10) and WRITE(10) whatever the block address.
Build10(chunk) ==
    [lba |-> chunk.lba % (Max32 + 1), count |-> chunk.count % (Max16 + 1)]

\* build_read, build_write: the blocks that the CDB names.  The 10 byte form
\* casts the address to u32 and the count to u16, the 16 byte form neither.
Build(chunk) ==
    IF chunk.lba <= Max32 /\ chunk.count <= Max16
    THEN [lba |-> chunk.lba % (Max32 + 1), count |-> chunk.count % (Max16 + 1)]
    ELSE [lba |-> chunk.lba, count |-> chunk.count]

\* parse_sense_data takes fixed format of 14 bytes and more.
SenseKey(sense) ==
    IF sense.long /\ sense.format = "fixed" THEN sense.key ELSE None

IsUnitAttention(sense) == SenseKey(sense) = "unitAttention"

----------------------------------------------------------------------------
(* read_capacity *)

Capacity ==
    /\ phase = "rc10" /\ attempt = 0 /\ overflow = FALSE /\ total = 0

\* Both return, which ends the life of the function's own variables.
Ready(blocks) ==
    phase' = "ready" /\ total' = blocks /\ attempt' = 0 /\ overflow' = FALSE

Unusable ==
    phase' = "unusable" /\ total' = 0 /\ attempt' = 0 /\ overflow' = FALSE

AttemptFails ==
    \/ /\ attempt < 2
       /\ phase' = "rc10" /\ attempt' = attempt + 1
       /\ UNCHANGED <<overflow, total>>
    \/ attempt = 2 /\ overflow /\ Ready(Max32 + 1)
    \/ attempt = 2 /\ ~overflow /\ Unusable

\* Fault: the largest address is taken for the last one.
ReadCapacity10Trusted ==
    /\ phase = "rc10"
    /\ Ready(Lesser(DeviceBlocks - 1, Max32) + 1) \/ AttemptFails
    /\ UNCHANGED <<callVars, tasks, mediumVars, troubled>>

\* The target gives the last address as far as it fits.
ReadCapacity10 ==
    /\ phase = "rc10"
    /\ \/ DeviceBlocks - 1 < Max32 /\ Ready(DeviceBlocks)
       \/ /\ DeviceBlocks - 1 >= Max32
          /\ overflow' = TRUE /\ phase' = "rc16"
          /\ UNCHANGED <<attempt, total>>
       \/ AttemptFails
    /\ UNCHANGED <<callVars, tasks, mediumVars, troubled>>

ReadCapacity16 ==
    /\ phase = "rc16"
    /\ Ready(DeviceBlocks) \/ AttemptFails
    /\ UNCHANGED <<callVars, tasks, mediumVars, troubled>>

----------------------------------------------------------------------------
(* scsi_read, scsi_write *)

Task(chunk) == [at |-> "new", cdb |-> Build(chunk), data |-> <<>>]

\* compute_read_chunks does not return when not one block fits in a burst.
Cuts(r) == r.count > 0 => MaxBlocks > 0

Ask(c) ==
    /\ phase = "ready" /\ call[c] = None
    /\ \E r \in Requests :
          /\ call' = [call EXCEPT ![c] = r]
          /\ tasks' = [tasks EXCEPT ![c] =
                IF Cuts(r) THEN [k \in DOMAIN Chunks(r) |-> Task(Chunks(r)[k])] ELSE <<>>]
          /\ held' = [held EXCEPT ![c] =
                [i \in 1 .. r.count |-> {media[b] : b \in Block \cap {r.lba + i - 1}}]]
    /\ UNCHANGED <<capacityVars, reply, joined, result, media, stored, troubled>>

Awaiting(c) == call[c] # None /\ reply[c] = None

\* The next task in order has ended.
Join(c) ==
    /\ Awaiting(c) /\ joined[c] < Len(tasks[c])
    /\ LET task == tasks[c][joined[c] + 1] IN
          \/ /\ task.at = "ok"
             /\ joined' = [joined EXCEPT ![c] = @ + 1]
             /\ result' = [result EXCEPT ![c] = @ \o task.data]
             /\ UNCHANGED reply
          \/ /\ task.at = "failed"
             /\ reply' = [reply EXCEPT ![c] = [ok |-> FALSE, data |-> <<>>]]
             /\ UNCHANGED <<joined, result>>
    /\ UNCHANGED <<capacityVars, call, tasks, mediumVars, troubled>>

Return(c) ==
    /\ Awaiting(c) /\ Cuts(call[c]) /\ joined[c] = Len(tasks[c])
    /\ reply' = [reply EXCEPT ![c] = [ok |-> TRUE, data |-> result[c]]]
    /\ UNCHANGED <<capacityVars, call, joined, result, tasks, mediumVars, troubled>>

----------------------------------------------------------------------------
(* scsi_read_single_inner, scsi_write_single_inner: task k of call c *)

Goes(c, k, at) == tasks' = [tasks EXCEPT ![c][k].at = at]

Sent(c, k) == tasks[c][k].at \in {"await", "awaitRetry"}

\* submit_command returns.  It may not: it waits for the command window, a slot
\* and the writer lock outside the timeout of the caller.
Submit(c, k) ==
    /\ \/ tasks[c][k].at = "new" /\ Goes(c, k, "await")
       \/ tasks[c][k].at = "retry" /\ Goes(c, k, "awaitRetry")
    /\ UNCHANGED <<capacityVars, callVars, mediumVars, troubled>>

SubmitFails(c, k) ==
    /\ tasks[c][k].at \in {"new", "retry"}
    /\ Goes(c, k, "failed")
    /\ troubled' = troubled \cup {c}
    /\ UNCHANGED <<capacityVars, callVars, mediumVars>>

\* Fault: the retry is awaited without a timeout.
TimeOutOnce(c, k) ==
    /\ tasks[c][k].at = "await"
    /\ Goes(c, k, "failed")
    /\ troubled' = troubled \cup {c}
    /\ UNCHANGED <<capacityVars, callVars, mediumVars>>

TimeOut(c, k) ==
    /\ Sent(c, k)
    /\ Goes(c, k, "failed")
    /\ troubled' = troubled \cup {c}
    /\ UNCHANGED <<capacityVars, callVars, mediumVars>>

Blocks(c, k) == Span(tasks[c][k].cdb)

\* The target answers GOOD: to a read with the blocks, to a write it has stored.
ReadGood(c, k) ==
    /\ Sent(c, k) /\ call[c].op = "read"
    /\ Blocks(c, k) \subseteq Block
    /\ LET cdb == tasks[c][k].cdb IN
       \E n \in IF ShortReads THEN 0 .. cdb.count ELSE {cdb.count} :
          tasks' = [tasks EXCEPT ![c][k] =
                [@ EXCEPT !.at = "ok", !.data = [i \in 1 .. n |-> media[cdb.lba + i - 1]]]]
    /\ UNCHANGED <<capacityVars, callVars, mediumVars, troubled>>

WriteGood(c, k) ==
    /\ Sent(c, k) /\ call[c].op = "write"
    /\ Blocks(c, k) \subseteq stored[c]
    /\ Goes(c, k, "ok")
    /\ UNCHANGED <<capacityVars, callVars, mediumVars, troubled>>

\* Fault: whatever comes with CHECK CONDITION is an error.
NotRetried(c, k, sense) == FALSE

\* A read is sent once more after a UNIT ATTENTION.
Retried(c, k, sense) ==
    call[c].op = "read" /\ tasks[c][k].at = "await" /\ IsUnitAttention(sense)

CheckCondition(c, k) ==
    /\ Sent(c, k)
    /\ \E sense \in Sense :
          /\ Goes(c, k, IF Retried(c, k, sense) THEN "retry" ELSE "failed")
          /\ troubled' = IF /\ call[c].op = "read"
                            /\ tasks[c][k].at = "await"
                            /\ sense.key = "unitAttention"
                         THEN troubled ELSE troubled \cup {c}
    /\ UNCHANGED <<capacityVars, callVars, mediumVars>>

\* BUSY, TASK SET FULL, ...: never retried.
OtherStatus(c, k) ==
    /\ Sent(c, k)
    /\ Goes(c, k, "failed")
    /\ troubled' = troubled \cup {c}
    /\ UNCHANGED <<capacityVars, callVars, mediumVars>>

\* The target stores a block of a write that it was sent.  The task may have
\* given it up: after a timeout, after a send that failed when all was written,
\* and with a target that reports an error for only a part of the command.
Store(c, k) ==
    /\ call[c].op = "write" /\ tasks[c][k].at \in {"await", "failed"}
    /\ \E b \in (Blocks(c, k) \cap Block) \ stored[c] :
          LET v == <<c, b - call[c].lba + 1>> IN
          /\ media' = [media EXCEPT ![b] = v]
          /\ held' = [d \in Calls |-> [i \in DOMAIN held[d] |->
                IF call[d].lba + i - 1 = b THEN held[d][i] \cup {v} ELSE held[d][i]]]
          /\ stored' = [stored EXCEPT ![c] = @ \cup {b}]
    /\ UNCHANGED <<capacityVars, callVars, tasks, troubled>>

----------------------------------------------------------------------------

Init ==
    /\ Capacity
    /\ call = [c \in Calls |-> None]
    /\ reply = [c \in Calls |-> None]
    /\ tasks = [c \in Calls |-> <<>>]
    /\ joined = [c \in Calls |-> 0]
    /\ result = [c \in Calls |-> <<>>]
    /\ media = [b \in Block |-> <<None, b>>]
    /\ held = [c \in Calls |-> <<>>]
    /\ stored = [c \in Calls |-> {}]
    /\ troubled = {}

TaskStep(c, k) ==
    \/ Submit(c, k) \/ SubmitFails(c, k) \/ TimeOut(c, k)
    \/ ReadGood(c, k) \/ WriteGood(c, k) \/ CheckCondition(c, k) \/ OtherStatus(c, k)

Next ==
    \/ ReadCapacity10 \/ ReadCapacity16
    \/ \E c \in Calls :
          \/ Ask(c) \/ Join(c) \/ Return(c)
          \/ \E k \in DOMAIN tasks[c] : TaskStep(c, k) \/ Store(c, k)

\* The runtime polls the tasks that are ready, timers included.  The target
\* need not answer, and nothing makes submit_command return.
ChunkIndex == UNION {1 .. r.count : r \in Requests}

Fairness ==
    \A c \in Calls :
        /\ WF_vars(Join(c) \/ Return(c))
        /\ \A k \in ChunkIndex : WF_vars(k \in DOMAIN tasks[c] /\ TimeOut(c, k))

Spec == Init /\ [][Next]_vars /\ Fairness

----------------------------------------------------------------------------
(* Properties *)

\* A range of blocks is read and written as promised by module Blocks, however
\* it is cut into chunks, in whatever order the target executes them and
\* whichever of them fails: data is in the order of the blocks, a write is
\* acknowledged when all is stored, and nothing is stored beside the range.
B == INSTANCE Blocks
ImplementsBlocks == B!Spec

\* read_capacity gives the size of the device, or after three failed attempts
\* the 2^32 blocks that READ CAPACITY(10) can express: never more than there
\* is, and no device is turned down before three commands have failed.
CapacityNeverOverstated ==
    [][/\ phase' = "ready" /\ phase # "ready" =>
            total' = DeviceBlocks \/ (total' = Max32 + 1 /\ total' < DeviceBlocks /\ attempt = 2)
       /\ phase' = "unusable" => attempt = 2]_capacityVars

\* A call fails only if one of its commands met more than a UNIT ATTENTION: one
\* on each command of a read is hidden from the caller.
ReadSurvivesUnitAttention ==
    \A c \in Calls : (reply[c] # None /\ ~reply[c].ok) => c \in troubled

\* A task of the call is in submit_command.
Submitting(c) == \E k \in DOMAIN tasks[c] : tasks[c][k].at \in {"new", "retry"}

\* A call returns, answered or not, unless one of its commands stays in
\* submit_command for ever: the timeouts cover what comes after it, the retry
\* of a read included.
SentCallsReturn ==
    \A c \in Calls :
        []<>~Submitting(c) => ((call[c] # None) ~> (reply[c] # None))
=============================================================================
