------------------------------- MODULE Blocks -------------------------------
(***************************************************************************)
(* What concurrent reads and writes of ranges of blocks promise: each      *)
(* block by itself is a register.  A read that succeeds returns one value  *)
(* per block, in the order of the blocks, each a value that the block has  *)
(* had since the call; a write that succeeds has stored all its blocks     *)
(* since the call.  One that fails may have stored any of them, and may    *)
(* store the others later.  No other block changes.                        *)
(***************************************************************************)
EXTENDS Integers, Sequences

CONSTANTS
    Calls,         \* the calls made, each once
    None,
    Requests,      \* [op, lba, count] records: what a call may ask
    DeviceBlocks   \* blocks of the device

VARIABLES
    call, reply,   \* what each call asked, and what it was answered
    media,         \* the blocks
    held,          \* held[c][i]: values of the i-th block of c since c was made
    stored         \* blocks that a write has stored

vars == <<call, reply, media, held, stored>>

Block == 0 .. DeviceBlocks - 1

Span(r) == r.lba .. r.lba + r.count - 1

\* A block starts as itself; the i-th block of write c is the pair <<c, i>>.
Init ==
    /\ call = [c \in Calls |-> None]
    /\ reply = [c \in Calls |-> None]
    /\ media = [b \in Block |-> <<None, b>>]
    /\ held = [c \in Calls |-> <<>>]
    /\ stored = [c \in Calls |-> {}]

Ask(c) ==
    /\ call[c] = None
    /\ \E r \in Requests :
          /\ call' = [call EXCEPT ![c] = r]
          /\ held' = [held EXCEPT ![c] =
                [i \in 1 .. r.count |-> {media[b] : b \in Block \cap {r.lba + i - 1}}]]
    /\ UNCHANGED <<reply, media, stored>>

Pending(c, op) == call[c] # None /\ reply[c] = None /\ call[c].op = op

Ok(data) == [ok |-> TRUE, data |-> data]
Error    == [ok |-> FALSE, data |-> <<>>]

Read(c) ==
    /\ Pending(c, "read")
    /\ \E data \in [1 .. call[c].count -> UNION {held[c][i] : i \in DOMAIN held[c]}] :
          /\ \A i \in DOMAIN data : data[i] \in held[c][i]
          /\ reply' = [reply EXCEPT ![c] = Ok(data)]
    /\ UNCHANGED <<call, media, held, stored>>

\* Block b takes value v: calls in progress have seen it.
Seen(b, v) ==
    [d \in Calls |->
        [i \in DOMAIN held[d] |->
            IF call[d].lba + i - 1 = b THEN held[d][i] \cup {v} ELSE held[d][i]]]

Store(c) ==
    /\ call[c] # None /\ call[c].op = "write"
    /\ \E b \in (Span(call[c]) \cap Block) \ stored[c] :
          LET v == <<c, b - call[c].lba + 1>> IN
          /\ media' = [media EXCEPT ![b] = v]
          /\ held' = Seen(b, v)
          /\ stored' = [stored EXCEPT ![c] = @ \cup {b}]
    /\ UNCHANGED <<call, reply>>

Written(c) ==
    /\ Pending(c, "write")
    /\ stored[c] = Span(call[c])
    /\ reply' = [reply EXCEPT ![c] = Ok(<<>>)]
    /\ UNCHANGED <<call, media, held, stored>>

Fail(c) ==
    /\ call[c] # None /\ reply[c] = None
    /\ reply' = [reply EXCEPT ![c] = Error]
    /\ UNCHANGED <<call, media, held, stored>>

Next == \E c \in Calls : Ask(c) \/ Read(c) \/ Store(c) \/ Written(c) \/ Fail(c)

Spec == Init /\ [][Next]_vars
=============================================================================
