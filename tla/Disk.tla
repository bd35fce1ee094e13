-------------------------------- MODULE Disk --------------------------------
(***************************************************************************)
(* What a block device promises its callers: one array of bytes.  A read   *)
(* returns it as it is at one instant between the call and the answer, a   *)
(* write changes it at one instant, and durable, what a power failure      *)
(* leaves, is its content at an earlier time: after a flush, and after a   *)
(* write in sync mode, at no earlier time than the call.                   *)
(*                                                                         *)
(* Nothing fails here, and the order in which callers are served is left   *)
(* open.                                                                   *)
(***************************************************************************)
EXTENDS Geometry

CONSTANTS Callers, None, Reads, Writes, SyncModes, SyncAtStart, MaxWrites

VARIABLES
    call, reply,   \* what each caller has asked, and has been answered
    content,       \* the bytes
    durable,       \* the bytes a power failure leaves
    performed,     \* callers whose write has been made but not acknowledged
    sync           \* writes are durable when they are acknowledged

vars == <<call, reply, content, durable, performed, sync>>

Init ==
    /\ call = [c \in Callers |-> None]
    /\ reply = [c \in Callers |-> None]
    /\ content = [b \in Byte |-> 0]
    /\ durable = content
    /\ performed = {}
    /\ sync = SyncAtStart

Requests ==
    [op : {"read"}, offset : {x[1] : x \in Reads}, size : {x[2] : x \in Reads}, value : {0}]
    \cup [op : {"write"}, offset : {x[1] : x \in Writes}, size : {x[2] : x \in Writes},
          value : 1 .. MaxWrites]
    \cup [op : {"flush"}, offset : {0}, size : {0}, value : {0}]
    \cup [op : {"setSync"}, offset : {0}, size : {0}, value : SyncModes]

Call(c) ==
    /\ call[c] = None
    /\ \E request \in Requests : call' = [call EXCEPT ![c] = request]
    /\ UNCHANGED <<reply, content, durable, performed, sync>>

Asks(c, op) == call[c] # None /\ reply[c] = None /\ call[c].op = op

Answer(c, data) ==
    /\ reply' = [reply EXCEPT ![c] = [ok |-> TRUE, data |-> data]]
    /\ UNCHANGED call

\* The part of the device a request is about.
Part(c) == Extent(call[c].offset, call[c].size) \cap Byte

Read(c) ==
    /\ Asks(c, "read")
    /\ Answer(c, [b \in Part(c) |-> content[b]])
    /\ UNCHANGED <<content, durable, performed, sync>>

Write(c) ==
    /\ Asks(c, "write") /\ c \notin performed
    /\ content' = [b \in Byte |-> IF b \in Part(c) THEN call[c].value ELSE content[b]]
    /\ performed' = performed \cup {c}
    /\ UNCHANGED <<call, reply, durable, sync>>

Acknowledge(c) ==
    /\ Asks(c, "write")
    /\ c \in performed \/ Part(c) = {}
    /\ Answer(c, <<>>)
    /\ performed' = performed \ {c}
    /\ durable' \in {durable, content}
    /\ sync => durable' = content
    /\ UNCHANGED <<content, sync>>

Flush(c) ==
    /\ Asks(c, "flush")
    /\ Answer(c, <<>>)
    /\ durable' = content
    /\ UNCHANGED <<content, performed, sync>>

SetSync(c) ==
    /\ Asks(c, "setSync")
    /\ Answer(c, <<>>)
    /\ sync' = call[c].value
    /\ UNCHANGED <<content, durable, performed>>

Return(c) ==
    /\ reply[c] # None
    /\ call' = [call EXCEPT ![c] = None]
    /\ reply' = [reply EXCEPT ![c] = None]
    /\ UNCHANGED <<content, durable, performed, sync>>

\* The device writes back when it likes.
WriteBack ==
    /\ durable' = content
    /\ UNCHANGED <<call, reply, content, performed, sync>>

Next ==
    \/ \E c \in Callers :
          Call(c) \/ Read(c) \/ Write(c) \/ Acknowledge(c) \/ Flush(c) \/ SetSync(c) \/ Return(c)
    \/ WriteBack

Spec == Init /\ [][Next]_vars
=============================================================================
