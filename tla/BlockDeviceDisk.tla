--------------------------- MODULE BlockDeviceDisk ---------------------------
(***************************************************************************)
(* A block device without readahead, on a target that does not fail, is a  *)
(* Disk when its reads and writes are whole cache chunks, and in sync mode *)
(* whatever they are.  (With coalescing and other requests, or with        *)
(* readahead, it may not be: see the run that is expected to find a        *)
(* violation.)                                                             *)
(***************************************************************************)
EXTENDS BlockDevice

Covering(buffers, b) == {l \in DOMAIN buffers : b \in DOMAIN buffers[l]}

\* Writes of the flush in progress that have yet to reach byte b.
Unlanded(b) ==
    {l \in DOMAIN flight : b \in DOMAIN flight[l].data /\ BlockOf(b) \in flight[l].left}

\* The newest value of each byte: in the dirty map, on its way to the target,
\* or there.
Newest ==
    [b \in Byte |->
        IF Covering(dirty, b) # {} THEN dirty[Max(Covering(dirty, b))][b]
        ELSE IF Unlanded(b) # {} THEN flight[Max(Unlanded(b))].data[b]
        ELSE media[b]]

Performed ==
    {c \in Callers : serving = c /\ call[c].op = "write" /\ wpc \in {"ack", "drain", "await"}}

D == INSTANCE Disk WITH content <- Newest, durable <- stable, performed <- Performed

\* Every behaviour of the device is one of the disk: no interleaving of
\* callers, coalescing, timer flushes and cached reads shows.
ImplementsDisk == D!Spec
=============================================================================
