------------------------------ MODULE DirtyMap ------------------------------
(***************************************************************************)
(* The write coalescing buffer of block/mod.rs: a map from the first block *)
(* of a write to its data.  The length of an entry is that of its data:    *)
(* handle_write inserts whole blocks.                                      *)
(***************************************************************************)
EXTENDS Geometry, Functions, FiniteSetsExt

NoEntries == <<>>

EntryBytes(data) == Cardinality(DOMAIN data)

\* insert: an entry that starts at the same block is dropped, whatever its
\* length; entries that overlap it otherwise stay.
Inserted(entries, lba, data) ==
    [l \in DOMAIN entries \cup {lba} |-> IF l = lba THEN data ELSE entries[l]]

\* Fault: the bytes of the entry that is dropped stay in the total.
InsertedBytesOnly(total, entries, lba, data) == total + EntryBytes(data)

\* What insert makes of total_bytes.
InsertedBytes(total, entries, lba, data) ==
    total - (IF lba \in DOMAIN entries THEN EntryBytes(entries[lba]) ELSE 0)
          + EntryBytes(data)

AtOrBefore(entries, lba) == {l \in DOMAIN entries : l <= lba}

\* Fault: read_overlap never finds anything.
OverlapsNever(entries, lba, count) == FALSE

\* read_overlap: only the entry with the highest start at or before lba is
\* looked at, and it must hold the whole range.
Overlaps(entries, lba, count) ==
    LET start == Max(AtOrBefore(entries, lba))
    IN  /\ AtOrBefore(entries, lba) # {}
        /\ (lba + count) * BlockSize <= start * BlockSize + EntryBytes(entries[start])

Overlap(entries, lba, count) ==
    Restrict(entries[Max(AtOrBefore(entries, lba))], BytesOf(lba, count))

=============================================================================
