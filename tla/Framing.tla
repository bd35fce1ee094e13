------------------------------ MODULE Framing ------------------------------
(***************************************************************************)
(* PDUs on a byte stream (crates/iscsi-lib/src/iscsi/transport.rs,         *)
(* digest.rs, pdu.rs).  The stream is a sequence of elements: a header is  *)
(* one element and so is a digest, a data segment is one per byte, padded  *)
(* to a multiple of Align.  A digest is the sequence of elements it        *)
(* covers, so two differ whenever these do: CRC32C is taken to be perfect. *)
(***************************************************************************)
EXTENDS Integers, Sequences

CONSTANTS
    None,    \* a PDU without data segment
    Align    \* 4 in the code

ASSUME FramingAssumption == Align \in Nat \ {0}

Bhs(h)    == <<"head", h>>
Byte(x)   == <<"byte", x>>
Zero      == <<"pad", 0>>
Crc(s)    == <<"crc", s>>

Bytes(data) == [i \in DOMAIN data |-> Byte(data[i])]

\* pad_to_4, and the zeros that are added.
Padded(len)  == ((len + Align - 1) \div Align) * Align
Padding(len) == [i \in 1 .. Padded(len) - len |-> Zero]

Segment(data) == Bytes(data) \o Padding(Len(data))

\* What a data digest covers: the data and, as RFC 7143 has it, the padding.
\* digest.rs leaves the padding out.
Covered(data, padded) == IF padded THEN Segment(data) ELSE Bytes(data)

(* send_pdu: head.len is the length of the data segment, 0 without one. *)

HeadPart(head, hd) ==
    <<Bhs(head)>> \o (IF hd THEN <<Crc(<<Bhs(head)>>)>> ELSE <<>>)

BodyPart(data, dd, padded) ==
    IF data = None THEN <<>>
    ELSE Segment(data) \o (IF dd THEN <<Crc(Covered(data, padded))>> ELSE <<>>)

Serialize(pdu, hd, dd, padded) ==
    HeadPart(pdu.head, hd) \o BodyPart(pdu.data, dd, padded)

----------------------------------------------------------------------------
(* recv_pdu *)

HeadSize(hd) == IF hd THEN 2 ELSE 1

\* What is read behind the header.
BodySize(head, dd) ==
    IF head.len = 0 THEN 0 ELSE Padded(head.len) + (IF dd THEN 1 ELSE 0)

\* Fault: digests are read and not compared.
HeadUnchecked(s, hd) == s[1][1] = "head"

\* The header parses, and its digest is right.
HeadSound(s, hd) == s[1][1] = "head" /\ (hd => s[2] = Crc(<<s[1]>>))

DataOf(s, hd, len) == SubSeq(s, HeadSize(hd) + 1, HeadSize(hd) + len)

\* The data digest is right.
BodySound(s, hd, dd, padded) ==
    LET len == s[1][2].len IN
    (dd /\ len > 0) =>
        s[HeadSize(hd) + Padded(len) + 1] =
            Crc(DataOf(s, hd, IF padded THEN Padded(len) ELSE len))

\* "pdu" when one can be taken from s, "error" when recv_pdu fails on s, "wait"
\* when it would wait for more.
Received(s, hd, dd, padded) ==
    IF Len(s) < HeadSize(hd) THEN "wait"
    ELSE IF ~HeadSound(s, hd) THEN "error"
    ELSE IF Len(s) < HeadSize(hd) + BodySize(s[1][2], dd) THEN "wait"
    ELSE IF BodySound(s, hd, dd, padded) THEN "pdu" ELSE "error"

\* The PDU taken, its bytes as they came, and what is left on the stream.
Taken(s, hd) ==
    LET head == s[1][2] IN
    [head |-> head,
     data |-> IF head.len = 0 THEN None
              ELSE [i \in 1 .. head.len |-> s[HeadSize(hd) + i][2]]]

Rest(s, hd, dd) == SubSeq(s, HeadSize(hd) + BodySize(s[1][2], dd) + 1, Len(s))
=============================================================================
