--------------------------- MODULE FramingProofs ---------------------------
(***************************************************************************)
(* What recv_pdu makes of what send_pdu wrote, for data segments of every  *)
(* length and every alignment.  The stream is cut into the header with its *)
(* digest, the data segment with its digest, and the rest; the segment is  *)
(* then compared element by element.                                       *)
(***************************************************************************)
EXTENDS Framing, SequenceTheorems, TLAPS

USE FramingAssumption DEF FramingAssumption

LEMMA PaddedBounds ==
    ASSUME NEW n \in Nat
    PROVE  Padded(n) \in Nat /\ Padded(n) >= n
<1> DEFINE q == (n + Align - 1) \div Align
           r == (n + Align - 1) % Align
<1>1. /\ q \in Int /\ r \in 0 .. Align - 1
      /\ n + Align - 1 = q * Align + r
    BY SMT
<1>2. q * Align \in Int /\ q * Align >= n
    BY <1>1, SMT
<1> QED
    BY <1>2 DEF Padded

LEMMA CutInTwo ==
    ASSUME NEW S, NEW a \in Seq(S), NEW b \in Seq(S), NEW s, s = a \o b
    PROVE  /\ s \in Seq(S) /\ Len(s) = Len(a) + Len(b)
           /\ \A i \in 1 .. Len(a) : s[i] = a[i]
           /\ \A i \in 1 .. Len(b) : s[Len(a) + i] = b[i]
BY ConcatProperties, LenProperties

LEMMA CutInThree ==
    ASSUME NEW S, NEW a \in Seq(S), NEW b \in Seq(S), NEW c \in Seq(S),
           NEW s, s = a \o b \o c
    PROVE  /\ s \in Seq(S) /\ Len(s) = Len(a) + Len(b) + Len(c)
           /\ \A i \in 1 .. Len(a) : s[i] = a[i]
           /\ \A i \in 1 .. Len(b) : s[Len(a) + i] = b[i]
           /\ SubSeq(s, Len(a) + Len(b) + 1, Len(s)) = c
<1>1. a \o b \in Seq(S) /\ Len(a \o b) = Len(a) + Len(b)
    BY ConcatProperties
<1>2. s \in Seq(S) /\ Len(s) = Len(a) + Len(b) + Len(c)
    BY <1>1, ConcatProperties
<1>3. \A i \in 1 .. Len(a) : s[i] = a[i]
    BY <1>1, ConcatProperties, LenProperties
<1>4. \A i \in 1 .. Len(b) : s[Len(a) + i] = b[i]
    BY <1>1, ConcatProperties, LenProperties
<1>5. \A i \in 1 .. Len(c) : s[Len(a) + Len(b) + i] = c[i]
    BY <1>1, ConcatProperties, LenProperties
<1>6. SubSeq(s, Len(a) + Len(b) + 1, Len(s)) = c
    <2> DEFINE t == SubSeq(s, Len(a) + Len(b) + 1, Len(s))
    <2>1. \A i \in Len(a) + Len(b) + 1 .. Len(s) : s[i] \in S
        BY <1>2, LenProperties, ElementOfSeq
    <2>2. /\ t \in Seq(S) /\ Len(t) = Len(c)
          /\ \A i \in 1 .. Len(c) : t[i] = s[Len(a) + Len(b) + i]
        BY <1>2, <2>1, LenProperties, SubSeqProperties
    <2> QED
        BY <1>5, <2>2, SeqEqual
<1> QED
    BY <1>2, <1>3, <1>4, <1>6

LEMMA PaddingShape ==
    ASSUME NEW S, Zero \in S, NEW n \in Nat
    PROVE  Padding(n) \in Seq(S) /\ Len(Padding(n)) = Padded(n) - n
<1>1. Padded(n) - n \in Nat
    BY PaddedBounds
<1>2. Padding(n) = [i \in 1 .. Padded(n) - n |-> Zero]
    BY DEF Padding
<1> QED
    BY <1>1, <1>2

LEMMA SegmentShape ==
    ASSUME NEW S, NEW D, NEW data \in Seq(D), Zero \in S,
           \A i \in 1 .. Len(data) : Byte(data[i]) \in S
    PROVE  /\ Bytes(data) \in Seq(S) /\ Len(Bytes(data)) = Len(data)
           /\ Segment(data) \in Seq(S) /\ Len(Segment(data)) = Padded(Len(data))
           /\ \A i \in 1 .. Len(data) :
                 Bytes(data)[i] = Byte(data[i]) /\ Segment(data)[i] = Byte(data[i])
<1> DEFINE n == Len(data)
           p == Padding(n)
<1>1. n \in Nat /\ DOMAIN data = 1 .. n
    BY LenProperties
<1>2. Bytes(data) \in Seq(S) /\ Len(Bytes(data)) = n
    BY <1>1 DEF Bytes
<1>3. \A i \in 1 .. n : Bytes(data)[i] = Byte(data[i])
    BY <1>1 DEF Bytes
<1>4. Padded(n) - n \in Nat
    BY <1>1, PaddedBounds
<1>5. p \in Seq(S) /\ Len(p) = Padded(n) - n
    BY <1>1, PaddingShape
<1>6. Segment(data) = Bytes(data) \o p
    BY DEF Segment
<1>7. /\ Segment(data) \in Seq(S)
      /\ Len(Segment(data)) = Len(Bytes(data)) + Len(p)
      /\ \A i \in 1 .. Len(Bytes(data)) : Segment(data)[i] = Bytes(data)[i]
    BY <1>2, <1>5, <1>6, CutInTwo
<1>8. n + (Padded(n) - n) = Padded(n)
    BY <1>1, PaddedBounds
<1> QED
    BY <1>2, <1>3, <1>5, <1>7, <1>8

\* A stretch of a sequence that holds t element by element is t.
LEMMA Stretch ==
    ASSUME NEW S, NEW s \in Seq(S), NEW t \in Seq(S), NEW k \in Nat,
           k + Len(t) <= Len(s),
           \A i \in 1 .. Len(t) : s[k + i] = t[i]
    PROVE  SubSeq(s, k + 1, k + Len(t)) = t
<1> DEFINE u == SubSeq(s, k + 1, k + Len(t))
<1>1. \A i \in k + 1 .. k + Len(t) : s[i] \in S
    BY LenProperties, ElementOfSeq
<1>2. /\ u \in Seq(S) /\ Len(u) = Len(t)
      /\ \A i \in 1 .. Len(t) : u[i] = s[k + i]
    BY <1>1, LenProperties, SubSeqProperties
<1> QED
    BY <1>2, SeqEqual

LEMMA HeadShape ==
    ASSUME NEW S, NEW head, NEW hd \in BOOLEAN,
           Bhs(head) \in S, Crc(<<Bhs(head)>>) \in S
    PROVE  /\ HeadPart(head, hd) \in Seq(S)
           /\ Len(HeadPart(head, hd)) = HeadSize(hd)
           /\ HeadPart(head, hd)[1] = Bhs(head)
           /\ hd => HeadPart(head, hd)[2] = Crc(<<Bhs(head)>>)
<1> DEFINE h == Bhs(head)
           d == Crc(<<h>>)
<1>1. /\ <<h>> \in Seq(S) /\ Len(<<h>>) = 1 /\ <<h>>[1] = h
      /\ <<d>> \in Seq(S) /\ Len(<<d>>) = 1 /\ <<d>>[1] = d
    OBVIOUS
<1>2. CASE hd
    <2>1. HeadPart(head, hd) = <<h>> \o <<d>>
        BY <1>2 DEF HeadPart
    <2> HIDE DEF h, d
    <2>2. /\ HeadPart(head, hd) \in Seq(S) /\ Len(HeadPart(head, hd)) = 2
          /\ HeadPart(head, hd)[1] = h /\ HeadPart(head, hd)[2] = d
        BY <1>1, <2>1, CutInTwo
    <2> QED
        BY <1>2, <2>2 DEF HeadSize, h, d
<1>3. CASE ~hd
    <2>1. HeadPart(head, hd) = <<h>> \o <<>>
        BY <1>3 DEF HeadPart
    <2> HIDE DEF h, d
    <2>2. HeadPart(head, hd) = <<h>>
        BY <1>1, <2>1, ConcatEmptySeq
    <2> QED
        BY <1>1, <1>3, <2>2 DEF HeadSize, h, d
<1> QED
    BY <1>2, <1>3

LEMMA BodyShape ==
    ASSUME NEW S, NEW D, NEW data \in Seq(D), data # None, data # <<>>,
           NEW dd \in BOOLEAN, NEW padded \in BOOLEAN,
           Zero \in S, Crc(Covered(data, padded)) \in S,
           \A i \in 1 .. Len(data) : Byte(data[i]) \in S
    PROVE  /\ BodyPart(data, dd, padded) \in Seq(S)
           /\ Len(BodyPart(data, dd, padded))
                = Padded(Len(data)) + (IF dd THEN 1 ELSE 0)
           /\ \A i \in 1 .. Padded(Len(data)) :
                 BodyPart(data, dd, padded)[i] = Segment(data)[i]
           /\ dd => BodyPart(data, dd, padded)[Padded(Len(data)) + 1]
                       = Crc(Covered(data, padded))
<1> DEFINE c == Crc(Covered(data, padded))
           b == BodyPart(data, dd, padded)
<1>1. Len(data) \in Nat \ {0}
    BY EmptySeq, LenProperties
<1>3. Segment(data) \in Seq(S) /\ Len(Segment(data)) = Padded(Len(data))
    BY SegmentShape
<1>4. Padded(Len(data)) \in Nat
    BY <1>1, PaddedBounds
<1>5. CASE dd
    <2>1. b = Segment(data) \o <<c>>
        BY <1>5 DEF BodyPart
    <2>2. <<c>> \in Seq(S) /\ Len(<<c>>) = 1 /\ <<c>>[1] = c
        OBVIOUS
    <2> HIDE DEF b, c
    <2>3. /\ b \in Seq(S) /\ Len(b) = Len(Segment(data)) + 1
          /\ \A i \in 1 .. Len(Segment(data)) : b[i] = Segment(data)[i]
          /\ b[Len(Segment(data)) + 1] = c
        BY <1>3, <2>1, <2>2, CutInTwo
    <2> QED
        BY <1>3, <1>5, <2>3 DEF b, c
<1>6. CASE ~dd
    <2>1. b = Segment(data) \o <<>>
        BY <1>6 DEF BodyPart
    <2>2. b = Segment(data)
        BY <1>3, <2>1, ConcatEmptySeq
    <2> QED
        BY <1>3, <1>4, <1>6, <2>2
<1> QED
    BY <1>5, <1>6

Elements(s) == {s[i] : i \in DOMAIN s}

IsSeq(s) == s \in Seq(Elements(s))

\* A PDU as send_pdu is given one.
Sound(pdu) ==
    /\ pdu = [head |-> pdu.head, data |-> pdu.data]
    /\ pdu.data = None \/ (IsSeq(pdu.data) /\ pdu.data # <<>>)
    /\ pdu.head.len = IF pdu.data = None THEN 0 ELSE Len(pdu.data)

\* s is what send_pdu writes of pdu, followed by rest;
Carries(s, pdu, rest, hd, dd, padded) == s = Serialize(pdu, hd, dd, padded) \o rest

\* recv_pdu takes pdu from s and leaves rest.
Yields(s, pdu, rest, hd, dd, padded) ==
    /\ Received(s, hd, dd, padded) = "pdu"
    /\ Taken(s, hd) = pdu
    /\ Rest(s, hd, dd) = rest

(***************************************************************************)
(* Of what send_pdu writes, whatever comes behind it, recv_pdu takes one   *)
(* PDU, the one that was sent, and leaves what came behind: for headers    *)
(* whose length is that of the data segment, where both ends agree on the  *)
(* digests and on what they cover.                                         *)
(***************************************************************************)
THEOREM RoundTrip ==
    ASSUME NEW pdu, Sound(pdu), NEW rest, IsSeq(rest),
           NEW hd \in BOOLEAN, NEW dd \in BOOLEAN, NEW padded \in BOOLEAN,
           NEW s, Carries(s, pdu, rest, hd, dd, padded)
    PROVE  Yields(s, pdu, rest, hd, dd, padded)
<1>0. PICK D, R, head, data :
        /\ head = pdu.head /\ data = pdu.data
        /\ D = Elements(data) /\ R = Elements(rest)
    OBVIOUS
<1>8. /\ data = None \/ (data \in Seq(D) /\ data # <<>>)
      /\ head.len = IF data = None THEN 0 ELSE Len(data)
      /\ pdu = [head |-> head, data |-> data]
    BY <1>0 DEF Sound, IsSeq
<1>9. rest \in Seq(R)
    BY <1>0 DEF IsSeq
<1> DEFINE S == R \cup {Bhs(head), Crc(<<Bhs(head)>>), Zero, Crc(Covered(data, padded))}
                  \cup {Byte(data[i]) : i \in 1 .. Len(data)}
           a == HeadPart(head, hd)
           b == BodyPart(data, dd, padded)
           H == HeadSize(hd)
<1>1. s = a \o b \o rest
    BY <1>0, <1>8 DEF Serialize, Carries
<1>2. rest \in Seq(S)
    <2>1. R \subseteq S
        OBVIOUS
    <2> HIDE DEF S
    <2> QED
        BY <1>9, <2>1
<1>3. /\ Bhs(head) \in S /\ Crc(<<Bhs(head)>>) \in S /\ Zero \in S
      /\ Crc(Covered(data, padded)) \in S
      /\ \A i \in 1 .. Len(data) : Byte(data[i]) \in S
    OBVIOUS
<1> HIDE DEF S
<1>4. /\ a \in Seq(S) /\ Len(a) = H /\ a[1] = Bhs(head)
      /\ hd => a[2] = Crc(<<Bhs(head)>>)
    BY <1>3, HeadShape
<1>5. H \in {1, 2} /\ (hd => H = 2)
    BY DEF HeadSize
<1>6. CASE data = None
    <2>1. b = <<>> /\ BodySize(head, dd) = 0 /\ head.len = 0
        BY <1>8, <1>6 DEF BodyPart, BodySize
    <2>2. b \in Seq(S) /\ Len(b) = 0
        BY <2>1
    <2> HIDE DEF a, b, H
    <2>3. /\ s \in Seq(S) /\ Len(s) = H + Len(rest)
          /\ \A i \in 1 .. H : s[i] = a[i]
          /\ SubSeq(s, H + 1, Len(s)) = rest
        BY <1>1, <1>2, <1>4, <1>5, <2>2, CutInThree, LenProperties
    <2>4. /\ s[1] = Bhs(head) /\ (hd => s[2] = Crc(<<Bhs(head)>>))
          /\ Len(s) >= H
        BY <1>2, <1>4, <1>5, <2>3, LenProperties
    <2>5. s[1][1] = "head" /\ s[1][2] = head
        BY <2>4 DEF Bhs
    <2>6. HeadSound(s, hd) /\ BodySound(s, hd, dd, padded)
        BY <2>1, <2>4, <2>5 DEF HeadSound, BodySound
    <2>7. Received(s, hd, dd, padded) = "pdu"
        BY <1>5, <2>1, <2>4, <2>5, <2>6 DEF Received, H
    <2>8. Taken(s, hd) = [head |-> head, data |-> data]
        BY <1>6, <1>8, <2>1, <2>5 DEF Taken
    <2>9. Rest(s, hd, dd) = rest
        BY <1>5, <2>1, <2>3, <2>5 DEF Rest, H
    <2> QED
        BY <1>8, <2>7, <2>8, <2>9 DEF Yields
<1>7. CASE data # None
    <2> DEFINE n == Len(data)
               P == Padded(n)
    <2>1. data \in Seq(D) /\ data # <<>> /\ head.len = n
        BY <1>8, <1>7
    <2>2. n \in Nat \ {0} /\ DOMAIN data = 1 .. n
        BY <2>1, EmptySeq, LenProperties
    <2>3. P \in Nat /\ P >= n
        BY <2>2, PaddedBounds
    <2>4. /\ b \in Seq(S) /\ Len(b) = P + (IF dd THEN 1 ELSE 0)
          /\ \A i \in 1 .. P : b[i] = Segment(data)[i]
          /\ dd => b[P + 1] = Crc(Covered(data, padded))
        <3>1. data \in Seq(D) /\ data # None /\ data # <<>>
            BY <1>7, <2>1
        <3>2. Crc(Covered(data, padded)) \in S /\ Zero \in S
            BY <1>3
        <3>3. \A i \in 1 .. Len(data) : Byte(data[i]) \in S
            BY <1>3
        <3> QED
            BY <3>1, <3>2, <3>3, BodyShape, SMTT(60)
    <2>5. BodySize(head, dd) = P + (IF dd THEN 1 ELSE 0)
        BY <2>1, <2>2 DEF BodySize
    <2>6. /\ Bytes(data) \in Seq(S) /\ Len(Bytes(data)) = n
          /\ Segment(data) \in Seq(S) /\ Len(Segment(data)) = P
          /\ \A i \in 1 .. n :
                Bytes(data)[i] = Byte(data[i]) /\ Segment(data)[i] = Byte(data[i])
        BY <1>3, <2>1, SegmentShape
    <2> HIDE DEF a, b, H, n, P
    <2>7. /\ s \in Seq(S) /\ Len(s) = H + Len(b) + Len(rest)
          /\ \A i \in 1 .. H : s[i] = a[i]
          /\ \A i \in 1 .. Len(b) : s[H + i] = b[i]
          /\ SubSeq(s, H + Len(b) + 1, Len(s)) = rest
        <3>1. /\ s \in Seq(S) /\ Len(s) = Len(a) + Len(b) + Len(rest)
              /\ \A i \in 1 .. Len(a) : s[i] = a[i]
              /\ \A i \in 1 .. Len(b) : s[Len(a) + i] = b[i]
              /\ SubSeq(s, Len(a) + Len(b) + 1, Len(s)) = rest
            <4>1. a \in Seq(S) /\ b \in Seq(S) /\ rest \in Seq(S)
                BY <1>2, <1>4, <2>4
            <4> QED
                BY <1>1, <4>1, CutInThree
        <3> QED
            BY <1>4, <3>1
    <2>8. /\ s[1] = Bhs(head) /\ (hd => s[2] = Crc(<<Bhs(head)>>))
        BY <1>4, <1>5, <2>7
    <2>9. s[1][1] = "head" /\ s[1][2] = head
        BY <2>8 DEF Bhs
    <2>10. Len(rest) \in Nat
        BY LenProperties
    <2>11. Len(s) >= H + BodySize(head, dd) /\ BodySize(head, dd) \in Nat
        BY <1>5, <2>3, <2>4, <2>5, <2>7, <2>10
    <2>12. \A i \in 1 .. P : s[H + i] = Segment(data)[i]
        BY <2>3, <2>4, <2>5, <2>7
    <2>13. \A i \in 1 .. n : s[H + i] = Byte(data[i])
        BY <2>2, <2>3, <2>6, <2>12
    <2>14. dd => s[H + P + 1] = Crc(Covered(data, padded))
        <3>1. dd => s[H + (P + 1)] = b[P + 1]
            BY <2>3, <2>4, <2>5, <2>7
        <3>2. H + (P + 1) = H + P + 1
            BY <1>5, <2>3
        <3> QED
            BY <2>4, <3>1, <3>2
    <2>15. SubSeq(s, H + 1, H + n) = Bytes(data)
        <3>1. \A i \in 1 .. Len(Bytes(data)) : s[H + i] = Bytes(data)[i]
            BY <2>6, <2>13
        <3> QED
            BY <1>5, <2>2, <2>3, <2>5, <2>6, <2>7, <2>11, <3>1, Stretch
    <2>16. SubSeq(s, H + 1, H + P) = Segment(data)
        <3>1. \A i \in 1 .. Len(Segment(data)) : s[H + i] = Segment(data)[i]
            BY <2>6, <2>12
        <3>2. H \in Nat /\ H + Len(Segment(data)) <= Len(s)
            BY <1>5, <2>3, <2>5, <2>6, <2>11, <2>7, LenProperties
        <3> QED
            BY <1>5, <2>6, <2>7, <3>1, <3>2, Stretch
    <2>17. DataOf(s, hd, IF padded THEN P ELSE n) = Covered(data, padded)
        BY <2>15, <2>16 DEF DataOf, Covered, H
    <2>18. HeadSound(s, hd)
        BY <2>8, <2>9 DEF HeadSound
    <2>19. BodySound(s, hd, dd, padded)
        BY <2>1, <2>9, <2>14, <2>17 DEF BodySound, H, P
    <2>20. Received(s, hd, dd, padded) = "pdu"
        <3>1. ~(Len(s) < H) /\ ~(Len(s) < H + BodySize(head, dd))
            BY <1>5, <2>7, <2>11, LenProperties
        <3> QED
            BY <2>9, <2>18, <2>19, <3>1 DEF Received, H
    <2>21. Taken(s, hd) = [head |-> head, data |-> data]
        <3>1. \A i \in 1 .. n : s[H + i][2] = data[i]
            BY <2>13 DEF Byte
        <3>2. [i \in 1 .. n |-> s[H + i][2]] = data
            BY <2>1, <2>2, <3>1
        <3> QED
            BY <2>1, <2>2, <2>9, <3>2 DEF Taken, H
    <2>22. Rest(s, hd, dd) = rest
        BY <2>4, <2>5, <2>7, <2>9 DEF Rest, H
    <2> QED
        BY <1>8, <2>20, <2>21, <2>22 DEF Yields
<1> QED
    BY <1>6, <1>7
=============================================================================
