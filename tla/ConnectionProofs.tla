--------------------------- MODULE ConnectionProofs ---------------------------
(***************************************************************************)
(* The connection, for all offers of the two sides, all commands, payloads *)
(* and segment lengths: what the login leaves in the parameters of the     *)
(* two, what a caller is told of its commands when an element is changed   *)
(* on the way, and what the target finds in the PDUs it is sent.           *)
(*                                                                         *)
(* Up to the end of the login the invariant is LoginInv, a list of the     *)
(* situations the login passes through. In each of them at most one PDU is *)
(* on the two streams: the login waits for every answer before it goes on  *)
(* (login.rs), and a stream that carries one PDU gives that PDU to its     *)
(* reader (FramingProofs).                                                 *)
(*                                                                         *)
(* After it the invariant is Served. The two streams are made of whole     *)
(* PDUs, of which the one with the changed element, if there is one, is    *)
(* not taken (Stream). Every command is in one of the situations of its    *)
(* own exchange (Situation), which say what the PDUs about it on the way,  *)
(* the initiator's record and the target's task have to do with each       *)
(* other. What is not about a single command is the order: CmdSN and       *)
(* ExpStatSN (Numbered, AckFollows). ConnInv is one or the other, with     *)
(* what the login needs for the first to lead to the second (Prospects).   *)
(***************************************************************************)
EXTENDS Connection, FramingProofs, WellFoundedInduction

----------------------------------------------------------------------------
(* PDUs that stand alone on a stream *)

\* None stands for no data segment: it is not one.
NoneIsNoData == \A S : None \notin Seq(S)

LEMMA SeqIsSeq ==
    ASSUME NEW S, NEW s \in Seq(S)
    PROVE  IsSeq(s)
<1>1. Len(s) \in Nat /\ DOMAIN s = 1 .. Len(s) /\ s = [i \in 1 .. Len(s) |-> s[i]]
    BY LenProperties
<1>2. \A i \in 1 .. Len(s) : s[i] \in Elements(s)
    BY <1>1 DEF Elements
<1> HIDE DEF Elements
<1>3. s \in [1 .. Len(s) -> Elements(s)]
    BY <1>1, <1>2
<1> QED
    BY <1>1, <1>3, SeqDef DEF IsSeq

LEMMA SerializedIsSeq ==
    ASSUME NEW pdu, Sound(pdu), NEW hd \in BOOLEAN, NEW dd \in BOOLEAN, NEW padded \in BOOLEAN
    PROVE  /\ IsSeq(Serialize(pdu, hd, dd, padded))
           /\ Len(Serialize(pdu, hd, dd, padded)) >= 1
           /\ Serialize(pdu, hd, dd, padded)[1] = Bhs(pdu.head)
<1>1. PICK head, data, a, b, s :
        /\ head = pdu.head /\ data = pdu.data
        /\ a = HeadPart(head, hd) /\ b = BodyPart(data, dd, padded)
        /\ s = Serialize(pdu, hd, dd, padded)
    OBVIOUS
<1>2. PICK S :
        /\ Bhs(head) \in S /\ Crc(<<Bhs(head)>>) \in S /\ Zero \in S
        /\ Crc(Covered(data, padded)) \in S
        /\ \A i \in 1 .. Len(data) : Byte(data[i]) \in S
    <2> DEFINE T == {Bhs(head), Crc(<<Bhs(head)>>), Zero, Crc(Covered(data, padded))}
                     \cup {Byte(data[i]) : i \in 1 .. Len(data)}
    <2>1. /\ Bhs(head) \in T /\ Crc(<<Bhs(head)>>) \in T /\ Zero \in T
          /\ Crc(Covered(data, padded)) \in T
          /\ \A i \in 1 .. Len(data) : Byte(data[i]) \in T
        OBVIOUS
    <2> HIDE DEF T
    <2> QED
        BY <2>1
<1>3. s = a \o b
    BY <1>1 DEF Serialize
<1>4. a \in Seq(S) /\ Len(a) = HeadSize(hd) /\ a[1] = Bhs(head)
    BY <1>1, <1>2, HeadShape
<1>5. b \in Seq(S)
    <2>1. CASE data = None
        BY <1>1, <2>1 DEF BodyPart
    <2>2. CASE data # None
        <3>1. data \in Seq(Elements(data)) /\ data # <<>>
            BY <1>1, <2>2 DEF Sound, IsSeq
        <3> QED
            BY <1>1, <1>2, <2>2, <3>1, BodyShape
    <2> QED
        BY <2>1, <2>2
<1>6. a \in Seq(S)
    BY <1>4
<1>7. /\ s \in Seq(S) /\ Len(s) = Len(a) + Len(b)
      /\ \A i \in 1 .. Len(a) : s[i] = a[i]
    BY <1>3, <1>5, <1>6, CutInTwo
<1>8. Len(a) >= 1 /\ Len(a) \in Nat /\ Len(b) \in Nat
    BY <1>4, <1>5, LenProperties DEF HeadSize
<1>9. Len(s) >= 1 /\ s[1] = Bhs(head)
    BY <1>4, <1>7, <1>8
<1>10. IsSeq(s)
    BY <1>7, SeqIsSeq
<1> QED
    BY <1>1, <1>9, <1>10

(* RoundTrip, for a PDU that nothing follows. *)
LEMMA ReadsAlone ==
    ASSUME NEW pdu, Sound(pdu), NEW hd \in BOOLEAN, NEW dd \in BOOLEAN, NEW padded \in BOOLEAN,
           NEW s, s = Serialize(pdu, hd, dd, padded)
    PROVE  Yields(s, pdu, <<>>, hd, dd, padded)
<1>1. PICK e : e = <<>>
    OBVIOUS
<1>2. s \in Seq(Elements(s))
    BY SerializedIsSeq DEF IsSeq
<1>3. s = s \o e
    <2> HIDE DEF Elements
    <2> QED
        BY <1>1, <1>2, ConcatEmptySeq
<1>4. IsSeq(e)
    <2>1. e \in Seq({})
        BY <1>1
    <2> QED
        BY <2>1, SeqIsSeq
<1>5. Carries(s, pdu, e, hd, dd, padded)
    BY <1>3 DEF Carries
<1>6. Yields(s, pdu, e, hd, dd, padded)
    BY <1>4, <1>5, RoundTrip
<1> QED
    BY <1>1, <1>6

LEMMA NothingToRead ==
    ASSUME NEW hd, NEW dd, NEW padded
    PROVE  Received(<<>>, hd, dd, padded) = "wait"
BY DEF Received, HeadSize

\* Without digests it does not matter what they would cover.
LEMMA PaddingUnseen ==
    ASSUME NEW pdu, NEW hd, NEW p, NEW q
    PROVE  Serialize(pdu, hd, FALSE, p) = Serialize(pdu, hd, FALSE, q)
BY DEF Serialize, BodyPart

LEMMA SoundLogin ==
    ASSUME NoneIsNoData, NEW csg, NEW sn, NEW ack, NEW text
    PROVE  Sound(LoginRequest(csg, sn, ack, text))
<1> DEFINE data == <<text>>
<1>1. data \in Seq({text}) /\ data # <<>> /\ Len(data) = 1
    OBVIOUS
<1> HIDE DEF data
<1>2. IsSeq(data) /\ data # None
    BY <1>1, SeqIsSeq DEF NoneIsNoData
<1> QED
    BY <1>1, <1>2 DEF Sound, LoginRequest, SegmentLen, data

\* A login response of the target: LoginResponse, apart from the state.
Response(status, sn, exp, data) ==
    [head |-> [op |-> "loginResponse", status |-> status, statSN |-> sn, exp |-> exp,
               len |-> SegmentLen(data)],
     data |-> data]

LEMMA SoundResponse ==
    ASSUME NoneIsNoData, NEW status, NEW sn, NEW exp, NEW text
    PROVE  Sound(Response(status, sn, exp, None)) /\ Sound(Response(status, sn, exp, <<text>>))
<1> DEFINE data == <<text>>
<1>1. data \in Seq({text}) /\ data # <<>> /\ Len(data) = 1
    OBVIOUS
<1> HIDE DEF data
<1>2. IsSeq(data) /\ data # None
    BY <1>1, SeqIsSeq DEF NoneIsNoData
<1> QED
    BY <1>1, <1>2 DEF Sound, Response, SegmentLen, data

----------------------------------------------------------------------------
(* The login *)

FirstRequest  == LoginRequest("security", 1, 0, "names")
SecondRequest == LoginRequest("operational", 2, 1, Text(params))

Plain(s, pdu) == s = Serialize(pdu, FALSE, FALSE, FALSE)

\* Both sides have the same parameters; MaxRecv and MaxSend change places.
SameParameters ==
    /\ params[MaxSend] = offer[MaxRecv]
    /\ params[MaxRecv] = offer[MaxSend]
    /\ \A k \in Keys \ {MaxRecv} : params[k] = offer[k]

\* What the target made of the initiator's text, and what the text it answered
\* with will be made of.
TextAgrees(text) ==
    /\ DOMAIN text = Keys
    /\ text[MaxRecv] = offer[MaxRecv] /\ offer[MaxSend] = params[MaxRecv]
    /\ \A k \in Keys \ {MaxRecv} : Result(k, params[k], text[k]) = offer[k]

Started == phase = "start" /\ toTarget = <<>> /\ toInitiator = <<>>
           /\ stage \in {"security", "closed"}

FirstAsked == phase = "security" /\ Plain(toTarget, FirstRequest) /\ toInitiator = <<>>
              /\ stage \in {"security", "closed"}

FirstAnswered ==
    /\ phase = "security" /\ toTarget = <<>>
    /\ \E status, sn, exp : Plain(toInitiator, Response(status, sn, exp, None))
    /\ stage \in {"security", "operational", "closed"}

SecondAsked == phase = "operational" /\ Plain(toTarget, SecondRequest) /\ toInitiator = <<>>
               /\ stage \in {"security", "operational", "closed"}

Refused ==
    /\ phase = "operational" /\ toTarget = <<>> /\ stage = "closed"
    /\ \E sn, exp : Plain(toInitiator, Response(2, sn, exp, None))

SecondAnswered ==
    /\ phase = "operational" /\ toTarget = <<>> /\ stage = "fullFeature"
    /\ \E text : TextAgrees(text) /\ Plain(toInitiator, Response(0, tStat - 1, tExp, <<text>>))

NothingDone ==
    /\ tasks = [c \in Cmd |-> None]
    /\ cmds = [c \in Cmd |-> [op |-> "none", at |-> "idle", data |-> <<>>]]
    /\ r2t = None /\ ~corrupted

Before ==
    /\ \/ Started \/ FirstAsked \/ FirstAnswered \/ SecondAsked \/ Refused \/ SecondAnswered
       \/ phase = "failed" /\ (stage = "closed" \/ toTarget = <<>>)
    /\ NothingDone
    /\ IsParams(params) /\ (stage # "fullFeature" => IsParams(offer))
    /\ tStat \in Nat

Running == phase \in {"fullFeature", "lost"} /\ stage = "fullFeature" /\ SameParameters

LoginInv == Before \/ Running

----------------------------------------------------------------------------
(* One PDU at a time, without digests *)

LEMMA SerializedAlone ==
    ASSUME NEW pdu, Sound(pdu), NEW hd \in BOOLEAN, NEW dd \in BOOLEAN, NEW padded \in BOOLEAN,
           NEW before, before = <<>>
    PROVE  before \o Serialize(pdu, hd, dd, padded) = Serialize(pdu, hd, dd, padded)
<1>1. PICK s : s = Serialize(pdu, hd, dd, padded)
    OBVIOUS
<1>2. s \in Seq(Elements(s))
    BY <1>1, SerializedIsSeq DEF IsSeq
<1>3. before \o s = s
    <2> HIDE DEF Elements
    <2> QED
        BY <1>2, ConcatEmptySeq
<1> QED
    BY <1>1, <1>3

LEMMA InitiatorReads ==
    ASSUME phase # "fullFeature", NEW pdu, Sound(pdu), Plain(toInitiator, pdu)
    PROVE  Arrived /\ Pdu = pdu /\ (Read => toInitiator' = <<>>)
<1>1. HeadDigest = FALSE /\ DataDigest = FALSE
    BY DEF HeadDigest, DataDigest, FullFeature
<1>2. PICK s : s = toInitiator
    OBVIOUS
<1>3. s = Serialize(pdu, FALSE, FALSE, FALSE)
    BY <1>2 DEF Plain
<1>4. Yields(s, pdu, <<>>, FALSE, FALSE, FALSE)
    BY <1>3, ReadsAlone
<1> QED
    BY <1>1, <1>2, <1>4 DEF Yields, Arrived, Pdu, Read

LEMMA InitiatorWaits ==
    ASSUME toInitiator = <<>>
    PROVE  ~Arrived
BY NothingToRead DEF Arrived

LEMMA InitiatorSends ==
    ASSUME phase # "fullFeature", toTarget = <<>>, NEW pdu, Sound(pdu), Send(pdu)
    PROVE  Plain(toTarget', pdu)
<1>1. HeadDigest = FALSE /\ DataDigest = FALSE
    BY DEF HeadDigest, DataDigest, FullFeature
<1>2. toTarget' = toTarget \o Serialize(pdu, FALSE, FALSE, FALSE)
    BY <1>1 DEF Send
<1> QED
    BY <1>2, SerializedAlone DEF Plain

LEMMA TargetReads ==
    ASSUME stage # "fullFeature", NEW pdu, Sound(pdu), Plain(toTarget, pdu)
    PROVE  TheyReceive = "pdu" /\ Request = pdu /\ (TheyRead => toTarget' = <<>>)
<1>1. TheirHeadDigest = FALSE /\ TheirDataDigest = FALSE
    BY DEF TheirHeadDigest, TheirDataDigest
<1>2. PICK s : s = toTarget
    OBVIOUS
<1>3. PaddingInDigest \in BOOLEAN
    BY ConnectionAssumption, Zenon DEF ConnectionAssumption
<1>4. PICK padded \in BOOLEAN : padded = PaddingInDigest
    BY <1>3, Zenon
<1>5. s = Serialize(pdu, FALSE, FALSE, padded)
    BY <1>2, PaddingUnseen DEF Plain
<1>6. Yields(s, pdu, <<>>, FALSE, FALSE, padded)
    BY <1>5, ReadsAlone
<1> QED
    BY <1>1, <1>2, <1>6, <1>4 DEF Yields, TheyReceive, Request, TheyRead

LEMMA TargetWaits ==
    ASSUME toTarget = <<>>
    PROVE  TheyReceive = "wait"
BY NothingToRead DEF TheyReceive

LEMMA TargetAnswers ==
    ASSUME stage # "fullFeature", toInitiator = <<>>, NEW pdu, Sound(pdu), Answer(pdu)
    PROVE  Plain(toInitiator', pdu)
<1>1. TheirHeadDigest = FALSE /\ TheirDataDigest = FALSE
    BY DEF TheirHeadDigest, TheirDataDigest
<1>2. toInitiator' = toInitiator \o Serialize(pdu, FALSE, FALSE, PaddingInDigest)
    BY <1>1 DEF Answer
<1>3. toInitiator' = toInitiator \o Serialize(pdu, FALSE, FALSE, FALSE)
    BY <1>2, PaddingUnseen
<1> QED
    BY <1>3, SerializedAlone DEF Plain

----------------------------------------------------------------------------
(* What apply_target_response makes of a conforming target's answer *)

\* A minimum is taken against the target's value and against the minimum alike.
LEMMA LesserTwice ==
    ASSUME NEW a \in Nat, NEW b \in Nat
    PROVE  Lesser(a, Lesser(a, b)) = Lesser(a, b)
BY SMT DEF Lesser

(***************************************************************************)
(* Both sides end with the result that RFC 7143 defines for the key, when  *)
(* the target answers with that result, and for a minimum also when it     *)
(* answers with a value of its own.                                        *)
(***************************************************************************)
THEOREM ResultsAgree ==
    ASSUME NEW k \in Keys \ {MaxRecv}, NEW ours, NEW theirs,
           k \in Numbers => ours \in Nat /\ theirs \in Nat,
           k \notin Numbers => ours \in BOOLEAN /\ theirs \in BOOLEAN
    PROVE  /\ Result(k, ours, Value(k, Agreed(k, ours, theirs))) = Agreed(k, ours, theirs)
           /\ k \in Minima => Result(k, ours, theirs) = Agreed(k, ours, theirs)
<1> USE DEF Keys, Digests, InOrder, Flags, Minima, Times, MaxRecv, MaxSend, Numbers
<1>1. CASE k \in Minima
    <2>1. Agreed(k, ours, theirs) = Lesser(ours, theirs)
        BY <1>1 DEF Agreed
    <2>2. \A v : Value(k, v) = v /\ Result(k, ours, v) = Lesser(ours, v)
        BY <1>1 DEF Value, Result
    <2> QED
        BY <1>1, <2>1, <2>2, LesserTwice
<1>2. CASE k \in Times
    <2>1. \A v : Value(k, v) = v /\ Result(k, ours, v) = v
        BY <1>2 DEF Value, Result
    <2> QED
        BY <1>2, <2>1
<1>3. CASE k \in Digests
    <2>1. Agreed(k, ours, theirs) = (ours /\ theirs)
        BY <1>3 DEF Agreed
    <2>2. \A v \in BOOLEAN : Result(k, ours, Value(k, v)) = v
        BY <1>3 DEF Value, Result
    <2> QED
        BY <1>3, <2>1, <2>2
<1>4. CASE k \in InOrder
    <2>1. Agreed(k, ours, theirs) = (ours \/ theirs)
        BY <1>4 DEF Agreed
    <2>2. \A v \in BOOLEAN : Result(k, ours, Value(k, v)) = v
        BY <1>4 DEF Value, Result
    <2> QED
        BY <1>4, <2>1, <2>2
<1>5. CASE k = "InitialR2T"
    <2>1. Agreed(k, ours, theirs) = (ours \/ theirs)
        BY <1>5 DEF Agreed
    <2>2. \A v \in BOOLEAN : Result(k, ours, Value(k, v)) = (ours \/ v)
        BY <1>5 DEF Value, Result
    <2> QED
        BY <1>5, <2>1, <2>2
<1>6. CASE k = "ImmediateData"
    <2>1. Agreed(k, ours, theirs) = (ours /\ theirs)
        BY <1>6 DEF Agreed
    <2>2. \A v \in BOOLEAN : Result(k, ours, Value(k, v)) = (ours /\ v)
        BY <1>6 DEF Value, Result
    <2> QED
        BY <1>6, <2>1, <2>2
<1> QED
    BY <1>1, <1>2, <1>3, <1>4, <1>5, <1>6

(* The text the target answers with, and what it keeps for itself. *)
LEMMA AnswerAgrees ==
    ASSUME NEW ours, NEW theirs, IsParams(ours), IsParams(theirs),
           NEW k \in Keys \ {MaxRecv}, NEW own \in BOOLEAN, NEW value,
           value = IF k \in Digests /\ ours[k] /\ ~theirs[k] THEN Reject
                   ELSE IF k \in Minima /\ own THEN theirs[k]
                   ELSE Value(k, Agreed(k, ours[k], theirs[k]))
    PROVE  Result(k, ours[k], value) = Agreed(k, ours[k], theirs[k])
<1>1. k \in DOMAIN ours /\ k \in DOMAIN theirs
    BY DEF IsParams
<1>2. /\ k \in Numbers => ours[k] \in Nat /\ theirs[k] \in Nat
      /\ k \notin Numbers => ours[k] \in BOOLEAN /\ theirs[k] \in BOOLEAN
    <2>1. CASE k \in Digests \cup Flags
        <3>1. k \notin Numbers
            BY <2>1 DEF Digests, Flags, InOrder, Numbers, Minima, Times, MaxRecv
        <3> QED
            BY <1>1, <2>1, <3>1 DEF IsParams
    <2>2. CASE k \notin Digests \cup Flags
        <3>1. k \in Numbers
            BY <2>2 DEF Keys
        <3> QED
            BY <1>1, <2>2, <3>1 DEF IsParams
    <2> QED
        BY <2>1, <2>2
<1>3. PICK a, b : a = ours[k] /\ b = theirs[k]
    OBVIOUS
<1>4. /\ k \in Numbers => a \in Nat /\ b \in Nat
      /\ k \notin Numbers => a \in BOOLEAN /\ b \in BOOLEAN
    BY <1>2, <1>3
<1>5. /\ Result(k, a, Value(k, Agreed(k, a, b))) = Agreed(k, a, b)
      /\ k \in Minima => Result(k, a, b) = Agreed(k, a, b)
    BY <1>4, ResultsAgree
<1>6. CASE k \in Digests /\ a /\ ~b
    <2>1. value = Reject /\ value # "CRC32C"
        BY <1>3, <1>6, NegotiationAssumption DEF NegotiationAssumption
    <2>2. k \notin Numbers /\ k \notin Minima
        BY <1>6 DEF Digests, Minima, Numbers, Times, MaxRecv
    <2>3. Result(k, a, value) = FALSE
        BY <1>6, <2>1, <2>2 DEF Result
    <2>4. Agreed(k, a, b) = FALSE
        <3>1. k \notin Minima \cup {"DefaultTime2Retain"} /\ k # "DefaultTime2Wait"
              /\ k \notin InOrder \cup {"InitialR2T"}
            BY <1>6 DEF Digests, Minima, InOrder
        <3>2. Agreed(k, a, b) = (a /\ b)
            BY <3>1 DEF Agreed
        <3> QED
            BY <1>4, <1>6, <2>2, <3>2
    <2> QED
        BY <1>3, <2>3, <2>4
<1>7. CASE ~(k \in Digests /\ a /\ ~b) /\ k \in Minima /\ own
    BY <1>3, <1>5, <1>7
<1>8. CASE ~(k \in Digests /\ a /\ ~b) /\ ~(k \in Minima /\ own)
    BY <1>3, <1>5, <1>8
<1> QED
    BY <1>6, <1>7, <1>8

\* What the target reads in the initiator's text.
LEMMA TextRead ==
    ASSUME IsParams(params), NEW k \in Keys, NEW v, v = Text(params)[k]
    PROVE  (IF k \in Digests THEN v = "CRC32C" ELSE IF k \in Flags THEN v = "Yes" ELSE v)
              = params[k]
<1>1. v = Value(k, params[k])
    BY DEF Text
<1>2. k \in DOMAIN params
    BY DEF IsParams
<1>3. CASE k \in Digests
    <2>1. params[k] \in BOOLEAN
        BY <1>2, <1>3 DEF IsParams
    <2> QED
        BY <1>1, <1>3, <2>1 DEF Value
<1>4. CASE k \in Flags /\ k \notin Digests
    <2>1. params[k] \in BOOLEAN
        BY <1>2, <1>4 DEF IsParams
    <2> QED
        BY <1>1, <1>4, <2>1 DEF Value
<1>5. CASE k \notin Flags /\ k \notin Digests
    BY <1>1, <1>5 DEF Value
<1> QED
    BY <1>3, <1>4, <1>5

----------------------------------------------------------------------------
(* The login, step by step *)

\* The situation before a step of the initiator.
LEMMA BeforeAt ==
    ASSUME Before
    PROVE  /\ phase \in {"start", "security", "operational", "failed"}
           /\ phase = "start" => Started
           /\ phase = "security" => FirstAsked \/ FirstAnswered
           /\ phase = "operational" => SecondAsked \/ Refused \/ SecondAnswered
           /\ stage \in {"security", "operational", "closed"} \/ toTarget = <<>>
BY DEF Before, Started, FirstAsked, FirstAnswered, SecondAsked, Refused, SecondAnswered

LEMMA LoginSendSecurity ==
    ASSUME NoneIsNoData, Before, SendSecurity
    PROVE  Before'
<1>1. phase = "start" /\ Started
    BY BeforeAt DEF SendSecurity
<1>2. Send(FirstRequest) /\ Sound(FirstRequest)
    BY SoundLogin DEF SendSecurity, FirstRequest
<1>3. Plain(toTarget', FirstRequest)
    BY <1>1, <1>2, InitiatorSends DEF Started
<1>4. FirstAsked'
    BY <1>1, <1>3 DEF SendSecurity, Started, FirstAsked, Plain, FirstRequest, targetVars
<1> QED
    BY <1>4 DEF Before, SendSecurity, NothingDone, targetVars

LEMMA LoginSecurityDone ==
    ASSUME NoneIsNoData, Before, SecurityDone
    PROVE  Before'
<1>1. FirstAnswered /\ phase = "security"
    <2>1. ~FirstAsked
        BY InitiatorWaits DEF SecurityDone, FirstAsked
    <2> QED
        BY <2>1, BeforeAt DEF SecurityDone
<1>2. PICK status, sn, exp : Plain(toInitiator, Response(status, sn, exp, None))
    BY <1>1 DEF FirstAnswered
<1>3. toInitiator' = <<>>
    BY <1>1, <1>2, SoundResponse, InitiatorReads DEF SecurityDone
<1>4. Send(SecondRequest) /\ Sound(SecondRequest)
    BY SoundLogin DEF SecurityDone, SecondRequest
<1>5. Plain(toTarget', SecondRequest)
    BY <1>1, <1>4, InitiatorSends DEF FirstAnswered
<1>6. SecondRequest' = SecondRequest
    BY DEF SecondRequest, SecurityDone
<1>7. SecondAsked'
    BY <1>1, <1>3, <1>5, <1>6 DEF SecurityDone, FirstAnswered, SecondAsked, Plain, targetVars
<1> QED
    BY <1>7 DEF Before, SecurityDone, NothingDone, targetVars

LEMMA LoginOperationalDone ==
    ASSUME NoneIsNoData, Before, OperationalDone
    PROVE  Running'
<1>1. phase = "operational" /\ Arrived /\ Accepted
    BY DEF OperationalDone
<1>2. ~SecondAsked
    BY <1>1, InitiatorWaits DEF SecondAsked
<1>3. ~Refused
    <2> SUFFICES ASSUME Refused PROVE FALSE
        OBVIOUS
    <2>1. PICK sn, exp : Plain(toInitiator, Response(2, sn, exp, None))
        BY DEF Refused
    <2>2. Pdu = Response(2, sn, exp, None)
        BY <1>1, <2>1, SoundResponse, InitiatorReads
    <2> QED
        BY <1>1, <2>2 DEF Accepted, Response
<1>4. SecondAnswered
    BY <1>1, <1>2, <1>3, BeforeAt
<1>5. PICK text : TextAgrees(text) /\ Plain(toInitiator, Response(0, tStat - 1, tExp, <<text>>))
    BY <1>4 DEF SecondAnswered
<1>6. Pdu = Response(0, tStat - 1, tExp, <<text>>)
    BY <1>1, <1>5, SoundResponse, InitiatorReads
<1>7. Pdu.data[1] = text
    BY <1>6 DEF Response
<1>8. params' = Applied(params, text) /\ offer' = offer /\ phase' = "fullFeature" /\ stage' = stage
    BY <1>7 DEF OperationalDone, targetVars
<1>9. DOMAIN params = Keys \cup {MaxSend} /\ DOMAIN text = Keys
    BY <1>5 DEF Before, IsParams, TextAgrees
<1>10. MaxSend \notin Keys /\ MaxRecv \in Keys /\ MaxRecv # MaxSend
    BY DEF MaxSend, MaxRecv, Keys, Numbers, Digests, Flags, InOrder, Minima, Times
<1>11. params'[MaxSend] = text[MaxRecv] /\ params'[MaxRecv] = params[MaxRecv]
    BY <1>8, <1>9, <1>10 DEF Applied
<1>12. \A k \in Keys \ {MaxRecv} : params'[k] = Result(k, params[k], text[k])
    BY <1>8, <1>9, <1>10 DEF Applied
<1>13. SameParameters'
    BY <1>5, <1>8, <1>11, <1>12 DEF TextAgrees, SameParameters
<1> QED
    BY <1>4, <1>8, <1>13 DEF Running, SecondAnswered

LEMMA LoginLoginFails ==
    ASSUME Before, LoginFails
    PROVE  Before'
<1>1. stage = "closed" \/ toTarget = <<>>
    <2>1. CASE Arrived
        <3>1. ~FirstAsked /\ ~SecondAsked
            BY <2>1, InitiatorWaits DEF FirstAsked, SecondAsked
        <3>2. FirstAnswered \/ Refused \/ SecondAnswered
            BY <3>1, BeforeAt DEF LoginFails
        <3> QED
            BY <3>2 DEF FirstAnswered, Refused, SecondAnswered
    <2>2. CASE ~Arrived
        BY <2>2 DEF LoginFails
    <2> QED
        BY <2>1, <2>2
<1> QED
    BY <1>1 DEF Before, LoginFails, NothingDone, targetVars

LEMMA TargetHasRequest ==
    ASSUME Before, TheyReceive = "pdu", stage # "fullFeature"
    PROVE  stage # "closed" => FirstAsked \/ SecondAsked
<1>1. toTarget # <<>>
    BY TargetWaits
<1> QED
    BY <1>1 DEF Before, Started, FirstAnswered, Refused, SecondAnswered

LEMMA SecurityAsked ==
    ASSUME NoneIsNoData, Before, TargetSecurity
    PROVE  FirstAsked /\ Request = FirstRequest
<1>1. stage = "security" /\ TheyReceive = "pdu" /\ Request.head.csg = "security" /\ TheyRead
    BY DEF TargetSecurity, LoginArrived
<1>2. ~SecondAsked
    <2> SUFFICES ASSUME SecondAsked PROVE FALSE
        OBVIOUS
    <2>1. Sound(SecondRequest) /\ Plain(toTarget, SecondRequest)
        BY SoundLogin DEF SecondRequest, SecondAsked
    <2>2. Request = SecondRequest
        BY <1>1, <2>1, TargetReads
    <2> QED
        BY <1>1, <2>2 DEF SecondRequest, LoginRequest
<1>3. FirstAsked
    BY <1>1, <1>2, TargetHasRequest
<1>4. Sound(FirstRequest) /\ Plain(toTarget, FirstRequest)
    BY <1>3, SoundLogin DEF FirstRequest, FirstAsked
<1> QED
    BY <1>1, <1>3, <1>4, TargetReads

LEMMA LoginTargetSecurity ==
    ASSUME NoneIsNoData, Before, TargetSecurity
    PROVE  Before'
<1>1. stage = "security" /\ TheyReceive = "pdu" /\ Request.head.csg = "security" /\ TheyRead
    BY DEF TargetSecurity, LoginArrived
<1>2. FirstAsked
    BY SecurityAsked
<1>3. toTarget' = <<>>
    <2>1. Sound(FirstRequest) /\ Plain(toTarget, FirstRequest)
        BY <1>2, SoundLogin DEF FirstRequest, FirstAsked
    <2> QED
        BY <1>1, <2>1, TargetReads
<1>4. PICK status, exp : Answer(Response(status, tStat, exp, None))
    BY DEF TargetSecurity, LoginResponse, Response
<1>5. Plain(toInitiator', Response(status, tStat, exp, None))
    BY <1>1, <1>2, <1>4, SoundResponse, TargetAnswers DEF FirstAsked
<1>6. stage' \in {"security", "operational", "closed"} /\ phase' = phase
    BY DEF TargetSecurity, loginVars
<1>7. FirstAnswered'
    BY <1>2, <1>3, <1>5, <1>6 DEF FirstAsked, FirstAnswered, Plain, Response, SegmentLen
<1> QED
    BY <1>7 DEF Before, TargetSecurity, NothingDone, loginVars

LEMMA LoginTargetOperational ==
    ASSUME NoneIsNoData, DeclaresLimit = TRUE, Before, TargetOperational
    PROVE  Before'
<1>1. stage = "operational" /\ TheyReceive = "pdu" /\ TheyRead
    BY DEF TargetOperational, LoginArrived
<1>2. SecondAsked
    BY <1>1, TargetHasRequest DEF FirstAsked
<1>3. Sound(SecondRequest) /\ Plain(toTarget, SecondRequest)
    BY <1>2, SoundLogin DEF SecondRequest, SecondAsked
<1>4. toTarget' = <<>> /\ Request = SecondRequest
    BY <1>1, <1>3, TargetReads
<1>5. phase' = "operational" /\ params' = params /\ tStat' = tStat + 1 /\ toInitiator = <<>>
    BY <1>2 DEF SecondAsked, TargetOperational, loginVars
<1>6. CASE stage' = "closed" /\ Answer(LoginResponse(2, Request.head.cmdSN, None))
           /\ UNCHANGED <<offer, tExp>>
    <2>1. PICK exp : Answer(Response(2, tStat, exp, None))
        BY <1>6 DEF LoginResponse, Response
    <2>2. Plain(toInitiator', Response(2, tStat, exp, None))
        BY <1>1, <1>5, <2>1, SoundResponse, TargetAnswers
    <2>3. Refused'
        BY <1>4, <1>5, <1>6, <2>2 DEF Refused, Plain, Response, SegmentLen
    <2> QED
        BY <1>5, <1>6, <2>3 DEF Before, TargetOperational, NothingDone
<1>7. CASE stage' # "closed"
    <2>1. PICK own \in BOOLEAN, exp \in 1 .. 2 :
            /\ Answer(LoginResponse(0, exp, <<[k \in Keys |-> AnswerTo(k, own)]>>))
            /\ offer' = [k \in Keys \cup {MaxSend} |->
                    IF k = MaxRecv THEN TheirLimit
                    ELSE IF k = MaxSend THEN Ours(MaxRecv)
                    ELSE Agreed(k, Ours(k), offer[k])]
            /\ tExp' = exp
            /\ stage' = "fullFeature"
        BY <1>7 DEF TargetOperational
    <2>2. PICK text : text = [k \in Keys |-> AnswerTo(k, own)]
        OBVIOUS
    <2>3. Answer(Response(0, tStat, exp, <<text>>))
        BY <2>1, <2>2 DEF LoginResponse, Response
    <2>4. Plain(toInitiator', Response(0, tStat, exp, <<text>>))
        BY <1>1, <1>5, <2>3, SoundResponse, TargetAnswers
    <2>5. \A k \in Keys : Ours(k) = params[k]
        <3>1. Request.data[1] = Text(params)
            BY <1>4 DEF SecondRequest, LoginRequest
        <3> QED
            BY <3>1, TextRead DEF Ours, Before
    <2>6. IsParams(params) /\ IsParams(offer)
        BY <1>1 DEF Before
    <2>7. MaxSend \notin Keys /\ MaxRecv \in Keys /\ MaxRecv # MaxSend
        BY DEF MaxSend, MaxRecv, Keys, Numbers, Digests, Flags, InOrder, Minima, Times
    <2>8. text[MaxRecv] = offer[MaxRecv] /\ offer'[MaxRecv] = offer[MaxRecv]
          /\ offer'[MaxSend] = params[MaxRecv] /\ DOMAIN text = Keys
        BY <2>1, <2>2, <2>5, <2>7 DEF AnswerTo, TheirLimit
    <2>9. ASSUME NEW k \in Keys \ {MaxRecv}
          PROVE  Result(k, params[k], text[k]) = offer'[k]
        <3>1. offer'[k] = Agreed(k, params[k], offer[k])
            BY <2>1, <2>5, <2>7
        <3>2. text[k] = IF k \in Digests /\ params[k] /\ ~offer[k] THEN Reject
                        ELSE IF k \in Minima /\ own THEN offer[k]
                        ELSE Value(k, Agreed(k, params[k], offer[k]))
            BY <2>2, <2>5 DEF AnswerTo
        <3> QED
            BY <2>6, <3>1, <3>2, AnswerAgrees
    <2>10. TextAgrees(text)'
        BY <1>5, <2>8, <2>9 DEF TextAgrees
    <2>11. tStat' - 1 = tStat
        BY <1>5 DEF Before
    <2>12. SecondAnswered'
        BY <1>4, <1>5, <2>1, <2>4, <2>10, <2>11 DEF SecondAnswered, Plain, Response, SegmentLen
    <2> QED
        BY <1>5, <2>1, <2>12 DEF Before, TargetOperational, NothingDone
<1> QED
    BY <1>6, <1>7 DEF TargetOperational

LEMMA LoginTargetCloses ==
    ASSUME Before, TargetCloses
    PROVE  Before'
<1>1. stage' = "closed" /\ stage \in {"security", "operational"}
      /\ UNCHANGED <<loginVars, cmds, r2t, toTarget, toInitiator, corrupted, tStat, tasks, offer>>
    BY DEF TargetCloses
<1>2. \/ Started' \/ FirstAsked' \/ FirstAnswered' \/ SecondAsked'
      \/ phase' = "failed" /\ stage' = "closed"
    <2>1. CASE Started
        BY <1>1, <2>1 DEF Started, loginVars
    <2>2. CASE FirstAsked
        BY <1>1, <2>2 DEF FirstAsked, Plain, FirstRequest, LoginRequest, loginVars
    <2>3. CASE FirstAnswered
        BY <1>1, <2>3 DEF FirstAnswered, Plain, Response, SegmentLen, loginVars
    <2>4. CASE SecondAsked
        <3>1. SecondRequest' = SecondRequest
            BY <1>1 DEF SecondRequest, loginVars
        <3> QED
            BY <1>1, <2>4, <3>1 DEF SecondAsked, Plain, loginVars
    <2> QED
        BY <1>1, <2>1, <2>2, <2>3, <2>4 DEF Before, Refused, SecondAnswered, loginVars
<1> QED
    BY <1>1, <1>2 DEF Before, NothingDone, loginVars

\* Before the login is over nothing else happens.
LEMMA LoginOnly ==
    ASSUME Before, Next
    PROVE  Login \/ TargetLogin
<1>1. ~FullFeature
    BY BeforeAt DEF FullFeature
<1>2. ~Receiver /\ ~Corruption /\ \A c \in Cmd : ~Submit(c)
    BY <1>1 DEF Receiver, HandleScsiResponse, HandleDataIn, HandleR2t, Receives, SendDataOut,
                ReceiverEnds, Corruption, Submit
<1>3. ~TargetTakes
    <2> SUFFICES ASSUME TargetTakes PROVE FALSE
        OBVIOUS
    <2>1. toTarget # <<>> /\ stage = "fullFeature"
        BY TargetWaits DEF TargetTakes, Serves
    <2> QED
        BY <2>1, BeforeAt
<1>4. \A c \in Cmd : tasks[c] = None
    BY DEF Before, NothingDone
<1>5. \A c \in Cmd : ~TargetAsks(c) /\ ~TargetSendsData(c) /\ ~TargetResponds(c)
    BY <1>4 DEF TargetAsks, TargetSendsData, TargetResponds, Idle
<1> QED
    BY <1>2, <1>3, <1>5 DEF Next, Target

LEMMA RunningStays ==
    ASSUME Running, [Next]_vars
    PROVE  Running'
<1>1. ~Login /\ ~TargetLogin
    BY DEF Running, Login, SendSecurity, SecurityDone, OperationalDone, LoginFails,
           TargetLogin, TargetSecurity, TargetOperational, TargetCloses, LoginArrived
<1>2. /\ params' = params /\ offer' = offer /\ stage' = stage
      /\ phase' \in {phase, "lost"}
    <2>1. CASE UNCHANGED vars
        BY <2>1 DEF vars, loginVars, targetVars
    <2>2. CASE Receiver
        BY <2>2 DEF Receiver, HandleScsiResponse, HandleDataIn, HandleR2t, Receives, SendDataOut,
                    ReceiverEnds, loginVars, targetVars
    <2>3. CASE Target
        BY <1>1, <2>3 DEF Target, TargetTakes, TargetAsks, TargetSendsData, TargetResponds,
                          keptVars, loginVars
    <2>4. CASE Corruption
        BY <2>4 DEF Corruption, loginVars, targetVars
    <2>5. CASE \E c \in Cmd : Submit(c)
        BY <2>5 DEF Submit, loginVars, targetVars
    <2> QED
        BY <1>1, <2>1, <2>2, <2>3, <2>4, <2>5 DEF Next
<1> QED
    BY <1>2 DEF Running, SameParameters

LEMMA LoginInit ==
    ASSUME Init
    PROVE  LoginInv
<1>1. Started
    BY DEF Init, Started
<1>2. IsParams(params) /\ IsParams(offer) /\ tStat \in Nat
    BY ConnectionAssumption DEF Init, ConnectionAssumption
<1> QED
    BY <1>1, <1>2 DEF Init, LoginInv, Before, NothingDone

LEMMA BeforeStays ==
    ASSUME Before, UNCHANGED vars
    PROVE  Before'
<1>1. UNCHANGED <<phase, params, stage, offer, tExp, tStat, tasks, cmds, r2t, corrupted,
                  toTarget, toInitiator>>
    BY DEF vars, loginVars, targetVars
<1>2. SecondRequest' = SecondRequest /\ FirstRequest' = FirstRequest
    BY <1>1 DEF SecondRequest, FirstRequest, LoginRequest
<1>3. (Started => Started') /\ (FirstAsked => FirstAsked') /\ (SecondAsked => SecondAsked')
    BY <1>1, <1>2 DEF Started, FirstAsked, SecondAsked, Plain
<1>4. (FirstAnswered => FirstAnswered') /\ (Refused => Refused')
    BY <1>1 DEF FirstAnswered, Refused, Plain, Response, SegmentLen
<1>5. SecondAnswered => SecondAnswered'
    BY <1>1 DEF SecondAnswered, Plain, Response, SegmentLen, TextAgrees
<1> QED
    BY <1>1, <1>3, <1>4, <1>5 DEF Before, NothingDone

LEMMA LoginStep ==
    ASSUME NoneIsNoData, DeclaresLimit = TRUE, LoginInv, [Next]_vars
    PROVE  LoginInv'
<1>1. CASE Running
    BY <1>1, RunningStays DEF LoginInv
<1>2. CASE Before /\ UNCHANGED vars
    BY <1>2, BeforeStays DEF LoginInv
<1>3. CASE Before /\ Next
    <2>1. Login \/ TargetLogin
        BY <1>3, LoginOnly
    <2> QED
        BY <1>3, <2>1, LoginSendSecurity, LoginSecurityDone, LoginOperationalDone, LoginLoginFails,
           LoginTargetSecurity, LoginTargetOperational, LoginTargetCloses
        DEF LoginInv, Login, TargetLogin
<1> QED
    BY <1>1, <1>2, <1>3 DEF LoginInv

(* After any login both sides go by the same parameters, for whatever they  *)
(* are configured with, if the target declares what it receives.            *)
THEOREM SameAfterLogin ==
    ASSUME NoneIsNoData, DeclaresLimit = TRUE
    PROVE  Spec => []ParametersAgree
<1>1. Init => LoginInv
    BY LoginInit
<1>2. LoginInv /\ [Next]_vars => LoginInv'
    BY LoginStep
<1>3. LoginInv => ParametersAgree
    BY BeforeAt DEF LoginInv, Running, SameParameters, ParametersAgree, FullFeature
<1> QED
    BY <1>1, <1>2, <1>3, PTL DEF Spec

----------------------------------------------------------------------------
(* Streams of many PDUs, one of which may be spoiled *)

\* What is on the stream for a PDU; pad says what its data digest covers,
Carried(seg, pdu, hd, dd, pad) ==
    IsSeq(seg) /\ Len(seg) >= 1 /\ seg = Serialize(pdu, hd, dd, pad)

\* or for one that was changed on the way: it is never taken.
Spoiled(seg, hd, dd) ==
    /\ IsSeq(seg) /\ Len(seg) >= 1
    /\ \A rest : IsSeq(rest) => Received(seg \o rest, hd, dd, FALSE) # "pdu"

\* The PDUs that are on s; the one at bad is spoiled.
Stream(s, pdus, bad, hd, dd, pad) ==
    /\ IsSeq(pdus) /\ bad \in 0 .. Len(pdus)
    /\ \A i \in 1 .. Len(pdus) : Sound(pdus[i])
    /\ \E left :
         /\ left[1] = s /\ left[Len(pdus) + 1] = <<>>
         /\ \A i \in 1 .. Len(pdus) + 1 : IsSeq(left[i])
         /\ \A i \in 1 .. Len(pdus) : \E seg :
               /\ left[i] = seg \o left[i + 1]
               /\ IF i = bad THEN Spoiled(seg, hd, dd) ELSE Carried(seg, pdus[i], hd, dd, pad)

LEMMA SeqLen ==
    ASSUME NEW s, IsSeq(s)
    PROVE  Len(s) \in Nat /\ DOMAIN s = 1 .. Len(s) /\ s = [i \in 1 .. Len(s) |-> s[i]]
<1>1. s \in Seq(Elements(s))
    BY DEF IsSeq
<1> HIDE DEF Elements
<1> QED
    BY <1>1, LenProperties

LEMMA Joined ==
    ASSUME NEW s, NEW t, IsSeq(s), IsSeq(t)
    PROVE  /\ IsSeq(s \o t) /\ Len(s \o t) = Len(s) + Len(t)
           /\ \A i \in 1 .. Len(s) : (s \o t)[i] = s[i]
           /\ \A i \in 1 .. Len(t) : (s \o t)[Len(s) + i] = t[i]
<1>1. PICK S : S = Elements(s) \cup Elements(t)
    OBVIOUS
<1>2. s \in Seq(S) /\ t \in Seq(S)
    <2>1. Elements(s) \subseteq S /\ Elements(t) \subseteq S
        BY <1>1
    <2>2. s \in Seq(Elements(s)) /\ t \in Seq(Elements(t))
        BY DEF IsSeq
    <2> HIDE DEF Elements
    <2> QED
        BY <2>1, <2>2
<1>3. PICK u : u = s \o t
    OBVIOUS
<1>4. /\ u \in Seq(S) /\ Len(u) = Len(s) + Len(t)
      /\ \A i \in 1 .. Len(s) : u[i] = s[i]
      /\ \A i \in 1 .. Len(t) : u[Len(s) + i] = t[i]
    BY <1>2, <1>3, CutInTwo
<1>5. IsSeq(u)
    BY <1>4, SeqIsSeq
<1> QED
    BY <1>3, <1>4, <1>5

LEMMA EmptyIsSeq ==
    ASSUME NEW s, s = <<>>
    PROVE  IsSeq(s) /\ Len(s) = 0 /\ 1 .. Len(s) = {}
<1>1. s \in Seq({}) /\ Len(s) = 0
    OBVIOUS
<1>2. IsSeq(s)
    BY <1>1, SeqIsSeq
<1>3. 1 .. Len(s) = {}
    BY <1>1
<1> QED
    BY <1>1, <1>2, <1>3

LEMMA SameSeq ==
    ASSUME NEW s, NEW t, IsSeq(s), IsSeq(t), Len(s) = Len(t),
           \A i \in 1 .. Len(s) : s[i] = t[i]
    PROVE  s = t
BY SeqLen

LEMMA JoinedNone ==
    ASSUME NEW s, IsSeq(s)
    PROVE  s \o <<>> = s /\ <<>> \o s = s /\ IsSeq(<<>>)
<1>1. s \in Seq(Elements(s))
    BY DEF IsSeq
<1>2. PICK e : e = <<>>
    OBVIOUS
<1>3. e \in Seq({})
    BY <1>2
<1>4. IsSeq(e)
    BY <1>3, SeqIsSeq
<1> HIDE DEF Elements
<1> QED
    BY <1>1, <1>2, <1>4, ConcatEmptySeq

LEMMA JoinedThree ==
    ASSUME NEW a, NEW b, NEW c, IsSeq(a), IsSeq(b), IsSeq(c)
    PROVE  (a \o b) \o c = a \o (b \o c)
<1>1. PICK S : S = Elements(a) \cup Elements(b) \cup Elements(c)
    OBVIOUS
<1>2. a \in Seq(S) /\ b \in Seq(S) /\ c \in Seq(S)
    <2>1. Elements(a) \subseteq S /\ Elements(b) \subseteq S /\ Elements(c) \subseteq S
        BY <1>1
    <2>2. a \in Seq(Elements(a)) /\ b \in Seq(Elements(b)) /\ c \in Seq(Elements(c))
        BY DEF IsSeq
    <2> HIDE DEF Elements
    <2> QED
        BY <2>1, <2>2
<1> QED
    BY <1>2, ConcatAssociative

LEMMA Longer ==
    ASSUME NEW s, IsSeq(s), NEW x
    PROVE  /\ IsSeq(Append(s, x)) /\ Len(Append(s, x)) = Len(s) + 1
           /\ \A i \in 1 .. Len(s) : Append(s, x)[i] = s[i]
           /\ Append(s, x)[Len(s) + 1] = x
<1>1. PICK S : S = Elements(s) \cup {x}
    OBVIOUS
<1>2. s \in Seq(S) /\ x \in S
    <2>1. Elements(s) \subseteq S
        BY <1>1
    <2>2. s \in Seq(Elements(s))
        BY DEF IsSeq
    <2> HIDE DEF Elements
    <2> QED
        BY <1>1, <2>1, <2>2
<1>3. PICK t : t = Append(s, x)
    OBVIOUS
<1>4. /\ t \in Seq(S) /\ Len(t) = Len(s) + 1
      /\ \A i \in 1 .. Len(s) : t[i] = s[i]
      /\ t[Len(s) + 1] = x
    BY <1>2, <1>3, AppendProperties
<1> QED
    BY <1>3, <1>4, SeqIsSeq

LEMMA Shorter ==
    ASSUME NEW s, IsSeq(s), s # <<>>
    PROVE  /\ IsSeq(Tail(s)) /\ Len(Tail(s)) = Len(s) - 1 /\ Len(s) >= 1
           /\ \A i \in 1 .. Len(s) - 1 : Tail(s)[i] = s[i + 1]
<1>1. PICK S : S = Elements(s)
    OBVIOUS
<1>2. s \in Seq(S)
    BY <1>1 DEF IsSeq
<1>3. PICK t : t = Tail(s)
    OBVIOUS
<1>4. Len(s) \in Nat /\ Len(s) >= 1
    BY <1>2, EmptySeq, LenProperties
<1>5. /\ t \in Seq(S) /\ Len(t) = Len(s) - 1
      /\ \A i \in 1 .. Len(s) - 1 : t[i] = s[i + 1]
    BY <1>2, <1>3, <1>4, HeadTailProperties
<1> QED
    BY <1>3, <1>4, <1>5, SeqIsSeq

LEMMA StreamOfNone ==
    ASSUME NEW hd, NEW dd, NEW pad
    PROVE  Stream(<<>>, <<>>, 0, hd, dd, pad)
<1>1. PICK e : e = <<>>
    OBVIOUS
<1>2. e \in Seq({}) /\ Len(e) = 0
    BY <1>1
<1>3. IsSeq(e)
    BY <1>2, SeqIsSeq
<1>4. PICK left : left = [i \in {1} |-> e]
    OBVIOUS
<1>5. left[1] = e
    BY <1>4
<1> HIDE DEF Elements
<1>6. \E x :
         /\ x[1] = e /\ x[Len(e) + 1] = e
         /\ \A i \in 1 .. Len(e) + 1 : IsSeq(x[i])
         /\ \A i \in 1 .. Len(e) : \E seg :
               /\ x[i] = seg \o x[i + 1]
               /\ IF i = 0 THEN Spoiled(seg, hd, dd) ELSE Carried(seg, e[i], hd, dd, pad)
    <2>1. Len(e) + 1 = 1 /\ 1 .. Len(e) = {} /\ 1 .. Len(e) + 1 = {1}
        BY <1>2
    <2> QED
        BY <1>3, <1>5, <2>1
<1>7. 0 \in 0 .. Len(e) /\ \A i \in 1 .. Len(e) : Sound(e[i])
    BY <1>2
<1> QED
    BY <1>1, <1>3, <1>6, <1>7 DEF Stream

(* send_pdu adds a PDU at the end. *)
LEMMA StreamSends ==
    ASSUME NEW s, NEW pdus, NEW bad, NEW hd \in BOOLEAN, NEW dd \in BOOLEAN, NEW pad \in BOOLEAN,
           Stream(s, pdus, bad, hd, dd, pad), NEW pdu, Sound(pdu)
    PROVE  Stream(s \o Serialize(pdu, hd, dd, pad), Append(pdus, pdu), bad, hd, dd, pad)
<1> DEFINE n == Len(pdus)
<1>1. PICK seg, more : seg = Serialize(pdu, hd, dd, pad) /\ more = Append(pdus, pdu)
    OBVIOUS
<1>2. Carried(seg, pdu, hd, dd, pad) /\ IsSeq(seg)
    BY <1>1, SerializedIsSeq DEF Carried
<1>3. n \in Nat /\ IsSeq(more) /\ Len(more) = n + 1 /\ more[n + 1] = pdu
      /\ \A i \in 1 .. n : more[i] = pdus[i]
    BY <1>1, SeqLen, Longer DEF Stream
<1>4. PICK left :
         /\ left[1] = s /\ left[n + 1] = <<>>
         /\ \A i \in 1 .. n + 1 : IsSeq(left[i])
         /\ \A i \in 1 .. n : \E g :
               /\ left[i] = g \o left[i + 1]
               /\ IF i = bad THEN Spoiled(g, hd, dd) ELSE Carried(g, pdus[i], hd, dd, pad)
    BY DEF Stream
<1>5. PICK new : new = [i \in 1 .. n + 2 |-> IF i <= n + 1 THEN left[i] \o seg ELSE <<>>]
    OBVIOUS
<1>6. n + 2 = Len(more) + 1 /\ bad \in 0 .. n
    BY <1>3 DEF Stream
<1>7. new[1] = s \o seg /\ new[n + 2] = <<>> /\ new[n + 1] = seg
    <2>1. new[n + 1] = left[n + 1] \o seg
        BY <1>3, <1>5
    <2>2. left[n + 1] \o seg = seg
        BY <1>2, <1>4, JoinedNone
    <2>3. new[1] = left[1] \o seg /\ new[n + 2] = <<>>
        BY <1>3, <1>5
    <2> QED
        BY <1>4, <2>1, <2>2, <2>3
<1>8. \A i \in 1 .. n + 2 : IsSeq(new[i])
    <2> TAKE i \in 1 .. n + 2
    <2>1. CASE i = n + 2
        BY <1>2, <1>7, <2>1, JoinedNone
    <2>2. CASE i # n + 2
        <3>1. i \in 1 .. n + 1 /\ new[i] = left[i] \o seg
            BY <1>3, <1>5, <2>2
        <3> QED
            BY <1>2, <1>4, <3>1, Joined
    <2> QED
        BY <2>1, <2>2
<1>9. ASSUME NEW i \in 1 .. n + 1
      PROVE  \E g : /\ new[i] = g \o new[i + 1]
                    /\ IF i = bad THEN Spoiled(g, hd, dd) ELSE Carried(g, more[i], hd, dd, pad)
    <2>1. CASE i = n + 1
        <3>1. new[i] = seg \o new[i + 1]
            <4>1. i + 1 = n + 2 /\ seg \o <<>> = seg
                BY <1>2, <1>3, <2>1, JoinedNone
            <4> QED
                BY <1>7, <2>1, <4>1
        <3>2. i # bad /\ more[i] = pdu
            BY <1>3, <1>6, <2>1
        <3> QED
            BY <1>2, <3>1, <3>2
    <2>2. CASE i # n + 1
        <3>1. i \in 1 .. n /\ i + 1 \in 1 .. n + 1 /\ i \in 1 .. n + 1
            BY <1>3, <2>2
        <3>2. PICK g : /\ left[i] = g \o left[i + 1]
                       /\ IF i = bad THEN Spoiled(g, hd, dd) ELSE Carried(g, pdus[i], hd, dd, pad)
            BY <1>4, <3>1
        <3>3. IsSeq(g) /\ IsSeq(left[i + 1])
            BY <1>4, <3>1, <3>2 DEF Spoiled, Carried
        <3>4. new[i] = left[i] \o seg /\ new[i + 1] = left[i + 1] \o seg
            <4>1. i \in 1 .. n + 2 /\ i <= n + 1 /\ i + 1 \in 1 .. n + 2 /\ i + 1 <= n + 1
                BY <1>3, <3>1
            <4> QED
                BY <1>5, <4>1
        <3>5. new[i] = g \o new[i + 1]
            <4>1. PICK b : b = left[i + 1]
                OBVIOUS
            <4>2. IsSeq(g) /\ IsSeq(b) /\ IsSeq(seg)
                BY <1>2, <3>3, <4>1
            <4>3. (g \o b) \o seg = g \o (b \o seg)
                BY <4>2, JoinedThree, SMTT(60)
            <4> QED
                BY <3>2, <3>4, <4>1, <4>3
        <3> QED
            BY <1>3, <3>1, <3>2, <3>5
    <2> QED
        BY <2>1, <2>2
<1>10. \A i \in 1 .. n + 1 : Sound(more[i])
    <2> TAKE i \in 1 .. n + 1
    <2>1. CASE i = n + 1
        BY <1>3, <2>1
    <2>2. CASE i # n + 1
        <3>1. i \in 1 .. n
            BY <1>3, <2>2
        <3> QED
            BY <1>3, <3>1 DEF Stream
    <2> QED
        BY <2>1, <2>2
<1>11. bad \in 0 .. n + 1
    BY <1>3, <1>6
<1> HIDE DEF n
<1>12. Stream(s \o seg, more, bad, hd, dd, pad)
    <2>1. \E x :
         /\ x[1] = s \o seg /\ x[Len(more) + 1] = <<>>
         /\ \A i \in 1 .. Len(more) + 1 : IsSeq(x[i])
         /\ \A i \in 1 .. Len(more) : \E g :
               /\ x[i] = g \o x[i + 1]
               /\ IF i = bad THEN Spoiled(g, hd, dd) ELSE Carried(g, more[i], hd, dd, pad)
        <3>1. n + 2 = Len(more) + 1 /\ n + 1 = Len(more)
            BY <1>3
        <3> QED
            BY <1>7, <1>8, <1>9, <3>1
    <2> QED
        BY <1>3, <1>10, <1>11, <2>1 DEF Stream
<1> QED
    BY <1>1, <1>12

\* s is cut behind its first PDU.
Cut(s, g, rest, pdu, bad, hd, dd, pad) ==
    /\ s = g \o rest /\ IsSeq(rest)
    /\ bad = 1 => Spoiled(g, hd, dd)
    /\ bad # 1 => Carried(g, pdu, hd, dd, pad)

(* The first PDU on a stream, and the stream behind it. *)
LEMMA StreamFirst ==
    ASSUME NEW s, NEW pdus, NEW bad, NEW hd \in BOOLEAN, NEW dd \in BOOLEAN, NEW pad \in BOOLEAN,
           Stream(s, pdus, bad, hd, dd, pad), pdus # <<>>
    PROVE  /\ Len(pdus) >= 1 /\ IsSeq(pdus) /\ Sound(pdus[1])
           /\ \E g, rest, next :
                 /\ Cut(s, g, rest, pdus[1], bad, hd, dd, pad) /\ (bad = 0 => next = 0)
                 /\ Stream(rest, Tail(pdus), next, hd, dd, pad)
<1> DEFINE n == Len(pdus)
<1>1. IsSeq(pdus) /\ n \in Nat /\ bad \in 0 .. n
    BY SeqLen DEF Stream
<1>2. PICK left :
         /\ left[1] = s /\ left[n + 1] = <<>>
         /\ \A i \in 1 .. n + 1 : IsSeq(left[i])
         /\ \A i \in 1 .. n : \E g :
               /\ left[i] = g \o left[i + 1]
               /\ IF i = bad THEN Spoiled(g, hd, dd) ELSE Carried(g, pdus[i], hd, dd, pad)
    BY DEF Stream
<1>3. /\ n >= 1 /\ IsSeq(Tail(pdus)) /\ Len(Tail(pdus)) = n - 1
      /\ \A i \in 1 .. n - 1 : Tail(pdus)[i] = pdus[i + 1]
    BY <1>1, Shorter
<1>4. PICK g : /\ s = g \o left[2]
               /\ IF 1 = bad THEN Spoiled(g, hd, dd) ELSE Carried(g, pdus[1], hd, dd, pad)
    <2>1. 1 \in 1 .. n /\ 1 + 1 = 2
        BY <1>1, <1>3
    <2>2. PICK g : /\ left[1] = g \o left[1 + 1]
                   /\ IF 1 = bad THEN Spoiled(g, hd, dd) ELSE Carried(g, pdus[1], hd, dd, pad)
        BY <1>2, <2>1
    <2> QED
        BY <1>2, <2>1, <2>2
<1>5. IsSeq(left[2])
    BY <1>1, <1>2, <1>3
<1>6. PICK rest, next, new :
        /\ rest = Tail(pdus) /\ next = (IF bad = 0 THEN 0 ELSE bad - 1)
        /\ new = [i \in 1 .. n |-> left[i + 1]]
    OBVIOUS
<1>7. IsSeq(rest) /\ Len(rest) = n - 1 /\ \A i \in 1 .. n - 1 : rest[i] = pdus[i + 1]
    BY <1>3, <1>6
<1>8. next \in 0 .. n - 1 /\ \A i \in 1 .. n - 1 : i = next <=> i + 1 = bad
    BY <1>1, <1>3, <1>6
<1>9. \A i \in 1 .. n - 1 : Sound(rest[i])
    <2> TAKE i \in 1 .. n - 1
    <2>1. i + 1 \in 1 .. n
        BY <1>1
    <2> QED
        BY <1>7, <2>1 DEF Stream
<1>10. new[1] = left[2] /\ new[n] = <<>> /\ \A i \in 1 .. n : IsSeq(new[i])
    BY <1>1, <1>2, <1>3, <1>6
<1>11. ASSUME NEW i \in 1 .. n - 1
       PROVE  \E x : /\ new[i] = x \o new[i + 1]
                     /\ IF i = next THEN Spoiled(x, hd, dd) ELSE Carried(x, rest[i], hd, dd, pad)
    <2>1. i + 1 \in 1 .. n /\ new[i] = left[i + 1] /\ new[i + 1] = left[i + 1 + 1]
        BY <1>1, <1>6
    <2> QED
        BY <1>2, <1>7, <1>8, <2>1
<1> HIDE DEF n
<1>12. Stream(left[2], rest, next, hd, dd, pad)
    <2>1. \E x :
         /\ x[1] = left[2] /\ x[Len(rest) + 1] = <<>>
         /\ \A i \in 1 .. Len(rest) + 1 : IsSeq(x[i])
         /\ \A i \in 1 .. Len(rest) : \E y :
               /\ x[i] = y \o x[i + 1]
               /\ IF i = next THEN Spoiled(y, hd, dd) ELSE Carried(y, rest[i], hd, dd, pad)
        <3>1. n = Len(rest) + 1 /\ n - 1 = Len(rest)
            BY <1>1, <1>7
        <3> QED
            BY <1>10, <1>11, <3>1
    <2> QED
        BY <1>7, <1>8, <1>9, <2>1 DEF Stream
<1>13. Sound(pdus[1])
    BY <1>1, <1>3 DEF Stream, n
<1>14. Cut(s, g, left[2], pdus[1], bad, hd, dd, pad) /\ (bad = 0 => next = 0)
    BY <1>4, <1>5, <1>6 DEF Cut
<1>15. Stream(left[2], Tail(pdus), next, hd, dd, pad)
    BY <1>6, <1>12
<1>16. n >= 1 /\ IsSeq(pdus) /\ Sound(pdus[1])
    BY <1>1, <1>3, <1>13
<1> QED
    BY <1>14, <1>16, <1>15 DEF n

\* x is the first of the PDUs,
FirstOf(x, pdus) == x = pdus[1]

\* and rest is the stream behind it.
Remains(rest, pdus, bad, hd, dd, pad) ==
    \E next : Stream(rest, Tail(pdus), next, hd, dd, pad) /\ (bad = 0 => next = 0)

(* recv_pdu takes the first, unless it is spoiled. *)
LEMMA StreamReads ==
    ASSUME NEW s, NEW pdus, NEW bad, NEW hd \in BOOLEAN, NEW dd \in BOOLEAN, NEW pad \in BOOLEAN,
           Stream(s, pdus, bad, hd, dd, pad), NEW read \in BOOLEAN,
           bad = 0 \/ read = FALSE, Received(s, hd, dd, read) = "pdu"
    PROVE  /\ pdus # <<>> /\ FirstOf(Taken(s, hd), pdus)
           /\ Remains(Rest(s, hd, dd), pdus, bad, hd, dd, pad)
<1>1. pdus # <<>>
    <2> SUFFICES ASSUME pdus = <<>> PROVE FALSE
        OBVIOUS
    <2>1. s = <<>>
        BY DEF Stream
    <2> QED
        BY <2>1, NothingToRead
<1>2. PICK g, rest, next :
         /\ Cut(s, g, rest, pdus[1], bad, hd, dd, pad) /\ (bad = 0 => next = 0)
         /\ Stream(rest, Tail(pdus), next, hd, dd, pad)
    BY <1>1, StreamFirst
<1>3. Sound(pdus[1])
    BY <1>1, StreamFirst
<1>4. bad # 1
    <2>1. CASE bad = 0
        BY <2>1
    <2>2. CASE read = FALSE
        <3>1. Received(s, hd, dd, FALSE) = "pdu"
            BY <2>2
        <3> QED
            BY <1>2, <3>1 DEF Spoiled, Cut
    <2> QED
        BY <2>1, <2>2
<1>5. Yields(s, pdus[1], rest, hd, dd, pad)
    <2>1. Carries(s, pdus[1], rest, hd, dd, pad)
        BY <1>2, <1>4 DEF Carries, Carried, Cut
    <2>2. IsSeq(rest)
        BY <1>2 DEF Cut
    <2> QED
        BY <1>3, <2>1, <2>2, RoundTrip
<1>6. Taken(s, hd) = pdus[1] /\ Rest(s, hd, dd) = rest
    BY <1>5 DEF Yields
<1> QED
    BY <1>1, <1>2, <1>6 DEF FirstOf, Remains

\* recv_pdu fails on s for the digest of its first PDU: it is read over the
\* padding and was computed without it.
Mismatch(s, hd, dd, read) ==
    LET head == Taken(s, hd).head IN dd /\ read /\ Padded(head.len) # head.len

(* Of a stream on which nothing is spoiled a PDU can be read, if there is   *)
(* one and both sides digest the same bytes.                                *)
LEMMA StreamReadable ==
    ASSUME NEW s, NEW pdus, NEW hd \in BOOLEAN, NEW dd \in BOOLEAN,
           Stream(s, pdus, 0, hd, dd, FALSE), NEW read \in BOOLEAN,
           Received(s, hd, dd, read) = "error"
    PROVE  Mismatch(s, hd, dd, read)
<1>1. CASE pdus = <<>>
    <2>1. s = <<>>
        BY <1>1 DEF Stream
    <2> QED
        BY <2>1, NothingToRead
<1>2. CASE pdus # <<>>
    <2>1. PICK bad, pad : bad = 0 /\ pad = FALSE
        OBVIOUS
    <2>2. Stream(s, pdus, bad, hd, dd, pad) /\ pad \in BOOLEAN
        BY <2>1
    <2>3. PICK g, rest : Cut(s, g, rest, pdus[1], bad, hd, dd, pad)
        BY <1>2, <2>2, StreamFirst
    <2>4. Sound(pdus[1])
        BY <1>2, <2>2, StreamFirst
    <2>5. IsSeq(rest) /\ s = g \o rest /\ Carried(g, pdus[1], hd, dd, FALSE)
        <3>1. IsSeq(rest) /\ s = g \o rest /\ Carried(g, pdus[1], hd, dd, pad)
            BY <2>1, <2>3 DEF Cut
        <3>2. pad = FALSE
            BY <2>1
        <3> QED
            BY <3>1, <3>2, Zenon
    <2>6. Carries(s, pdus[1], rest, hd, dd, FALSE)
        BY <2>5 DEF Carries, Carried
    <2>7. Yields(s, pdus[1], rest, hd, dd, FALSE)
        BY <2>4, <2>6, <2>5, RoundTrip
    <2>8. Received(s, hd, dd, FALSE) = "pdu"
        BY <2>7 DEF Yields
    <2>9. BodySound(s, hd, dd, FALSE) /\ ~BodySound(s, hd, dd, read)
        BY <2>8 DEF Received
    <2>10. PICK n : n = s[1][2].len
        OBVIOUS
    <2>11. dd /\ read /\ Padded(n) # n
        BY <2>9, <2>10 DEF BodySound
    <2>12. Taken(s, hd).head = s[1][2]
        BY DEF Taken
    <2> QED
        BY <2>10, <2>11, <2>12 DEF Mismatch
<1> QED
    BY <1>1, <1>2

LEMMA StreamEmpty ==
    ASSUME NEW pdus, NEW bad, NEW hd, NEW dd, NEW pad, Stream(<<>>, pdus, bad, hd, dd, pad)
    PROVE  pdus = <<>>
<1> SUFFICES ASSUME pdus # <<>> PROVE FALSE
    OBVIOUS
<1> DEFINE n == Len(pdus)
<1>1. IsSeq(pdus) /\ n \in Nat /\ n >= 1
    BY SeqLen, Shorter DEF Stream
<1>2. PICK left :
         /\ left[1] = <<>>
         /\ \A i \in 1 .. n + 1 : IsSeq(left[i])
         /\ \A i \in 1 .. n : \E g :
               /\ left[i] = g \o left[i + 1]
               /\ IF i = bad THEN Spoiled(g, hd, dd) ELSE Carried(g, pdus[i], hd, dd, pad)
    BY DEF Stream
<1>3. 1 \in 1 .. n /\ 1 + 1 = 2 /\ 2 \in 1 .. n + 1
    BY <1>1
<1>4. PICK g : /\ left[1] = g \o left[1 + 1]
               /\ IF 1 = bad THEN Spoiled(g, hd, dd) ELSE Carried(g, pdus[1], hd, dd, pad)
    BY <1>2, <1>3
<1>5. IsSeq(g) /\ Len(g) >= 1
    BY <1>4 DEF Spoiled, Carried
<1>6. PICK t : t = left[2] /\ IsSeq(t)
    BY <1>2, <1>3
<1>7. Len(g \o t) = Len(g) + Len(t) /\ Len(g) \in Nat /\ Len(t) \in Nat
    BY <1>5, <1>6, Joined, SeqLen
<1>8. g \o t = <<>>
    BY <1>2, <1>3, <1>4, <1>6
<1>9. Len(g \o t) = 0
    BY <1>8
<1> QED
    BY <1>5, <1>7, <1>9

----------------------------------------------------------------------------
(* What a change of one element does *)

\* The elements of a PDU on the stream.
LEMMA SegmentElements ==
    ASSUME NEW data, IsSeq(data)
    PROVE  /\ IsSeq(Segment(data)) /\ Len(Segment(data)) = Padded(Len(data))
           /\ \A i \in 1 .. Len(data) : Segment(data)[i] = Byte(data[i])
           /\ \A i \in Len(data) + 1 .. Padded(Len(data)) : Segment(data)[i] = Zero
           /\ IsSeq(Bytes(data)) /\ Len(Bytes(data)) = Len(data)
           /\ \A i \in 1 .. Len(data) : Bytes(data)[i] = Byte(data[i])
<1> DEFINE n == Len(data)
           P == Padded(n)
<1>1. n \in Nat /\ DOMAIN data = 1 .. n
    BY SeqLen
<1>2. P \in Nat /\ P >= n
    BY <1>1, PaddedBounds
<1> HIDE DEF P
<1>3. PICK b : b = Bytes(data)
    OBVIOUS
<1>4. PICK z : z = Padding(n)
    OBVIOUS
<1>5. b = [i \in 1 .. n |-> Byte(data[i])]
    BY <1>1, <1>3 DEF Bytes
<1>6. z = [i \in 1 .. P - n |-> Zero]
    BY <1>4 DEF Padding, P
<1>7. Len(b) = n /\ Len(z) = P - n
    BY <1>1, <1>2, <1>5, <1>6
<1>8. IsSeq(b)
    <2>1. b \in Seq({Byte(data[i]) : i \in 1 .. n})
        BY <1>1, <1>5
    <2> QED
        BY <2>1, SeqIsSeq
<1>9. IsSeq(z)
    <2>1. z \in Seq({Zero})
        BY <1>1, <1>2, <1>6
    <2> QED
        BY <2>1, SeqIsSeq
<1>10. PICK s : s = Segment(data)
    OBVIOUS
<1>11. s = b \o z
    BY <1>3, <1>4, <1>10 DEF Segment
<1>12. /\ IsSeq(s) /\ Len(s) = Len(b) + Len(z)
       /\ \A i \in 1 .. Len(b) : s[i] = b[i]
       /\ \A i \in 1 .. Len(z) : s[Len(b) + i] = z[i]
    BY <1>8, <1>9, <1>11, Joined
<1>13. \A i \in n + 1 .. P : s[i] = Zero
    <2> TAKE i \in n + 1 .. P
    <2>1. i - n \in 1 .. P - n /\ n + (i - n) = i
        BY <1>1, <1>2
    <2>2. s[n + (i - n)] = z[i - n]
        BY <1>7, <1>12, <2>1
    <2>3. z[i - n] = Zero
        BY <1>6, <2>1
    <2> QED
        BY <2>1, <2>2, <2>3
<1>14. n + (P - n) = P
    BY <1>1, <1>2
<1>15. \A i \in 1 .. n : s[i] = Byte(data[i]) /\ b[i] = Byte(data[i])
    BY <1>5, <1>7, <1>12
<1> QED
    BY <1>3, <1>7, <1>8, <1>10, <1>12, <1>13, <1>14, <1>15 DEF P

LEMMA HeadElements ==
    ASSUME NEW head, NEW hd \in BOOLEAN
    PROVE  /\ IsSeq(HeadPart(head, hd)) /\ Len(HeadPart(head, hd)) = HeadSize(hd)
           /\ HeadPart(head, hd)[1] = Bhs(head)
           /\ hd => HeadPart(head, hd)[2] = Crc(<<Bhs(head)>>)
<1>1. PICK S : S = {Bhs(head), Crc(<<Bhs(head)>>)}
    OBVIOUS
<1>2. Bhs(head) \in S /\ Crc(<<Bhs(head)>>) \in S
    BY <1>1
<1>3. /\ HeadPart(head, hd) \in Seq(S)
      /\ Len(HeadPart(head, hd)) = HeadSize(hd)
      /\ HeadPart(head, hd)[1] = Bhs(head)
      /\ hd => HeadPart(head, hd)[2] = Crc(<<Bhs(head)>>)
    BY <1>2, HeadShape
<1>4. IsSeq(HeadPart(head, hd))
    BY <1>3, SeqIsSeq
<1> QED
    BY <1>3, <1>4

LEMMA BodyElements ==
    ASSUME NEW data, IsSeq(data), data # None, NEW dd \in BOOLEAN, NEW pad \in BOOLEAN
    PROVE  /\ IsSeq(BodyPart(data, dd, pad))
           /\ Len(BodyPart(data, dd, pad)) = Padded(Len(data)) + (IF dd THEN 1 ELSE 0)
           /\ \A i \in 1 .. Len(data) : BodyPart(data, dd, pad)[i] = Byte(data[i])
           /\ \A i \in Len(data) + 1 .. Padded(Len(data)) : BodyPart(data, dd, pad)[i] = Zero
           /\ dd => BodyPart(data, dd, pad)[Padded(Len(data)) + 1] = Crc(Covered(data, pad))
<1> DEFINE n == Len(data)
           P == Padded(n)
<1>1. n \in Nat /\ P \in Nat /\ P >= n
    BY SeqLen, PaddedBounds
<1>2. PICK s, c, b : s = Segment(data) /\ c = Crc(Covered(data, pad)) /\ b = BodyPart(data, dd, pad)
    OBVIOUS
<1>3. /\ IsSeq(s) /\ Len(s) = P
      /\ \A i \in 1 .. n : s[i] = Byte(data[i])
      /\ \A i \in n + 1 .. P : s[i] = Zero
    BY <1>2, SegmentElements
<1> HIDE DEF P, n
<1>4. CASE dd = TRUE
    <2>1. PICK t : t = <<c>>
        OBVIOUS
    <2>2. Len(t) = 1 /\ t[1] = c /\ t \in Seq({c})
        BY <2>1
    <2>3. b = s \o t
        BY <1>2, <1>4, <2>1 DEF BodyPart
    <2>4. IsSeq(t)
        BY <2>2, SeqIsSeq
    <2>5. IsSeq(s)
        BY <1>3
    <2>6. /\ IsSeq(b) /\ Len(b) = Len(s) + Len(t)
          /\ \A i \in 1 .. Len(s) : b[i] = s[i]
          /\ \A i \in 1 .. Len(t) : b[Len(s) + i] = t[i]
        BY <2>3, <2>4, <2>5, Joined
    <2>7. /\ IsSeq(b) /\ Len(b) = P + 1
          /\ \A i \in 1 .. P : b[i] = s[i]
          /\ \A i \in 1 .. 1 : b[P + i] = t[i]
        BY <1>3, <2>2, <2>6
    <2>8. b[P + 1] = c
        BY <2>7, <2>2
    <2>9. \A i \in 1 .. n : b[i] = Byte(data[i])
        BY <1>1, <1>3, <2>7
    <2>10. \A i \in n + 1 .. P : b[i] = Zero
        BY <1>1, <1>3, <2>7
    <2> QED
        BY <1>2, <1>4, <2>7, <2>8, <2>9, <2>10 DEF P, n
<1>5. CASE dd = FALSE
    <2>1. b = s \o <<>>
        BY <1>2, <1>5 DEF BodyPart
    <2>2. b = s
        BY <1>3, <2>1, JoinedNone
    <2>3. P + 0 = P
        BY <1>1
    <2> QED
        BY <1>2, <1>3, <1>5, <2>2, <2>3 DEF P, n
<1> QED
    BY <1>4, <1>5

(* The kinds of the elements of a PDU.                                     *)
LEMMA Kinds ==
    /\ \A x : Bhs(x)[1] = "head" /\ Byte(x)[1] = "byte" /\ Crc(x)[1] = "crc"
    /\ Zero[1] = "pad"
BY DEF Bhs, Byte, Crc, Zero

LEMMA HeadKinds ==
    ASSUME NEW head, NEW hd \in BOOLEAN, NEW a, a = HeadPart(head, hd)
    PROVE  /\ IsSeq(a) /\ Len(a) = HeadSize(hd)
           /\ \A i \in 1 .. Len(a) : a[i][1] # "byte" /\ (a[i][1] = "head" => i = 1)
<1>1. /\ IsSeq(a) /\ Len(a) = HeadSize(hd) /\ a[1] = Bhs(head)
      /\ hd => a[2] = Crc(<<Bhs(head)>>)
    BY HeadElements
<1>2. a[1][1] = "head"
    BY <1>1, Kinds
<1>3. hd => a[2][1] = "crc"
    BY <1>1, Kinds
<1>4. hd => \A i \in 1 .. Len(a) : i = 1 \/ i = 2
    BY <1>1 DEF HeadSize
<1>5. ~hd => \A i \in 1 .. Len(a) : i = 1
    BY <1>1 DEF HeadSize
<1> QED
    BY <1>1, <1>2, <1>3, <1>4, <1>5

LEMMA BodyKinds ==
    ASSUME NEW pdu, Sound(pdu), NEW dd \in BOOLEAN, NEW pad \in BOOLEAN,
           NEW b, b = BodyPart(pdu.data, dd, pad)
    PROVE  /\ IsSeq(b) /\ Len(b) = BodySize(pdu.head, dd)
           /\ pdu.head.len \in Nat
           /\ \A i \in 1 .. Len(b) : b[i][1] # "head" /\ (b[i][1] = "byte" => i <= pdu.head.len)
<1>1. PICK data, n : data = pdu.data /\ n = pdu.head.len
    OBVIOUS
<1>2. CASE data = None
    <2>1. b = <<>>
        BY <1>1, <1>2 DEF BodyPart
    <2>2. n = 0
        BY <1>1, <1>2 DEF Sound
    <2>3. BodySize(pdu.head, dd) = 0
        BY <1>1, <2>2 DEF BodySize
    <2>4. 1 .. Len(b) = {} /\ Len(b) = 0 /\ IsSeq(b)
        <3>1. PICK z : z = <<>>
            OBVIOUS
        <3>2. 1 .. Len(z) = {} /\ Len(z) = 0 /\ IsSeq(z)
            BY <3>1, EmptyIsSeq
        <3> QED
            BY <2>1, <3>1, <3>2
    <2>5. Len(b) = BodySize(pdu.head, dd) /\ pdu.head.len \in Nat
        <3>1. n \in Nat
            BY <2>2
        <3> QED
            BY <1>1, <2>3, <2>4, <3>1, Zenon
    <2>6. \A i \in 1 .. Len(b) : b[i][1] # "head" /\ (b[i][1] = "byte" => i <= pdu.head.len)
        BY <2>4
    <2> QED
        BY <2>4, <2>5, <2>6, Zenon
<1>3. CASE data # None
    <2>1. IsSeq(data) /\ data # <<>> /\ n = Len(data)
        BY <1>1, <1>3 DEF Sound
    <2>2. n \in Nat /\ n >= 1 /\ Padded(n) \in Nat /\ Padded(n) >= n
        BY <2>1, SeqLen, Shorter, PaddedBounds
    <2>3. /\ IsSeq(b) /\ Len(b) = Padded(n) + (IF dd THEN 1 ELSE 0)
          /\ \A i \in 1 .. n : b[i] = Byte(data[i])
          /\ \A i \in n + 1 .. Padded(n) : b[i] = Zero
          /\ dd => b[Padded(n) + 1] = Crc(Covered(data, pad))
        <3>1. b = BodyPart(data, dd, pad)
            BY <1>1
        <3>2. data # None /\ IsSeq(data) /\ n = Len(data)
            BY <1>3, <2>1
        <3>3. /\ IsSeq(b) /\ Len(b) = Padded(Len(data)) + (IF dd THEN 1 ELSE 0)
              /\ \A i \in 1 .. Len(data) : b[i] = Byte(data[i])
              /\ \A i \in Len(data) + 1 .. Padded(Len(data)) : b[i] = Zero
              /\ dd => b[Padded(Len(data)) + 1] = Crc(Covered(data, pad))
            BY <3>1, <3>2, BodyElements
        <3> QED
            BY <3>2, <3>3, Zenon
    <2>4. BodySize(pdu.head, dd) = Padded(n) + (IF dd THEN 1 ELSE 0)
        BY <1>1, <2>2 DEF BodySize
    <2>5. PICK P : P = Padded(n)
        OBVIOUS
    <2>6. \A i \in 1 .. n : b[i][1] = "byte" /\ b[i][1] # "head"
        BY <2>3, Kinds
    <2>7. \A i \in n + 1 .. P : b[i][1] = "pad"
        BY <2>3, <2>5, Kinds
    <2>8. dd => b[P + 1][1] = "crc"
        BY <2>3, <2>5, Kinds
    <2>9. Len(b) = P + (IF dd THEN 1 ELSE 0) /\ P \in Nat /\ P >= n
        BY <2>2, <2>3, <2>5
    <2>10. PICK L : L = Len(b)
        OBVIOUS
    <2>11. ASSUME NEW i \in 1 .. L
           PROVE  i \in 1 .. n \/ i \in n + 1 .. P \/ (dd /\ i = P + 1)
        <3>1. n \in Nat /\ P \in Nat /\ P >= n /\ L = P + (IF dd THEN 1 ELSE 0)
            BY <2>2, <2>5, <2>9, <2>10
        <3> QED
            BY <3>1
    <2>12. ASSUME NEW i \in 1 .. L
           PROVE  b[i][1] # "head" /\ (b[i][1] = "byte" => i <= n)
        <3>1. CASE i \in 1 .. n
            <4>1. n \in Nat
                BY <2>2
            <4>2. i <= n
                BY <3>1, <4>1
            <4> QED
                BY <2>6, <3>1, <4>2
        <3>2. CASE i \in n + 1 .. P
            BY <2>7, <3>2
        <3>3. CASE dd /\ i = P + 1
            BY <2>8, <3>3
        <3> QED
            BY <2>11, <3>1, <3>2, <3>3
    <2>13. \A i \in 1 .. Len(b) : b[i][1] # "head" /\ (b[i][1] = "byte" => i <= n)
        BY <2>10, <2>12
    <2> QED
        BY <1>1, <2>2, <2>3, <2>4, <2>13
<1> QED
    BY <1>2, <1>3

(* Where the header and the bytes of a PDU are.                            *)
LEMMA Layout ==
    ASSUME NEW pdu, Sound(pdu), NEW hd \in BOOLEAN, NEW dd \in BOOLEAN, NEW pad \in BOOLEAN, NEW g,
           Carried(g, pdu, hd, dd, pad), NEW H, H = HeadSize(hd), NEW n, n = pdu.head.len
    PROVE  /\ IsSeq(g) /\ Len(g) = H + BodySize(pdu.head, dd) /\ g[1] = Bhs(pdu.head)
           /\ n \in Nat /\ BodySize(pdu.head, dd) \in Nat
           /\ \A i \in 1 .. Len(g) : /\ g[i][1] = "byte" => i \in H + 1 .. H + n
                                     /\ g[i][1] = "head" => i = 1
<1>1. PICK a, b : a = HeadPart(pdu.head, hd) /\ b = BodyPart(pdu.data, dd, pad)
    OBVIOUS
<1>2. g = a \o b
    BY <1>1 DEF Carried, Serialize
<1>3. /\ IsSeq(a) /\ Len(a) = H
      /\ \A i \in 1 .. H : a[i][1] # "byte" /\ (a[i][1] = "head" => i = 1)
    BY <1>1, HeadKinds
<1>4. /\ IsSeq(b) /\ Len(b) = BodySize(pdu.head, dd) /\ n \in Nat
      /\ \A i \in 1 .. Len(b) : b[i][1] # "head" /\ (b[i][1] = "byte" => i <= n)
    BY <1>1, BodyKinds
<1>5. IsSeq(a) /\ IsSeq(b)
    BY <1>3, <1>4
<1>6. /\ IsSeq(g) /\ Len(g) = Len(a) + Len(b)
      /\ \A i \in 1 .. Len(a) : g[i] = a[i]
      /\ \A i \in 1 .. Len(b) : g[Len(a) + i] = b[i]
    BY <1>2, <1>5, Joined
<1>7. Len(b) \in Nat
    BY <1>5, SeqLen
<1>8. H \in {1, 2}
    BY DEF HeadSize
<1>9. g[1] = Bhs(pdu.head)
    BY SerializedIsSeq DEF Carried
<1>10. ASSUME NEW i \in 1 .. Len(g)
       PROVE  /\ g[i][1] = "byte" => i \in H + 1 .. H + n
              /\ g[i][1] = "head" => i = 1
    <2>1. CASE i \in 1 .. H
        <3>1. g[i] = a[i]
            BY <1>3, <1>6, <2>1
        <3>2. g[i][1] = a[i][1]
            BY <3>1
        <3> QED
            BY <1>3, <2>1, <3>2
    <2>2. CASE i \notin 1 .. H
        <3>1. PICK k : k = i - H
            OBVIOUS
        <3>2. k \in 1 .. Len(b) /\ i = H + k
            BY <1>3, <1>6, <1>7, <1>8, <2>2, <3>1
        <3>3. g[i] = b[k]
            BY <1>3, <1>6, <3>2
        <3>4. g[i][1] = b[k][1]
            BY <3>3
        <3>5. g[i][1] # "head" /\ (g[i][1] = "byte" => k <= n)
            BY <1>4, <3>2, <3>4
        <3> QED
            BY <1>4, <1>8, <3>2, <3>5
    <2> QED
        BY <2>1, <2>2
<1>11. Len(g) = H + BodySize(pdu.head, dd) /\ BodySize(pdu.head, dd) \in Nat
    BY <1>3, <1>4, <1>6, <1>7
<1> QED
    BY <1>4, <1>6, <1>9, <1>10, <1>11

\* Element j of s is e.
Put(s, j, e) == [s EXCEPT ![j] = e]

LEMMA Altered ==
    ASSUME NEW s, IsSeq(s), NEW j, j \in 1 .. Len(s), NEW e
    PROVE  /\ IsSeq(Put(s, j, e)) /\ Len(Put(s, j, e)) = Len(s) /\ Put(s, j, e)[j] = e
           /\ \A i \in 1 .. Len(s) : i # j => Put(s, j, e)[i] = s[i]
<1>1. PICK S, t : S = Elements(s) \cup {e} /\ t = Put(s, j, e)
    OBVIOUS
<1>2. s \in Seq(S) /\ e \in S
    <2>1. Elements(s) \subseteq S
        BY <1>1
    <2>2. s \in Seq(Elements(s))
        BY DEF IsSeq
    <2> HIDE DEF Elements
    <2> QED
        BY <1>1, <2>1, <2>2
<1>3. t = [s EXCEPT ![j] = e]
    BY <1>1 DEF Put
<1>4. /\ t \in Seq(S) /\ Len(t) = Len(s)
      /\ \A i \in 1 .. Len(s) : t[i] = IF i = j THEN e ELSE s[i]
    BY <1>2, <1>3, ExceptSeq
<1>5. IsSeq(t)
    BY <1>4, SeqIsSeq
<1> QED
    BY <1>1, <1>4, <1>5

LEMMA AlteredFront ==
    ASSUME NEW g, NEW rest, IsSeq(g), IsSeq(rest), NEW j, j \in 1 .. Len(g), NEW e
    PROVE  Put(g \o rest, j, e) = Put(g, j, e) \o rest
<1>1. PICK t : t = g \o rest
    OBVIOUS
<1>2. PICK u, h : u = Put(t, j, e) /\ h = Put(g, j, e)
    OBVIOUS
<1>3. PICK v : v = h \o rest
    OBVIOUS
<1>4. /\ IsSeq(t) /\ Len(t) = Len(g) + Len(rest)
      /\ \A i \in 1 .. Len(g) : t[i] = g[i]
      /\ \A i \in 1 .. Len(rest) : t[Len(g) + i] = rest[i]
    BY <1>1, Joined
<1>5. Len(g) \in Nat /\ Len(rest) \in Nat
    BY SeqLen
<1>6. IsSeq(t) /\ j \in 1 .. Len(t)
    BY <1>4, <1>5
<1>7. IsSeq(u) /\ Len(u) = Len(t) /\ u[j] = e /\ \A i \in 1 .. Len(t) : i # j => u[i] = t[i]
    BY <1>2, <1>6, Altered
<1>8. IsSeq(h) /\ Len(h) = Len(g) /\ h[j] = e /\ \A i \in 1 .. Len(g) : i # j => h[i] = g[i]
    BY <1>2, Altered
<1>9. IsSeq(h)
    BY <1>8
<1>10. /\ IsSeq(v) /\ Len(v) = Len(h) + Len(rest)
       /\ \A i \in 1 .. Len(h) : v[i] = h[i]
       /\ \A i \in 1 .. Len(rest) : v[Len(h) + i] = rest[i]
    BY <1>9, <1>3, Joined
<1>11. ASSUME NEW i \in 1 .. Len(u) PROVE u[i] = v[i]
    <2>1. CASE i \in 1 .. Len(g)
        <3>1. v[i] = h[i] /\ t[i] = g[i] /\ i \in 1 .. Len(t)
            BY <1>4, <1>5, <1>8, <1>10, <2>1
        <3> QED
            BY <1>7, <1>8, <2>1, <3>1
    <2>2. CASE i \notin 1 .. Len(g)
        <3>1. PICK k : k = i - Len(g)
            OBVIOUS
        <3>2. k \in 1 .. Len(rest) /\ i = Len(g) + k /\ i # j /\ i \in 1 .. Len(t)
            BY <1>4, <1>5, <1>7, <2>2, <3>1
        <3> QED
            BY <1>4, <1>7, <1>8, <1>10, <3>2
    <2> QED
        BY <2>1, <2>2
<1>12. Len(u) = Len(v) /\ IsSeq(u) /\ IsSeq(v)
    BY <1>4, <1>7, <1>8, <1>10
<1>13. u = v
    BY <1>11, <1>12, SameSeq
<1> QED
    BY <1>1, <1>2, <1>13, <1>3

\* A change behind g is a change of rest.
Behind(g, rest, j, k, e) == Put(g \o rest, j, e) = g \o Put(rest, k, e)

LEMMA AlteredBack ==
    ASSUME NEW g, NEW rest, IsSeq(g), IsSeq(rest), NEW k, k \in 1 .. Len(rest), NEW e,
           NEW j, j = Len(g) + k
    PROVE  Behind(g, rest, j, k, e)
<1>1. PICK t : t = g \o rest
    OBVIOUS
<1>2. PICK u, r : u = Put(t, j, e) /\ r = Put(rest, k, e)
    OBVIOUS
<1>3. PICK v : v = g \o r
    OBVIOUS
<1>4. /\ IsSeq(t) /\ Len(t) = Len(g) + Len(rest)
      /\ \A i \in 1 .. Len(g) : t[i] = g[i]
      /\ \A i \in 1 .. Len(rest) : t[Len(g) + i] = rest[i]
    BY <1>1, Joined
<1>5. Len(g) \in Nat /\ Len(rest) \in Nat
    BY SeqLen
<1>6. IsSeq(t) /\ j \in 1 .. Len(t)
    BY <1>4, <1>5
<1>7. IsSeq(u) /\ Len(u) = Len(t) /\ u[j] = e /\ \A i \in 1 .. Len(t) : i # j => u[i] = t[i]
    BY <1>2, <1>6, Altered
<1>8. IsSeq(r) /\ Len(r) = Len(rest) /\ r[k] = e
      /\ \A i \in 1 .. Len(rest) : i # k => r[i] = rest[i]
    BY <1>2, Altered
<1>9. IsSeq(r)
    BY <1>8
<1>10. /\ IsSeq(v) /\ Len(v) = Len(g) + Len(r)
       /\ \A i \in 1 .. Len(g) : v[i] = g[i]
       /\ \A i \in 1 .. Len(r) : v[Len(g) + i] = r[i]
    BY <1>9, <1>3, Joined
<1>11. ASSUME NEW i \in 1 .. Len(u) PROVE u[i] = v[i]
    <2>1. CASE i \in 1 .. Len(g)
        <3>1. v[i] = g[i] /\ t[i] = g[i] /\ i \in 1 .. Len(t) /\ i # j
            BY <1>4, <1>5, <1>10, <2>1
        <3> QED
            BY <1>7, <3>1
    <2>2. CASE i \notin 1 .. Len(g)
        <3>1. PICK m : m = i - Len(g)
            OBVIOUS
        <3>2. m \in 1 .. Len(rest) /\ i = Len(g) + m /\ i \in 1 .. Len(t) /\ (i = j <=> m = k)
            BY <1>4, <1>5, <1>7, <2>2, <3>1
        <3>3. v[i] = r[m] /\ t[i] = rest[m]
            BY <1>4, <1>8, <1>10, <3>2
        <3> QED
            BY <1>7, <1>8, <3>2, <3>3
    <2> QED
        BY <2>1, <2>2
<1>12. Len(u) = Len(v) /\ IsSeq(u) /\ IsSeq(v)
    BY <1>4, <1>7, <1>8, <1>10
<1>13. u = v
    BY <1>11, <1>12, SameSeq
<1> QED
    BY <1>1, <1>2, <1>13, <1>3 DEF Behind

\* Element j of s is changed to e, and a digest covers it.
Disturbs(s, j, e, hd, dd) ==
    /\ j \in 1 .. Len(s) /\ e # s[j]
    /\ \/ hd /\ s[j][1] = "head" /\ \E h : e = Bhs(h)
       \/ dd /\ s[j][1] = "byte" /\ \E x : e = Byte(x)

LEMMA StretchAt ==
    ASSUME NEW s, IsSeq(s), NEW k \in Nat, NEW n \in Nat, k + n <= Len(s), NEW i \in 1 .. n
    PROVE  SubSeq(s, k + 1, k + n)[i] = s[k + i]
<1>1. PICK S : S = Elements(s)
    OBVIOUS
<1>2. s \in Seq(S)
    BY <1>1 DEF IsSeq
<1>3. \A j \in k + 1 .. k + n : s[j] \in S
    BY <1>2, LenProperties, ElementOfSeq
<1> QED
    BY <1>2, <1>3, LenProperties, SubSeqProperties

(* A PDU of which such an element has been changed is not taken. *)
LEMMA ElementSpoils ==
    ASSUME NEW pdu, Sound(pdu), NEW hd \in BOOLEAN, NEW dd \in BOOLEAN, NEW pad \in BOOLEAN, NEW g,
           Carried(g, pdu, hd, dd, pad), NEW j, NEW e, Disturbs(g, j, e, hd, dd),
           NEW h, h = Put(g, j, e)
    PROVE  Spoiled(h, hd, dd) /\ ~Carried(h, pdu, hd, dd, pad)
<1>1. PICK H, n, B : H = HeadSize(hd) /\ n = pdu.head.len /\ B = BodySize(pdu.head, dd)
    OBVIOUS
<1>2. /\ IsSeq(g) /\ Len(g) = H + B /\ g[1] = Bhs(pdu.head) /\ n \in Nat /\ B \in Nat
      /\ \A i \in 1 .. Len(g) : /\ g[i][1] = "byte" => i \in H + 1 .. H + n
                                /\ g[i][1] = "head" => i = 1
    BY <1>1, Layout
<1>3. j \in 1 .. Len(g) /\ e # g[j] /\ IsSeq(g)
    BY <1>2 DEF Disturbs
<1>4. /\ IsSeq(h) /\ Len(h) = Len(g) /\ h[j] = e
      /\ \A i \in 1 .. Len(g) : i # j => h[i] = g[i]
    BY <1>3, Altered
<1>5. ~Carried(h, pdu, hd, dd, pad)
    BY <1>3, <1>4 DEF Carried
<1>6. H \in {1, 2} /\ (hd => H = 2)
    BY <1>1 DEF HeadSize
<1>7. ASSUME NEW rest, IsSeq(rest), Received(h \o rest, hd, dd, FALSE) = "pdu"
      PROVE  FALSE
    <2>1. PICK s : s = g \o rest
        OBVIOUS
    <2>2. PICK t : t = h \o rest
        OBVIOUS
    <2>3. IsSeq(g) /\ IsSeq(h)
        BY <1>3, <1>4
    <2>4. /\ IsSeq(s) /\ Len(s) = Len(g) + Len(rest)
          /\ \A i \in 1 .. Len(g) : s[i] = g[i]
        BY <1>7, <2>1, <2>3, Joined
    <2>5. /\ IsSeq(t) /\ Len(t) = Len(h) + Len(rest)
          /\ \A i \in 1 .. Len(h) : t[i] = h[i]
        BY <1>7, <2>2, <2>3, Joined
    <2>6. Yields(s, pdu, rest, hd, dd, pad)
        <3>1. Carries(s, pdu, rest, hd, dd, pad)
            BY <2>1 DEF Carries, Carried
        <3> QED
            BY <1>7, <3>1, RoundTrip
    <2>7. HeadSound(s, hd) /\ BodySound(s, hd, dd, pad)
        BY <2>6 DEF Yields, Received
    <2>8. HeadSound(t, hd) /\ BodySound(t, hd, dd, FALSE)
        BY <1>7, <2>2 DEF Received
    <2>9. Len(rest) \in Nat
        BY <1>7, SeqLen
    <2>10. \A i \in 1 .. H + B : s[i] = g[i] /\ (i # j => t[i] = g[i])
        BY <1>2, <1>4, <2>4, <2>5
    <2>11. t[j] = e
        BY <1>3, <1>4, <2>5
    <2>12. CASE hd /\ g[j][1] = "head" /\ \E x : e = Bhs(x)
        <3>1. j = 1 /\ H = 2
            BY <1>2, <1>3, <1>6, <2>12
        <3>2. s[2] = Crc(<<s[1]>>) /\ t[2] = Crc(<<t[1]>>)
            BY <2>7, <2>8, <2>12 DEF HeadSound
        <3>3. 1 \in 1 .. H + B /\ 2 \in 1 .. H + B
            BY <1>2, <3>1
        <3>4. t[2] = s[2] /\ s[1] = g[1] /\ t[1] = e
            BY <2>10, <2>11, <3>1, <3>3
        <3>5. <<s[1]>> = <<t[1]>>
            BY <3>2, <3>4 DEF Crc
        <3> QED
            BY <1>3, <3>1, <3>4, <3>5
    <2>13. CASE dd /\ g[j][1] = "byte" /\ \E x : e = Byte(x)
        <3>1. j \in H + 1 .. H + n
            BY <1>2, <1>3, <2>13
        <3>2. PICK P : P = Padded(n)
            OBVIOUS
        <3>3. P \in Nat /\ P >= n
            BY <1>2, <3>2, PaddedBounds
        <3>4. B = P + 1 /\ n > 0
            <4>1. n # 0 /\ n > 0
                BY <1>2, <1>6, <3>1
            <4> QED
                BY <1>1, <2>13, <3>2, <4>1 DEF BodySize
        <3>5. 1 \in 1 .. H + B /\ 1 # j /\ H + P + 1 \in 1 .. H + B /\ H + P + 1 # j
            BY <1>2, <1>6, <3>1, <3>3, <3>4
        <3>6. s[1] = g[1] /\ t[1] = g[1] /\ s[H + P + 1] = t[H + P + 1]
            BY <2>10, <3>5
        <3>7. s[1][2].len = n /\ t[1][2].len = n
            BY <1>1, <1>2, <3>6 DEF Bhs
        <3>8. PICK m : m = IF pad THEN P ELSE n
            OBVIOUS
        <3>9. s[H + P + 1] = Crc(DataOf(s, hd, m)) /\ t[H + P + 1] = Crc(DataOf(t, hd, n))
            <4>1. ASSUME NEW u, NEW p \in BOOLEAN, BodySound(u, hd, dd, p), u[1][2].len = n
                  PROVE  u[H + P + 1] = Crc(DataOf(u, hd, IF p THEN P ELSE n))
                <5>1. u[HeadSize(hd) + Padded(n) + 1] =
                          Crc(DataOf(u, hd, IF p THEN Padded(n) ELSE n))
                    BY <2>13, <3>4, <4>1 DEF BodySound
                <5> QED
                    BY <1>1, <3>2, <5>1
            <4> QED
                <5>1. BodySound(s, hd, dd, pad) /\ BodySound(t, hd, dd, FALSE)
                    BY <2>7, <2>8
                <5>2. s[1][2].len = n /\ t[1][2].len = n
                    BY <3>7
                <5>3. s[H + P + 1] = Crc(DataOf(s, hd, IF pad THEN P ELSE n))
                    BY <4>1, <5>1, <5>2, Zenon
                <5>4. t[H + P + 1] = Crc(DataOf(t, hd, IF FALSE THEN P ELSE n))
                    BY <4>1, <5>1, <5>2
                <5> QED
                    BY <3>8, <5>3, <5>4
        <3>10. DataOf(s, hd, m) = DataOf(t, hd, n)
            <4>1. \A a, b : Crc(a) = Crc(b) => a = b
                BY DEF Crc
            <4>2. Crc(DataOf(s, hd, m)) = Crc(DataOf(t, hd, n))
                BY <3>6, <3>9
            <4> QED
                BY <4>1, <4>2
        <3>11. PICK k : k = j - H
            OBVIOUS
        <3>12. /\ k \in 1 .. n /\ k \in 1 .. m /\ H + k = j /\ H \in Nat /\ m \in Nat
               /\ H + n <= H + B /\ H + m <= H + B
            BY <1>2, <1>6, <3>1, <3>3, <3>4, <3>8, <3>11
        <3>13. H + m <= Len(s) /\ H + n <= Len(t)
            BY <1>2, <1>4, <1>6, <2>4, <2>5, <2>9, <3>12
        <3>14. SubSeq(s, H + 1, H + m)[k] = s[H + k]
            BY <1>2, <2>4, <3>12, <3>13, StretchAt, SMTT(60)
        <3>15. SubSeq(t, H + 1, H + n)[k] = t[H + k]
            BY <1>2, <2>5, <3>12, <3>13, StretchAt, SMTT(60)
        <3>16. s[j] = t[j]
            BY <1>1, <3>10, <3>12, <3>14, <3>15 DEF DataOf
        <3>17. s[j] = g[j]
            BY <1>3, <2>4
        <3> QED
            BY <1>3, <2>11, <3>16, <3>17
    <2> QED
        BY <2>12, <2>13 DEF Disturbs
<1>8. Len(h) >= 1
    BY <1>2, <1>4, <1>6
<1> QED
    BY <1>4, <1>5, <1>7, <1>8 DEF Spoiled

\* s is a stream with one more PDU at the front, which may be the spoiled one.
Fronted(s, pdus, bad, hd, dd, pad) ==
    /\ IsSeq(pdus) /\ pdus # <<>> /\ Sound(pdus[1])
    /\ \E g, rest, next :
          /\ Cut(s, g, rest, pdus[1], bad, hd, dd, pad)
          /\ Stream(rest, Tail(pdus), next, hd, dd, pad)
          /\ bad \in (IF next = 0 THEN {0, 1} ELSE {next + 1})

(* That is a stream.                                                       *)
LEMMA StreamPut ==
    ASSUME NEW hd \in BOOLEAN, NEW dd \in BOOLEAN, NEW pad \in BOOLEAN,
           NEW s, NEW pdus, NEW bad, Fronted(s, pdus, bad, hd, dd, pad)
    PROVE  Stream(s, pdus, bad, hd, dd, pad)
<1>0. IsSeq(pdus) /\ pdus # <<>> /\ Sound(pdus[1])
    BY DEF Fronted
<1> PICK g, rest, next :
        /\ Cut(s, g, rest, pdus[1], bad, hd, dd, pad)
        /\ Stream(rest, Tail(pdus), next, hd, dd, pad)
        /\ bad \in (IF next = 0 THEN {0, 1} ELSE {next + 1})
    BY DEF Fronted
<1> DEFINE n == Len(pdus)
<1>1. /\ n \in Nat /\ n >= 1 /\ IsSeq(Tail(pdus)) /\ Len(Tail(pdus)) = n - 1
      /\ \A i \in 1 .. n - 1 : Tail(pdus)[i] = pdus[i + 1]
    BY <1>0, SeqLen, Shorter
<1>2. PICK tail : tail = Tail(pdus)
    OBVIOUS
<1>3. IsSeq(tail) /\ Len(tail) = n - 1 /\ \A i \in 1 .. n - 1 : tail[i] = pdus[i + 1]
    BY <1>1, <1>2
<1>4. next \in 0 .. n - 1 /\ \A i \in 1 .. n - 1 : Sound(tail[i])
    BY <1>2, <1>3 DEF Stream
<1>5. PICK left :
         /\ left[1] = rest /\ left[n] = <<>>
         /\ \A i \in 1 .. n : IsSeq(left[i])
         /\ \A i \in 1 .. n - 1 : \E x :
               /\ left[i] = x \o left[i + 1]
               /\ IF i = next THEN Spoiled(x, hd, dd) ELSE Carried(x, tail[i], hd, dd, pad)
    <2>1. Stream(rest, tail, next, hd, dd, pad)
        BY <1>2
    <2>2. PICK left :
         /\ left[1] = rest /\ left[Len(tail) + 1] = <<>>
         /\ \A i \in 1 .. Len(tail) + 1 : IsSeq(left[i])
         /\ \A i \in 1 .. Len(tail) : \E x :
               /\ left[i] = x \o left[i + 1]
               /\ IF i = next THEN Spoiled(x, hd, dd) ELSE Carried(x, tail[i], hd, dd, pad)
        BY <2>1 DEF Stream
    <2>3. Len(tail) = n - 1 /\ Len(tail) + 1 = n
        BY <1>1, <1>3
    <2> QED
        BY <2>2, <2>3
<1> HIDE DEF n
<1>6. bad # 1 => Carried(g, pdus[1], hd, dd, pad)
    BY DEF Cut
<1>7. bad = 1 => Spoiled(g, hd, dd)
    BY DEF Cut
<1>8. IsSeq(rest) /\ s = g \o rest
    BY DEF Cut
<1>9. bad \in 0 .. n /\ \A i \in 1 .. n - 1 : i + 1 = bad <=> i = next
    BY <1>1, <1>4
<1>10. IsSeq(s)
    <2>1. IsSeq(g)
        BY <1>6, <1>7 DEF Spoiled, Carried
    <2> QED
        BY <1>8, <2>1, Joined
<1>11. PICK new : new = [i \in 1 .. n + 1 |-> IF i = 1 THEN s ELSE left[i - 1]]
    OBVIOUS
<1>12. /\ new[1] = s /\ new[n + 1] = <<>> /\ \A i \in 1 .. n + 1 : IsSeq(new[i])
       /\ \A i \in 2 .. n + 1 : new[i] = left[i - 1]
    <2>1. new[1] = s /\ \A i \in 2 .. n + 1 : new[i] = left[i - 1] /\ i - 1 \in 1 .. n
        BY <1>1, <1>11
    <2>2. new[n + 1] = left[n]
        <3>1. PICK k : k = n + 1
            OBVIOUS
        <3>2. k \in 2 .. n + 1 /\ k - 1 = n
            BY <1>1, <3>1
        <3>3. new[k] = left[k - 1]
            BY <2>1, <3>2
        <3> QED
            BY <3>1, <3>2, <3>3
    <2>3. \A i \in 1 .. n + 1 : i = 1 \/ i \in 2 .. n + 1
        OBVIOUS
    <2> QED
        BY <1>5, <1>10, <2>1, <2>2, <2>3
<1>13. ASSUME NEW i \in 1 .. n
       PROVE  \E x : /\ new[i] = x \o new[i + 1]
                     /\ IF i = bad THEN Spoiled(x, hd, dd) ELSE Carried(x, pdus[i], hd, dd, pad)
    <2>1. CASE i = 1
        <3>1. new[1] = g \o new[1 + 1]
            <4>1. 2 \in 2 .. n + 1 /\ 2 - 1 = 1 /\ 1 + 1 = 2
                BY <1>1
            <4> QED
                BY <1>5, <1>12, <1>8, <4>1
        <3> QED
            BY <1>6, <1>7, <2>1, <3>1
    <2>2. CASE i # 1
        <3>1. PICK k : k = i - 1
            OBVIOUS
        <3>2. k \in 1 .. n - 1 /\ k + 1 = i /\ i \in 2 .. n + 1 /\ i + 1 \in 2 .. n + 1
              /\ i - 1 = k /\ i + 1 - 1 = k + 1
            BY <1>1, <2>2, <3>1
        <3>3. new[i] = left[k] /\ new[i + 1] = left[k + 1] /\ tail[k] = pdus[i]
              /\ (i = bad <=> k = next)
            BY <1>3, <1>9, <1>12, <3>2
        <3> QED
            BY <1>5, <3>2, <3>3
    <2> QED
        BY <2>1, <2>2
<1>14. \A i \in 1 .. n : Sound(pdus[i])
    <2> TAKE i \in 1 .. n
    <2>1. CASE i = 1
        BY <1>0, <2>1
    <2>2. CASE i # 1
        <3>1. i - 1 \in 1 .. n - 1 /\ i - 1 + 1 = i
            BY <1>1, <2>2
        <3>2. tail[i - 1] = pdus[i]
            BY <1>3, <3>1
        <3> QED
            BY <1>4, <3>1, <3>2
    <2> QED
        BY <2>1, <2>2
<1> QED
    BY <1>0, <1>9, <1>12, <1>13, <1>14 DEF Stream, n

(* It spoils the PDU it belongs to and no other.                           *)
LEMMA StreamSpoils ==
    ASSUME NEW hd \in BOOLEAN, NEW dd \in BOOLEAN, NEW pad \in BOOLEAN,
           NEW s, NEW pdus, Stream(s, pdus, 0, hd, dd, pad),
           NEW i, NEW e, Disturbs(s, i, e, hd, dd)
    PROVE  \E bad : Stream(Put(s, i, e), pdus, bad, hd, dd, pad)
<1> DEFINE Fails(n) == \E t, q, j :
               /\ Stream(t, q, 0, hd, dd, pad) /\ Len(q) = n /\ Disturbs(t, j, e, hd, dd)
               /\ ~\E bad : Stream(Put(t, j, e), q, bad, hd, dd, pad)
           Bad == {n \in Nat : Fails(n)}
<1> SUFFICES ASSUME ~\E bad : Stream(Put(s, i, e), pdus, bad, hd, dd, pad)
             PROVE  FALSE
    OBVIOUS
<1>1. Len(pdus) \in Nat
    BY SeqLen DEF Stream
<1>2. Fails(Len(pdus))
    OBVIOUS
<1> HIDE DEF Fails
<1>3. Bad # {} /\ Bad \subseteq Nat
    BY <1>1, <1>2
<1>4. PICK n \in Bad : \A m \in Bad : ~(m < n)
    <2>1. PICK n \in Bad : \A m \in Bad : <<m, n>> \notin OpToRel(<, Nat)
        BY <1>3, WFMin, NatLessThanWellFounded
    <2> QED
        BY <1>3, <2>1 DEF OpToRel
<1>5. n \in Nat /\ Fails(n) /\ \A m \in Nat : m < n => ~Fails(m)
    BY <1>4
<1> HIDE DEF Bad
<1>6. PICK t, q, j :
         /\ Stream(t, q, 0, hd, dd, pad) /\ Len(q) = n /\ Disturbs(t, j, e, hd, dd)
         /\ ~\E bad : Stream(Put(t, j, e), q, bad, hd, dd, pad)
    BY <1>5 DEF Fails
<1>7. q # <<>>
    <2> SUFFICES ASSUME q = <<>> PROVE FALSE
        OBVIOUS
    <2>1. t = <<>>
        BY <1>6 DEF Stream
    <2> QED
        BY <1>6, <2>1 DEF Disturbs
<1>8. PICK zero : zero = 0
    OBVIOUS
<1>9. Stream(t, q, zero, hd, dd, pad)
    BY <1>6, <1>8
<1>10. IsSeq(q) /\ Len(q) >= 1 /\ Sound(q[1])
    BY <1>7, <1>9, StreamFirst
<1>11. PICK g, rest, later : /\ Cut(t, g, rest, q[1], zero, hd, dd, pad) /\ (zero = 0 => later = 0)
                            /\ Stream(rest, Tail(q), later, hd, dd, pad)
    BY <1>7, <1>9, StreamFirst
<1>12. t = g \o rest
    BY <1>11 DEF Cut
<1>13. IsSeq(rest) /\ Carried(g, q[1], hd, dd, pad) /\ Stream(rest, Tail(q), 0, hd, dd, pad)
    BY <1>8, <1>11 DEF Cut
<1>14. Len(Tail(q)) = n - 1 /\ n - 1 \in Nat /\ n - 1 < n
    BY <1>5, <1>6, <1>7, <1>10, Shorter
<1>15. IsSeq(g) /\ Len(g) \in Nat /\ Len(rest) \in Nat
    BY <1>13, SeqLen DEF Carried
<1>16. /\ IsSeq(t) /\ Len(t) = Len(g) + Len(rest)
       /\ \A k \in 1 .. Len(g) : t[k] = g[k]
       /\ \A k \in 1 .. Len(rest) : t[Len(g) + k] = rest[k]
    BY <1>13, <1>15, <1>12, Joined
<1>17. j \in 1 .. Len(t)
    BY <1>6 DEF Disturbs
<1>18. CASE j <= Len(g)
    <2>1. j \in 1 .. Len(g) /\ g[j] = t[j]
        BY <1>15, <1>16, <1>17, <1>18
    <2>2. Put(t, j, e) = Put(g, j, e) \o rest
        <3>1. IsSeq(g) /\ IsSeq(rest)
            BY <1>13, <1>15
        <3>2. Put(g \o rest, j, e) = Put(g, j, e) \o rest
            BY <2>1, <3>1, AlteredFront, SMTT(60)
        <3> QED
            BY <1>12, <3>2
    <2>3. Disturbs(g, j, e, hd, dd)
        BY <1>6, <2>1 DEF Disturbs
    <2>4. PICK h : h = Put(g, j, e)
        OBVIOUS
    <2>5. Spoiled(h, hd, dd) /\ ~Carried(h, q[1], hd, dd, pad)
        BY <1>10, <1>13, <2>3, <2>4, ElementSpoils
    <2>6. PICK one, none : one = 1 /\ none = 0
        OBVIOUS
    <2>7. PICK u : u = h \o rest
        OBVIOUS
    <2>8. Cut(u, h, rest, q[1], one, hd, dd, pad)
        BY <1>13, <2>5, <2>6, <2>7 DEF Cut
    <2>9. Stream(rest, Tail(q), none, hd, dd, pad)
        BY <1>13, <2>6
    <2>10. Stream(u, q, one, hd, dd, pad)
        <3>1. one \in (IF none = 0 THEN {0, 1} ELSE {none + 1})
            BY <2>6
        <3>2. IsSeq(q) /\ q # <<>> /\ Sound(q[1])
            BY <1>7, <1>10
        <3>3. Fronted(u, q, one, hd, dd, pad)
            BY <2>8, <2>9, <3>1, <3>2 DEF Fronted
        <3> QED
            BY <3>3, StreamPut
    <2>11. u = Put(t, j, e)
        BY <1>12, <2>2, <2>4, <2>7
    <2> QED
        BY <1>6, <2>10, <2>11
<1>19. CASE ~(j <= Len(g))
    <2>1. PICK k : k = j - Len(g)
        OBVIOUS
    <2>2. k \in 1 .. Len(rest) /\ j = Len(g) + k /\ rest[k] = t[j]
        BY <1>15, <1>16, <1>17, <1>19, <2>1
    <2>3. Put(t, j, e) = g \o Put(rest, k, e)
        <3>1. IsSeq(g) /\ IsSeq(rest)
            BY <1>13, <1>15
        <3>2. k \in 1 .. Len(rest) /\ j = Len(g) + k
            BY <2>2
        <3>3. Behind(g, rest, j, k, e)
            BY <3>1, <3>2, AlteredBack
        <3> QED
            BY <1>12, <3>3 DEF Behind
    <2>4. Disturbs(rest, k, e, hd, dd)
        BY <1>6, <2>2 DEF Disturbs
    <2>5. PICK next : Stream(Put(rest, k, e), Tail(q), next, hd, dd, pad)
        BY <1>5, <1>13, <1>14, <2>4 DEF Fails
    <2>6. PICK r : r = Put(rest, k, e)
        OBVIOUS
    <2>7. IsSeq(r)
        BY <1>13, <2>2, <2>6, Altered
    <2>8. PICK bad : bad = (IF next = 0 THEN 0 ELSE next + 1)
        OBVIOUS
    <2>9. next \in Nat
        <3>1. next \in 0 .. Len(Tail(q))
            BY <2>5 DEF Stream
        <3> QED
            BY <1>14, <3>1
    <2>10. bad # 1 /\ bad \in (IF next = 0 THEN {0, 1} ELSE {next + 1})
        BY <2>8, <2>9
    <2>11. PICK u : u = g \o r
        OBVIOUS
    <2>12. Cut(u, g, r, q[1], bad, hd, dd, pad)
        BY <1>13, <2>7, <2>10, <2>11 DEF Cut
    <2>13. Stream(r, Tail(q), next, hd, dd, pad)
        BY <2>5, <2>6
    <2>14. Stream(u, q, bad, hd, dd, pad)
        <3>1. bad \in (IF next = 0 THEN {0, 1} ELSE {next + 1})
            BY <2>10
        <3>2. IsSeq(q) /\ q # <<>> /\ Sound(q[1])
            BY <1>7, <1>10
        <3>3. Fronted(u, q, bad, hd, dd, pad)
            BY <2>12, <2>13, <3>1, <3>2 DEF Fronted
        <3> QED
            BY <3>3, StreamPut
    <2>15. u = Put(t, j, e)
        BY <2>3, <2>6, <2>11
    <2> QED
        BY <1>6, <2>14, <2>15
<1> QED
    BY <1>18, <1>19

----------------------------------------------------------------------------
(* What is under way after the login.  The PDUs on the streams and what the *)
(* two sides remember of a command are in one of the situations below; what *)
(* is not about the command is not in them.  U and D are the PDUs about it  *)
(* that are under way to the target and to the initiator; cm is what the    *)
(* initiator has of it, tk what the target has, rt the R2T for it that      *)
(* handle_r2t is answering.                                                 *)

\* The bytes of c's payload behind byte a, up to byte b.
Part(c, a, b) == SubSeq(Payload(c), a + 1, b)

\* The beginning of c's payload.
Begun(c, data) == Len(data) \in 0 .. PayloadLen /\ data = Part(c, 0, Len(data))

\* The PDUs of P have the bytes behind a, up to b.
Covers(c, P, a, b) ==
    /\ \A p \in P : /\ p.head.offset \in Nat /\ p.head.len \in Nat \ {0}
                    /\ a <= p.head.offset /\ p.head.offset + p.head.len <= b
                    /\ p.data = Part(c, p.head.offset, p.head.offset + p.head.len)
    /\ \A n \in Nat : (a <= n /\ n < b) =>
          \E p \in P : p.head.offset <= n /\ n < p.head.offset + p.head.len

Command(op, at, data) == [op |-> op, at |-> at, data |-> data]
Task(op, got, asked)  == [op |-> op, got |-> got, asked |-> asked]
Asked(ttt, n, end)    == [ttt |-> ttt, dataSN |-> n, end |-> end]
Answering(c, ttt, end, sent, n, ack) ==
    [cmd |-> c, ttt |-> ttt, offset |-> ttt, desired |-> end - ttt, sent |-> sent,
     dataSN |-> n, ack |-> ack]

Fresh(cm, tk, rt, U, D) ==
    cm = Command("none", "idle", <<>>) /\ tk = None /\ rt = None /\ U = {} /\ D = {}

IsCommand(p) == p.head.op \in {"read", "write"}

\* Submitted, and not with the target yet.
Unsent(p, imm) ==
    /\ IsCommand(p) /\ p.head.lun = Lun
    /\ p.data = (IF p.head.op = "write" THEN imm ELSE None)

Submitted(imm, cm, tk, rt, U, D) ==
    /\ tk = None /\ rt = None /\ D = {}
    /\ \E p : U = {p} /\ Unsent(p, imm) /\ cm = Command(p.head.op, "sent", <<>>)

\* A read: Data-Ins, and behind them a response when it has failed.
ReadAnswer(p, op) ==
    \/ /\ p.head.op = "dataIn"
       /\ p.head.status <=> p.head.offset + p.head.len = PayloadLen
       /\ p.head.status => op = "done"
    \/ p.head.op = "response" /\ op = "done" /\ ~p.head.good /\ p.data = <<"sense">>

DataIns(D) == {p \in D : p.head.op = "dataIn"}

Reading(c, cm, tk, rt, U, D) ==
    /\ rt = None /\ U = {}
    /\ \E data, op, got :
          /\ cm = Command("read", "sent", data) /\ tk = Task(op, got, None)
          /\ op \in {"read", "done"}
          /\ Begun(c, data) /\ Begun(c, got)
          /\ Len(data) <= Len(got) /\ Len(data) < PayloadLen
          /\ op = "read" => Len(got) < PayloadLen
          /\ \A p \in D : ReadAnswer(p, op)
          /\ Covers(c, DataIns(D), Len(data), Len(got))

\* A write, when the target has answered nothing,
WriteCommand == Command("write", "sent", <<>>)

Waiting(c, cm, tk, rt, U, D) ==
    /\ cm = WriteCommand /\ rt = None /\ U = {} /\ D = {}
    /\ \E got : tk = Task("write", got, None) /\ Begun(c, got)

\* when it has asked for bytes and the initiator has not seen the R2T,
R2t(p, got, end) ==
    /\ p.head.op = "r2t" /\ p.head.ttt = Len(got) /\ p.head.offset = Len(got)
    /\ p.head.desired = end - Len(got)

AskedFor(c, cm, tk, rt, U, D) ==
    /\ cm = WriteCommand /\ rt = None /\ U = {}
    /\ \E got, end :
          /\ tk = Task("write", got, Asked(Len(got), 0, end)) /\ Begun(c, got)
          /\ end \in Nat /\ Len(got) < end /\ end <= PayloadLen
          /\ \E p : D = {p} /\ R2t(p, got, end)

\* when Data-Outs are on their way,
DataOut(p, ttt, end, seg) ==
    /\ p.head.op = "dataOut" /\ p.head.lun = 0 /\ p.head.ttt = ttt
    /\ p.head.dataSN \in Nat /\ p.head.offset = ttt + p.head.dataSN * seg
    /\ p.head.len <= seg /\ (p.head.offset + p.head.len = end \/ p.head.len = seg)
    /\ p.head.final <=> p.head.offset + p.head.len = end

Sending(c, seg, cm, tk, rt, U, D) ==
    /\ cm = WriteCommand /\ D = {}
    /\ \E got, ttt, n, end, upto :
          /\ tk = Task("write", got, Asked(ttt, n, end)) /\ Begun(c, got)
          /\ ttt \in Nat /\ n \in Nat /\ Len(got) = ttt + n * seg
          /\ end \in Nat /\ Len(got) < end /\ end <= PayloadLen
          /\ upto \in Nat /\ Len(got) <= upto
          /\ \A p \in U : DataOut(p, ttt, end, seg)
          /\ Covers(c, U, Len(got), upto)
          /\ \/ rt = None /\ upto = end
             \/ \E k, ack :
                   /\ k \in Nat /\ rt = Answering(c, ttt, end, k * seg, k, ack)
                   /\ upto = ttt + k * seg /\ upto < end

\* and when it has responded.
WriteAnswer(p, c, got) ==
    /\ p.head.op = "response"
    /\ IF p.head.good THEN p.data = None /\ got = Payload(c) ELSE p.data = <<"sense">>

Responded(c, cm, tk, rt, U, D) ==
    /\ cm = WriteCommand /\ rt = None /\ U = {}
    /\ \E got : tk = Task("done", got, None) /\ \E p : D = {p} /\ WriteAnswer(p, c, got)

\* What the caller is told is so.
Ended(c, cm, tk, rt, U, D) ==
    /\ rt = None /\ U = {} /\ D = {}
    /\ \E got :
          /\ tk = Task("done", got, None)
          /\ \/ \E op \in {"read", "write"} : cm = Command(op, "failed", <<"sense">>)
             \/ cm = Command("read", "ok", Payload(c))
             \/ cm = Command("write", "ok", <<>>) /\ got = Payload(c)

Situation(c, imm, seg, cm, tk, rt, U, D) ==
    \/ Fresh(cm, tk, rt, U, D)
    \/ Submitted(imm, cm, tk, rt, U, D)
    \/ Reading(c, cm, tk, rt, U, D)
    \/ Waiting(c, cm, tk, rt, U, D)
    \/ AskedFor(c, cm, tk, rt, U, D)
    \/ Sending(c, seg, cm, tk, rt, U, D)
    \/ Responded(c, cm, tk, rt, U, D)
    \/ Ended(c, cm, tk, rt, U, D)

(* The order in which they are under way. *)

\* Behind the last PDU about a command there is no other.
Ending(p) == p.head.op = "response" \/ (p.head.op = "dataIn" /\ p.head.status)

\* p may be before q.
Turn(p, q) ==
    /\ (IsCommand(p) /\ IsCommand(q)) =>
          p.head.cmdSN < q.head.cmdSN /\ p.head.cmd # q.head.cmd
    /\ p.head.cmd = q.head.cmd =>
          /\ ~Ending(p)
          /\ p.head.op = q.head.op =>
                /\ p.head.op # "r2t"
                /\ p.head.op \in {"dataIn", "dataOut"} =>
                      p.head.offset + p.head.len <= q.head.offset

InSequence(s) == \A i, j \in 1 .. Len(s) : i < j => Turn(s[i], s[j])

\* The commands under way have the numbers from ExpCmdSN to CmdSN.
Numbered(up) ==
    /\ cmdSN \in Nat /\ tExp \in Nat /\ tExp <= cmdSN
    /\ \A p \in Elements(up) : IsCommand(p) =>
          p.head.cmdSN \in Nat /\ tExp <= p.head.cmdSN /\ p.head.cmdSN < cmdSN
    /\ \A n \in Nat : (tExp <= n /\ n < cmdSN) =>
          \E p \in Elements(up) : IsCommand(p) /\ p.head.cmdSN = n

Open(c) == tasks[c] # None /\ tasks[c].op # "done"

\* With nothing open the last PDU has the status number the target gave last.
AckFollows(down) ==
    /\ tStat \in Nat /\ expStatSN \in Nat
    /\ \A p \in Elements(down) : p.head.statSN \in Nat
    /\ \/ \E c \in Cmd : Open(c)
       \/ down = <<>> /\ expStatSN = tStat
       \/ down # <<>> /\ down[Len(down)].head.statSN + 1 = tStat

Of(s, c)  == {p \in Elements(s) : p.head.cmd = c}
Round(c)  == IF r2t # None /\ r2t.cmd = c THEN r2t ELSE None

About(c, up, down) ==
    Situation(c, ImmediatePart(c), MaxSegment, cmds[c], tasks[c], Round(c),
              Of(up, c), Of(down, c))

Talk(up, down) ==
    /\ InSequence(up) /\ InSequence(down)
    /\ \A p \in Elements(up) \cup Elements(down) : p.head.cmd \in Cmd
    /\ \A c \in Cmd : About(c, up, down)
    /\ Numbered(up) /\ AckFollows(down)
    /\ r2t # None => r2t.cmd \in Cmd
    /\ cmds = [c \in Cmd |-> cmds[c]] /\ tasks = [c \in Cmd |-> tasks[c]]

----------------------------------------------------------------------------
(* Payloads *)

LEMMA PayloadLenIs ==
    PayloadLen \in Nat \ {0}
BY ConnectionAssumption DEF ConnectionAssumption

\* Byte i of c's payload.
Nth(c, i) == <<c, i>>

\* s is n bytes of c's payload, behind byte a.
BytesOf(s, c, a, n) ==
    IsSeq(s) /\ Len(s) = n /\ \A i \in 1 .. n : s[i] = Nth(c, a + i)

LEMMA PartHas ==
    ASSUME NEW c, NEW a \in Nat, NEW b \in Nat, b <= PayloadLen,
           NEW s, s = Part(c, a, b), NEW n \in Nat, b = a + n
    PROVE  BytesOf(s, c, a, n)
<1>1. a <= b /\ n = b - a
    OBVIOUS
<1> DEFINE f == [i \in 1 .. b - a |-> Nth(c, a + i)]
<1>2. PayloadLen \in Nat
    BY PayloadLenIs
<1>3. PICK T : T = {Nth(c, i) : i \in 1 .. PayloadLen}
    OBVIOUS
<1>4. f \in [1 .. b - a -> T]
    BY <1>2, <1>3
<1>5. f \in Seq(T) /\ Len(f) = b - a /\ \A i \in 1 .. b - a : f[i] = Nth(c, a + i)
    <2>1. b - a \in Nat
        OBVIOUS
    <2> QED
        BY <1>4, <2>1
<1>6. Part(c, a, b) = f
    <2>1. PICK p : p = Payload(c)
        OBVIOUS
    <2>2. p \in [1 .. PayloadLen -> T] /\ \A i \in 1 .. PayloadLen : p[i] = Nth(c, i)
        BY <1>3, <2>1 DEF Payload, Nth
    <2>3. p \in Seq(T)
        BY <1>2, <2>2
    <2>4. SubSeq(p, a + 1, b) = [i \in 1 .. (1 + b - (a + 1)) |-> p[i + (a + 1) - 1]]
        OBVIOUS
    <2>5. \A i \in 1 .. b - a : i + (a + 1) - 1 = a + i /\ a + i \in 1 .. PayloadLen
        BY <1>2
    <2>6. 1 + b - (a + 1) = b - a
        OBVIOUS
    <2> HIDE DEF f
    <2>7. SubSeq(p, a + 1, b) = [i \in 1 .. b - a |-> Nth(c, a + i)]
        BY <2>2, <2>4, <2>5, <2>6
    <2> QED
        BY <2>1, <2>7 DEF Part, f
<1> HIDE DEF f
<1>7. f \in Seq(T) /\ Len(f) = n /\ \A i \in 1 .. n : f[i] = Nth(c, a + i)
    BY <1>5, <1>1
<1>8. IsSeq(f)
    BY <1>5, SeqIsSeq
<1>9. s = f
    BY <1>6
<1> QED
    BY <1>8, <1>9, <1>7 DEF BytesOf

LEMMA PartIs ==
    ASSUME NEW c, NEW a \in Nat, NEW b \in Nat, b <= PayloadLen,
           NEW s, s = Part(c, a, b), NEW n \in Nat, b = a + n
    PROVE  /\ IsSeq(s) /\ Len(s) = n
           /\ \A i \in 1 .. n : s[i] = Nth(c, a + i)
BY PartHas DEF BytesOf

LEMMA PartLength ==
    ASSUME NEW c, NEW a \in Nat, NEW l \in Nat, a + l <= PayloadLen
    PROVE  IsSeq(Part(c, a, a + l)) /\ Len(Part(c, a, a + l)) = l
<1>1. PICK s, b : s = Part(c, a, b) /\ b = a + l
    OBVIOUS
<1>2. b \in Nat /\ b <= PayloadLen /\ b = a + l
    BY <1>1
<1>3. s = Part(c, a, b)
    BY <1>1
<1>4. IsSeq(s) /\ Len(s) = l
    BY <1>2, <1>3, PartIs
<1> QED
    BY <1>1, <1>4

LEMMA PartIsBytes ==
    ASSUME NEW c, NEW a \in Nat, NEW n \in Nat, a + n <= PayloadLen
    PROVE  BytesOf(Part(c, a, a + n), c, a, n)
<1>1. PICK b, s : b = a + n /\ s = Part(c, a, b)
    OBVIOUS
<1>2. b \in Nat /\ b <= PayloadLen /\ b = a + n /\ s = Part(c, a, b)
    BY <1>1
<1>3. BytesOf(s, c, a, n)
    BY <1>2, PartHas
<1> QED
    BY <1>1, <1>3

LEMMA FrontOf ==
    ASSUME NEW c, NEW b \in Nat, b <= PayloadLen
    PROVE  \E s : s = Part(c, 0, b) /\ IsSeq(s) /\ Len(s) = b /\ \A i \in 1 .. b : s[i] = Nth(c, i)
<1>1. PICK o : o \in Nat /\ o = 0
    OBVIOUS
<1>2. o + b = b /\ o + b <= PayloadLen
    BY <1>1
<1>3. BytesOf(Part(c, o, o + b), c, o, b)
    BY <1>1, <1>2, PartIsBytes
<1>4. PICK s : s = Part(c, o, o + b)
    OBVIOUS
<1>5. BytesOf(s, c, o, b)
    BY <1>3, <1>4
<1>6. \A i \in 1 .. b : o + i = i
    BY <1>1
<1>7. IsSeq(s) /\ Len(s) = b /\ \A i \in 1 .. b : s[i] = Nth(c, i)
    BY <1>5, <1>6 DEF BytesOf
<1> QED
    BY <1>1, <1>2, <1>4, <1>7

LEMMA FrontIs ==
    ASSUME NEW c, NEW b \in Nat, b <= PayloadLen, NEW s, s = Part(c, 0, b)
    PROVE  IsSeq(s) /\ Len(s) = b /\ \A i \in 1 .. b : s[i] = Nth(c, i)
BY FrontOf

LEMMA PartNothing ==
    ASSUME NEW c
    PROVE  Part(c, 0, 0) = <<>>
<1>1. PayloadLen \in Nat /\ 0 <= PayloadLen
    BY PayloadLenIs
<1>2. PICK s : s = Part(c, 0, 0)
    OBVIOUS
<1>3. IsSeq(s) /\ Len(s) = 0
    BY <1>1, <1>2, FrontIs
<1>4. PICK e : e = <<>>
    OBVIOUS
<1>5. IsSeq(e) /\ Len(e) = 0
    BY <1>4, EmptyIsSeq
<1> QED
    <2>1. \A i \in 1 .. Len(s) : s[i] = e[i]
        BY <1>3
    <2>2. s = e
        BY <1>3, <1>5, <2>1, SameSeq
    <2> QED
        BY <1>4, <1>2, <2>2

LEMMA PartWhole ==
    ASSUME NEW c
    PROVE  Part(c, 0, PayloadLen) = Payload(c)
<1>1. /\ PayloadLen \in Nat /\ 0 <= PayloadLen
      /\ PayloadLen <= PayloadLen /\ PayloadLen - 0 = PayloadLen
    BY PayloadLenIs
<1>2. PICK p, T : p = Payload(c) /\ T = {Nth(c, i) : i \in 1 .. PayloadLen}
    OBVIOUS
<1>3. p \in [1 .. PayloadLen -> T] /\ \A i \in 1 .. PayloadLen : p[i] = Nth(c, i)
    BY <1>2 DEF Payload, Nth
<1>4. p \in Seq(T) /\ Len(p) = PayloadLen
    BY <1>1, <1>3
<1>5. IsSeq(p)
    BY <1>4, SeqIsSeq
<1>6. PICK q : q = Part(c, 0, PayloadLen)
    OBVIOUS
<1>7. IsSeq(q) /\ Len(q) = PayloadLen /\ \A i \in 1 .. PayloadLen : q[i] = Nth(c, i)
    BY <1>1, <1>6, FrontIs
<1>8. \A i \in 1 .. PayloadLen : q[i] = p[i]
    BY <1>1, <1>3, <1>7
<1> QED
    BY <1>2, <1>4, <1>5, <1>6, <1>7, <1>8, SameSeq

\* A part that is not empty is a data segment.
LEMMA PartIsData ==
    ASSUME NoneIsNoData, NEW c, NEW a \in Nat, NEW b \in Nat, a < b, b <= PayloadLen
    PROVE  Part(c, a, b) # None /\ Part(c, a, b) # <<>>
<1>1. PICK p, n : p = Part(c, a, b) /\ n = b - a
    OBVIOUS
<1>2. n \in Nat /\ b = a + n
    BY <1>1
<1>3. p = Part(c, a, b)
    BY <1>1
<1>4. IsSeq(p) /\ Len(p) = n
    BY <1>2, <1>3, PartIs
<1>5. p # None
    <2> HIDE DEF Elements
    <2> QED
        BY <1>4 DEF IsSeq, NoneIsNoData
<1>6. n # 0
    BY <1>1
<1>7. p # <<>>
    BY <1>4, <1>6, EmptyIsSeq
<1> QED
    BY <1>1, <1>5, <1>7

\* What the target appends to what it has.
LEMMA PartsJoined ==
    ASSUME NEW c, NEW a \in Nat, NEW b \in Nat, a <= b, b <= PayloadLen
    PROVE  Part(c, 0, a) \o Part(c, a, b) = Part(c, 0, b)
<1>1. PayloadLen \in Nat /\ a <= PayloadLen /\ 0 <= a /\ 0 <= b
    BY PayloadLenIs
<1>2. PICK s, t, u : s = Part(c, 0, a) /\ t = Part(c, a, b) /\ u = Part(c, 0, b)
    OBVIOUS
<1>3. IsSeq(s) /\ Len(s) = a /\ \A i \in 1 .. a : s[i] = Nth(c, i)
    BY <1>1, <1>2, FrontIs
<1>4. PICK n : n = b - a
    OBVIOUS
<1>5. t = Part(c, a, b)
    BY <1>2
<1>6. n \in Nat /\ b = a + n
    BY <1>4
<1>7. IsSeq(t) /\ Len(t) = n /\ \A i \in 1 .. n : t[i] = Nth(c, a + i)
    BY <1>5, <1>6, PartIs
<1>8. IsSeq(t) /\ Len(t) = b - a /\ \A i \in 1 .. b - a : t[i] = Nth(c, a + i)
    BY <1>4, <1>7
<1>9. IsSeq(u) /\ Len(u) = b /\ \A i \in 1 .. b : u[i] = Nth(c, i)
    BY <1>1, <1>2, FrontIs
<1>10. PICK v : v = s \o t
    OBVIOUS
<1>11. /\ IsSeq(v) /\ Len(v) = Len(s) + Len(t)
       /\ \A i \in 1 .. Len(s) : v[i] = s[i]
       /\ \A i \in 1 .. Len(t) : v[Len(s) + i] = t[i]
    <2>1. IsSeq(s) /\ IsSeq(t)
        BY <1>3, <1>8
    <2> QED
        BY <1>10, <2>1, Joined
<1>12. Len(v) = b
    BY <1>3, <1>8, <1>11
<1>13. ASSUME NEW i \in 1 .. b
       PROVE  v[i] = u[i]
    <2>1. u[i] = Nth(c, i)
        BY <1>9
    <2>2. CASE i <= a
        BY <1>3, <1>11, <2>1, <2>2
    <2>3. CASE i > a
        <3>1. i - a \in 1 .. b - a /\ a + (i - a) = i
            BY <2>3
        <3> QED
            BY <1>3, <1>8, <1>11, <2>1, <3>1
    <2> QED
        BY <2>2, <2>3
<1>14. v = u
    BY <1>9, <1>11, <1>12, <1>13, SameSeq
<1> QED
    BY <1>2, <1>10, <1>14

\* What the initiator makes of it, for bytes that come in order.
LEMMA PartsGathered ==
    ASSUME NEW c, NEW a \in Nat, NEW b \in Nat, a <= b, b <= PayloadLen
    PROVE  Gathered(Part(c, 0, a), a, Part(c, a, b)) = Part(c, 0, b)
<1>1. PayloadLen \in Nat /\ a <= PayloadLen /\ 0 <= a /\ 0 <= b
    BY PayloadLenIs
<1>2. PICK s, t, u : s = Part(c, 0, a) /\ t = Part(c, a, b) /\ u = Part(c, 0, b)
    OBVIOUS
<1>3. IsSeq(s) /\ Len(s) = a /\ \A i \in 1 .. a : s[i] = Nth(c, i)
    BY <1>1, <1>2, FrontIs
<1>4. PICK n : n = b - a
    OBVIOUS
<1>5. t = Part(c, a, b)
    BY <1>2
<1>6. n \in Nat /\ b = a + n
    BY <1>4
<1>7. IsSeq(t) /\ Len(t) = n /\ \A i \in 1 .. n : t[i] = Nth(c, a + i)
    BY <1>5, <1>6, PartIs
<1>8. IsSeq(t) /\ Len(t) = b - a /\ \A i \in 1 .. b - a : t[i] = Nth(c, a + i)
    BY <1>4, <1>7
<1>9. IsSeq(u) /\ Len(u) = b /\ \A i \in 1 .. b : u[i] = Nth(c, i)
    BY <1>1, <1>2, FrontIs
<1>10. u = [i \in 1 .. b |-> u[i]]
    BY <1>9, SeqLen
<1>11. Greater(Len(s), a + Len(t)) = b
    BY <1>3, <1>8 DEF Greater
<1>12. ASSUME NEW i \in 1 .. b
       PROVE  (IF i > a /\ i <= a + Len(t) THEN t[i - a] ELSE IF i <= Len(s) THEN s[i] ELSE 0) = u[i]
    <2>1. u[i] = Nth(c, i)
        BY <1>9
    <2>2. CASE i <= a
        BY <1>3, <2>1, <2>2
    <2>3. CASE i > a
        <3>1. i - a \in 1 .. b - a /\ a + (i - a) = i /\ i <= a + Len(t)
            BY <1>8, <2>3
        <3>2. t[i - a] = Nth(c, i)
            BY <1>8, <3>1
        <3> QED
            BY <2>1, <2>3, <3>1, <3>2
    <2> QED
        BY <2>2, <2>3
<1>13. Gathered(s, a, t) = u
    BY <1>10, <1>11, <1>12 DEF Gathered
<1> QED
    BY <1>2, <1>13

----------------------------------------------------------------------------
(* PDUs that are under way *)

LEMMA ElementsLonger ==
    ASSUME NEW s, IsSeq(s), NEW x
    PROVE  Elements(Append(s, x)) = Elements(s) \cup {x}
<1>1. PICK t, n : t = Append(s, x) /\ n = Len(s)
    OBVIOUS
<1>2. /\ IsSeq(t) /\ Len(t) = n + 1 /\ n \in Nat /\ t[n + 1] = x
      /\ \A i \in 1 .. n : t[i] = s[i]
    BY <1>1, Longer, SeqLen
<1>3. DOMAIN t = 1 .. n + 1 /\ DOMAIN s = 1 .. n
    <2>1. DOMAIN t = 1 .. Len(t) /\ DOMAIN s = 1 .. Len(s)
        BY <1>2, SeqLen
    <2> QED
        BY <1>1, <1>2, <2>1
<1>4. 1 .. n + 1 = (1 .. n) \cup {n + 1}
    BY <1>2
<1>5. {t[i] : i \in 1 .. n + 1} = {s[i] : i \in 1 .. n} \cup {x}
    BY <1>2, <1>4
<1>6. Elements(t) = Elements(s) \cup {x}
    BY <1>3, <1>5 DEF Elements
<1> QED
    BY <1>1, <1>6

LEMMA ElementsShorter ==
    ASSUME NEW s, IsSeq(s), s # <<>>
    PROVE  Elements(s) = Elements(Tail(s)) \cup {s[1]}
<1>1. PICK t, n : t = Tail(s) /\ n = Len(s)
    OBVIOUS
<1>2. /\ IsSeq(t) /\ Len(t) = n - 1 /\ n \in Nat \ {0}
      /\ \A i \in 1 .. n - 1 : t[i] = s[i + 1]
    BY <1>1, Shorter, SeqLen
<1>3. DOMAIN t = 1 .. n - 1 /\ DOMAIN s = 1 .. n
    <2>1. DOMAIN t = 1 .. Len(t) /\ DOMAIN s = 1 .. Len(s)
        BY <1>2, SeqLen
    <2> QED
        BY <1>1, <1>2, <2>1
<1>4. \A i \in 1 .. n - 1 : i + 1 \in 1 .. n
    BY <1>2
<1>5. \A i \in 1 .. n : i = 1 \/ (i - 1 \in 1 .. n - 1 /\ (i - 1) + 1 = i)
    BY <1>2
<1>6. 1 \in 1 .. n
    BY <1>2
<1>7. {s[i] : i \in 1 .. n} = {t[i] : i \in 1 .. n - 1} \cup {s[1]}
    <2>1. ASSUME NEW i \in 1 .. n
          PROVE  s[i] \in {t[j] : j \in 1 .. n - 1} \cup {s[1]}
        <3>1. CASE i = 1
            BY <3>1
        <3>2. CASE i # 1
            <4>1. i - 1 \in 1 .. n - 1 /\ t[i - 1] = s[i]
                BY <1>2, <1>5, <3>2
            <4> QED
                BY <4>1
        <3> QED
            BY <3>1, <3>2
    <2>2. ASSUME NEW j \in 1 .. n - 1
          PROVE  t[j] \in {s[i] : i \in 1 .. n}
        BY <1>2, <1>4
    <2>3. s[1] \in {s[i] : i \in 1 .. n}
        BY <1>6
    <2> QED
        BY <2>1, <2>2, <2>3
<1>8. Elements(s) = Elements(t) \cup {s[1]}
    BY <1>3, <1>7 DEF Elements
<1> QED
    BY <1>1, <1>8

LEMMA OfLonger ==
    ASSUME NEW s, IsSeq(s), NEW x, NEW c, x.head.cmd = c
    PROVE  /\ Of(Append(s, x), c) = Of(s, c) \cup {x}
           /\ \A d : d # c => Of(Append(s, x), d) = Of(s, d)
<1>1. Elements(Append(s, x)) = Elements(s) \cup {x}
    BY ElementsLonger
<1>2. PICK E, F : E = Elements(s) /\ F = Elements(Append(s, x))
    OBVIOUS
<1>3. F = E \cup {x}
    BY <1>1, <1>2
<1>4. {p \in F : p.head.cmd = c} = {p \in E : p.head.cmd = c} \cup {x}
    BY <1>3
<1>5. \A d : d # c => {p \in F : p.head.cmd = d} = {p \in E : p.head.cmd = d}
    BY <1>3
<1> QED
    BY <1>2, <1>4, <1>5 DEF Of

LEMMA OfShorter ==
    ASSUME NEW s, IsSeq(s), s # <<>>, NEW c, s[1].head.cmd = c
    PROVE  /\ Of(s, c) = Of(Tail(s), c) \cup {s[1]}
           /\ \A d : d # c => Of(Tail(s), d) = Of(s, d)
<1>1. Elements(s) = Elements(Tail(s)) \cup {s[1]}
    BY ElementsShorter
<1>2. PICK E, F, x : E = Elements(s) /\ F = Elements(Tail(s)) /\ x = s[1]
    OBVIOUS
<1>3. E = F \cup {x} /\ x.head.cmd = c
    BY <1>1, <1>2
<1>4. {p \in E : p.head.cmd = c} = {p \in F : p.head.cmd = c} \cup {x}
    BY <1>3
<1>5. \A d : d # c => {p \in F : p.head.cmd = d} = {p \in E : p.head.cmd = d}
    BY <1>3
<1> QED
    BY <1>2, <1>4, <1>5 DEF Of

LEMMA InSequenceLonger ==
    ASSUME NEW s, IsSeq(s), InSequence(s), NEW x, \A p \in Elements(s) : Turn(p, x)
    PROVE  InSequence(Append(s, x))
<1>1. PICK t, n : t = Append(s, x) /\ n = Len(s)
    OBVIOUS
<1>2. /\ Len(t) = n + 1 /\ n \in Nat /\ t[n + 1] = x
      /\ \A i \in 1 .. n : t[i] = s[i]
    BY <1>1, Longer, SeqLen
<1>3. DOMAIN s = 1 .. n
    BY <1>1, SeqLen
<1>4. \A i \in 1 .. n : Turn(s[i], x)
    BY <1>3 DEF Elements
<1>5. \A i, j \in 1 .. n : i < j => Turn(s[i], s[j])
    BY <1>1 DEF InSequence
<1>6. ASSUME NEW i \in 1 .. n + 1, NEW j \in 1 .. n + 1, i < j
      PROVE  Turn(t[i], t[j])
    <2>1. i \in 1 .. n /\ t[i] = s[i]
        BY <1>2, <1>6
    <2>2. CASE j = n + 1
        BY <1>2, <1>4, <2>1, <2>2
    <2>3. CASE j # n + 1
        <3>1. j \in 1 .. n /\ t[j] = s[j]
            BY <1>2, <2>3
        <3> QED
            BY <1>5, <1>6, <2>1, <3>1
    <2> QED
        BY <2>2, <2>3
<1>7. InSequence(t)
    BY <1>2, <1>6 DEF InSequence
<1> QED
    BY <1>1, <1>7

LEMMA InSequenceShorter ==
    ASSUME NEW s, IsSeq(s), s # <<>>, InSequence(s)
    PROVE  InSequence(Tail(s)) /\ \A q \in Elements(Tail(s)) : Turn(s[1], q)
<1>1. PICK t, n : t = Tail(s) /\ n = Len(s)
    OBVIOUS
<1>2. /\ IsSeq(t) /\ Len(t) = n - 1 /\ n \in Nat \ {0}
      /\ \A i \in 1 .. n - 1 : t[i] = s[i + 1]
    BY <1>1, Shorter, SeqLen
<1>3. DOMAIN t = 1 .. n - 1
    <2>1. DOMAIN t = 1 .. Len(t)
        BY <1>2, SeqLen
    <2> QED
        BY <1>2, <2>1
<1>4. \A i, j \in 1 .. n : i < j => Turn(s[i], s[j])
    BY <1>1 DEF InSequence
<1>5. ASSUME NEW i \in 1 .. n - 1, NEW j \in 1 .. n - 1, i < j
      PROVE  Turn(t[i], t[j])
    <2>1. i + 1 \in 1 .. n /\ j + 1 \in 1 .. n /\ i + 1 < j + 1
        BY <1>2, <1>5
    <2> QED
        BY <1>2, <1>4, <2>1
<1>6. InSequence(t)
    BY <1>2, <1>5 DEF InSequence
<1>7. ASSUME NEW j \in 1 .. n - 1
      PROVE  Turn(s[1], t[j])
    <2>1. j + 1 \in 1 .. n /\ 1 \in 1 .. n /\ 1 < j + 1
        BY <1>2
    <2> QED
        BY <1>2, <1>4, <2>1
<1>8. \A q \in Elements(t) : Turn(s[1], q)
    BY <1>3, <1>7 DEF Elements
<1> QED
    BY <1>1, <1>6, <1>8

----------------------------------------------------------------------------
(* Bytes that are under way *)

LEMMA CoversNothing ==
    ASSUME NEW c, NEW a \in Nat
    PROVE  Covers(c, {}, a, a)
BY DEF Covers

LEMMA CoversMore ==
    ASSUME NEW c, NEW P, NEW a \in Nat, NEW x,
           x.head.offset \in Nat, x.head.len \in Nat \ {0}, a <= x.head.offset,
           Covers(c, P, a, x.head.offset),
           x.data = Part(c, x.head.offset, x.head.offset + x.head.len)
    PROVE  /\ Covers(c, P \cup {x}, a, x.head.offset + x.head.len)
           /\ \A p \in P : p.head.offset + p.head.len <= x.head.offset
<1>1. PICK b, l, e : b = x.head.offset /\ l = x.head.len /\ e = b + l
    OBVIOUS
<1>2. b \in Nat /\ l \in Nat \ {0} /\ e \in Nat /\ a <= b /\ b < e /\ x.data = Part(c, b, e)
    BY <1>1
<1>3. \A p \in P : /\ p.head.offset \in Nat /\ p.head.len \in Nat \ {0}
                   /\ a <= p.head.offset /\ p.head.offset + p.head.len <= b
                   /\ p.data = Part(c, p.head.offset, p.head.offset + p.head.len)
    BY <1>1 DEF Covers
<1>4. \A n \in Nat : (a <= n /\ n < b) =>
          \E p \in P : p.head.offset <= n /\ n < p.head.offset + p.head.len
    BY <1>1 DEF Covers
<1>5. ASSUME NEW n \in Nat, a <= n, n < e
      PROVE  \E p \in P \cup {x} : p.head.offset <= n /\ n < p.head.offset + p.head.len
    <2>1. CASE n < b
        BY <1>4, <1>5, <2>1
    <2>2. CASE ~(n < b)
        <3>1. x.head.offset <= n /\ n < x.head.offset + x.head.len
            BY <1>1, <1>2, <1>5, <2>2
        <3> QED
            BY <3>1
    <2> QED
        BY <2>1, <2>2
<1>6. \A p \in P : p.head.offset + p.head.len <= e
    BY <1>2, <1>3
<1>7. \A p \in P \cup {x} : /\ p.head.offset \in Nat /\ p.head.len \in Nat \ {0}
                   /\ a <= p.head.offset /\ p.head.offset + p.head.len <= e
                   /\ p.data = Part(c, p.head.offset, p.head.offset + p.head.len)
    BY <1>1, <1>2, <1>3, <1>6
<1>8. Covers(c, P \cup {x}, a, e)
    BY <1>5, <1>7 DEF Covers
<1> QED
    BY <1>1, <1>3, <1>8

\* The first of the PDUs begins where the bytes begin.
LEMMA CoversLess ==
    ASSUME NEW c, NEW Q, NEW x, NEW a \in Nat, NEW b \in Nat, Covers(c, Q \cup {x}, a, b),
           \A q \in Q : x.head.offset + x.head.len <= q.head.offset
    PROVE  /\ x.head.offset <= a /\ a <= x.head.offset /\ x.head.offset \in Nat
           /\ x.head.len \in Nat \ {0} /\ a + x.head.len <= b
           /\ Covers(c, Q, a + x.head.len, b) /\ x \notin Q
<1>1. PICK P : P = Q \cup {x}
    OBVIOUS
<1>2. \A p \in P : /\ p.head.offset \in Nat /\ p.head.len \in Nat \ {0}
                   /\ a <= p.head.offset /\ p.head.offset + p.head.len <= b
                   /\ p.data = Part(c, p.head.offset, p.head.offset + p.head.len)
    BY <1>1 DEF Covers
<1>3. \A n \in Nat : (a <= n /\ n < b) =>
          \E p \in P : p.head.offset <= n /\ n < p.head.offset + p.head.len
    BY <1>1 DEF Covers
<1>4. PICK o, l : o = x.head.offset /\ l = x.head.len
    OBVIOUS
<1>5. o \in Nat /\ l \in Nat \ {0} /\ a <= o /\ o + l <= b /\ x.data = Part(c, o, o + l)
    BY <1>2, <1>4, <1>1
<1>6. \A q \in Q : o + l <= q.head.offset
    BY <1>4
<1>7. o = a
    <2> SUFFICES ASSUME a < o PROVE FALSE
        BY <1>5
    <2>1. a < b
        BY <1>5
    <2>2. PICK p \in P : p.head.offset <= a /\ a < p.head.offset + p.head.len
        BY <1>3, <2>1
    <2>3. p # x
        <3>1. ~(o <= a)
            BY <1>5
        <3> QED
            BY <1>4, <2>2, <3>1
    <2>4. p \in Q
        BY <1>1, <2>2, <2>3
    <2>5. o + l <= p.head.offset /\ p.head.offset \in Nat
        BY <1>2, <1>6, <1>1, <2>4
    <2> QED
        BY <1>5, <2>2, <2>5
<1>8. \A q \in Q : a + l <= q.head.offset
    BY <1>6, <1>7
<1>9. ASSUME NEW n \in Nat, a + l <= n, n < b
      PROVE  \E q \in Q : q.head.offset <= n /\ n < q.head.offset + q.head.len
    <2>1. a <= n
        BY <1>5, <1>9
    <2>2. PICK p \in P : p.head.offset <= n /\ n < p.head.offset + p.head.len
        BY <1>3, <1>9, <2>1
    <2>3. p # x
        <3>1. ~(n < o + l)
            BY <1>5, <1>7, <1>9
        <3> QED
            BY <1>4, <2>2, <3>1
    <2> QED
        BY <1>1, <2>2, <2>3
<1>10. Covers(c, Q, a + l, b)
    BY <1>2, <1>1, <1>8, <1>9 DEF Covers
<1>11. x \notin Q
    BY <1>4, <1>5, <1>6
<1> QED
    BY <1>4, <1>5, <1>7, <1>10, <1>11

\* No PDU carries no bytes.
LEMMA CoversNone ==
    ASSUME NEW c, NEW P, NEW a \in Nat, Covers(c, P, a, a)
    PROVE  P = {}
BY DEF Covers

----------------------------------------------------------------------------
(* The situations of a command *)

\* None stands for no task, no sequence asked for and no R2T: it is none.
NoneIsNoRecord ==
    /\ \A op, got, asked : Task(op, got, asked) # None
    /\ \A ttt, n, end : Asked(ttt, n, end) # None
    /\ \A c, ttt, end, sent, n, ack : Answering(c, ttt, end, sent, n, ack) # None

LEMMA BegunPart ==
    ASSUME NEW c, NEW n \in Nat, n <= PayloadLen, NEW s, s = Part(c, 0, n)
    PROVE  Begun(c, s) /\ Len(s) = n
<1>1. IsSeq(s) /\ Len(s) = n
    BY FrontIs
<1>2. PayloadLen \in Nat
    BY PayloadLenIs
<1> QED
    BY <1>1, <1>2 DEF Begun

LEMMA BegunIs ==
    ASSUME NEW c, NEW s, Begun(c, s), NEW n, n = Len(s)
    PROVE  n \in Nat /\ n <= PayloadLen /\ s = Part(c, 0, n)
<1>1. PayloadLen \in Nat
    BY PayloadLenIs
<1> QED
    BY <1>1 DEF Begun

LEMMA NothingBegun ==
    ASSUME NEW c
    PROVE  Begun(c, <<>>) /\ Len(<<>>) = 0
<1>1. PICK s : s = Part(c, 0, 0)
    OBVIOUS
<1>2. 0 \in Nat /\ 0 <= PayloadLen
    BY PayloadLenIs
<1>3. Begun(c, s) /\ Len(s) = 0
    BY <1>1, <1>2, BegunPart
<1>4. s = <<>>
    BY <1>1, PartNothing
<1> QED
    BY <1>3, <1>4

\* What a PDU, a task or an R2T tells of the situation.
LEMMA SituationToTarget ==
    ASSUME NEW c, NEW imm, NEW seg, NEW cm, NEW tk, NEW rt, NEW U, NEW D,
           Situation(c, imm, seg, cm, tk, rt, U, D), NEW p \in U
    PROVE  /\ IsCommand(p) \/ p.head.op = "dataOut"
           /\ IsCommand(p) => Submitted(imm, cm, tk, rt, U, D)
           /\ p.head.op = "dataOut" => Sending(c, seg, cm, tk, rt, U, D)
<1>1. Submitted(imm, cm, tk, rt, U, D) \/ Sending(c, seg, cm, tk, rt, U, D)
    BY DEF Situation, Fresh, Reading, Waiting, AskedFor, Responded, Ended
<1>2. Submitted(imm, cm, tk, rt, U, D) => IsCommand(p) /\ p.head.op # "dataOut"
    BY DEF Submitted, Unsent, IsCommand
<1>3. Sending(c, seg, cm, tk, rt, U, D) => ~IsCommand(p) /\ p.head.op = "dataOut"
    BY DEF Sending, DataOut, IsCommand
<1> QED
    BY <1>1, <1>2, <1>3

LEMMA SituationToInitiator ==
    ASSUME NEW c, NEW imm, NEW seg, NEW cm, NEW tk, NEW rt, NEW U, NEW D,
           Situation(c, imm, seg, cm, tk, rt, U, D), NEW p \in D
    PROVE  /\ p.head.op = "r2t" => AskedFor(c, cm, tk, rt, U, D)
           /\ p.head.op = "dataIn" => Reading(c, cm, tk, rt, U, D)
           /\ p.head.op = "response" =>
                 Reading(c, cm, tk, rt, U, D) \/ Responded(c, cm, tk, rt, U, D)
<1>1. \/ Reading(c, cm, tk, rt, U, D) \/ AskedFor(c, cm, tk, rt, U, D)
      \/ Responded(c, cm, tk, rt, U, D)
    BY DEF Situation, Fresh, Submitted, Waiting, Sending, Ended
<1>2. Reading(c, cm, tk, rt, U, D) => p.head.op \in {"dataIn", "response"}
    BY DEF Reading, ReadAnswer
<1>3. AskedFor(c, cm, tk, rt, U, D) => p.head.op = "r2t"
    BY DEF AskedFor, R2t
<1>4. Responded(c, cm, tk, rt, U, D) => p.head.op = "response"
    BY DEF Responded, WriteAnswer
<1> QED
    BY <1>1, <1>2, <1>3, <1>4

LEMMA SituationIdle ==
    ASSUME NoneIsNoRecord, NEW c, NEW imm, NEW seg, NEW cm, NEW tk, NEW rt, NEW U, NEW D,
           Situation(c, imm, seg, cm, tk, rt, U, D), tk # None, tk.op # "done", tk.asked = None
    PROVE  \/ tk.op = "read" /\ Reading(c, cm, tk, rt, U, D)
           \/ tk.op = "write" /\ Waiting(c, cm, tk, rt, U, D)
<1>1. ~Fresh(cm, tk, rt, U, D) /\ ~Submitted(imm, cm, tk, rt, U, D)
    BY DEF Fresh, Submitted
<1>2. ~Responded(c, cm, tk, rt, U, D) /\ ~Ended(c, cm, tk, rt, U, D)
    BY DEF Responded, Ended, Task
<1>3. ~AskedFor(c, cm, tk, rt, U, D)
    <2> SUFFICES ASSUME AskedFor(c, cm, tk, rt, U, D) PROVE FALSE
        OBVIOUS
    <2>1. PICK got, end : tk = Task("write", got, Asked(Len(got), 0, end))
        BY DEF AskedFor
    <2>2. tk.asked = Asked(Len(got), 0, end)
        BY <2>1 DEF Task
    <2> QED
        BY <2>2 DEF NoneIsNoRecord
<1>4. ~Sending(c, seg, cm, tk, rt, U, D)
    <2> SUFFICES ASSUME Sending(c, seg, cm, tk, rt, U, D) PROVE FALSE
        OBVIOUS
    <2>1. PICK got, ttt, n, end : tk = Task("write", got, Asked(ttt, n, end))
        BY DEF Sending
    <2>2. tk.asked = Asked(ttt, n, end)
        BY <2>1 DEF Task
    <2> QED
        BY <2>2 DEF NoneIsNoRecord
<1>5. Reading(c, cm, tk, rt, U, D) => tk.op = "read"
    BY DEF Reading, Task
<1>6. Waiting(c, cm, tk, rt, U, D) => tk.op = "write"
    BY DEF Waiting, Task
<1> QED
    BY <1>1, <1>2, <1>3, <1>4, <1>5, <1>6 DEF Situation

LEMMA SituationAnswering ==
    ASSUME NEW c, NEW imm, NEW seg, NEW cm, NEW tk, NEW rt, NEW U, NEW D,
           Situation(c, imm, seg, cm, tk, rt, U, D), rt # None
    PROVE  Sending(c, seg, cm, tk, rt, U, D)
BY DEF Situation, Fresh, Submitted, Reading, Waiting, AskedFor, Responded, Ended

LEMMA SituationFresh ==
    ASSUME NEW c, NEW imm, NEW seg, NEW cm, NEW tk, NEW rt, NEW U, NEW D,
           Situation(c, imm, seg, cm, tk, rt, U, D), cm.at = "idle"
    PROVE  Fresh(cm, tk, rt, U, D)
BY DEF Situation, Submitted, Reading, Waiting, AskedFor, Sending, Responded, Ended,
       Command, WriteCommand

----------------------------------------------------------------------------
(* What the target takes *)

Immediate(c, imm) ==
    imm = None \/ \E n \in Nat \ {0} : n <= PayloadLen /\ imm = Part(c, 0, n)

LEMMA SegmentBegun ==
    ASSUME NoneIsNoData, NEW c, NEW imm, Immediate(c, imm), NEW x, x.data \in {None, imm}
    PROVE  Begun(c, SegmentOf(x))
<1>1. CASE x.data = None
    <2>1. SegmentOf(x) = <<>>
        BY <1>1 DEF SegmentOf
    <2> QED
        BY <2>1, NothingBegun
<1>2. CASE x.data # None
    <2>1. PICK n \in Nat \ {0} : n <= PayloadLen /\ imm = Part(c, 0, n)
        BY <1>2 DEF Immediate
    <2>2. PICK s : s = SegmentOf(x)
        OBVIOUS
    <2>3. s = Part(c, 0, n)
        BY <1>2, <2>1, <2>2 DEF SegmentOf
    <2>4. Begun(c, s)
        BY <2>1, <2>3, BegunPart
    <2> QED
        BY <2>2, <2>4
<1> QED
    BY <1>1, <1>2

LEMMA TakesCommand ==
    ASSUME NoneIsNoData, NEW c, NEW imm, NEW seg, NEW cm, NEW tk, NEW rt, NEW U, NEW D,
           Situation(c, imm, seg, cm, tk, rt, U, D), Immediate(c, imm),
           NEW x, NEW V, U = V \cup {x}, \A q \in V : Turn(x, q), IsCommand(x)
    PROVE  /\ Unsent(x, imm)
           /\ Situation(c, imm, seg, cm, Task(x.head.op, SegmentOf(x), None), rt, V, D)
<1>1. Submitted(imm, cm, tk, rt, U, D)
    BY SituationToTarget
<1>2. PICK p : U = {p} /\ Unsent(p, imm) /\ cm = Command(p.head.op, "sent", <<>>)
    BY <1>1 DEF Submitted
<1>3. p = x
    BY <1>2
<1>4. x \notin V
    <2> SUFFICES ASSUME x \in V PROVE FALSE
        OBVIOUS
    <2>1. Turn(x, x)
        OBVIOUS
    <2> QED
        BY <2>1 DEF Turn
<1>5. V = {}
    BY <1>2, <1>3, <1>4
<1>6. rt = None /\ D = {}
    BY <1>1 DEF Submitted
<1>7. PICK g : g = SegmentOf(x)
    OBVIOUS
<1>8. Begun(c, g)
    <2>1. x.data \in {None, imm}
        BY <1>2, <1>3 DEF Unsent
    <2> QED
        BY <1>7, <2>1, SegmentBegun
<1>9. CASE x.head.op = "write"
    <2>1. cm = WriteCommand
        BY <1>2, <1>3, <1>9 DEF WriteCommand
    <2>2. Waiting(c, cm, Task("write", g, None), rt, V, D)
        BY <1>5, <1>6, <1>8, <2>1 DEF Waiting
    <2> QED
        BY <1>2, <1>3, <1>7, <1>9, <2>2 DEF Situation
<1>10. CASE x.head.op = "read"
    <2>1. g = <<>>
        BY <1>2, <1>3, <1>7, <1>10 DEF Unsent, SegmentOf
    <2>2. PICK e : e = <<>> /\ Begun(c, e) /\ Len(e) = 0
        BY NothingBegun
    <2>3. cm = Command("read", "sent", e) /\ g = e
        BY <1>2, <1>3, <1>10, <2>1, <2>2
    <2>4. 0 < PayloadLen
        BY PayloadLenIs
    <2>5. DataIns(D) = {} /\ Covers(c, {}, 0, 0)
        BY <1>6, CoversNothing DEF DataIns
    <2>6. Len(e) <= Len(e) /\ Len(e) < PayloadLen
        BY <2>2, <2>4
    <2>7. Covers(c, DataIns(D), Len(e), Len(e))
        BY <2>2, <2>5
    <2>8. Reading(c, cm, Task("read", e, None), rt, V, D)
        <3>1. PICK tt, op : tt = Task(op, e, None) /\ op = "read"
            OBVIOUS
        <3>2. \A q \in D : ReadAnswer(q, op)
            BY <1>6
        <3>3. Reading(c, cm, tt, rt, V, D)
            BY <1>5, <1>6, <2>2, <2>3, <2>6, <2>7, <3>1, <3>2 DEF Reading
        <3> QED
            BY <3>1, <3>3
    <2> QED
        BY <1>2, <1>3, <1>7, <1>10, <2>3, <2>8 DEF Situation
<1> QED
    BY <1>2, <1>3, <1>9, <1>10 DEF IsCommand

\* What the target finds in the Data-Out that comes first.
Expected(x, got, ttt, n, end, seg) ==
    /\ x.head.lun = 0 /\ x.head.ttt = ttt /\ x.head.dataSN = n /\ x.head.offset = Len(got)
    /\ x.head.len \in Nat \ {0} /\ x.head.len <= seg
    /\ x.head.offset + x.head.len <= end
    /\ x.head.final <=> x.head.offset + x.head.len = end

\* A Data-Out belongs to one place in its sequence.
LEMMA OnePlace ==
    ASSUME NEW seg \in Nat \ {0}, NEW a \in Nat, NEW b \in Nat, a * seg = b * seg
    PROVE  a = b
<1>1. PICK d : d = a - b
    OBVIOUS
<1>2. d \in Int /\ d * seg = 0
    BY <1>1
<1>3. d = 0
    BY <1>2
<1> QED
    BY <1>1, <1>3

\* What the target makes of it fits what is under way.
AfterDataOut(x, c, imm, seg, cm, tk, rt, V, D) ==
    \E got, ttt, n, end :
       /\ tk = Task("write", got, Asked(ttt, n, end))
       /\ Expected(x, got, ttt, n, end, seg)
       /\ Situation(c, imm, seg, cm,
                    Task("write", got \o SegmentOf(x),
                         IF x.head.final THEN None ELSE Asked(ttt, n + 1, end)),
                    rt, V, D)

LEMMA TakesDataOut ==
    ASSUME NoneIsNoData,
           NEW c, NEW imm, NEW seg \in Nat \ {0}, NEW cm, NEW tk, NEW rt, NEW U, NEW D,
           Situation(c, imm, seg, cm, tk, rt, U, D),
           NEW x, NEW V, U = V \cup {x}, \A q \in U : q.head.cmd = c,
           \A q \in V : Turn(x, q), x.head.op = "dataOut"
    PROVE  AfterDataOut(x, c, imm, seg, cm, tk, rt, V, D)
<1> SUFFICES \E got, ttt, n, end :
                /\ tk = Task("write", got, Asked(ttt, n, end))
                /\ Expected(x, got, ttt, n, end, seg)
                /\ Situation(c, imm, seg, cm,
                             Task("write", got \o SegmentOf(x),
                                  IF x.head.final THEN None ELSE Asked(ttt, n + 1, end)),
                             rt, V, D)
    BY DEF AfterDataOut
<1>1. Sending(c, seg, cm, tk, rt, U, D)
    BY SituationToTarget
<1>2. PICK got, ttt, n, end, upto :
          /\ tk = Task("write", got, Asked(ttt, n, end)) /\ Begun(c, got)
          /\ ttt \in Nat /\ n \in Nat /\ Len(got) = ttt + n * seg
          /\ end \in Nat /\ Len(got) < end /\ end <= PayloadLen
          /\ upto \in Nat /\ Len(got) <= upto
          /\ \A p \in U : DataOut(p, ttt, end, seg)
          /\ Covers(c, U, Len(got), upto)
          /\ \/ rt = None /\ upto = end
             \/ \E k, ack :
                   /\ k \in Nat /\ rt = Answering(c, ttt, end, k * seg, k, ack)
                   /\ upto = ttt + k * seg /\ upto < end
    BY <1>1 DEF Sending
<1>3. cm = WriteCommand /\ D = {}
    BY <1>1 DEF Sending
<1>4. PICK a, l, e : a = Len(got) /\ l = x.head.len /\ e = a + l
    OBVIOUS
<1>5. a \in Nat /\ a <= PayloadLen /\ got = Part(c, 0, a)
    BY <1>2, <1>4, BegunIs
<1>6. \A q \in V : x.head.offset + x.head.len <= q.head.offset
    <2>1. \A q \in V : DataOut(q, ttt, end, seg) /\ q.head.cmd = x.head.cmd
        BY <1>2
    <2> QED
        BY <2>1 DEF Turn, DataOut
<1>7. /\ x.head.offset = a /\ l \in Nat \ {0} /\ e <= upto /\ x.data = Part(c, a, e)
      /\ Covers(c, V, e, upto) /\ x \notin V
    <2>1. Covers(c, V \cup {x}, a, upto)
        BY <1>2, <1>4
    <2>2. /\ x.head.offset <= a /\ a <= x.head.offset /\ x.head.offset \in Nat
          /\ x.head.len \in Nat \ {0} /\ a + x.head.len <= upto
          /\ Covers(c, V, a + x.head.len, upto) /\ x \notin V
        <3>1. upto \in Nat /\ a \in Nat
            BY <1>2, <1>5
        <3> QED
            BY <1>6, <2>1, <3>1, CoversLess
    <2>3. e = a + x.head.len /\ l = x.head.len
        BY <1>4
    <2>4. x.head.offset = a
        BY <1>5, <2>2
    <2>5. x.data = Part(c, x.head.offset, x.head.offset + x.head.len)
        BY <2>1 DEF Covers
    <2> QED
        BY <2>2, <2>3, <2>4, <2>5
<1>8. DataOut(x, ttt, end, seg)
    BY <1>2
<1>9. PICK m : m = x.head.dataSN
    OBVIOUS
<1>10. /\ m \in Nat /\ a = ttt + m * seg /\ l <= seg /\ (e = end \/ l = seg)
       /\ x.head.final <=> e = end
    BY <1>4, <1>7, <1>8, <1>9 DEF DataOut
<1>11. m = n
    <2>1. PICK y, z : y = m * seg /\ z = n * seg
        OBVIOUS
    <2>2. y \in Nat /\ z \in Nat
        BY <1>2, <1>10, <2>1
    <2>3. a = ttt + y /\ a = ttt + z
        BY <1>2, <1>4, <1>10, <2>1
    <2>4. y = z
        BY <1>2, <2>2, <2>3
    <2> QED
        BY <1>2, <1>10, <2>1, <2>4, OnePlace
<1>12. upto <= end /\ e <= end
    BY <1>2, <1>4, <1>5, <1>7
<1>13. Expected(x, got, ttt, n, end, seg)
    BY <1>4, <1>7, <1>8, <1>9, <1>10, <1>11, <1>12 DEF Expected, DataOut
<1>14. PICK g : g = got \o SegmentOf(x)
    OBVIOUS
<1>15. Begun(c, g) /\ Len(g) = e
    <2>1. e \in Nat /\ a < e /\ e <= PayloadLen
        <3>1. PayloadLen \in Nat
            BY PayloadLenIs
        <3> QED
            BY <1>2, <1>4, <1>5, <1>7, <1>12, <3>1
    <2>2. SegmentOf(x) = Part(c, a, e)
        BY <1>5, <1>7, <2>1, PartIsData DEF SegmentOf
    <2>3. a <= e
        BY <1>5, <2>1
    <2>4. Part(c, 0, a) \o Part(c, a, e) = Part(c, 0, e)
        BY <1>5, <2>1, <2>3, PartsJoined
    <2>5. g = Part(c, 0, e)
        BY <1>5, <1>14, <2>2, <2>4
    <2> QED
        BY <2>1, <2>5, BegunPart
<1>16. CASE x.head.final
    <2>1. e = end /\ upto = end
        BY <1>7, <1>10, <1>12, <1>16, <1>2, <1>4, <1>5
    <2>2. rt = None
        BY <1>2, <2>1
    <2>3. V = {}
        <3>1. Covers(c, V, e, e) /\ e \in Nat
            BY <1>2, <1>7, <2>1
        <3> QED
            BY <3>1, CoversNone
    <2>4. Waiting(c, cm, Task("write", g, None), rt, V, D)
        BY <1>3, <1>15, <2>2, <2>3 DEF Waiting
    <2> QED
        BY <1>2, <1>13, <1>14, <1>16, <2>4 DEF Situation
<1>17. CASE ~x.head.final
    <2>1. e # end /\ l = seg
        BY <1>10, <1>17
    <2>2. e = ttt + (n + 1) * seg
        <3>1. (n + 1) * seg = n * seg + seg /\ n * seg \in Nat
            BY <1>2
        <3>2. a = ttt + n * seg
            BY <1>2, <1>4
        <3> QED
            BY <1>2, <1>4, <2>1, <3>1, <3>2
    <2>3. PICK tt : tt = Task("write", g, Asked(ttt, n + 1, end))
        OBVIOUS
    <2>4. /\ Len(g) = ttt + (n + 1) * seg /\ Len(g) < end /\ Len(g) <= upto
          /\ Covers(c, V, Len(g), upto) /\ n + 1 \in Nat
        BY <1>2, <1>4, <1>5, <1>7, <1>12, <1>15, <2>1, <2>2
    <2>5. \A p \in V : DataOut(p, ttt, end, seg)
        BY <1>2
    <2>6. Sending(c, seg, cm, tt, rt, V, D)
        BY <1>2, <1>3, <1>15, <2>3, <2>4, <2>5 DEF Sending
    <2> QED
        BY <1>2, <1>13, <1>14, <1>17, <2>3, <2>6 DEF Situation
<1> QED
    BY <1>16, <1>17

----------------------------------------------------------------------------
(* What the target answers *)

\* A Data-In fits what is under way, with what the target has sent behind it,
AfterSending(x, c, imm, seg, cm, tk, rt, U, D) ==
    \E got : /\ tk = Task("read", got, None)
            /\ Situation(c, imm, seg, cm,
                         Task(IF x.head.status THEN "done" ELSE "read", got \o x.data, None),
                         rt, U, D \cup {x})

LEMMA SendsData ==
    ASSUME NoneIsNoData, NoneIsNoRecord,
           NEW c, NEW imm, NEW seg, NEW cm, NEW tk, NEW rt, NEW U, NEW D,
           Situation(c, imm, seg, cm, tk, rt, U, D), \A q \in D : q.head.cmd = c,
           tk # None, tk.op = "read", tk.asked = None,
           NEW limit \in Nat \ {0},
           NEW a, a = Len(tk.got), NEW l, l = Lesser(PayloadLen - a, limit),
           NEW x, x.head.op = "dataIn", x.head.cmd = c, x.head.offset = a, x.head.len = l,
           x.head.status <=> a + l = PayloadLen, x.data = Part(c, a, a + l)
    PROVE  /\ \A q \in D : Turn(q, x)
           /\ x.data # None /\ x.data # <<>> /\ IsSeq(x.data) /\ Len(x.data) = l
           /\ AfterSending(x, c, imm, seg, cm, tk, rt, U, D)
<1>1. Reading(c, cm, tk, rt, U, D)
    BY SituationIdle
<1>2. PICK data, op, got :
          /\ cm = Command("read", "sent", data) /\ tk = Task(op, got, None)
          /\ op \in {"read", "done"}
          /\ Begun(c, data) /\ Begun(c, got)
          /\ Len(data) <= Len(got) /\ Len(data) < PayloadLen
          /\ op = "read" => Len(got) < PayloadLen
          /\ \A p \in D : ReadAnswer(p, op)
          /\ Covers(c, DataIns(D), Len(data), Len(got))
    BY <1>1 DEF Reading
<1>3. rt = None /\ U = {}
    BY <1>1 DEF Reading
<1>4. op = "read" /\ got = tk.got /\ Len(got) = a
    BY <1>2 DEF Task
<1>5. PICK b, e : b = Len(data) /\ e = a + l
    OBVIOUS
<1>6. /\ a \in Nat /\ got = Part(c, 0, a) /\ a < PayloadLen /\ PayloadLen \in Nat
      /\ b \in Nat /\ b <= a
    BY <1>2, <1>4, <1>5, BegunIs, PayloadLenIs
<1>7. l \in Nat \ {0} /\ e \in Nat /\ a < e /\ e <= PayloadLen
    BY <1>5, <1>6 DEF Lesser
<1>8. x.data = Part(c, a, e)
    BY <1>5
<1>9. x.data # None /\ x.data # <<>>
    BY <1>6, <1>7, <1>8, PartIsData
<1>10. IsSeq(x.data) /\ Len(x.data) = l
    <2>1. a + l <= PayloadLen /\ l \in Nat
        BY <1>5, <1>7
    <2>2. IsSeq(Part(c, a, a + l)) /\ Len(Part(c, a, a + l)) = l
        BY <1>6, <2>1, PartLength
    <2> QED
        BY <2>2
<1>11. /\ Covers(c, DataIns(D) \cup {x}, b, e) /\ b <= e
       /\ \A p \in DataIns(D) : p.head.offset + p.head.len <= x.head.offset
    <2>1. Covers(c, DataIns(D), b, x.head.offset)
        BY <1>2, <1>4, <1>5
    <2>2. x.head.len \in Nat \ {0} /\ x.head.offset \in Nat /\ b <= x.head.offset
        BY <1>5, <1>6, <1>7
    <2>3. x.data = Part(c, x.head.offset, x.head.offset + x.head.len)
        OBVIOUS
    <2>4. e = x.head.offset + x.head.len
        BY <1>5
    <2>5. b \in Nat /\ b <= e
        BY <1>6, <1>7
    <2>6. /\ Covers(c, DataIns(D) \cup {x}, b, x.head.offset + x.head.len)
          /\ \A p \in DataIns(D) : p.head.offset + p.head.len <= x.head.offset
        BY <2>1, <2>2, <2>3, <2>5, CoversMore
    <2> QED
        BY <2>4, <2>5, <2>6
<1>12. \A q \in D : q.head.op = "dataIn" /\ ~q.head.status
    BY <1>2, <1>4 DEF ReadAnswer
<1>13. \A q \in D : Turn(q, x)
    <2>1. \A q \in D : q.head.offset + q.head.len <= x.head.offset
        BY <1>11, <1>12 DEF DataIns
    <2> QED
        BY <1>12, <2>1 DEF Turn, Ending, IsCommand
<1>14. PICK E, g, o : /\ E = D \cup {x} /\ g = got \o x.data
                      /\ o = IF x.head.status THEN "done" ELSE "read"
    OBVIOUS
<1>15. Begun(c, g) /\ Len(g) = e
    <2>1. a <= e /\ a \in Nat /\ e \in Nat
        BY <1>6, <1>7
    <2>2. Part(c, 0, a) \o Part(c, a, e) = Part(c, 0, e)
        BY <1>7, <2>1, PartsJoined
    <2>3. g = Part(c, 0, e)
        BY <1>6, <1>8, <1>14, <2>2
    <2> QED
        BY <1>7, <2>3, BegunPart
<1>16. DataIns(E) = DataIns(D) \cup {x}
    BY <1>14 DEF DataIns
<1>17. \A p \in E : ReadAnswer(p, o)
    <2>1. ReadAnswer(x, o)
        BY <1>14 DEF ReadAnswer
    <2>2. \A p \in D : ReadAnswer(p, o)
        BY <1>2, <1>12 DEF ReadAnswer
    <2> QED
        BY <1>14, <2>1, <2>2
<1>18. PICK tt : tt = Task(o, g, None)
    OBVIOUS
<1>19. o = "read" => Len(g) < PayloadLen
    BY <1>5, <1>6, <1>7, <1>14, <1>15
<1>20. o \in {"read", "done"}
    BY <1>14
<1>21. /\ Len(data) <= Len(g) /\ Len(data) < PayloadLen
       /\ Covers(c, DataIns(E), Len(data), Len(g))
    BY <1>2, <1>5, <1>11, <1>15, <1>16
<1>22. Reading(c, cm, tt, rt, U, E)
    BY <1>2, <1>3, <1>15, <1>17, <1>18, <1>19, <1>20, <1>21 DEF Reading
<1>23. Situation(c, imm, seg, cm, tt, rt, U, E)
    BY <1>22 DEF Situation
<1>24. AfterSending(x, c, imm, seg, cm, tk, rt, U, D)
    BY <1>2, <1>4, <1>14, <1>18, <1>23 DEF AfterSending
<1> QED
    BY <1>9, <1>10, <1>13, <1>24

\* and so does a response.
AfterResponding(x, c, imm, seg, cm, tk, rt, U, D) ==
    \E op, got : /\ tk = Task(op, got, None)
                /\ Situation(c, imm, seg, cm, Task("done", got, None), rt, U, D \cup {x})

LEMMA Responds ==
    ASSUME NoneIsNoRecord,
           NEW c, NEW imm, NEW seg, NEW cm, NEW tk, NEW rt, NEW U, NEW D,
           Situation(c, imm, seg, cm, tk, rt, U, D), \A q \in D : q.head.cmd = c,
           tk # None, tk.op # "done", tk.asked = None,
           NEW x, x.head.op = "response", x.head.cmd = c,
           x.head.good => tk.op = "write" /\ Len(tk.got) = PayloadLen,
           x.data = IF x.head.good THEN None ELSE <<"sense">>
    PROVE  /\ \A q \in D : Turn(q, x)
           /\ AfterResponding(x, c, imm, seg, cm, tk, rt, U, D)
<1>1. CASE tk.op = "read" /\ Reading(c, cm, tk, rt, U, D)
    <2>1. PICK data, op, got :
              /\ cm = Command("read", "sent", data) /\ tk = Task(op, got, None)
              /\ op \in {"read", "done"}
              /\ Begun(c, data) /\ Begun(c, got)
              /\ Len(data) <= Len(got) /\ Len(data) < PayloadLen
              /\ op = "read" => Len(got) < PayloadLen
              /\ \A p \in D : ReadAnswer(p, op)
              /\ Covers(c, DataIns(D), Len(data), Len(got))
        BY <1>1 DEF Reading
    <2>2. rt = None /\ U = {} /\ op = "read"
        BY <1>1, <2>1 DEF Reading, Task
    <2>3. \A q \in D : q.head.op = "dataIn" /\ ~q.head.status
        BY <2>1, <2>2 DEF ReadAnswer
    <2>4. \A q \in D : Turn(q, x)
        BY <2>3 DEF Turn, Ending, IsCommand
    <2>5. PICK E, o, tt : E = D \cup {x} /\ o = "done" /\ tt = Task(o, got, None)
        OBVIOUS
    <2>6. DataIns(E) = DataIns(D)
        BY <2>5 DEF DataIns
    <2>7. \A p \in E : ReadAnswer(p, o)
        <3>1. ReadAnswer(x, o)
            BY <1>1, <2>5 DEF ReadAnswer
        <3>2. \A p \in D : ReadAnswer(p, o)
            BY <2>1, <2>3 DEF ReadAnswer
        <3> QED
            BY <2>5, <3>1, <3>2
    <2>8. o \in {"read", "done"} /\ o # "read"
        BY <2>5
    <2>9. Covers(c, DataIns(E), Len(data), Len(got))
        BY <2>1, <2>6
    <2>10. Reading(c, cm, tt, rt, U, E)
        BY <2>1, <2>2, <2>5, <2>7, <2>8, <2>9 DEF Reading
    <2>11. Situation(c, imm, seg, cm, tt, rt, U, E)
        BY <2>10 DEF Situation
    <2> QED
        BY <2>1, <2>4, <2>5, <2>11 DEF AfterResponding
<1>2. CASE tk.op = "write" /\ Waiting(c, cm, tk, rt, U, D)
    <2>1. PICK got : tk = Task("write", got, None) /\ Begun(c, got)
        BY <1>2 DEF Waiting
    <2>2. cm = WriteCommand /\ rt = None /\ U = {} /\ D = {}
        BY <1>2 DEF Waiting
    <2>3. x.head.good => got = Payload(c)
        <3>1. x.head.good => Len(got) = PayloadLen
            BY <2>1 DEF Task
        <3>2. got = Part(c, 0, Len(got))
            BY <2>1 DEF Begun
        <3> QED
            BY <3>1, <3>2, PartWhole
    <2>4. WriteAnswer(x, c, got)
        BY <2>3 DEF WriteAnswer
    <2>5. PICK E, tt : E = D \cup {x} /\ tt = Task("done", got, None)
        OBVIOUS
    <2>6. Responded(c, cm, tt, rt, U, E)
        BY <2>2, <2>4, <2>5 DEF Responded
    <2>7. Situation(c, imm, seg, cm, tt, rt, U, E)
        BY <2>6 DEF Situation
    <2> QED
        BY <2>1, <2>2, <2>5, <2>7 DEF AfterResponding
<1> QED
    BY <1>1, <1>2, SituationIdle

----------------------------------------------------------------------------
(* What the initiator sends *)

LEMMA Submits ==
    ASSUME NEW c, NEW imm, NEW seg, NEW cm, NEW tk, NEW rt, NEW U, NEW D,
           Situation(c, imm, seg, cm, tk, rt, U, D), cm.at = "idle", NEW x, Unsent(x, imm)
    PROVE  /\ U = {}
           /\ Situation(c, imm, seg, Command(x.head.op, "sent", <<>>), tk, rt, U \cup {x}, D)
<1>1. Fresh(cm, tk, rt, U, D)
    BY SituationFresh
<1>2. U = {} /\ tk = None /\ rt = None /\ D = {}
    BY <1>1 DEF Fresh
<1>3. PICK V, m : V = U \cup {x} /\ m = Command(x.head.op, "sent", <<>>)
    OBVIOUS
<1>4. Submitted(imm, m, tk, rt, V, D)
    BY <1>2, <1>3 DEF Submitted
<1> QED
    BY <1>2, <1>3, <1>4 DEF Situation

\* The next Data-Out of the sequence.
NextOut(x, c, ttt, end, k, seg) ==
    /\ x.head.op = "dataOut" /\ x.head.cmd = c /\ x.head.lun = 0 /\ x.head.ttt = ttt
    /\ x.head.dataSN = k /\ x.head.offset = ttt + k * seg
    /\ x.head.len = Lesser(end - x.head.offset, seg)
    /\ x.data = Part(c, x.head.offset, x.head.offset + x.head.len)
    /\ x.head.final <=> x.head.offset + x.head.len = end

\* What handle_r2t does next fits what is under way.
SendsNext(c, imm, seg, cm, tk, rt, U, D, ttt, end, k, ack) ==
    /\ rt = Answering(c, ttt, end, k * seg, k, ack)
    /\ ttt \in Nat /\ end \in Nat /\ k \in Nat
    /\ ttt + k * seg < end /\ end <= PayloadLen
    /\ \A x : NextOut(x, c, ttt, end, k, seg) =>
          /\ \A q \in U : Turn(q, x)
          /\ Situation(c, imm, seg, cm, tk,
                       IF x.head.final THEN None
                       ELSE Answering(c, ttt, end, (k + 1) * seg, k + 1, ack),
                       U \cup {x}, D)

LEMMA SendsDataOut ==
    ASSUME NEW c, NEW imm, NEW seg \in Nat \ {0}, NEW cm, NEW tk, NEW rt, NEW U, NEW D,
           Situation(c, imm, seg, cm, tk, rt, U, D), \A q \in U : q.head.cmd = c, rt # None
    PROVE  \E ttt, end, k, ack : SendsNext(c, imm, seg, cm, tk, rt, U, D, ttt, end, k, ack)
<1>1. Sending(c, seg, cm, tk, rt, U, D)
    BY SituationAnswering
<1>2. PICK got, ttt, n, end, upto :
          /\ tk = Task("write", got, Asked(ttt, n, end)) /\ Begun(c, got)
          /\ ttt \in Nat /\ n \in Nat /\ Len(got) = ttt + n * seg
          /\ end \in Nat /\ Len(got) < end /\ end <= PayloadLen
          /\ upto \in Nat /\ Len(got) <= upto
          /\ \A p \in U : DataOut(p, ttt, end, seg)
          /\ Covers(c, U, Len(got), upto)
          /\ \/ rt = None /\ upto = end
             \/ \E k, ack :
                   /\ k \in Nat /\ rt = Answering(c, ttt, end, k * seg, k, ack)
                   /\ upto = ttt + k * seg /\ upto < end
    BY <1>1 DEF Sending
<1>3. cm = WriteCommand /\ D = {}
    BY <1>1 DEF Sending
<1>4. PICK k, ack : /\ k \in Nat /\ rt = Answering(c, ttt, end, k * seg, k, ack)
                    /\ upto = ttt + k * seg /\ upto < end
    BY <1>2
<1>5. PICK a : a = Len(got)
    OBVIOUS
<1>6. a \in Nat /\ a <= upto /\ a < end
    BY <1>2, <1>5, BegunIs
<1>7. ASSUME NEW x, NextOut(x, c, ttt, end, k, seg)
      PROVE  /\ \A q \in U : Turn(q, x)
             /\ Situation(c, imm, seg, cm, tk,
                          IF x.head.final THEN None
                          ELSE Answering(c, ttt, end, (k + 1) * seg, k + 1, ack), U \cup {x}, D)
    <2>1. /\ x.head.op = "dataOut" /\ x.head.cmd = c /\ x.head.lun = 0 /\ x.head.ttt = ttt
          /\ x.head.dataSN = k
          /\ x.head.final <=> x.head.offset + x.head.len = end
          /\ x.data = Part(c, x.head.offset, x.head.offset + x.head.len)
        BY <1>7 DEF NextOut
    <2>2. PICK l, e : l = x.head.len /\ e = upto + l
        OBVIOUS
    <2>3. x.head.offset = upto
        BY <1>4, <1>7 DEF NextOut
    <2>4. l = Lesser(end - upto, seg)
        BY <1>7, <2>2, <2>3 DEF NextOut
    <2>5. l \in Nat \ {0} /\ l <= seg /\ e <= end /\ (e = end \/ l = seg) /\ e \in Nat
        BY <1>2, <1>4, <2>2, <2>4 DEF Lesser
    <2>6. /\ Covers(c, U \cup {x}, a, e)
          /\ \A p \in U : p.head.offset + p.head.len <= x.head.offset
        <3>1. Covers(c, U, a, x.head.offset)
            BY <1>2, <1>5, <2>3
        <3>2. x.head.offset \in Nat /\ x.head.len \in Nat \ {0} /\ a <= x.head.offset
            BY <1>2, <1>6, <2>2, <2>3, <2>5
        <3>3. x.data = Part(c, x.head.offset, x.head.offset + x.head.len)
            BY <2>1
        <3>4. e = x.head.offset + x.head.len
            BY <2>2, <2>3
        <3>5. a \in Nat
            BY <1>6
        <3>6. /\ Covers(c, U \cup {x}, a, x.head.offset + x.head.len)
              /\ \A p \in U : p.head.offset + p.head.len <= x.head.offset
            BY <3>1, <3>2, <3>3, <3>5, CoversMore
        <3> QED
            BY <3>4, <3>6
    <2>7. \A q \in U : Turn(q, x)
        <3>1. \A q \in U : q.head.op = "dataOut"
            BY <1>2 DEF DataOut
        <3> QED
            BY <2>1, <2>6, <3>1 DEF Turn, Ending, IsCommand
    <2>8. DataOut(x, ttt, end, seg)
        BY <1>4, <2>1, <2>2, <2>3, <2>5 DEF DataOut
    <2>9. PICK V : V = U \cup {x}
        OBVIOUS
    <2>10. /\ \A p \in V : DataOut(p, ttt, end, seg)
           /\ Covers(c, V, Len(got), e)
           /\ Len(got) <= e
        <3>1. a <= e
            BY <1>4, <1>6, <2>2, <2>5, <1>2, SMTT(60)
        <3>2. \A p \in V : DataOut(p, ttt, end, seg)
            BY <1>2, <2>8, <2>9
        <3> QED
            BY <1>5, <2>6, <2>9, <3>1, <3>2
    <2>11. CASE x.head.final
        <3>1. e = end
            BY <2>1, <2>2, <2>3, <2>11
        <3>2. PICK none : none = None
            OBVIOUS
        <3>3. Sending(c, seg, cm, tk, none, V, D)
            BY <1>2, <1>3, <2>5, <2>10, <3>1, <3>2 DEF Sending
        <3> QED
            BY <2>7, <2>9, <2>11, <3>2, <3>3 DEF Situation
    <2>12. CASE ~x.head.final
        <3>1. e # end
            BY <2>1, <2>2, <2>3, <2>12
        <3>2. e # end /\ e < end /\ l = seg
            BY <1>2, <2>5, <3>1
        <3>3. (k + 1) * seg = k * seg + seg /\ k * seg \in Nat
            BY <1>4
        <3>4. e = ttt + (k + 1) * seg
            BY <1>2, <1>4, <2>2, <3>2, <3>3
        <3>5. PICK r, m : r = Answering(c, ttt, end, m * seg, m, ack) /\ m = k + 1
            OBVIOUS
        <3>6. m \in Nat /\ e = ttt + m * seg
            BY <1>4, <3>4, <3>5
        <3>7. Sending(c, seg, cm, tk, r, V, D)
            BY <1>2, <1>3, <2>5, <2>10, <3>2, <3>5, <3>6 DEF Sending
        <3> QED
            BY <2>7, <2>9, <2>12, <3>5, <3>7 DEF Situation
    <2> QED
        BY <2>11, <2>12
<1>8. SendsNext(c, imm, seg, cm, tk, rt, U, D, ttt, end, k, ack)
    BY <1>2, <1>4, <1>7 DEF SendsNext
<1> QED
    BY <1>8

----------------------------------------------------------------------------
(* What the initiator receives *)

LEMMA SenseIsData ==
    ASSUME NoneIsNoData
    PROVE  <<"sense">> # None
<1>1. <<"sense">> \in Seq({"sense"})
    OBVIOUS
<1> QED
    BY <1>1 DEF NoneIsNoData

\* What the initiator makes of a response fits what is under way,
AfterResponse(x, c, imm, seg, cm, tk, rt, U, V) ==
    \E op, at, old :
       /\ cm = Command(op, at, old)
       /\ Situation(c, imm, seg,
                    Command(op, IF x.head.good THEN "ok" ELSE "failed",
                            IF x.data = None THEN old ELSE x.data),
                    tk, rt, U, V)

LEMMA ReadsResponse ==
    ASSUME NoneIsNoData,
           NEW c, NEW imm, NEW seg, NEW cm, NEW tk, NEW rt, NEW U, NEW D,
           Situation(c, imm, seg, cm, tk, rt, U, D), \A q \in D : q.head.cmd = c,
           NEW x, NEW V, D = V \cup {x}, \A q \in V : Turn(x, q), x.head.op = "response"
    PROVE  AfterResponse(x, c, imm, seg, cm, tk, rt, U, V)
<1> SUFFICES \E op, at, old :
                /\ cm = Command(op, at, old)
                /\ Situation(c, imm, seg,
                             Command(op, IF x.head.good THEN "ok" ELSE "failed",
                                     IF x.data = None THEN old ELSE x.data),
                             tk, rt, U, V)
    BY DEF AfterResponse
<1>1. V = {}
    BY DEF Turn, Ending
<1>2. CASE Reading(c, cm, tk, rt, U, D)
    <2>1. PICK data, op, got :
              /\ cm = Command("read", "sent", data) /\ tk = Task(op, got, None)
              /\ \A p \in D : ReadAnswer(p, op)
        BY <1>2 DEF Reading
    <2>2. rt = None /\ U = {}
        BY <1>2 DEF Reading
    <2>3. ReadAnswer(x, op)
        BY <2>1
    <2>4. op = "done" /\ ~x.head.good /\ x.data = <<"sense">>
        BY <2>3 DEF ReadAnswer
    <2>5. x.data # None
        BY <2>4, SenseIsData
    <2>6. PICK m : m = Command("read", "failed", <<"sense">>)
        OBVIOUS
    <2>7. Ended(c, m, tk, rt, U, V)
        BY <1>1, <2>1, <2>2, <2>4, <2>6 DEF Ended
    <2>8. Situation(c, imm, seg, m, tk, rt, U, V)
        BY <2>7 DEF Situation
    <2> QED
        BY <2>1, <2>4, <2>5, <2>6, <2>8
<1>3. CASE Responded(c, cm, tk, rt, U, D)
    <2>1. PICK got, p : tk = Task("done", got, None) /\ D = {p} /\ WriteAnswer(p, c, got)
        BY <1>3 DEF Responded
    <2>2. cm = WriteCommand /\ rt = None /\ U = {}
        BY <1>3 DEF Responded
    <2>3. WriteAnswer(x, c, got)
        BY <2>1
    <2>4. CASE x.head.good
        <3>1. x.data = None /\ got = Payload(c)
            BY <2>3, <2>4 DEF WriteAnswer
        <3>2. PICK m : m = Command("write", "ok", <<>>)
            OBVIOUS
        <3>3. Ended(c, m, tk, rt, U, V)
            BY <1>1, <2>1, <2>2, <3>1, <3>2 DEF Ended
        <3>4. Situation(c, imm, seg, m, tk, rt, U, V)
            BY <3>3 DEF Situation
        <3> QED
            BY <2>2, <2>4, <3>1, <3>2, <3>4 DEF WriteCommand
    <2>5. CASE ~x.head.good
        <3>1. x.data = <<"sense">> /\ x.data # None
            BY <2>3, <2>5, SenseIsData DEF WriteAnswer
        <3>2. PICK m : m = Command("write", "failed", <<"sense">>)
            OBVIOUS
        <3>3. Ended(c, m, tk, rt, U, V)
            BY <1>1, <2>1, <2>2, <3>2 DEF Ended
        <3>4. Situation(c, imm, seg, m, tk, rt, U, V)
            BY <3>3 DEF Situation
        <3> QED
            BY <2>2, <2>5, <3>1, <3>2, <3>4 DEF WriteCommand
    <2> QED
        BY <2>4, <2>5
<1>4. x \in D
    OBVIOUS
<1> QED
    BY <1>2, <1>3, <1>4, SituationToInitiator

\* and so does what it makes of a Data-In.
AfterData(x, c, imm, seg, cm, tk, rt, U, V) ==
    \E op, at, old :
       /\ cm = Command(op, at, old)
       /\ Situation(c, imm, seg,
                    Command(op, IF x.head.status THEN "ok" ELSE at,
                            Gathered(old, x.head.offset, x.data)),
                    tk, rt, U, V)

LEMMA ReadsData ==
    ASSUME NEW c, NEW imm, NEW seg, NEW cm, NEW tk, NEW rt, NEW U, NEW D,
           Situation(c, imm, seg, cm, tk, rt, U, D), \A q \in D : q.head.cmd = c,
           NEW x, NEW V, D = V \cup {x}, \A q \in V : Turn(x, q), x.head.op = "dataIn"
    PROVE  AfterData(x, c, imm, seg, cm, tk, rt, U, V)
<1> SUFFICES \E op, at, old :
                /\ cm = Command(op, at, old)
                /\ Situation(c, imm, seg,
                             Command(op, IF x.head.status THEN "ok" ELSE at,
                                     Gathered(old, x.head.offset, x.data)),
                             tk, rt, U, V)
    BY DEF AfterData
<1>1. Reading(c, cm, tk, rt, U, D)
    BY SituationToInitiator
<1>2. PICK data, op, got :
          /\ cm = Command("read", "sent", data) /\ tk = Task(op, got, None)
          /\ op \in {"read", "done"}
          /\ Begun(c, data) /\ Begun(c, got)
          /\ Len(data) <= Len(got) /\ Len(data) < PayloadLen
          /\ op = "read" => Len(got) < PayloadLen
          /\ \A p \in D : ReadAnswer(p, op)
          /\ Covers(c, DataIns(D), Len(data), Len(got))
    BY <1>1 DEF Reading
<1>3. rt = None /\ U = {}
    BY <1>1 DEF Reading
<1>4. PICK a, b : a = Len(data) /\ b = Len(got)
    OBVIOUS
<1>5. /\ a \in Nat /\ data = Part(c, 0, a) /\ b \in Nat /\ b <= PayloadLen /\ PayloadLen \in Nat
      /\ a < PayloadLen
    BY <1>2, <1>4, BegunIs, PayloadLenIs
<1>6. PICK W : W = DataIns(V)
    OBVIOUS
<1>7. DataIns(D) = W \cup {x}
    BY <1>6 DEF DataIns
<1>8. \A q \in W : x.head.offset + x.head.len <= q.head.offset
    <2>1. \A q \in W : q \in V /\ q.head.op = "dataIn" /\ q.head.cmd = x.head.cmd
        BY <1>6 DEF DataIns
    <2> QED
        BY <2>1 DEF Turn
<1>9. Covers(c, W \cup {x}, a, b)
    BY <1>2, <1>4, <1>7
<1>10. /\ x.head.offset <= a /\ a <= x.head.offset /\ x.head.offset \in Nat
       /\ x.head.len \in Nat \ {0} /\ a + x.head.len <= b
       /\ Covers(c, W, a + x.head.len, b) /\ x \notin W
    BY <1>5, <1>8, <1>9, CoversLess
<1>11. x.data = Part(c, x.head.offset, x.head.offset + x.head.len)
    BY <1>9 DEF Covers
<1>12. PICK e : e = a + x.head.len
    OBVIOUS
<1>13. /\ x.head.offset = a /\ e \in Nat /\ a <= e /\ e <= b /\ e <= PayloadLen
       /\ x.data = Part(c, a, e) /\ Covers(c, W, e, b)
    BY <1>5, <1>10, <1>11, <1>12
<1>14. PICK g : g = Gathered(data, x.head.offset, x.data)
    OBVIOUS
<1>15. g = Part(c, 0, e)
    <2>1. Gathered(Part(c, 0, a), a, Part(c, a, e)) = Part(c, 0, e)
        BY <1>5, <1>13, PartsGathered
    <2> QED
        BY <1>5, <1>13, <1>14, <2>1
<1>16. Begun(c, g) /\ Len(g) = e
    BY <1>13, <1>15, BegunPart
<1>17. ReadAnswer(x, op)
    BY <1>2
<1>18. x.head.status <=> e = PayloadLen
    BY <1>12, <1>13, <1>17 DEF ReadAnswer
<1>19. x.head.status => op = "done"
    BY <1>17 DEF ReadAnswer
<1>20. CASE x.head.status
    <2>1. V = {}
        BY <1>20 DEF Turn, Ending
    <2>2. g = Payload(c)
        BY <1>15, <1>18, <1>20, PartWhole
    <2>3. PICK m : m = Command("read", "ok", g)
        OBVIOUS
    <2>4. Ended(c, m, tk, rt, U, V)
        BY <1>2, <1>3, <1>19, <1>20, <2>1, <2>2, <2>3 DEF Ended
    <2>5. Situation(c, imm, seg, m, tk, rt, U, V)
        BY <2>4 DEF Situation
    <2> QED
        BY <1>2, <1>14, <1>20, <2>3, <2>5
<1>21. CASE ~x.head.status
    <2>1. e < PayloadLen
        BY <1>5, <1>13, <1>18, <1>21
    <2>2. PICK m : m = Command("read", "sent", g)
        OBVIOUS
    <2>3. Len(g) <= Len(got) /\ Len(g) < PayloadLen /\ Covers(c, DataIns(V), Len(g), Len(got))
        BY <1>4, <1>6, <1>13, <1>16, <2>1
    <2>4. \A p \in V : ReadAnswer(p, op)
        BY <1>2
    <2>5. Reading(c, m, tk, rt, U, V)
        BY <1>2, <1>3, <1>16, <2>2, <2>3, <2>4 DEF Reading
    <2>6. Situation(c, imm, seg, m, tk, rt, U, V)
        BY <2>5 DEF Situation
    <2> QED
        BY <1>2, <1>14, <1>21, <2>2, <2>6
<1> QED
    BY <1>20, <1>21

LEMMA ReadsR2t ==
    ASSUME NEW c, NEW imm, NEW seg \in Nat, NEW cm, NEW tk, NEW rt, NEW U, NEW D,
           Situation(c, imm, seg, cm, tk, rt, U, D), \A q \in D : q.head.cmd = c,
           NEW x, NEW V, D = V \cup {x}, \A q \in V : Turn(x, q), x.head.op = "r2t", NEW ack
    PROVE  Situation(c, imm, seg, cm, tk,
                     [cmd |-> c, ttt |-> x.head.ttt, offset |-> x.head.offset,
                      desired |-> x.head.desired, sent |-> 0, dataSN |-> 0, ack |-> ack], U, V)
<1>1. AskedFor(c, cm, tk, rt, U, D)
    BY SituationToInitiator
<1>2. PICK got, end, p :
          /\ tk = Task("write", got, Asked(Len(got), 0, end)) /\ Begun(c, got)
          /\ end \in Nat /\ Len(got) < end /\ end <= PayloadLen
          /\ D = {p} /\ R2t(p, got, end)
    BY <1>1 DEF AskedFor
<1>3. cm = WriteCommand /\ rt = None /\ U = {}
    BY <1>1 DEF AskedFor
<1>4. R2t(x, got, end)
    BY <1>2
<1>5. V = {}
    <2>1. x \notin V
        BY DEF Turn
    <2> QED
        BY <1>2, <2>1
<1>6. PICK a, z, s : a = Len(got) /\ z = 0 /\ s = z * seg
    OBVIOUS
<1>7. a \in Nat /\ z \in Nat /\ s = 0 /\ a = a + s
    BY <1>2, <1>6, BegunIs
<1>8. PICK r : r = Answering(c, a, end, z * seg, z, ack)
    OBVIOUS
<1>9. r = [cmd |-> c, ttt |-> x.head.ttt, offset |-> x.head.offset,
           desired |-> x.head.desired, sent |-> 0, dataSN |-> 0, ack |-> ack]
    <2>1. x.head.ttt = a /\ x.head.offset = a /\ x.head.desired = end - a
        BY <1>4, <1>6 DEF R2t
    <2> QED
        BY <1>6, <1>7, <1>8, <2>1 DEF Answering
<1>10. Covers(c, U, a, a)
    BY <1>3, <1>7, CoversNothing
<1>11. Sending(c, seg, cm, tk, r, U, V)
    <2>1. tk = Task("write", got, Asked(a, z, end)) /\ a = a + z * seg
        BY <1>2, <1>6, <1>7
    <2>2. a < end
        BY <1>2, <1>6
    <2>3. a <= a
        BY <1>7
    <2>4. /\ tk = Task("write", got, Asked(a, z, end)) /\ Begun(c, got)
          /\ a \in Nat /\ z \in Nat /\ Len(got) = a + z * seg
          /\ end \in Nat /\ Len(got) < end /\ end <= PayloadLen
          /\ a \in Nat /\ Len(got) <= a
          /\ \A q \in U : DataOut(q, a, end, seg)
          /\ Covers(c, U, Len(got), a)
        BY <1>2, <1>3, <1>6, <1>7, <1>10, <2>1, <2>2, <2>3
    <2>5. z \in Nat /\ r = Answering(c, a, end, z * seg, z, ack) /\ a = a + z * seg /\ a < end
        BY <1>7, <1>8, <2>1, <2>2
    <2>6. cm = WriteCommand /\ V = {}
        BY <1>3, <1>5
    <2> QED
        BY <2>4, <2>5, <2>6 DEF Sending
<1>12. Situation(c, imm, seg, cm, tk, r, U, V)
    BY <1>11 DEF Situation
<1> QED
    BY <1>9, <1>12

----------------------------------------------------------------------------
(* The streams after the login *)

OfferHead == offer["HeaderDigest"]
OfferData == offer["DataDigest"]

\* The parameters in force.
Limits ==
    /\ {OfferHead, OfferData, offer["ImmediateData"]} \subseteq BOOLEAN
    /\ {offer[MaxRecv], offer[MaxSend]} \subseteq Nat \ {0}
    /\ {offer["FirstBurstLength"], offer["MaxBurstLength"]} \subseteq Nat

InForce == Running /\ Limits

LEMMA SameDigests ==
    ASSUME InForce
    PROVE  /\ OfferHead \in BOOLEAN /\ OfferData \in BOOLEAN
           /\ phase = "fullFeature" => HeadDigest = OfferHead /\ DataDigest = OfferData
           /\ TheirHeadDigest = OfferHead /\ TheirDataDigest = OfferData
<1>1. {"HeaderDigest", "DataDigest"} \subseteq Keys \ {MaxRecv}
    BY DEF Keys, Digests, MaxRecv
<1>2. params["HeaderDigest"] = OfferHead /\ params["DataDigest"] = OfferData
    BY <1>1 DEF InForce, Running, SameParameters, OfferHead, OfferData
<1>3. OfferHead \in BOOLEAN /\ OfferData \in BOOLEAN
    BY DEF InForce, Limits
<1>4. stage = "fullFeature"
    BY DEF InForce, Running
<1> QED
    BY <1>2, <1>3, <1>4 DEF HeadDigest, DataDigest, FullFeature, TheirHeadDigest, TheirDataDigest,
       OfferHead, OfferData

LEMMA SegmentIs ==
    ASSUME InForce
    PROVE  MaxSegment = offer[MaxRecv] /\ MaxSegment \in Nat \ {0}
BY DEF InForce, Running, Limits, SameParameters, MaxSegment

LEMMA ImmediateIs ==
    ASSUME InForce, NEW c
    PROVE  /\ Immediate(c, ImmediatePart(c))
           /\ ImmediatePart(c) # None =>
                 /\ offer["ImmediateData"]
                 /\ \E n \in Nat \ {0} : /\ n <= PayloadLen /\ n <= offer["FirstBurstLength"]
                                         /\ ImmediatePart(c) = Part(c, 0, n)
<1>1. {"ImmediateData", "FirstBurstLength"} \subseteq Keys \ {MaxRecv}
    BY DEF Keys, Flags, Numbers, Minima, MaxRecv
<1>2. /\ params["ImmediateData"] = offer["ImmediateData"]
      /\ params["FirstBurstLength"] = offer["FirstBurstLength"]
    BY <1>1 DEF InForce, Running, SameParameters
<1>3. PICK burst, n : burst = offer["FirstBurstLength"] /\ n = Lesser(PayloadLen, burst)
    OBVIOUS
<1>4. burst \in Nat /\ offer["ImmediateData"] \in BOOLEAN
    BY <1>3 DEF InForce, Limits
<1>5. n \in Nat /\ n <= PayloadLen /\ n <= burst
    BY <1>3, <1>4, PayloadLenIs DEF Lesser
<1>6. CASE offer["ImmediateData"] /\ n > 0
    <2>1. ImmediatePart(c) = SubSeq(Payload(c), 1, n)
        BY <1>2, <1>3, <1>6 DEF ImmediatePart
    <2>2. 0 + 1 = 1
        OBVIOUS
    <2>3. ImmediatePart(c) = Part(c, 0, n)
        BY <2>1, <2>2 DEF Part
    <2>4. n \in Nat \ {0}
        BY <1>5, <1>6
    <2> QED
        BY <1>3, <1>5, <1>6, <2>3, <2>4 DEF Immediate
<1>7. CASE ~(offer["ImmediateData"] /\ n > 0)
    <2>1. ImmediatePart(c) = None
        BY <1>2, <1>3, <1>7 DEF ImmediatePart
    <2> QED
        BY <2>1 DEF Immediate
<1> QED
    BY <1>6, <1>7

LEMMA InitiatorPuts ==
    ASSUME InForce, phase = "fullFeature", NEW up,
           Stream(toTarget, up, 0, OfferHead, OfferData, FALSE), NEW pdu, Sound(pdu), Send(pdu)
    PROVE  Stream(toTarget', Append(up, pdu), 0, OfferHead, OfferData, FALSE)
<1>1. PICK hd \in BOOLEAN, dd \in BOOLEAN : hd = OfferHead /\ dd = OfferData
    BY SameDigests
<1>2. toTarget' = toTarget \o Serialize(pdu, hd, dd, FALSE)
    BY <1>1, SameDigests DEF Send
<1>3. PICK z, pad : z = 0 /\ pad = FALSE
    OBVIOUS
<1>4. Stream(toTarget, up, z, hd, dd, pad) /\ pad \in BOOLEAN
    BY <1>1, <1>3
<1>5. Stream(toTarget \o Serialize(pdu, hd, dd, pad), Append(up, pdu), z, hd, dd, pad)
    BY <1>4, StreamSends
<1> QED
    BY <1>1, <1>2, <1>3, <1>5

LEMMA TargetPuts ==
    ASSUME InForce, NEW down, NEW bad,
           Stream(toInitiator, down, bad, OfferHead, OfferData, PaddingInDigest),
           NEW pdu, Sound(pdu), Answer(pdu)
    PROVE  Stream(toInitiator', Append(down, pdu), bad, OfferHead, OfferData, PaddingInDigest)
<1>1. PICK hd \in BOOLEAN, dd \in BOOLEAN, pad \in BOOLEAN :
         hd = OfferHead /\ dd = OfferData /\ pad = PaddingInDigest
    BY SameDigests, ConnectionAssumption DEF ConnectionAssumption
<1>2. toInitiator' = toInitiator \o Serialize(pdu, hd, dd, pad)
    BY <1>1, SameDigests DEF Answer
<1>3. Stream(toInitiator \o Serialize(pdu, hd, dd, pad), Append(down, pdu), bad, hd, dd, pad)
    BY <1>1, StreamSends
<1> QED
    BY <1>1, <1>2, <1>3

LEMMA InitiatorGets ==
    ASSUME InForce, phase = "fullFeature", NEW down, NEW bad,
           Stream(toInitiator, down, bad, OfferHead, OfferData, PaddingInDigest), Arrived, Read
    PROVE  /\ down # <<>> /\ IsSeq(down) /\ Pdu = down[1]
           /\ \E next :
                 /\ Stream(toInitiator', Tail(down), next, OfferHead, OfferData, PaddingInDigest)
                 /\ bad = 0 => next = 0
<1>1. PICK hd \in BOOLEAN, dd \in BOOLEAN, pad \in BOOLEAN :
         hd = OfferHead /\ dd = OfferData /\ pad = PaddingInDigest
    BY SameDigests, ConnectionAssumption DEF ConnectionAssumption
<1>2. phase = "fullFeature" => HeadDigest = hd /\ DataDigest = dd
    BY <1>1, SameDigests
<1>3. /\ Received(toInitiator, hd, dd, FALSE) = "pdu" /\ Pdu = Taken(toInitiator, hd)
      /\ toInitiator' = Rest(toInitiator, hd, dd)
    BY <1>2 DEF Arrived, Pdu, Read
<1>4. Stream(toInitiator, down, bad, hd, dd, pad)
    BY <1>1
<1>5. PICK s, read : s = toInitiator /\ read = FALSE
    OBVIOUS
<1>6. Received(s, hd, dd, read) = "pdu" /\ Stream(s, down, bad, hd, dd, pad)
      /\ read \in BOOLEAN /\ (bad = 0 \/ read = FALSE)
    BY <1>3, <1>4, <1>5
<1>7. /\ down # <<>> /\ FirstOf(Taken(s, hd), down)
      /\ Remains(Rest(s, hd, dd), down, bad, hd, dd, pad)
    BY <1>6, StreamReads, ZenonT(60)
<1>8. IsSeq(down)
    BY <1>4 DEF Stream
<1> QED
    BY <1>1, <1>3, <1>5, <1>7, <1>8 DEF FirstOf, Remains

LEMMA TargetGets ==
    ASSUME InForce, NEW up, Stream(toTarget, up, 0, OfferHead, OfferData, FALSE),
           TheyReceive = "pdu"
    PROVE  /\ up # <<>> /\ IsSeq(up) /\ Request = up[1] /\ Sound(up[1])
           /\ TheyRead => Stream(toTarget', Tail(up), 0, OfferHead, OfferData, FALSE)
<1>1. PICK hd \in BOOLEAN, dd \in BOOLEAN, read \in BOOLEAN :
         hd = OfferHead /\ dd = OfferData /\ read = PaddingInDigest
    BY SameDigests, ConnectionAssumption DEF ConnectionAssumption
<1>2. TheirHeadDigest = hd /\ TheirDataDigest = dd
    BY <1>1, SameDigests
<1>3. /\ Received(toTarget, hd, dd, read) = "pdu" /\ Request = Taken(toTarget, hd)
      /\ TheyRead => toTarget' = Rest(toTarget, hd, dd)
    BY <1>1, <1>2 DEF TheyReceive, Request, TheyRead
<1>4. PICK s, z, pad : s = toTarget /\ z = 0 /\ pad = FALSE
    OBVIOUS
<1>5. Received(s, hd, dd, read) = "pdu" /\ Stream(s, up, z, hd, dd, pad)
      /\ pad \in BOOLEAN /\ (z = 0 \/ read = FALSE)
    BY <1>1, <1>3, <1>4
<1>6. /\ up # <<>> /\ FirstOf(Taken(s, hd), up) /\ Remains(Rest(s, hd, dd), up, z, hd, dd, pad)
    BY <1>5, StreamReads, ZenonT(60)
<1>7. IsSeq(up) /\ Len(up) >= 1
    <2>1. IsSeq(up)
        BY <1>5 DEF Stream
    <2> QED
        BY <1>6, <2>1, Shorter
<1>8. Sound(up[1])
    <2>1. \A i \in 1 .. Len(up) : Sound(up[i])
        BY <1>5 DEF Stream
    <2>2. 1 \in 1 .. Len(up)
        BY <1>7, SeqLen
    <2> QED
        BY <2>1, <2>2
<1> QED
    BY <1>1, <1>3, <1>4, <1>6, <1>7, <1>8 DEF FirstOf, Remains

\* What is not about c stays as it is.
LEMMA OthersStay ==
    ASSUME params' = params, NEW up, NEW down, NEW U, NEW D, NEW c \in Cmd,
           \A d \in Cmd : About(d, up, down),
           \A d \in Cmd : d # c => /\ cmds'[d] = cmds[d] /\ tasks'[d] = tasks[d]
                                   /\ Round(d)' = Round(d)
                                   /\ Of(U, d) = Of(up, d) /\ Of(D, d) = Of(down, d),
           Situation(c, ImmediatePart(c), MaxSegment, cmds'[c], tasks'[c], Round(c)',
                     Of(U, c), Of(D, c))
    PROVE  \A d \in Cmd : About(d, U, D)'
<1>1. MaxSegment' = MaxSegment /\ \A d : ImmediatePart(d)' = ImmediatePart(d)
    BY DEF MaxSegment, ImmediatePart
<1>2. ASSUME NEW d \in Cmd
      PROVE  Situation(d, ImmediatePart(d), MaxSegment, cmds'[d], tasks'[d], Round(d)',
                       Of(U, d), Of(D, d))
    <2>1. CASE d = c
        BY <2>1
    <2>2. CASE d # c
        <3>1. Situation(d, ImmediatePart(d), MaxSegment, cmds[d], tasks[d], Round(d),
                        Of(up, d), Of(down, d))
            BY DEF About
        <3> QED
            BY <2>2, <3>1
    <2> QED
        BY <2>1, <2>2
<1> QED
    BY <1>1, <1>2 DEF About

----------------------------------------------------------------------------
(* The steps after the login *)

LEMMA RoundStays ==
    ASSUME NEW c, r2t # None => r2t.cmd = c, r2t' # None => r2t'.cmd = c
    PROVE  \A d : d # c => Round(d)' = Round(d)
BY DEF Round

LEMMA AckStays ==
    ASSUME NEW down, AckFollows(down), tStat' = tStat, expStatSN' = expStatSN,
           \A c \in Cmd : Open(c) => Open(c)'
    PROVE  AckFollows(down)'
<1>1. /\ tStat' \in Nat /\ expStatSN' \in Nat
      /\ \A p \in Elements(down) : p.head.statSN \in Nat
    BY DEF AckFollows
<1>2. CASE \E c \in Cmd : Open(c)
    <2>1. PICK c \in Cmd : Open(c)
        BY <1>2
    <2>2. Open(c)'
        BY <2>1
    <2> QED
        BY <1>1, <2>2 DEF AckFollows
<1>3. CASE ~\E c \in Cmd : Open(c)
    <2>1. \/ down = <<>> /\ expStatSN = tStat
          \/ down # <<>> /\ down[Len(down)].head.statSN + 1 = tStat
        BY <1>3 DEF AckFollows
    <2> QED
        BY <1>1, <2>1 DEF AckFollows
<1> QED
    BY <1>2, <1>3

LEMMA SoundData ==
    ASSUME NEW x, x = [head |-> x.head, data |-> x.data],
           x.data = None \/ (IsSeq(x.data) /\ x.data # <<>>), x.head.len = SegmentLen(x.data)
    PROVE  Sound(x)
BY DEF Sound, SegmentLen

LEMMA TalkOf ==
    ASSUME NEW up, NEW down, Talk(up, down), NEW c \in Cmd
    PROVE  /\ Situation(c, ImmediatePart(c), MaxSegment, cmds[c], tasks[c], Round(c),
                        Of(up, c), Of(down, c))
           /\ \A p \in Of(up, c) \cup Of(down, c) : p.head.cmd = c
BY DEF Talk, About, Of

\* The number of a command that is sent is above all others.
LEMMA NumberedLonger ==
    ASSUME NEW up, IsSeq(up), Numbered(up), NEW x, x.head.cmdSN = cmdSN, IsCommand(x),
           cmdSN' = cmdSN + 1, tExp' = tExp
    PROVE  Numbered(Append(up, x))'
<1>1. Elements(Append(up, x)) = Elements(up) \cup {x}
    BY ElementsLonger
<1>2. PICK E, F : E = Elements(up) /\ F = Elements(Append(up, x))
    OBVIOUS
<1>3. F = E \cup {x}
    BY <1>1, <1>2
<1>4. /\ cmdSN \in Nat /\ tExp \in Nat /\ tExp <= cmdSN
      /\ \A p \in E : IsCommand(p) =>
            p.head.cmdSN \in Nat /\ tExp <= p.head.cmdSN /\ p.head.cmdSN < cmdSN
      /\ \A n \in Nat : (tExp <= n /\ n < cmdSN) =>
            \E p \in E : IsCommand(p) /\ p.head.cmdSN = n
    BY <1>2 DEF Numbered
<1>5. \A p \in F : IsCommand(p) =>
            p.head.cmdSN \in Nat /\ tExp <= p.head.cmdSN /\ p.head.cmdSN < cmdSN + 1
    BY <1>3, <1>4
<1>6. ASSUME NEW n \in Nat, tExp <= n, n < cmdSN + 1
      PROVE  \E p \in F : IsCommand(p) /\ p.head.cmdSN = n
    <2>1. CASE n = cmdSN
        <3>1. x.head.cmdSN = n
            BY <2>1
        <3> QED
            BY <1>3, <3>1
    <2>2. CASE n # cmdSN
        <3>1. n < cmdSN
            BY <1>4, <1>6, <2>2
        <3>2. PICK p \in E : IsCommand(p) /\ p.head.cmdSN = n
            BY <1>4, <1>6, <3>1
        <3> QED
            BY <1>3, <3>2
    <2> QED
        BY <2>1, <2>2
<1>7. cmdSN' \in Nat /\ tExp' \in Nat /\ tExp' <= cmdSN'
    BY <1>4
<1> QED
    BY <1>2, <1>5, <1>6, <1>7 DEF Numbered

LEMMA TalkSubmit ==
    ASSUME NoneIsNoData, InForce, NEW up, NEW down, IsSeq(up), Talk(up, down),
           NEW c \in Cmd, Submit(c)
    PROVE  \E x : Sound(x) /\ Send(x) /\ Talk(Append(up, x), down)'
<1>1. PICK imm : imm = ImmediatePart(c)
    OBVIOUS
<1>2. PICK op, x :
         /\ op \in Ops
         /\ Send(x) /\ cmds' = [cmds EXCEPT ![c] = [op |-> op, at |-> "sent", data |-> <<>>]]
         /\ x = [head |-> [op |-> op, cmd |-> c, lun |-> Lun, cmdSN |-> cmdSN,
                           ack |-> expStatSN,
                           len |-> SegmentLen(IF op = "write" THEN imm ELSE None)],
                 data |-> IF op = "write" THEN imm ELSE None]
    BY <1>1 DEF Submit
<1>3. op \in {"read", "write"}
    BY <1>2, ConnectionAssumption DEF ConnectionAssumption
<1>4. /\ x.head.op = op /\ x.head.cmd = c /\ x.head.lun = Lun /\ x.head.cmdSN = cmdSN
      /\ x.data = IF op = "write" THEN imm ELSE None
      /\ x.head.len = SegmentLen(x.data) /\ x = [head |-> x.head, data |-> x.data]
    BY <1>2
<1>5. IsCommand(x) /\ Unsent(x, imm)
    BY <1>3, <1>4 DEF IsCommand, Unsent
<1>6. Sound(x)
    <2>1. imm = None \/ \E n \in Nat \ {0} : n <= PayloadLen /\ imm = Part(c, 0, n)
        BY <1>1, ImmediateIs DEF Immediate
    <2>2. imm = None \/ (IsSeq(imm) /\ imm # <<>>)
        <3>1. CASE imm # None
            <4>1. PICK n \in Nat \ {0} : n <= PayloadLen /\ imm = Part(c, 0, n)
                BY <2>1, <3>1
            <4>2. IsSeq(imm)
                BY <4>1, FrontIs
            <4>3. imm # <<>>
                BY <4>1, PartIsData
            <4> QED
                BY <4>2, <4>3
        <3> QED
            BY <3>1
    <2> QED
        BY <1>4, <2>2, SoundData
<1>7. cmds[c].at = "idle" /\ tasks' = tasks /\ r2t' = r2t /\ params' = params
      /\ cmdSN' = cmdSN + 1 /\ tExp' = tExp /\ tStat' = tStat /\ expStatSN' = expStatSN
    BY DEF Submit, loginVars, targetVars
<1>8. /\ Of(up, c) = {}
      /\ Situation(c, imm, MaxSegment, Command(x.head.op, "sent", <<>>), tasks[c], Round(c),
                   Of(up, c) \cup {x}, Of(down, c))
    <2>1. PICK seg, cm, tk, rt, P, Q : /\ seg = MaxSegment /\ cm = cmds[c] /\ tk = tasks[c]
                                       /\ rt = Round(c) /\ P = Of(up, c) /\ Q = Of(down, c)
        OBVIOUS
    <2>2. Situation(c, imm, seg, cm, tk, rt, P, Q)
        BY <1>1, <2>1, TalkOf
    <2>3. cm.at = "idle"
        BY <1>7, <2>1
    <2>4. P = {} /\ Situation(c, imm, seg, Command(x.head.op, "sent", <<>>), tk, rt, P \cup {x}, Q)
        BY <1>5, <2>2, <2>3, Submits
    <2> QED
        BY <2>1, <2>4
<1>9. /\ Of(Append(up, x), c) = Of(up, c) \cup {x}
      /\ \A d : d # c => Of(Append(up, x), d) = Of(up, d)
    <2>1. x.head.cmd = c
        BY <1>4
    <2> QED
        BY <2>1, OfLonger
<1>10. cmds = [d \in Cmd |-> cmds[d]]
    BY DEF Talk
<1>11. cmds'[c] = Command(x.head.op, "sent", <<>>) /\ \A d \in Cmd : d # c => cmds'[d] = cmds[d]
    BY <1>2, <1>4, <1>10 DEF Command
<1>12. \A d : Round(d)' = Round(d)
    BY <1>7 DEF Round
<1>13. Situation(c, imm, MaxSegment, cmds'[c], tasks'[c], Round(c)',
                 Of(Append(up, x), c), Of(down, c))
    BY <1>7, <1>8, <1>9, <1>11, <1>12
<1>14. \A d \in Cmd : About(d, Append(up, x), down)'
    <2>1. \A d \in Cmd : About(d, up, down)
        BY DEF Talk
    <2> QED
        BY <1>1, <1>7, <1>9, <1>11, <1>12, <1>13, <2>1, OthersStay, ZenonT(60)
<1>15. Elements(Append(up, x)) = Elements(up) \cup {x}
    BY ElementsLonger
<1>16. InSequence(Append(up, x))
    <2>1. \A p \in Elements(up) : p.head.cmd # c
        BY <1>8 DEF Of
    <2>2. \A p \in Elements(up) : IsCommand(p) => p.head.cmdSN < cmdSN
        BY DEF Talk, Numbered
    <2>3. \A p \in Elements(up) : Turn(p, x)
        BY <1>4, <2>1, <2>2 DEF Turn
    <2> QED
        BY <2>3, InSequenceLonger DEF Talk
<1>17. Numbered(Append(up, x))'
    BY <1>4, <1>5, <1>7, NumberedLonger DEF Talk
<1>18. AckFollows(down)'
    <2>1. \A d \in Cmd : Open(d) => Open(d)'
        BY <1>7 DEF Open
    <2> QED
        BY <1>7, <2>1, AckStays DEF Talk
<1>19. \A p \in Elements(Append(up, x)) \cup Elements(down) : p.head.cmd \in Cmd
    BY <1>4, <1>15 DEF Talk
<1>20. cmds' = [d \in Cmd |-> cmds'[d]] /\ tasks' = [d \in Cmd |-> tasks'[d]]
    BY <1>2, <1>7, <1>10 DEF Talk
<1>21. r2t' # None => r2t'.cmd \in Cmd
    BY <1>7 DEF Talk
<1>22. Talk(Append(up, x), down)'
    BY <1>14, <1>16, <1>17, <1>18, <1>19, <1>20, <1>21 DEF Talk
<1> QED
    BY <1>2, <1>6, <1>22

LEMMA NumberedStays ==
    ASSUME NEW up, NEW U, Numbered(up), cmdSN' = cmdSN, tExp' = tExp,
           \A p : IsCommand(p) => (p \in Elements(U) <=> p \in Elements(up))
    PROVE  Numbered(U)'
<1>1. PICK E, F : E = Elements(up) /\ F = Elements(U)
    OBVIOUS
<1>2. \A p : IsCommand(p) => (p \in F <=> p \in E)
    BY <1>1
<1>3. /\ cmdSN \in Nat /\ tExp \in Nat /\ tExp <= cmdSN
      /\ \A p \in E : IsCommand(p) =>
            p.head.cmdSN \in Nat /\ tExp <= p.head.cmdSN /\ p.head.cmdSN < cmdSN
      /\ \A n \in Nat : (tExp <= n /\ n < cmdSN) =>
            \E p \in E : IsCommand(p) /\ p.head.cmdSN = n
    BY <1>1 DEF Numbered
<1>4. \A p \in F : IsCommand(p) =>
            p.head.cmdSN \in Nat /\ tExp <= p.head.cmdSN /\ p.head.cmdSN < cmdSN
    BY <1>2, <1>3
<1>5. \A n \in Nat : (tExp <= n /\ n < cmdSN) =>
            \E p \in F : IsCommand(p) /\ p.head.cmdSN = n
    BY <1>2, <1>3
<1> QED
    BY <1>1, <1>3, <1>4, <1>5 DEF Numbered

LEMMA TalkDataOut ==
    ASSUME NoneIsNoData, InForce, NEW up, NEW down, IsSeq(up), Talk(up, down), SendDataOut
    PROVE  \E x : Sound(x) /\ Send(x) /\ Talk(Append(up, x), down)'
<1>1. r2t # None /\ r2t.cmd \in Cmd
    BY DEF SendDataOut, Talk
<1>2. PICK c \in Cmd : c = r2t.cmd
    BY <1>1
<1>3. PICK imm, seg, tk, rt, cm : /\ imm = ImmediatePart(c) /\ seg = MaxSegment /\ cm = cmds[c]
                                  /\ tk = tasks[c] /\ rt = Round(c)
    OBVIOUS
<1>4. PICK P, Q : P = Of(up, c) /\ Q = Of(down, c)
    OBVIOUS
<1>5. rt = r2t /\ rt # None
    BY <1>1, <1>2, <1>3 DEF Round
<1>6. seg \in Nat \ {0}
    BY <1>3, SegmentIs
<1>7. Situation(c, imm, seg, cm, tk, rt, P, Q) /\ \A q \in P : q.head.cmd = c
    BY <1>3, <1>4, TalkOf
<1>8. PICK ttt, end, k, ack : SendsNext(c, imm, seg, cm, tk, rt, P, Q, ttt, end, k, ack)
    <2>1. rt # None
        BY <1>5
    <2> QED
        BY <1>6, <1>7, <2>1, SendsDataOut
<1>9. /\ rt = Answering(c, ttt, end, k * seg, k, ack)
      /\ ttt \in Nat /\ end \in Nat /\ k \in Nat
      /\ ttt + k * seg < end /\ end <= PayloadLen
    BY <1>8 DEF SendsNext
<1>10. PICK done, a : done = k * seg /\ a = ttt + done
    OBVIOUS
<1>11. done \in Nat /\ a \in Nat /\ a < end
    BY <1>6, <1>9, <1>10
<1>12. /\ r2t.cmd = c /\ r2t.ttt = ttt /\ r2t.offset = ttt /\ r2t.desired = end - ttt
       /\ r2t.sent = done /\ r2t.dataSN = k /\ r2t.ack = ack
    BY <1>5, <1>9, <1>10 DEF Answering
<1>13. Offset = a
    BY <1>10, <1>12 DEF Offset
<1>14. PICK l, e : l = Lesser(end - ttt - done, seg) /\ e = a + l
    OBVIOUS
<1>15. /\ l \in Nat \ {0} /\ l <= seg /\ e \in Nat /\ a < e /\ e <= end /\ e <= PayloadLen
       /\ l = Lesser(end - a, seg)
       /\ Lesser(a + l, PayloadLen) = e
       /\ done + l >= end - ttt <=> e = end
    <2>1. end - ttt - done = end - a
        BY <1>9, <1>10, <1>11
    <2>2. l = Lesser(end - a, seg)
        BY <1>14, <2>1
    <2>3. l \in Nat \ {0} /\ l <= seg /\ e <= end
        BY <1>6, <1>9, <1>11, <1>14, <2>2 DEF Lesser
    <2>4. e \in Nat /\ a < e /\ e <= PayloadLen
        BY <1>9, <1>11, <1>14, <2>3, PayloadLenIs
    <2>5. Lesser(e, PayloadLen) = e
        BY <2>4 DEF Lesser
    <2>6. (done + l >= end - ttt) <=> e = end
        BY <1>9, <1>10, <1>11, <1>14, <2>3
    <2> QED
        BY <1>14, <2>2, <2>3, <2>4, <2>5, <2>6
<1>16. PICK final : final = (e = end)
    OBVIOUS
<1>17. PICK data : data = Part(c, a, e)
    OBVIOUS
<1>18. IsSeq(data) /\ Len(data) = l /\ data # None /\ data # <<>>
    <2>1. IsSeq(data) /\ Len(data) = l
        <3>1. a \in Nat /\ e \in Nat /\ e <= PayloadLen /\ l \in Nat
            BY <1>11, <1>15
        <3>2. e = a + l
            BY <1>14
        <3>3. IsSeq(Part(c, a, a + l)) /\ Len(Part(c, a, a + l)) = l
            BY <3>1, <3>2, PartLength
        <3> QED
            BY <1>17, <3>2, <3>3
    <2>2. data # None /\ data # <<>>
        BY <1>11, <1>15, <1>17, PartIsData
    <2> QED
        BY <2>1, <2>2
<1>19. PICK x : x = [head |-> [op |-> "dataOut", cmd |-> c, lun |-> 0, ttt |-> ttt,
                               offset |-> a, dataSN |-> k, ack |-> ack,
                               final |-> final, len |-> l],
                     data |-> data]
    OBVIOUS
<1>20. /\ Send(x)
       /\ r2t' = IF final THEN None ELSE [r2t EXCEPT !.sent = @ + l, !.dataSN = @ + 1]
    <2>1. Lesser(r2t.desired - r2t.sent, MaxSegment) = l
        BY <1>3, <1>12, <1>14
    <2>2. (r2t.sent + l >= r2t.desired) = final
        BY <1>12, <1>15, <1>16
    <2>3. SubSeq(Payload(r2t.cmd), Offset + 1, Lesser(Offset + l, PayloadLen)) = data
        BY <1>12, <1>13, <1>15, <1>17 DEF Part
    <2>4. /\ Send([head |-> [op |-> "dataOut", cmd |-> r2t.cmd, lun |-> 0, ttt |-> r2t.ttt,
                             offset |-> Offset, dataSN |-> r2t.dataSN, ack |-> r2t.ack,
                             final |-> final, len |-> Len(data)], data |-> data])
          /\ r2t' = IF final THEN None ELSE [r2t EXCEPT !.sent = @ + l, !.dataSN = @ + 1]
        BY <2>1, <2>2, <2>3 DEF SendDataOut
    <2>5. [head |-> [op |-> "dataOut", cmd |-> r2t.cmd, lun |-> 0, ttt |-> r2t.ttt,
                     offset |-> Offset, dataSN |-> r2t.dataSN, ack |-> r2t.ack,
                     final |-> final, len |-> Len(data)], data |-> data] = x
        BY <1>12, <1>13, <1>18, <1>19
    <2> QED
        BY <2>4, <2>5
<1>21. /\ x.head.op = "dataOut" /\ x.head.cmd = c /\ x.head.lun = 0 /\ x.head.ttt = ttt
       /\ x.head.offset = a /\ x.head.dataSN = k /\ x.head.final = final /\ x.head.len = l
       /\ x.data = data /\ x = [head |-> x.head, data |-> x.data]
    BY <1>19
<1>22. NextOut(x, c, ttt, end, k, seg)
    <2>1. x.head.offset = ttt + k * seg
        BY <1>10, <1>21
    <2>2. x.head.len = Lesser(end - x.head.offset, seg)
        BY <1>15, <1>21
    <2>3. x.data = Part(c, x.head.offset, x.head.offset + x.head.len)
        BY <1>14, <1>17, <1>21
    <2>4. x.head.final <=> x.head.offset + x.head.len = end
        BY <1>14, <1>16, <1>21
    <2> QED
        BY <1>21, <2>1, <2>2, <2>3, <2>4 DEF NextOut
<1>23. Sound(x)
    BY <1>18, <1>21, SoundData DEF SegmentLen
<1>24. /\ \A q \in P : Turn(q, x)
       /\ Situation(c, imm, seg, cm, tk,
                    IF x.head.final THEN None
                    ELSE Answering(c, ttt, end, (k + 1) * seg, k + 1, ack), P \cup {x}, Q)
    BY <1>22, <1>8 DEF SendsNext
<1>25. r2t' = IF x.head.final THEN None
              ELSE Answering(c, ttt, end, (k + 1) * seg, k + 1, ack)
    <2>1. CASE final
        BY <1>20, <1>21, <2>1
    <2>2. CASE ~final
        <3>1. l = seg
            <4>1. e # end
                BY <1>16, <2>2
            <4>2. l # end - a
                BY <1>9, <1>11, <1>14, <1>15, <4>1
            <4> QED
                BY <1>15, <4>2 DEF Lesser
        <3>2. done + l = (k + 1) * seg
            BY <1>6, <1>9, <1>10, <3>1
        <3>3. r2t' = Answering(c, ttt, end, done + l, k + 1, ack)
            <4>1. r2t = Answering(c, ttt, end, done, k, ack)
                BY <1>5, <1>9, <1>10
            <4>2. r2t' = [r2t EXCEPT !.sent = @ + l, !.dataSN = @ + 1]
                BY <1>20, <2>2
            <4> QED
                BY <4>1, <4>2 DEF Answering
        <3> QED
            BY <1>21, <2>2, <3>2, <3>3
    <2> QED
        BY <2>1, <2>2
<1>26. r2t' # None => r2t'.cmd = c
    BY <1>25 DEF Answering
<1>27. Round(c)' = r2t' /\ \A d : d # c => Round(d)' = Round(d)
    BY <1>2, <1>26, RoundStays DEF Round
<1>28. /\ tasks' = tasks /\ cmds' = cmds /\ params' = params
       /\ cmdSN' = cmdSN /\ tExp' = tExp /\ tStat' = tStat /\ expStatSN' = expStatSN
    BY DEF SendDataOut, loginVars, numberVars, targetVars
<1>29. /\ Of(Append(up, x), c) = Of(up, c) \cup {x}
       /\ \A d : d # c => Of(Append(up, x), d) = Of(up, d)
    <2>1. x.head.cmd = c
        BY <1>21
    <2> QED
        BY <2>1, OfLonger
<1>30. Situation(c, ImmediatePart(c), MaxSegment, cmds'[c], tasks'[c], Round(c)',
                 Of(Append(up, x), c), Of(down, c))
    BY <1>3, <1>4, <1>24, <1>25, <1>27, <1>28, <1>29
<1>31. \A d \in Cmd : About(d, Append(up, x), down)'
    <2>1. \A d \in Cmd : About(d, up, down)
        BY DEF Talk
    <2>2. \A d \in Cmd : d # c => /\ cmds'[d] = cmds[d] /\ tasks'[d] = tasks[d]
                                  /\ Round(d)' = Round(d)
                                  /\ Of(Append(up, x), d) = Of(up, d) /\ Of(down, d) = Of(down, d)
        BY <1>27, <1>28, <1>29
    <2>3. params' = params
        BY <1>28
    <2> QED
        BY <1>30, <2>1, <2>2, <2>3, OthersStay
<1>32. Elements(Append(up, x)) = Elements(up) \cup {x}
    BY ElementsLonger
<1>33. InSequence(Append(up, x))
    <2>1. \A p \in Elements(up) : Turn(p, x)
        <3>1. \A p \in Elements(up) : p.head.cmd = c => p \in P
            BY <1>4 DEF Of
        <3>2. ~IsCommand(x)
            BY <1>21 DEF IsCommand
        <3> QED
            BY <1>21, <1>24, <3>1, <3>2 DEF Turn
    <2> QED
        BY <2>1, InSequenceLonger DEF Talk
<1>34. Numbered(Append(up, x))'
    <2>1. \A p : IsCommand(p) => (p \in Elements(Append(up, x)) <=> p \in Elements(up))
        BY <1>21, <1>32 DEF IsCommand
    <2> QED
        BY <1>28, <2>1, NumberedStays DEF Talk
<1>35. AckFollows(down)'
    <2>1. \A d \in Cmd : Open(d) => Open(d)'
        BY <1>28 DEF Open
    <2> QED
        BY <1>28, <2>1, AckStays DEF Talk
<1>36. \A p \in Elements(Append(up, x)) \cup Elements(down) : p.head.cmd \in Cmd
    BY <1>21, <1>32 DEF Talk
<1>37. Talk(Append(up, x), down)'
    BY <1>26, <1>28, <1>31, <1>33, <1>34, <1>35, <1>36 DEF Talk
<1> QED
    BY <1>20, <1>23, <1>37

LEMMA AckShorter ==
    ASSUME NEW down, IsSeq(down), down # <<>>, AckFollows(down),
           expStatSN' = down[1].head.statSN + 1, tStat' = tStat, tasks' = tasks
    PROVE  AckFollows(Tail(down))'
<1>1. /\ IsSeq(Tail(down)) /\ Len(Tail(down)) = Len(down) - 1 /\ Len(down) >= 1
      /\ \A i \in 1 .. Len(down) - 1 : Tail(down)[i] = down[i + 1]
    BY Shorter
<1>2. PICK rest, n : rest = Tail(down) /\ n = Len(down)
    OBVIOUS
<1>3. n \in Nat
    BY <1>2, SeqLen
<1>4. Elements(down) = Elements(rest) \cup {down[1]}
    BY <1>2, ElementsShorter
<1>5. /\ tStat \in Nat /\ down[1].head.statSN \in Nat
      /\ \A p \in Elements(rest) : p.head.statSN \in Nat
    BY <1>4 DEF AckFollows
<1>6. tStat' \in Nat /\ expStatSN' \in Nat
    BY <1>5
<1>7. CASE \E c \in Cmd : Open(c)
    <2>1. \E c \in Cmd : Open(c)'
        BY <1>7 DEF Open
    <2> QED
        BY <1>2, <1>5, <1>6, <2>1 DEF AckFollows
<1>8. CASE ~\E c \in Cmd : Open(c)
    <2>1. down[n].head.statSN + 1 = tStat
        BY <1>2, <1>8 DEF AckFollows
    <2>2. CASE n = 1
        <3>1. rest = <<>>
            <4>1. Len(rest) = 0
                BY <1>1, <1>2, <2>2
            <4>2. rest \in Seq(Elements(rest))
                BY <1>1, <1>2 DEF IsSeq
            <4> QED
                BY <4>1, <4>2
        <3>2. expStatSN' = tStat'
            BY <2>1, <2>2
        <3> QED
            BY <1>2, <1>5, <1>6, <3>1, <3>2 DEF AckFollows
    <2>3. CASE n # 1
        <3>1. n - 1 \in 1 .. n - 1 /\ n - 1 + 1 = n
            BY <1>1, <1>2, <1>3, <2>3
        <3>2. Len(rest) = n - 1
            BY <1>1, <1>2
        <3>3. rest[n - 1] = down[n]
            BY <1>1, <1>2, <3>1
        <3>4. rest # <<>>
            <4>1. Len(rest) # 0
                BY <3>1, <3>2
            <4> QED
                BY <4>1
        <3>5. rest[Len(rest)].head.statSN + 1 = tStat'
            BY <2>1, <3>2, <3>3
        <3> QED
            BY <1>2, <1>5, <1>6, <3>4, <3>5 DEF AckFollows
    <2> QED
        BY <2>2, <2>3
<1> QED
    BY <1>7, <1>8

\* What Receives leaves for each handler to show.
LEMMA TalkRead ==
    ASSUME NEW up, NEW down, IsSeq(down), down # <<>>, Talk(up, down),
           NEW x, x = down[1], NEW c, c = x.head.cmd, NEW m,
           cmds' = [cmds EXCEPT ![c] = m], tasks' = tasks, params' = params,
           cmdSN' = cmdSN, tExp' = tExp, tStat' = tStat, expStatSN' = x.head.statSN + 1,
           r2t = None, r2t' # None => r2t'.cmd = c,
           Situation(c, ImmediatePart(c), MaxSegment, m, tasks[c], Round(c)',
                     Of(up, c), Of(Tail(down), c))
    PROVE  Talk(up, Tail(down))'
<1>1. Elements(down) = Elements(Tail(down)) \cup {x}
    BY ElementsShorter
<1>2. c \in Cmd
    BY <1>1 DEF Talk
<1>3. \A d : d # c => Of(Tail(down), d) = Of(down, d)
    <2>1. down[1].head.cmd = c
        OBVIOUS
    <2> QED
        BY <2>1, OfShorter
<1>4. cmds = [d \in Cmd |-> cmds[d]]
    BY DEF Talk
<1>5. cmds'[c] = m /\ (\A d \in Cmd : d # c => cmds'[d] = cmds[d])
      /\ cmds' = [d \in Cmd |-> cmds'[d]]
    BY <1>2, <1>4
<1>6. \A d : d # c => Round(d)' = Round(d)
    BY RoundStays
<1>7. Situation(c, ImmediatePart(c), MaxSegment, cmds'[c], tasks'[c], Round(c)',
                Of(up, c), Of(Tail(down), c))
    BY <1>5
<1>8. \A d \in Cmd : About(d, up, Tail(down))'
    <2>1. \A d \in Cmd : About(d, up, down)
        BY DEF Talk
    <2>2. \A d \in Cmd : d # c => /\ cmds'[d] = cmds[d] /\ tasks'[d] = tasks[d]
                                  /\ Round(d)' = Round(d)
                                  /\ Of(up, d) = Of(up, d) /\ Of(Tail(down), d) = Of(down, d)
        BY <1>3, <1>5, <1>6
    <2> QED
        BY <1>2, <1>7, <2>1, <2>2, OthersStay
<1>9. InSequence(Tail(down))
    BY InSequenceShorter DEF Talk
<1>10. Numbered(up)'
    BY NumberedStays DEF Talk
<1>11. AckFollows(Tail(down))'
    <2>1. expStatSN' = down[1].head.statSN + 1
        OBVIOUS
    <2> QED
        BY <2>1, AckShorter DEF Talk
<1>12. \A p \in Elements(up) \cup Elements(Tail(down)) : p.head.cmd \in Cmd
    BY <1>1 DEF Talk
<1>13. tasks' = [d \in Cmd |-> tasks'[d]]
    BY DEF Talk
<1> QED
    BY <1>2, <1>5, <1>8, <1>9, <1>10, <1>11, <1>12, <1>13 DEF Talk
\* The PDU that is read is the first of those about its command.
LEMMA FirstOfIts ==
    ASSUME NEW s, IsSeq(s), s # <<>>, InSequence(s), \A p \in Elements(s) : p.head.cmd \in Cmd,
           NEW x, FirstOf(x, s), NEW c, c = x.head.cmd
    PROVE  /\ c \in Cmd /\ Of(s, c) = Of(Tail(s), c) \cup {x}
           /\ \A q \in Of(Tail(s), c) : Turn(x, q)
           /\ \A q \in Of(s, c) : q.head.cmd = c
<1>1. x = s[1]
    BY DEF FirstOf
<1>2. Elements(s) = Elements(Tail(s)) \cup {x}
    BY <1>1, ElementsShorter
<1>3. \A q \in Elements(Tail(s)) : Turn(x, q)
    BY <1>1, InSequenceShorter
<1>4. Of(s, c) = Of(Tail(s), c) \cup {x}
    <2>1. s[1].head.cmd = c
        BY <1>1
    <2>2. Of(s, c) = Of(Tail(s), c) \cup {s[1]}
        BY <2>1, OfShorter
    <2> QED
        BY <1>1, <2>2
<1> QED
    BY <1>2, <1>3, <1>4 DEF Of

\* With new, c has become m.
Becomes(new, c, m) == new = [cmds EXCEPT ![c] = m]

LEMMA CommandEnds ==
    ASSUME cmds = [d \in Cmd |-> cmds[d]], NEW c \in Cmd, NEW op, NEW at, NEW old,
           cmds[c] = Command(op, at, old), NEW A, NEW B, NEW new
    PROVE  /\ new = [cmds EXCEPT ![c].at = A, ![c].data = B] => Becomes(new, c, Command(op, A, B))
           /\ new = [cmds EXCEPT ![c].data = B] => Becomes(new, c, Command(op, at, B))
<1>1. PICK f : f = cmds
    OBVIOUS
<1>2. f = [d \in Cmd |-> f[d]] /\ f[c] = [op |-> op, at |-> at, data |-> old]
    BY <1>1 DEF Command
<1>3. [f EXCEPT ![c].data = B] = [f EXCEPT ![c] = [op |-> op, at |-> at, data |-> B]]
    <2>1. [f[c] EXCEPT !.data = B] = [op |-> op, at |-> at, data |-> B]
        BY <1>2
    <2> QED
        BY <2>1
<1>4. PICK g : g = [f EXCEPT ![c] = [op |-> op, at |-> A, data |-> old]]
    OBVIOUS
<1>5. [f EXCEPT ![c].at = A] = g
    <2>1. [f[c] EXCEPT !.at = A] = [op |-> op, at |-> A, data |-> old]
        BY <1>2
    <2> QED
        BY <1>4, <2>1
<1>6. g = [d \in Cmd |-> g[d]] /\ g[c] = [op |-> op, at |-> A, data |-> old]
    BY <1>2, <1>4
<1>7. [g EXCEPT ![c].data = B] = [f EXCEPT ![c] = [op |-> op, at |-> A, data |-> B]]
    <2>1. [g[c] EXCEPT !.data = B] = [op |-> op, at |-> A, data |-> B]
        BY <1>6
    <2>2. [g EXCEPT ![c] = [op |-> op, at |-> A, data |-> B]]
            = [f EXCEPT ![c] = [op |-> op, at |-> A, data |-> B]]
        BY <1>2, <1>4
    <2> QED
        BY <2>1, <2>2
<1>8. [f EXCEPT ![c].at = A, ![c].data = B] = [[f EXCEPT ![c].at = A] EXCEPT ![c].data = B]
    OBVIOUS
<1> QED
    BY <1>1, <1>3, <1>5, <1>7, <1>8 DEF Becomes, Command

LEMMA TalkResponse ==
    ASSUME NoneIsNoData, InForce, NEW up, NEW down, IsSeq(down), down # <<>>, Talk(up, down),
           Pdu = down[1], HandleScsiResponse
    PROVE  Talk(up, Tail(down))'
<1>1. PICK x : x = Pdu
    OBVIOUS
<1>2. PICK c : c = x.head.cmd
    OBVIOUS
<1>3. /\ x.head.op = "response" /\ r2t = None /\ r2t' = r2t
      /\ expStatSN' = x.head.statSN + 1 /\ cmdSN' = cmdSN /\ tExp' = tExp /\ tStat' = tStat
      /\ tasks' = tasks /\ params' = params
    BY <1>1 DEF HandleScsiResponse, Receives, UpdateNumbers, loginVars, targetVars
<1>4. cmds' = [cmds EXCEPT ![c].at = IF x.head.good THEN "ok" ELSE "failed",
                           ![c].data = IF x.data = None THEN cmds[c].data ELSE x.data]
    BY <1>1, <1>2 DEF HandleScsiResponse, Ends
<1>5. FirstOf(x, down)
    BY <1>1 DEF FirstOf
<1>6. /\ c \in Cmd /\ Of(down, c) = Of(Tail(down), c) \cup {x}
      /\ \A q \in Of(Tail(down), c) : Turn(x, q)
      /\ \A q \in Of(down, c) : q.head.cmd = c
    BY <1>2, <1>5, FirstOfIts DEF Talk
<1>7. PICK imm, seg, tk, rt, cm : /\ imm = ImmediatePart(c) /\ seg = MaxSegment /\ cm = cmds[c]
                                  /\ tk = tasks[c] /\ rt = Round(c)
    OBVIOUS
<1>8. PICK P, Q, R : P = Of(up, c) /\ Q = Of(down, c) /\ R = Of(Tail(down), c)
    OBVIOUS
<1>9. Situation(c, imm, seg, cm, tk, rt, P, Q)
    BY <1>6, <1>7, <1>8, TalkOf
<1>10. /\ Q = R \cup {x} /\ (\A q \in R : Turn(x, q)) /\ \A q \in Q : q.head.cmd = c
    BY <1>6, <1>8
<1>11. AfterResponse(x, c, imm, seg, cm, tk, rt, P, R)
    BY <1>3, <1>9, <1>10, ReadsResponse
<1>12. PICK op, at, old :
          /\ cm = Command(op, at, old)
          /\ Situation(c, imm, seg,
                       Command(op, IF x.head.good THEN "ok" ELSE "failed",
                               IF x.data = None THEN old ELSE x.data), tk, rt, P, R)
    BY <1>11 DEF AfterResponse
<1>13. PICK m : m = Command(op, IF x.head.good THEN "ok" ELSE "failed",
                            IF x.data = None THEN old ELSE x.data)
    OBVIOUS
<1>14. cmds' = [cmds EXCEPT ![c] = m]
    <2>1. cmds[c] = Command(op, at, old)
        BY <1>7, <1>12
    <2>2. cmds = [d \in Cmd |-> cmds[d]]
        BY DEF Talk
    <2>3. PICK A, B : A = (IF x.head.good THEN "ok" ELSE "failed")
                      /\ B = (IF x.data = None THEN old ELSE x.data)
        OBVIOUS
    <2>4. cmds[c].data = old
        BY <2>1 DEF Command
    <2>5. cmds' = [cmds EXCEPT ![c].at = A, ![c].data = B]
        BY <1>4, <2>3, <2>4
    <2>6. m = Command(op, A, B)
        BY <1>13, <2>3
    <2>7. PICK new : new = cmds'
        OBVIOUS
    <2>8. Becomes(new, c, Command(op, A, B))
        BY <1>6, <2>1, <2>2, <2>5, <2>7, CommandEnds
    <2> QED
        BY <2>6, <2>7, <2>8 DEF Becomes
<1>15. Situation(c, imm, seg, m, tk, rt, P, R)
    BY <1>12, <1>13
<1>16. Round(c)' = rt
    BY <1>3, <1>7 DEF Round
<1>17. Situation(c, ImmediatePart(c), MaxSegment, m, tasks[c], Round(c)', Of(up, c),
                 Of(Tail(down), c))
    BY <1>7, <1>8, <1>15, <1>16
<1>18. x = down[1]
    BY <1>1
<1> QED
    BY <1>2, <1>3, <1>14, <1>17, <1>18, TalkRead

LEMMA TalkDataIn ==
    ASSUME InForce, NEW up, NEW down, IsSeq(down), down # <<>>, Talk(up, down),
           Pdu = down[1], HandleDataIn
    PROVE  Talk(up, Tail(down))'
<1>1. PICK x : x = Pdu
    OBVIOUS
<1>2. PICK c : c = x.head.cmd
    OBVIOUS
<1>3. /\ x.head.op = "dataIn" /\ r2t = None /\ r2t' = r2t
      /\ expStatSN' = x.head.statSN + 1 /\ cmdSN' = cmdSN /\ tExp' = tExp /\ tStat' = tStat
      /\ tasks' = tasks /\ params' = params
    BY <1>1 DEF HandleDataIn, Receives, UpdateNumbers, loginVars, targetVars
<1>4. FirstOf(x, down)
    BY <1>1 DEF FirstOf
<1>5. /\ c \in Cmd /\ Of(down, c) = Of(Tail(down), c) \cup {x}
      /\ \A q \in Of(Tail(down), c) : Turn(x, q)
      /\ \A q \in Of(down, c) : q.head.cmd = c
    BY <1>2, <1>4, FirstOfIts DEF Talk
<1>6. PICK imm, seg, tk, rt, cm : /\ imm = ImmediatePart(c) /\ seg = MaxSegment /\ cm = cmds[c]
                                  /\ tk = tasks[c] /\ rt = Round(c)
    OBVIOUS
<1>7. PICK P, Q, R : P = Of(up, c) /\ Q = Of(down, c) /\ R = Of(Tail(down), c)
    OBVIOUS
<1>8. Situation(c, imm, seg, cm, tk, rt, P, Q)
    BY <1>5, <1>6, <1>7, TalkOf
<1>9. /\ Q = R \cup {x} /\ (\A q \in R : Turn(x, q)) /\ \A q \in Q : q.head.cmd = c
    BY <1>5, <1>7
<1>10. AfterData(x, c, imm, seg, cm, tk, rt, P, R)
    BY <1>3, <1>8, <1>9, ReadsData
<1>11. PICK op, at, old :
          /\ cm = Command(op, at, old)
          /\ Situation(c, imm, seg,
                       Command(op, IF x.head.status THEN "ok" ELSE at,
                               Gathered(old, x.head.offset, x.data)), tk, rt, P, R)
    BY <1>10 DEF AfterData
<1>12. PICK B, m : /\ B = Gathered(old, x.head.offset, x.data)
                   /\ m = Command(op, IF x.head.status THEN "ok" ELSE at, B)
    OBVIOUS
<1>13. cmds' = [cmds EXCEPT ![c] = m]
    <2>1. cmds[c] = Command(op, at, old)
        BY <1>6, <1>11
    <2>2. cmds = [d \in Cmd |-> cmds[d]]
        BY DEF Talk
    <2>3. Gathered(cmds[c].data, x.head.offset, x.data) = B
        BY <1>12, <2>1 DEF Command
    <2>4. PICK new : new = cmds'
        OBVIOUS
    <2>5. CASE x.head.status
        <3>1. PICK A : A = "ok"
            OBVIOUS
        <3>2. new = [cmds EXCEPT ![c].at = A, ![c].data = B]
            BY <1>1, <1>2, <2>3, <2>4, <2>5, <3>1 DEF HandleDataIn, Ends
        <3>3. Becomes(new, c, Command(op, A, B))
            BY <1>5, <2>1, <2>2, <3>2, CommandEnds
        <3>4. m = Command(op, A, B)
            BY <1>12, <2>5, <3>1
        <3> QED
            BY <2>4, <3>3, <3>4 DEF Becomes
    <2>6. CASE ~x.head.status
        <3>1. new = [cmds EXCEPT ![c].data = B]
            BY <1>1, <1>2, <2>3, <2>4, <2>6 DEF HandleDataIn
        <3>2. Becomes(new, c, Command(op, at, B))
            BY <1>5, <2>1, <2>2, <3>1, CommandEnds
        <3>3. m = Command(op, at, B)
            BY <1>12, <2>6
        <3> QED
            BY <2>4, <3>2, <3>3 DEF Becomes
    <2> QED
        BY <2>5, <2>6
<1>14. Situation(c, imm, seg, m, tk, rt, P, R)
    BY <1>11, <1>12
<1>15. Round(c)' = rt
    BY <1>3, <1>6 DEF Round
<1>16. Situation(c, ImmediatePart(c), MaxSegment, m, tasks[c], Round(c)', Of(up, c),
                 Of(Tail(down), c))
    BY <1>6, <1>7, <1>14, <1>15
<1>17. x = down[1]
    BY <1>1
<1> QED
    BY <1>2, <1>3, <1>13, <1>16, <1>17, TalkRead

LEMMA TalkR2t ==
    ASSUME InForce, NEW up, NEW down, IsSeq(down), down # <<>>, Talk(up, down),
           Pdu = down[1], HandleR2t
    PROVE  Talk(up, Tail(down))'
<1>1. PICK x : x = Pdu
    OBVIOUS
<1>2. PICK c : c = x.head.cmd
    OBVIOUS
<1>3. /\ x.head.op = "r2t" /\ r2t = None /\ cmds' = cmds
      /\ expStatSN' = x.head.statSN + 1 /\ cmdSN' = cmdSN /\ tExp' = tExp /\ tStat' = tStat
      /\ tasks' = tasks /\ params' = params
    BY <1>1 DEF HandleR2t, Receives, UpdateNumbers, loginVars, targetVars
<1>4. PICK round : round = r2t'
    OBVIOUS
<1>5. PICK ack : ack = expStatSN'
    OBVIOUS
<1>6. round = [cmd |-> c, ttt |-> x.head.ttt, offset |-> x.head.offset,
               desired |-> x.head.desired, sent |-> 0, dataSN |-> 0, ack |-> ack]
    BY <1>1, <1>2, <1>4, <1>5 DEF HandleR2t
<1>7. FirstOf(x, down)
    BY <1>1 DEF FirstOf
<1>8. /\ c \in Cmd /\ Of(down, c) = Of(Tail(down), c) \cup {x}
      /\ \A q \in Of(Tail(down), c) : Turn(x, q)
      /\ \A q \in Of(down, c) : q.head.cmd = c
    BY <1>2, <1>7, FirstOfIts DEF Talk
<1>9. PICK imm, seg, tk, rt, cm : /\ imm = ImmediatePart(c) /\ seg = MaxSegment /\ cm = cmds[c]
                                  /\ tk = tasks[c] /\ rt = Round(c)
    OBVIOUS
<1>10. PICK P, Q, R : P = Of(up, c) /\ Q = Of(down, c) /\ R = Of(Tail(down), c)
    OBVIOUS
<1>11. Situation(c, imm, seg, cm, tk, rt, P, Q) /\ seg \in Nat
    BY <1>8, <1>9, <1>10, TalkOf, SegmentIs
<1>12. /\ Q = R \cup {x} /\ (\A q \in R : Turn(x, q)) /\ \A q \in Q : q.head.cmd = c
    BY <1>8, <1>10
<1>13. Situation(c, imm, seg, cm, tk, round, P, R)
    <2>1. x.head.op = "r2t"
        BY <1>3
    <2>2. Situation(c, imm, seg, cm, tk,
                    [cmd |-> c, ttt |-> x.head.ttt, offset |-> x.head.offset,
                     desired |-> x.head.desired, sent |-> 0, dataSN |-> 0, ack |-> ack], P, R)
        BY <1>11, <1>12, <2>1, ReadsR2t
    <2> QED
        BY <1>6, <2>2
<1>14. cmds' = [cmds EXCEPT ![c] = cm]
    <2>1. cmds = [d \in Cmd |-> cmds[d]]
        BY DEF Talk
    <2> QED
        BY <1>3, <1>9, <2>1
<1>15. round.cmd = c
    BY <1>6
<1>16. Round(c)' = round
    BY <1>4, <1>15 DEF Round
<1>17. Situation(c, ImmediatePart(c), MaxSegment, cm, tasks[c], Round(c)', Of(up, c),
                 Of(Tail(down), c))
    BY <1>9, <1>10, <1>13, <1>16
<1>18. x = down[1] /\ (r2t' # None => r2t'.cmd = c)
    BY <1>1, <1>4, <1>15
<1>19. /\ tasks' = tasks /\ params' = params /\ cmdSN' = cmdSN /\ tExp' = tExp
       /\ tStat' = tStat /\ expStatSN' = x.head.statSN + 1 /\ r2t = None
    BY <1>3
<1> QED
    BY <1>2, <1>14, <1>17, <1>18, <1>19, TalkRead

\* The command that comes first has the number the target expects,
LEMMA NumberIs ==
    ASSUME NEW up, IsSeq(up), up # <<>>, InSequence(up), Numbered(up),
           NEW x, FirstOf(x, up), IsCommand(x)
    PROVE  x.head.cmdSN = tExp
<1>1. x = up[1]
    BY DEF FirstOf
<1>2. Elements(up) = Elements(Tail(up)) \cup {x}
    BY <1>1, ElementsShorter
<1>3. \A q \in Elements(Tail(up)) : Turn(x, q)
    BY <1>1, InSequenceShorter
<1>4. PICK E, F : E = Elements(up) /\ F = Elements(Tail(up))
    OBVIOUS
<1>5. /\ tExp \in Nat /\ x.head.cmdSN \in Nat /\ tExp <= x.head.cmdSN /\ x.head.cmdSN < cmdSN
      /\ cmdSN \in Nat
    BY <1>2 DEF Numbered
<1>6. PICK p \in E : IsCommand(p) /\ p.head.cmdSN = tExp
    BY <1>4, <1>5 DEF Numbered
<1>7. CASE p = x
    BY <1>6, <1>7
<1>8. CASE p # x
    <2>1. Turn(x, p)
        BY <1>2, <1>3, <1>4, <1>8
    <2>2. x.head.cmdSN < p.head.cmdSN
        BY <1>6, <2>1 DEF Turn
    <2> QED
        BY <1>5, <1>6, <2>2
<1> QED
    BY <1>7, <1>8

\* and those behind it the numbers that follow.
LEMMA NumberedShorter ==
    ASSUME NEW up, IsSeq(up), up # <<>>, InSequence(up), Numbered(up),
           NEW x, FirstOf(x, up), IsCommand(x), cmdSN' = cmdSN, tExp' = tExp + 1
    PROVE  Numbered(Tail(up))'
<1>1. x = up[1]
    BY DEF FirstOf
<1>2. Elements(up) = Elements(Tail(up)) \cup {x}
    BY <1>1, ElementsShorter
<1>3. \A q \in Elements(Tail(up)) : Turn(x, q)
    BY <1>1, InSequenceShorter
<1>4. PICK E, F : E = Elements(up) /\ F = Elements(Tail(up))
    OBVIOUS
<1>5. x.head.cmdSN = tExp
    BY NumberIs
<1>6. /\ tExp \in Nat /\ tExp < cmdSN /\ cmdSN \in Nat
    BY <1>2, <1>5 DEF Numbered
<1>7. E = F \cup {x} /\ \A q \in F : Turn(x, q)
    BY <1>2, <1>3, <1>4
<1>8. ASSUME NEW p \in F, IsCommand(p)
      PROVE  p.head.cmdSN \in Nat /\ tExp + 1 <= p.head.cmdSN /\ p.head.cmdSN < cmdSN
    <2>1. p.head.cmdSN \in Nat /\ p.head.cmdSN < cmdSN
        BY <1>4, <1>7, <1>8 DEF Numbered
    <2>2. x.head.cmdSN < p.head.cmdSN
        BY <1>7, <1>8 DEF Turn
    <2> QED
        BY <1>5, <1>6, <2>1, <2>2
<1>9. ASSUME NEW n \in Nat, tExp + 1 <= n, n < cmdSN
      PROVE  \E p \in F : IsCommand(p) /\ p.head.cmdSN = n
    <2>1. tExp <= n
        BY <1>6, <1>9
    <2>2. PICK p \in E : IsCommand(p) /\ p.head.cmdSN = n
        BY <1>4, <1>9, <2>1 DEF Numbered
    <2>3. p # x
        BY <1>5, <1>6, <1>9, <2>2
    <2> QED
        BY <1>7, <2>2, <2>3
<1>10. cmdSN' \in Nat /\ tExp' \in Nat /\ tExp' <= cmdSN'
    BY <1>6
<1> QED
    BY <1>4, <1>8, <1>9, <1>10 DEF Numbered

\* What TargetTakes has to show of the command it is about.
LEMMA TalkTake ==
    ASSUME NEW up, NEW down, IsSeq(up), up # <<>>, Talk(up, down),
           NEW x, x = up[1], NEW c, c = x.head.cmd, NEW m,
           tasks' = [tasks EXCEPT ![c] = m], cmds' = cmds, r2t' = r2t, params' = params,
           tStat' = tStat, expStatSN' = expStatSN, m # None, m.op # "done",
           Situation(c, ImmediatePart(c), MaxSegment, cmds[c], m, Round(c),
                     Of(Tail(up), c), Of(down, c)),
           Numbered(Tail(up))'
    PROVE  Talk(Tail(up), down)'
<1>1. Elements(up) = Elements(Tail(up)) \cup {x}
    BY ElementsShorter
<1>2. c \in Cmd
    BY <1>1 DEF Talk
<1>3. \A d : d # c => Of(Tail(up), d) = Of(up, d)
    <2>1. up[1].head.cmd = c
        OBVIOUS
    <2> QED
        BY <2>1, OfShorter
<1>4. tasks = [d \in Cmd |-> tasks[d]]
    BY DEF Talk
<1>5. tasks'[c] = m /\ (\A d \in Cmd : d # c => tasks'[d] = tasks[d])
      /\ tasks' = [d \in Cmd |-> tasks'[d]]
    BY <1>2, <1>4
<1>6. \A d : Round(d)' = Round(d)
    BY DEF Round
<1>7. Situation(c, ImmediatePart(c), MaxSegment, cmds'[c], tasks'[c], Round(c)',
                Of(Tail(up), c), Of(down, c))
    BY <1>5, <1>6
<1>8. \A d \in Cmd : About(d, Tail(up), down)'
    <2>1. \A d \in Cmd : About(d, up, down)
        BY DEF Talk
    <2>2. \A d \in Cmd : d # c => /\ cmds'[d] = cmds[d] /\ tasks'[d] = tasks[d]
                                  /\ Round(d)' = Round(d)
                                  /\ Of(Tail(up), d) = Of(up, d) /\ Of(down, d) = Of(down, d)
        BY <1>3, <1>5, <1>6
    <2> QED
        BY <1>2, <1>7, <2>1, <2>2, OthersStay
<1>9. InSequence(Tail(up))
    BY InSequenceShorter DEF Talk
<1>10. AckFollows(down)'
    <2>1. \A d \in Cmd : Open(d) => Open(d)'
        BY <1>5 DEF Open
    <2> QED
        BY <2>1, AckStays DEF Talk
<1>11. \A p \in Elements(Tail(up)) \cup Elements(down) : p.head.cmd \in Cmd
    BY <1>1 DEF Talk
<1>12. cmds' = [d \in Cmd |-> cmds'[d]] /\ (r2t' # None => r2t'.cmd \in Cmd)
    BY DEF Talk
<1> QED
    BY <1>5, <1>8, <1>9, <1>10, <1>11, <1>12 DEF Talk

\* With new, the task of c has become m.
TaskBecomes(new, c, m) == new = [tasks EXCEPT ![c] = m]

LEMMA TaskGrows ==
    ASSUME tasks = [d \in Cmd |-> tasks[d]], NEW c \in Cmd, NEW op, NEW got, NEW asked,
           tasks[c] = Task(op, got, asked), NEW more, NEW last, NEW next, NEW new,
           next = (IF last THEN None ELSE Following(asked)),
           new = [tasks EXCEPT ![c].got = @ \o more,
                               ![c].asked = IF last THEN None ELSE Following(@)]
    PROVE  TaskBecomes(new, c, Task(op, got \o more, next))
<1>1. PICK f, a : f = tasks /\ a = got \o more
    OBVIOUS
<1>2. f = [d \in Cmd |-> f[d]] /\ f[c] = [op |-> op, got |-> got, asked |-> asked]
    BY <1>1 DEF Task
<1>3. PICK g : g = [f EXCEPT ![c] = [op |-> op, got |-> a, asked |-> asked]]
    OBVIOUS
<1>4. [f EXCEPT ![c].got = @ \o more] = g
    <2>1. f[c].got \o more = a
        BY <1>1, <1>2
    <2>2. [f[c] EXCEPT !.got = a] = [op |-> op, got |-> a, asked |-> asked]
        BY <1>2
    <2>3. [f EXCEPT ![c].got = @ \o more] = [f EXCEPT ![c].got = a]
        BY <2>1
    <2> QED
        BY <1>3, <2>2, <2>3
<1>5. g = [d \in Cmd |-> g[d]] /\ g[c] = [op |-> op, got |-> a, asked |-> asked]
    BY <1>2, <1>3
<1>6. [g EXCEPT ![c].asked = next] = [f EXCEPT ![c] = [op |-> op, got |-> a, asked |-> next]]
    <2>1. [g[c] EXCEPT !.asked = next] = [op |-> op, got |-> a, asked |-> next]
        BY <1>5
    <2>2. [g EXCEPT ![c] = [op |-> op, got |-> a, asked |-> next]]
            = [f EXCEPT ![c] = [op |-> op, got |-> a, asked |-> next]]
        BY <1>2, <1>3
    <2> QED
        BY <2>1, <2>2
<1>7. [g EXCEPT ![c].asked = IF last THEN None ELSE Following(@)]
        = [g EXCEPT ![c].asked = next]
    <2>1. g[c].asked = asked
        BY <1>5
    <2>2. (IF last THEN None ELSE Following(g[c].asked)) = next
        BY <2>1
    <2> QED
        BY <2>2
<1>8. new = [[f EXCEPT ![c].got = @ \o more]
                EXCEPT ![c].asked = IF last THEN None ELSE Following(@)]
    BY <1>1
<1> QED
    BY <1>1, <1>4, <1>6, <1>7, <1>8 DEF TaskBecomes, Task

LEMMA TaskIsOpen ==
    ASSUME NoneIsNoRecord, NEW op, NEW got, NEW asked, op \in {"read", "write"}
    PROVE  Task(op, got, asked) # None /\ Task(op, got, asked).op # "done"
BY DEF NoneIsNoRecord, Task

LEMMA TalkTakesCommand ==
    ASSUME NoneIsNoData, NoneIsNoRecord, InForce, NEW up, NEW down, IsSeq(up), up # <<>>,
           Talk(up, down), Request = up[1], TargetTakes, Request.head.op # "dataOut"
    PROVE  Talk(Tail(up), down)'
<1>1. PICK x : x = Request
    OBVIOUS
<1>2. PICK c : c = x.head.cmd
    OBVIOUS
<1>3. /\ cmds' = cmds /\ r2t' = r2t /\ params' = params /\ cmdSN' = cmdSN /\ tExp' = tExp + 1
      /\ tStat' = tStat /\ expStatSN' = expStatSN
    BY DEF TargetTakes, loginVars, numberVars
<1>4. PICK m : m = Task(x.head.op, SegmentOf(x), None)
    OBVIOUS
<1>5. tasks' = [tasks EXCEPT ![c] = m]
    BY <1>1, <1>2, <1>4 DEF TargetTakes, Task
<1>6. FirstOf(x, up)
    BY <1>1 DEF FirstOf
<1>7. /\ c \in Cmd /\ Of(up, c) = Of(Tail(up), c) \cup {x}
      /\ \A q \in Of(Tail(up), c) : Turn(x, q)
      /\ \A q \in Of(up, c) : q.head.cmd = c
    BY <1>2, <1>6, FirstOfIts DEF Talk
<1>8. PICK imm, seg, tk, rt, cm : /\ imm = ImmediatePart(c) /\ seg = MaxSegment /\ cm = cmds[c]
                                  /\ tk = tasks[c] /\ rt = Round(c)
    OBVIOUS
<1>9. PICK P, Q, R : P = Of(up, c) /\ Q = Of(down, c) /\ R = Of(Tail(up), c)
    OBVIOUS
<1>10. Situation(c, imm, seg, cm, tk, rt, P, Q) /\ Immediate(c, imm)
    BY <1>7, <1>8, <1>9, TalkOf, ImmediateIs
<1>11. P = R \cup {x} /\ (\A q \in R : Turn(x, q)) /\ x \in P
    BY <1>7, <1>9
<1>12. IsCommand(x)
    <2>1. x.head.op # "dataOut"
        BY <1>1
    <2> QED
        BY <1>10, <1>11, <2>1, SituationToTarget
<1>13. Situation(c, imm, seg, cm, m, rt, R, Q)
    <2>1. Situation(c, imm, seg, cm, Task(x.head.op, SegmentOf(x), None), rt, R, Q)
        BY <1>10, <1>11, <1>12, TakesCommand
    <2> QED
        BY <1>4, <2>1
<1>14. m # None /\ m.op # "done"
    BY <1>4, <1>12, TaskIsOpen DEF IsCommand
<1>15. Numbered(Tail(up))'
    BY <1>3, <1>6, <1>12, NumberedShorter DEF Talk
<1>16. Situation(c, ImmediatePart(c), MaxSegment, cmds[c], m, Round(c), Of(Tail(up), c),
                 Of(down, c))
    BY <1>8, <1>9, <1>13
<1>17. x = up[1]
    BY <1>1
<1> QED
    BY <1>2, <1>3, <1>5, <1>14, <1>15, <1>16, <1>17, TalkTake

LEMMA TalkTakesData ==
    ASSUME NoneIsNoData, NoneIsNoRecord, InForce, NEW up, NEW down, IsSeq(up), up # <<>>,
           Talk(up, down), Request = up[1], TargetTakes, Request.head.op = "dataOut"
    PROVE  Talk(Tail(up), down)'
<1>1. PICK x : x = Request
    OBVIOUS
<1>2. PICK c : c = x.head.cmd
    OBVIOUS
<1>3. /\ cmds' = cmds /\ r2t' = r2t /\ params' = params /\ cmdSN' = cmdSN /\ tExp' = tExp
      /\ tStat' = tStat /\ expStatSN' = expStatSN
    BY DEF TargetTakes, loginVars, numberVars
<1>4. FirstOf(x, up)
    BY <1>1 DEF FirstOf
<1>5. /\ c \in Cmd /\ Of(up, c) = Of(Tail(up), c) \cup {x}
      /\ \A q \in Of(Tail(up), c) : Turn(x, q)
      /\ \A q \in Of(up, c) : q.head.cmd = c
    BY <1>2, <1>4, FirstOfIts DEF Talk
<1>6. PICK imm, seg, tk, rt, cm : /\ imm = ImmediatePart(c) /\ seg = MaxSegment /\ cm = cmds[c]
                                  /\ tk = tasks[c] /\ rt = Round(c)
    OBVIOUS
<1>7. PICK P, Q, R : P = Of(up, c) /\ Q = Of(down, c) /\ R = Of(Tail(up), c)
    OBVIOUS
<1>8. Situation(c, imm, seg, cm, tk, rt, P, Q) /\ seg \in Nat \ {0}
    BY <1>5, <1>6, <1>7, TalkOf, SegmentIs
<1>9. P = R \cup {x} /\ (\A q \in R : Turn(x, q)) /\ \A q \in P : q.head.cmd = c
    BY <1>5, <1>7
<1>10. x.head.op = "dataOut"
    BY <1>1
<1>11. AfterDataOut(x, c, imm, seg, cm, tk, rt, R, Q)
    BY <1>8, <1>9, <1>10, TakesDataOut
<1>12. PICK got, ttt, n, end :
          /\ tk = Task("write", got, Asked(ttt, n, end))
          /\ Situation(c, imm, seg, cm,
                       Task("write", got \o SegmentOf(x),
                            IF x.head.final THEN None ELSE Asked(ttt, n + 1, end)),
                       rt, R, Q)
    BY <1>11 DEF AfterDataOut
<1>13. PICK next : next = (IF x.head.final THEN None
                           ELSE Following(Asked(ttt, n, end)))
    OBVIOUS
<1>14. next = (IF x.head.final THEN None ELSE Asked(ttt, n + 1, end))
    <2>1. Following(Asked(ttt, n, end)) = Asked(ttt, n + 1, end)
        BY DEF Following, Asked
    <2> QED
        BY <1>13, <2>1
<1>15. PICK more, m : more = SegmentOf(x) /\ m = Task("write", got \o more, next)
    OBVIOUS
<1>16. tasks' = [tasks EXCEPT ![c] = m]
    <2>1. PICK new : new = tasks'
        OBVIOUS
    <2>2. new = [tasks EXCEPT ![c].got = @ \o more,
                              ![c].asked = IF x.head.final THEN None ELSE Following(@)]
        BY <1>1, <1>2, <1>10, <1>15, <2>1 DEF TargetTakes
    <2>3. tasks[c] = Task("write", got, Asked(ttt, n, end))
        BY <1>6, <1>12
    <2>4. tasks = [d \in Cmd |-> tasks[d]]
        BY DEF Talk
    <2>5. TaskBecomes(new, c, Task("write", got \o more, next))
        BY <1>13, <1>5, <2>2, <2>3, <2>4, TaskGrows
    <2> QED
        BY <1>15, <2>1, <2>5 DEF TaskBecomes
<1>17. Situation(c, imm, seg, cm, m, rt, R, Q)
    BY <1>12, <1>14, <1>15
<1>18. m # None /\ m.op # "done"
    BY <1>15, TaskIsOpen
<1>19. Numbered(Tail(up))'
    <2>1. Elements(up) = Elements(Tail(up)) \cup {x}
        BY <1>4, ElementsShorter DEF FirstOf
    <2>2. \A p : IsCommand(p) => (p \in Elements(Tail(up)) <=> p \in Elements(up))
        BY <1>10, <2>1 DEF IsCommand
    <2> QED
        BY <1>3, <2>2, NumberedStays DEF Talk
<1>20. Situation(c, ImmediatePart(c), MaxSegment, cmds[c], m, Round(c), Of(Tail(up), c),
                 Of(down, c))
    BY <1>6, <1>7, <1>17
<1>21. x = up[1]
    BY <1>1
<1> QED
    BY <1>2, <1>3, <1>20, <1>21, <1>16, <1>18, <1>19, TalkTake

LEMMA AckLonger ==
    ASSUME NEW down, IsSeq(down), AckFollows(down), NEW x, x.head.statSN \in Nat,
           tStat' \in Nat, expStatSN' = expStatSN,
           (\E c \in Cmd : Open(c)') \/ x.head.statSN + 1 = tStat'
    PROVE  AckFollows(Append(down, x))'
<1>1. Elements(Append(down, x)) = Elements(down) \cup {x}
    BY ElementsLonger
<1>2. /\ IsSeq(Append(down, x)) /\ Len(Append(down, x)) = Len(down) + 1
      /\ Append(down, x)[Len(down) + 1] = x
    BY Longer
<1>3. PICK s, n : s = Append(down, x) /\ n = Len(down)
    OBVIOUS
<1>4. n \in Nat
    BY <1>3, SeqLen
<1>5. s # <<>> /\ s[Len(s)] = x
    <2>1. Len(s) = n + 1 /\ s[n + 1] = x
        BY <1>2, <1>3
    <2>2. Len(s) # 0
        BY <1>4, <2>1
    <2> QED
        BY <2>1, <2>2
<1>6. \A p \in Elements(s) : p.head.statSN \in Nat
    BY <1>1, <1>3 DEF AckFollows
<1>7. expStatSN' \in Nat
    BY DEF AckFollows
<1> QED
    BY <1>3, <1>5, <1>6, <1>7 DEF AckFollows

\* What an answer of the target has to show.
\* What is added to a stream is added to what is about its command.
Adds(s, x, c) ==
    /\ Of(Append(s, x), c) = Of(s, c) \cup {x}
    /\ \A d : d # c => Of(Append(s, x), d) = Of(s, d)

LEMMA OfAdds ==
    ASSUME NEW s, IsSeq(s), NEW x, NEW c, x.head.cmd = c
    PROVE  Adds(s, x, c)
BY OfLonger DEF Adds

LEMMA TalkAnswer ==
    ASSUME NEW up, NEW down, IsSeq(down), Talk(up, down), NEW c \in Cmd, NEW x, x.head.cmd = c,
           NEW m, tasks' = [tasks EXCEPT ![c] = m], cmds' = cmds, r2t' = r2t, params' = params,
           cmdSN' = cmdSN, tExp' = tExp, expStatSN' = expStatSN, tStat' \in Nat,
           ~IsCommand(x), \A q \in Of(down, c) : Turn(q, x),
           Situation(c, ImmediatePart(c), MaxSegment, cmds[c], m, Round(c),
                     Of(up, c), Of(down, c) \cup {x}),
           x.head.statSN \in Nat,
           (m # None /\ m.op # "done") \/ x.head.statSN + 1 = tStat'
    PROVE  Talk(up, Append(down, x))'
<1>1. Elements(Append(down, x)) = Elements(down) \cup {x}
    BY ElementsLonger
<1>2. /\ Of(Append(down, x), c) = Of(down, c) \cup {x}
      /\ \A d : d # c => Of(Append(down, x), d) = Of(down, d)
    <2>1. Adds(down, x, c)
        BY OfAdds
    <2> QED
        BY <2>1 DEF Adds
<1>3. tasks = [d \in Cmd |-> tasks[d]]
    BY DEF Talk
<1>4. tasks'[c] = m /\ (\A d \in Cmd : d # c => tasks'[d] = tasks[d])
      /\ tasks' = [d \in Cmd |-> tasks'[d]]
    BY <1>3
<1>5. \A d : Round(d)' = Round(d)
    BY DEF Round
<1>6. Situation(c, ImmediatePart(c), MaxSegment, cmds'[c], tasks'[c], Round(c)',
                Of(up, c), Of(Append(down, x), c))
    BY <1>2, <1>4, <1>5
<1>7. \A d \in Cmd : About(d, up, Append(down, x))'
    <2>1. \A d \in Cmd : About(d, up, down)
        BY DEF Talk
    <2>2. \A d \in Cmd : d # c => /\ cmds'[d] = cmds[d] /\ tasks'[d] = tasks[d]
                                  /\ Round(d)' = Round(d)
                                  /\ Of(up, d) = Of(up, d)
                                  /\ Of(Append(down, x), d) = Of(down, d)
        BY <1>2, <1>4, <1>5
    <2> QED
        BY <1>6, <2>1, <2>2, OthersStay
<1>8. InSequence(Append(down, x))
    <2>1. \A p \in Elements(down) : Turn(p, x)
        BY DEF Of, Turn
    <2> QED
        BY <2>1, InSequenceLonger DEF Talk
<1>9. Numbered(up)'
    BY NumberedStays DEF Talk
<1>10. AckFollows(Append(down, x))'
    <2>1. (m # None /\ m.op # "done") => Open(c)'
        BY <1>4 DEF Open
    <2>2. (\E d \in Cmd : Open(d)') \/ x.head.statSN + 1 = tStat'
        BY <2>1
    <2> QED
        BY <2>2, AckLonger DEF Talk
<1>11. \A p \in Elements(up) \cup Elements(Append(down, x)) : p.head.cmd \in Cmd
    BY <1>1 DEF Talk
<1>12. cmds' = [d \in Cmd |-> cmds'[d]] /\ (r2t' # None => r2t'.cmd \in Cmd)
    BY DEF Talk
<1> QED
    BY <1>4, <1>7, <1>8, <1>9, <1>10, <1>11, <1>12 DEF Talk

LEMMA TalkAsks ==
    ASSUME NoneIsNoRecord, InForce, NEW up, NEW down, IsSeq(down), Talk(up, down),
           NEW c \in Cmd, TargetAsks(c)
    PROVE  \E x : Sound(x) /\ Answer(x) /\ Talk(up, Append(down, x))'
<1>1. /\ cmds' = cmds /\ r2t' = r2t /\ params' = params /\ cmdSN' = cmdSN /\ tExp' = tExp
      /\ tStat' = tStat /\ expStatSN' = expStatSN
      /\ tasks[c] # None /\ tasks[c].op = "write" /\ tasks[c].asked = None
    BY DEF TargetAsks, Idle, loginVars, numberVars, keptVars
<1>2. PICK imm, seg, tk, rt, cm : /\ imm = ImmediatePart(c) /\ seg = MaxSegment /\ cm = cmds[c]
                                  /\ tk = tasks[c] /\ rt = Round(c)
    OBVIOUS
<1>3. PICK P, Q : P = Of(up, c) /\ Q = Of(down, c)
    OBVIOUS
<1>4. Situation(c, imm, seg, cm, tk, rt, P, Q)
    BY <1>2, <1>3, TalkOf
<1>5. tk # None /\ tk.op = "write" /\ tk.asked = None
    BY <1>1, <1>2
<1>6. Waiting(c, cm, tk, rt, P, Q)
    BY <1>4, <1>5, SituationIdle
<1>7. PICK got : tk = Task("write", got, None) /\ Begun(c, got)
    BY <1>6 DEF Waiting
<1>8. got = tk.got
    BY <1>7 DEF Task
<1>9. PICK g, burst : g = Len(got) /\ burst = offer["MaxBurstLength"]
    OBVIOUS
<1>10. g \in Nat /\ g <= PayloadLen /\ PayloadLen \in Nat /\ burst \in Nat
    BY <1>7, <1>9, BegunIs, PayloadLenIs DEF InForce, Limits
<1>11. PICK end, x :
          /\ end \in g + 1 .. Lesser(PayloadLen, g + burst)
          /\ Answer(x) /\ tasks' = [tasks EXCEPT ![c].asked = Asked(g, 0, end)]
          /\ x = [head |-> [op |-> "r2t", cmd |-> c, ttt |-> g, offset |-> g,
                            desired |-> end - g, statSN |-> tStat, max |-> tExp + 1, len |-> 0],
                  data |-> None]
    BY <1>2, <1>8, <1>9 DEF TargetAsks, Asked
<1>12. end \in Nat /\ g < end /\ end <= PayloadLen
    BY <1>10, <1>11 DEF Lesser
<1>13. /\ x.head.op = "r2t" /\ x.head.cmd = c /\ x.head.ttt = g /\ x.head.offset = g
       /\ x.head.desired = end - g /\ x.head.statSN = tStat /\ x.head.len = 0 /\ x.data = None
       /\ x = [head |-> x.head, data |-> x.data]
    BY <1>11
<1>14. R2t(x, got, end)
    BY <1>9, <1>13 DEF R2t
<1>15. Sound(x)
    BY <1>13, SoundData DEF SegmentLen
<1>16. Q = {}
    BY <1>6 DEF Waiting
<1>17. PICK m, E : m = Task("write", got, Asked(Len(got), 0, end)) /\ E = Q \cup {x}
    OBVIOUS
<1>18. Situation(c, imm, seg, cm, m, rt, P, E)
    <2>1. cm = WriteCommand /\ rt = None /\ P = {}
        BY <1>6 DEF Waiting
    <2>2. \E p : E = {p} /\ R2t(p, got, end)
        BY <1>14, <1>16, <1>17
    <2>3. AskedFor(c, cm, m, rt, P, E)
        BY <1>7, <1>9, <1>12, <1>17, <2>1, <2>2 DEF AskedFor
    <2> QED
        BY <2>3 DEF Situation
<1>19. tasks' = [tasks EXCEPT ![c] = m]
    <2>1. tasks = [d \in Cmd |-> tasks[d]]
        BY DEF Talk
    <2>2. tasks[c] = Task("write", got, None)
        BY <1>2, <1>7
    <2>3. PICK f, a : f = tasks /\ a = Asked(g, 0, end)
        OBVIOUS
    <2>4. f[c] = [op |-> "write", got |-> got, asked |-> None]
        BY <2>2, <2>3 DEF Task
    <2>5. [f[c] EXCEPT !.asked = a] = [op |-> "write", got |-> got, asked |-> a]
        BY <2>4
    <2>6. [f EXCEPT ![c].asked = a] = [f EXCEPT ![c] = [op |-> "write", got |-> got, asked |-> a]]
        BY <2>5
    <2>7. m = [op |-> "write", got |-> got, asked |-> a]
        BY <1>9, <1>17, <2>3 DEF Task
    <2> QED
        BY <1>11, <2>3, <2>6, <2>7
<1>20. m # None /\ m.op # "done"
    BY <1>17, TaskIsOpen
<1>21. Situation(c, ImmediatePart(c), MaxSegment, cmds[c], m, Round(c), Of(up, c),
                 Of(down, c) \cup {x})
    BY <1>2, <1>3, <1>17, <1>18
<1>22. x.head.statSN \in Nat /\ tStat' \in Nat
    BY <1>1, <1>13 DEF Talk, AckFollows
<1>23. ~IsCommand(x) /\ \A q \in Of(down, c) : Turn(q, x)
    BY <1>3, <1>13, <1>16 DEF IsCommand
<1>24. Talk(up, Append(down, x))'
    <2>1. x.head.cmd = c
        BY <1>13
    <2> QED
        BY <1>1, <1>19, <1>20, <1>21, <1>22, <1>23, <2>1, TalkAnswer
<1> QED
    BY <1>11, <1>15, <1>24

LEMMA TaskSent ==
    ASSUME tasks = [d \in Cmd |-> tasks[d]], NEW c \in Cmd, NEW op, NEW got, NEW asked,
           tasks[c] = Task(op, got, asked), NEW more, NEW o, NEW new
    PROVE  /\ new = [tasks EXCEPT ![c].got = @ \o more, ![c].op = o] =>
                 TaskBecomes(new, c, Task(o, got \o more, asked))
           /\ new = [tasks EXCEPT ![c].op = o] => TaskBecomes(new, c, Task(o, got, asked))
<1>1. PICK f, a : f = tasks /\ a = got \o more
    OBVIOUS
<1>2. f = [d \in Cmd |-> f[d]] /\ f[c] = [op |-> op, got |-> got, asked |-> asked]
    BY <1>1 DEF Task
<1>3. [f EXCEPT ![c].op = o] = [f EXCEPT ![c] = [op |-> o, got |-> got, asked |-> asked]]
    <2>1. [f[c] EXCEPT !.op = o] = [op |-> o, got |-> got, asked |-> asked]
        BY <1>2
    <2> QED
        BY <2>1
<1>4. PICK g : g = [f EXCEPT ![c] = [op |-> op, got |-> a, asked |-> asked]]
    OBVIOUS
<1>5. [f EXCEPT ![c].got = @ \o more] = g
    <2>1. f[c].got \o more = a
        BY <1>1, <1>2
    <2>2. [f[c] EXCEPT !.got = a] = [op |-> op, got |-> a, asked |-> asked]
        BY <1>2
    <2>3. [f EXCEPT ![c].got = @ \o more] = [f EXCEPT ![c].got = a]
        BY <2>1
    <2> QED
        BY <1>4, <2>2, <2>3
<1>6. g = [d \in Cmd |-> g[d]] /\ g[c] = [op |-> op, got |-> a, asked |-> asked]
    BY <1>2, <1>4
<1>7. [g EXCEPT ![c].op = o] = [f EXCEPT ![c] = [op |-> o, got |-> a, asked |-> asked]]
    <2>1. [g[c] EXCEPT !.op = o] = [op |-> o, got |-> a, asked |-> asked]
        BY <1>6
    <2>2. [g EXCEPT ![c] = [op |-> o, got |-> a, asked |-> asked]]
            = [f EXCEPT ![c] = [op |-> o, got |-> a, asked |-> asked]]
        BY <1>2, <1>4
    <2> QED
        BY <2>1, <2>2
<1>8. [f EXCEPT ![c].got = @ \o more, ![c].op = o]
        = [[f EXCEPT ![c].got = @ \o more] EXCEPT ![c].op = o]
    BY <1>1
<1> QED
    BY <1>1, <1>3, <1>5, <1>7, <1>8 DEF TaskBecomes, Task

LEMMA TalkSendsData ==
    ASSUME NoneIsNoData, NoneIsNoRecord, InForce, offer[MaxSend] \in Nat \ {0},
           NEW up, NEW down, IsSeq(down), Talk(up, down), NEW c \in Cmd, TargetSendsData(c)
    PROVE  \E x : Sound(x) /\ Answer(x) /\ Talk(up, Append(down, x))'
<1>1. /\ cmds' = cmds /\ r2t' = r2t /\ params' = params /\ cmdSN' = cmdSN /\ tExp' = tExp
      /\ expStatSN' = expStatSN
      /\ tasks[c] # None /\ tasks[c].op = "read" /\ tasks[c].asked = None
    BY DEF TargetSendsData, Idle, loginVars, numberVars, keptVars
<1>2. PICK imm, seg, tk, rt, cm : /\ imm = ImmediatePart(c) /\ seg = MaxSegment /\ cm = cmds[c]
                                  /\ tk = tasks[c] /\ rt = Round(c)
    OBVIOUS
<1>3. PICK P, Q : P = Of(up, c) /\ Q = Of(down, c)
    OBVIOUS
<1>4. Situation(c, imm, seg, cm, tk, rt, P, Q) /\ \A q \in Q : q.head.cmd = c
    BY <1>2, <1>3, TalkOf
<1>5. tk # None /\ tk.op = "read" /\ tk.asked = None
    BY <1>1, <1>2
<1>6. PICK limit \in Nat \ {0} : limit = offer[MaxSend]
    OBVIOUS
<1>7. PICK a, l : a = Len(tk.got) /\ l = Lesser(PayloadLen - a, limit)
    OBVIOUS
<1>8. PICK last, sn : last = (a + l = PayloadLen) /\ sn = IF last THEN tStat ELSE 0
    OBVIOUS
<1>9. PICK x : x = [head |-> [op |-> "dataIn", cmd |-> c, status |-> last, offset |-> a,
                              statSN |-> sn, max |-> tExp + 1, len |-> l],
                    data |-> Part(c, a, a + l)]
    OBVIOUS
<1>10. /\ Answer(x)
       /\ tasks' = [tasks EXCEPT ![c].got = @ \o Part(c, a, a + l),
                                 ![c].op = IF last THEN "done" ELSE "read"]
       /\ tStat' = tStat + (IF last THEN 1 ELSE 0)
    BY <1>2, <1>6, <1>7, <1>8, <1>9 DEF TargetSendsData, Part
<1>11. /\ x.head.op = "dataIn" /\ x.head.cmd = c /\ x.head.status = last /\ x.head.offset = a
       /\ x.head.statSN = sn /\ x.head.len = l /\ x.data = Part(c, a, a + l)
       /\ x = [head |-> x.head, data |-> x.data]
    BY <1>9
<1>12. x.head.status <=> a + l = PayloadLen
    BY <1>8, <1>11
<1>13. /\ \A q \in Q : Turn(q, x)
       /\ x.data # None /\ x.data # <<>> /\ IsSeq(x.data) /\ Len(x.data) = l
       /\ AfterSending(x, c, imm, seg, cm, tk, rt, P, Q)
    BY <1>4, <1>5, <1>7, <1>11, <1>12, SendsData
<1>14. Sound(x)
    BY <1>11, <1>13, SoundData DEF SegmentLen
<1>15. PICK got :
          /\ tk = Task("read", got, None)
          /\ Situation(c, imm, seg, cm,
                       Task(IF x.head.status THEN "done" ELSE "read", got \o x.data, None),
                       rt, P, Q \cup {x})
    BY <1>13 DEF AfterSending
<1>16. PICK o, m : o = (IF last THEN "done" ELSE "read") /\ m = Task(o, got \o x.data, None)
    OBVIOUS
<1>17. tasks' = [tasks EXCEPT ![c] = m]
    <2>1. PICK new, more : new = tasks' /\ more = x.data
        OBVIOUS
    <2>2. new = [tasks EXCEPT ![c].got = @ \o more, ![c].op = o]
        BY <1>10, <1>11, <1>16, <2>1
    <2>3. tasks[c] = Task("read", got, None)
        BY <1>2, <1>15
    <2>4. tasks = [d \in Cmd |-> tasks[d]]
        BY DEF Talk
    <2>5. TaskBecomes(new, c, Task(o, got \o more, None))
        BY <2>2, <2>3, <2>4, TaskSent
    <2> QED
        BY <1>16, <2>1, <2>5 DEF TaskBecomes
<1>18. Situation(c, ImmediatePart(c), MaxSegment, cmds[c], m, Round(c), Of(up, c),
                 Of(down, c) \cup {x})
    BY <1>2, <1>3, <1>11, <1>15, <1>16
<1>19. tStat \in Nat
    BY DEF Talk, AckFollows
<1>20. x.head.statSN \in Nat /\ tStat' \in Nat
    BY <1>8, <1>10, <1>11, <1>19
<1>21. (m # None /\ m.op # "done") \/ x.head.statSN + 1 = tStat'
    <2>1. CASE last
        BY <1>8, <1>10, <1>11, <2>1
    <2>2. CASE ~last
        BY <1>16, <2>2, TaskIsOpen
    <2> QED
        BY <2>1, <2>2
<1>22. ~IsCommand(x) /\ \A q \in Of(down, c) : Turn(q, x)
    BY <1>3, <1>11, <1>13 DEF IsCommand
<1>23. Talk(up, Append(down, x))'
    <2>1. x.head.cmd = c
        BY <1>11
    <2> QED
        BY <1>1, <1>17, <1>18, <1>20, <1>21, <1>22, <2>1, TalkAnswer
<1> QED
    BY <1>10, <1>14, <1>23

LEMMA TalkResponds ==
    ASSUME NoneIsNoData, NoneIsNoRecord, InForce,
           NEW up, NEW down, IsSeq(down), Talk(up, down), NEW c \in Cmd, TargetResponds(c)
    PROVE  \E x : Sound(x) /\ Answer(x) /\ Talk(up, Append(down, x))'
<1>1. /\ cmds' = cmds /\ r2t' = r2t /\ params' = params /\ cmdSN' = cmdSN /\ tExp' = tExp
      /\ expStatSN' = expStatSN /\ tStat' = tStat + 1
      /\ tasks' = [tasks EXCEPT ![c].op = "done"]
      /\ tasks[c] # None /\ tasks[c].op # "done" /\ tasks[c].asked = None
    BY DEF TargetResponds, Idle, loginVars, numberVars, keptVars
<1>2. PICK imm, seg, tk, rt, cm : /\ imm = ImmediatePart(c) /\ seg = MaxSegment /\ cm = cmds[c]
                                  /\ tk = tasks[c] /\ rt = Round(c)
    OBVIOUS
<1>3. PICK P, Q : P = Of(up, c) /\ Q = Of(down, c)
    OBVIOUS
<1>4. Situation(c, imm, seg, cm, tk, rt, P, Q) /\ \A q \in Q : q.head.cmd = c
    BY <1>2, <1>3, TalkOf
<1>5. tk # None /\ tk.op # "done" /\ tk.asked = None
    BY <1>1, <1>2
<1>6. PICK x, ok :
         /\ Answer(x) /\ (ok => tk.op = "write" /\ Len(tk.got) = PayloadLen)
         /\ x = [head |-> [op |-> "response", cmd |-> c, good |-> ok, statSN |-> tStat,
                           max |-> tExp + 1,
                           len |-> SegmentLen(IF ok THEN None ELSE <<"sense">>)],
                 data |-> IF ok THEN None ELSE <<"sense">>]
    <2>1. PICK good \in BOOLEAN :
              /\ good => tasks[c].op = "write" /\ Len(tasks[c].got) = PayloadLen
              /\ Answer([head |-> [op |-> "response", cmd |-> c, good |-> good, statSN |-> tStat,
                                   max |-> tExp + 1,
                                   len |-> SegmentLen(IF good THEN None ELSE <<"sense">>)],
                         data |-> IF good THEN None ELSE <<"sense">>])
        BY DEF TargetResponds
    <2> QED
        BY <1>2, <2>1
<1>7. /\ x.head.op = "response" /\ x.head.cmd = c /\ x.head.good = ok /\ x.head.statSN = tStat
      /\ x.data = (IF ok THEN None ELSE <<"sense">>) /\ x.head.len = SegmentLen(x.data)
      /\ x = [head |-> x.head, data |-> x.data]
    BY <1>6
<1>8. Sound(x)
    <2>1. PICK sense : sense = <<"sense">>
        OBVIOUS
    <2>2. sense \in Seq({"sense"}) /\ sense # <<>>
        BY <2>1
    <2>3. IsSeq(sense)
        BY <2>2, SeqIsSeq
    <2>4. x.data = None \/ (IsSeq(x.data) /\ x.data # <<>>)
        BY <1>7, <2>1, <2>2, <2>3
    <2> QED
        BY <1>7, <2>4, SoundData
<1>9. x.head.good => tk.op = "write" /\ Len(tk.got) = PayloadLen
    BY <1>6, <1>7
<1>10. x.data = IF x.head.good THEN None ELSE <<"sense">>
    BY <1>7
<1>11. x.head.op = "response" /\ x.head.cmd = c
    BY <1>7
<1>12. /\ \A q \in Q : Turn(q, x)
       /\ AfterResponding(x, c, imm, seg, cm, tk, rt, P, Q)
    BY <1>4, <1>5, <1>9, <1>10, <1>11, Responds
<1>13. PICK op, got : /\ tk = Task(op, got, None)
                      /\ Situation(c, imm, seg, cm, Task("done", got, None), rt, P, Q \cup {x})
    BY <1>12 DEF AfterResponding
<1>14. PICK m : m = Task("done", got, None)
    OBVIOUS
<1>15. tasks' = [tasks EXCEPT ![c] = m]
    <2>1. PICK new, o : new = tasks' /\ o = "done"
        OBVIOUS
    <2>2. new = [tasks EXCEPT ![c].op = o]
        BY <1>1, <2>1
    <2>3. tasks[c] = Task(op, got, None)
        BY <1>2, <1>13
    <2>4. tasks = [d \in Cmd |-> tasks[d]]
        BY DEF Talk
    <2>5. TaskBecomes(new, c, Task(o, got, None))
        BY <2>2, <2>3, <2>4, TaskSent
    <2> QED
        BY <1>14, <2>1, <2>5 DEF TaskBecomes
<1>16. Situation(c, ImmediatePart(c), MaxSegment, cmds[c], m, Round(c), Of(up, c),
                 Of(down, c) \cup {x})
    BY <1>2, <1>3, <1>13, <1>14
<1>17. x.head.statSN \in Nat /\ tStat' \in Nat /\ x.head.statSN + 1 = tStat'
    BY <1>1, <1>7 DEF Talk, AckFollows
<1>18. ~IsCommand(x) /\ \A q \in Of(down, c) : Turn(q, x)
    BY <1>3, <1>7, <1>12 DEF IsCommand
<1>19. /\ cmds' = cmds /\ r2t' = r2t /\ params' = params /\ cmdSN' = cmdSN /\ tExp' = tExp
       /\ expStatSN' = expStatSN
    BY <1>1
<1>20. Talk(up, Append(down, x))'
    <2>1. x.head.cmd = c
        BY <1>7
    <2> QED
        BY <1>15, <1>16, <1>17, <1>18, <1>19, <2>1, TalkAnswer
<1> QED
    BY <1>6, <1>8, <1>20

----------------------------------------------------------------------------
(* The invariant after the login *)

\* The PDUs on the two streams; one on its way to the initiator may be spoiled.
Carrying(up, down, bad) ==
    /\ Stream(toTarget, up, 0, OfferHead, OfferData, FALSE)
    /\ Stream(toInitiator, down, bad, OfferHead, OfferData, PaddingInDigest)
    /\ ~corrupted => bad = 0

Served == InForce /\ \E up, down, bad : Carrying(up, down, bad) /\ Talk(up, down)

LEMMA InForceStays ==
    ASSUME InForce, [Next]_vars
    PROVE  InForce' /\ offer' = offer /\ OfferHead' = OfferHead /\ OfferData' = OfferData
<1>1. ~Login /\ ~TargetLogin
    BY DEF InForce, Running, Login, SendSecurity, SecurityDone, OperationalDone, LoginFails,
           TargetLogin, TargetSecurity, TargetOperational, TargetCloses, LoginArrived
<1>2. offer' = offer
    <2>1. CASE UNCHANGED vars
        BY <2>1 DEF vars, targetVars
    <2>2. CASE Receiver
        BY <2>2 DEF Receiver, HandleScsiResponse, HandleDataIn, HandleR2t, Receives, SendDataOut,
                    ReceiverEnds, targetVars
    <2>3. CASE Target
        BY <1>1, <2>3 DEF Target, TargetTakes, TargetAsks, TargetSendsData, TargetResponds,
                          keptVars
    <2>4. CASE Corruption
        BY <2>4 DEF Corruption, targetVars
    <2>5. CASE \E c \in Cmd : Submit(c)
        BY <2>5 DEF Submit, targetVars
    <2> QED
        BY <1>1, <2>1, <2>2, <2>3, <2>4, <2>5 DEF Next
<1>3. Running'
    BY RunningStays DEF InForce
<1>4. OfferHead' = OfferHead /\ OfferData' = OfferData
    BY <1>2 DEF OfferHead, OfferData
<1>5. Limits'
    BY <1>2, <1>4 DEF InForce, Limits
<1> QED
    BY <1>2, <1>3, <1>4, <1>5 DEF InForce

\* What a step has to show.
LEMMA Serving ==
    ASSUME InForce', OfferHead' = OfferHead, OfferData' = OfferData, NEW up, NEW down, NEW bad,
           Stream(toTarget', up, 0, OfferHead, OfferData, FALSE),
           Stream(toInitiator', down, bad, OfferHead, OfferData, PaddingInDigest),
           ~corrupted' => bad = 0, Talk(up, down)'
    PROVE  Served'
<1>1. Carrying(up, down, bad)'
    BY DEF Carrying
<1> QED
    BY <1>1 DEF Served

LEMMA StreamIsSeq ==
    ASSUME NEW s, NEW pdus, NEW bad, NEW hd, NEW dd, NEW pad,
           Stream(s, pdus, bad, hd, dd, pad)
    PROVE  IsSeq(s) /\ IsSeq(pdus)
<1>1. IsSeq(pdus)
    BY DEF Stream
<1>2. Len(pdus) \in Nat
    BY <1>1, SeqLen
<1>3. 1 \in 1 .. Len(pdus) + 1
    BY <1>2
<1> QED
    BY <1>1, <1>3 DEF Stream

LEMMA ServedSubmit ==
    ASSUME NoneIsNoData, Served, NEW c \in Cmd, Submit(c)
    PROVE  Served'
<1>1. InForce
    BY DEF Served
<1>2. PICK up, down, bad : Carrying(up, down, bad) /\ Talk(up, down)
    BY DEF Served
<1>3. [Next]_vars
    BY DEF Next
<1>4. InForce' /\ OfferHead' = OfferHead /\ OfferData' = OfferData
    BY <1>1, <1>3, InForceStays
<1>5. /\ Stream(toTarget, up, 0, OfferHead, OfferData, FALSE)
      /\ Stream(toInitiator, down, bad, OfferHead, OfferData, PaddingInDigest)
      /\ ~corrupted => bad = 0
    BY <1>2 DEF Carrying
<1>6. phase = "fullFeature" /\ toInitiator' = toInitiator /\ corrupted' = corrupted
    BY DEF Submit, FullFeature
<1>7. IsSeq(up)
    BY <1>5, StreamIsSeq
<1>8. PICK x : Sound(x) /\ Send(x) /\ Talk(Append(up, x), down)'
    BY <1>1, <1>2, <1>7, TalkSubmit
<1>9. Stream(toTarget', Append(up, x), 0, OfferHead, OfferData, FALSE)
    BY <1>1, <1>5, <1>6, <1>8, InitiatorPuts
<1> QED
    BY <1>4, <1>5, <1>6, <1>8, <1>9, Serving

LEMMA ServedDataOut ==
    ASSUME NoneIsNoData, Served, SendDataOut
    PROVE  Served'
<1>1. InForce
    BY DEF Served
<1>2. PICK up, down, bad : Carrying(up, down, bad) /\ Talk(up, down)
    BY DEF Served
<1>3. [Next]_vars
    BY DEF Next, Receiver
<1>4. InForce' /\ OfferHead' = OfferHead /\ OfferData' = OfferData
    BY <1>1, <1>3, InForceStays
<1>5. /\ Stream(toTarget, up, 0, OfferHead, OfferData, FALSE)
      /\ Stream(toInitiator, down, bad, OfferHead, OfferData, PaddingInDigest)
      /\ ~corrupted => bad = 0
    BY <1>2 DEF Carrying
<1>6. phase = "fullFeature" /\ toInitiator' = toInitiator /\ corrupted' = corrupted
    BY DEF SendDataOut, FullFeature
<1>7. IsSeq(up)
    BY <1>5, StreamIsSeq
<1>8. PICK x : Sound(x) /\ Send(x) /\ Talk(Append(up, x), down)'
    BY <1>1, <1>2, <1>7, TalkDataOut
<1>9. Stream(toTarget', Append(up, x), 0, OfferHead, OfferData, FALSE)
    BY <1>1, <1>5, <1>6, <1>8, InitiatorPuts
<1> QED
    BY <1>4, <1>5, <1>6, <1>8, <1>9, Serving

LEMMA ServedReceives ==
    ASSUME NoneIsNoData, Served, HandleScsiResponse \/ HandleDataIn \/ HandleR2t
    PROVE  Served'
<1>1. InForce
    BY DEF Served
<1>2. PICK up, down, bad : Carrying(up, down, bad) /\ Talk(up, down)
    BY DEF Served
<1>3. [Next]_vars
    BY DEF Next, Receiver
<1>4. InForce' /\ OfferHead' = OfferHead /\ OfferData' = OfferData
    BY <1>1, <1>3, InForceStays
<1>5. /\ Stream(toTarget, up, 0, OfferHead, OfferData, FALSE)
      /\ Stream(toInitiator, down, bad, OfferHead, OfferData, PaddingInDigest)
      /\ ~corrupted => bad = 0
    BY <1>2 DEF Carrying
<1>6. /\ phase = "fullFeature" /\ Arrived /\ Read
      /\ toTarget' = toTarget /\ corrupted' = corrupted
    BY DEF HandleScsiResponse, HandleDataIn, HandleR2t, Receives, FullFeature
<1>7. /\ down # <<>> /\ IsSeq(down) /\ Pdu = down[1]
      /\ \E next : /\ Stream(toInitiator', Tail(down), next, OfferHead, OfferData, PaddingInDigest)
                   /\ bad = 0 => next = 0
    BY <1>1, <1>5, <1>6, InitiatorGets
<1>8. PICK next : /\ Stream(toInitiator', Tail(down), next, OfferHead, OfferData, PaddingInDigest)
                  /\ bad = 0 => next = 0
    BY <1>7
<1>9. Talk(up, Tail(down))'
    <2>1. down # <<>> /\ IsSeq(down) /\ Pdu = down[1]
        BY <1>7
    <2> QED
        BY <1>1, <1>2, <2>1, TalkResponse, TalkDataIn, TalkR2t
<1>10. Stream(toTarget', up, 0, OfferHead, OfferData, FALSE)
    BY <1>5, <1>6
<1> QED
    BY <1>4, <1>5, <1>6, <1>8, <1>9, <1>10, Serving

LEMMA ServedTakes ==
    ASSUME NoneIsNoData, NoneIsNoRecord, Served, TargetTakes
    PROVE  Served'
<1>1. InForce
    BY DEF Served
<1>2. PICK up, down, bad : Carrying(up, down, bad) /\ Talk(up, down)
    BY DEF Served
<1>3. [Next]_vars
    BY DEF Next, Target
<1>4. InForce' /\ OfferHead' = OfferHead /\ OfferData' = OfferData
    BY <1>1, <1>3, InForceStays
<1>5. /\ Stream(toTarget, up, 0, OfferHead, OfferData, FALSE)
      /\ Stream(toInitiator, down, bad, OfferHead, OfferData, PaddingInDigest)
      /\ ~corrupted => bad = 0
    BY <1>2 DEF Carrying
<1>6. TheyReceive = "pdu" /\ TheyRead /\ toInitiator' = toInitiator /\ corrupted' = corrupted
    BY DEF TargetTakes
<1>7. /\ up # <<>> /\ IsSeq(up) /\ Request = up[1]
      /\ TheyRead => Stream(toTarget', Tail(up), 0, OfferHead, OfferData, FALSE)
    BY <1>1, <1>5, <1>6, TargetGets
<1>8. Stream(toTarget', Tail(up), 0, OfferHead, OfferData, FALSE)
    BY <1>6, <1>7
<1>9. Talk(Tail(up), down)'
    <2>1. up # <<>> /\ IsSeq(up) /\ Request = up[1]
        BY <1>7
    <2>2. CASE Request.head.op # "dataOut"
        BY <1>1, <1>2, <2>1, <2>2, TalkTakesCommand
    <2>3. CASE Request.head.op = "dataOut"
        BY <1>1, <1>2, <2>1, <2>3, TalkTakesData
    <2> QED
        BY <2>2, <2>3
<1> QED
    BY <1>4, <1>5, <1>6, <1>8, <1>9, Serving

LEMMA ServedAnswers ==
    ASSUME NoneIsNoData, NoneIsNoRecord, Served, NEW c \in Cmd,
           TargetAsks(c) \/ TargetSendsData(c) \/ TargetResponds(c)
    PROVE  Served'
<1>1. InForce
    BY DEF Served
<1>2. PICK up, down, bad : Carrying(up, down, bad) /\ Talk(up, down)
    BY DEF Served
<1>3. [Next]_vars
    BY DEF Next, Target
<1>4. InForce' /\ OfferHead' = OfferHead /\ OfferData' = OfferData
    BY <1>1, <1>3, InForceStays
<1>5. /\ Stream(toTarget, up, 0, OfferHead, OfferData, FALSE)
      /\ Stream(toInitiator, down, bad, OfferHead, OfferData, PaddingInDigest)
      /\ ~corrupted => bad = 0
    BY <1>2 DEF Carrying
<1>6. toTarget' = toTarget /\ corrupted' = corrupted
    BY DEF TargetAsks, TargetSendsData, TargetResponds
<1>7. IsSeq(down) /\ offer[MaxSend] \in Nat \ {0}
    <2>1. offer[MaxSend] \in Nat \ {0}
        BY <1>1 DEF InForce, Limits
    <2> QED
        BY <1>5, <2>1, StreamIsSeq
<1>8. PICK x : Sound(x) /\ Answer(x) /\ Talk(up, Append(down, x))'
    <2>1. CASE TargetAsks(c)
        BY <1>1, <1>2, <1>7, <2>1, TalkAsks
    <2>2. CASE TargetSendsData(c)
        BY <1>1, <1>2, <1>7, <2>2, TalkSendsData
    <2>3. CASE TargetResponds(c)
        BY <1>1, <1>2, <1>7, <2>3, TalkResponds
    <2> QED
        BY <2>1, <2>2, <2>3
<1>9. Stream(toInitiator', Append(down, x), bad, OfferHead, OfferData, PaddingInDigest)
    BY <1>1, <1>5, <1>8, TargetPuts
<1>10. Stream(toTarget', up, 0, OfferHead, OfferData, FALSE)
    BY <1>5, <1>6
<1> QED
    BY <1>4, <1>5, <1>6, <1>8, <1>9, <1>10, Serving

\* What nothing under way is about: all that Talk mentions is unchanged.
LEMMA TalkStays ==
    ASSUME NEW up, NEW down, Talk(up, down),
           UNCHANGED <<params, cmdSN, expStatSN, cmds, r2t, tExp, tStat, tasks>>
    PROVE  Talk(up, down)'
<1>1. \A d \in Cmd : About(d, up, down)'
    BY DEF Talk, About, ImmediatePart, MaxSegment, Round
<1>2. Numbered(up)' /\ AckFollows(down)'
    BY DEF Talk, Numbered, AckFollows, Open
<1> QED
    BY <1>1, <1>2 DEF Talk

LEMMA ServedStays ==
    ASSUME Served, ReceiverEnds \/ UNCHANGED vars
    PROVE  Served'
<1>1. InForce
    BY DEF Served
<1>2. PICK up, down, bad : Carrying(up, down, bad) /\ Talk(up, down)
    BY DEF Served
<1>3. [Next]_vars
    BY DEF Next, Receiver
<1>4. InForce' /\ OfferHead' = OfferHead /\ OfferData' = OfferData
    BY <1>1, <1>3, InForceStays
<1>5. /\ Stream(toTarget, up, 0, OfferHead, OfferData, FALSE)
      /\ Stream(toInitiator, down, bad, OfferHead, OfferData, PaddingInDigest)
      /\ ~corrupted => bad = 0
    BY <1>2 DEF Carrying
<1>6. /\ toTarget' = toTarget /\ toInitiator' = toInitiator /\ corrupted' = corrupted
      /\ UNCHANGED <<params, cmdSN, expStatSN, cmds, r2t, tExp, tStat, tasks>>
    BY DEF ReceiverEnds, vars, loginVars, numberVars, targetVars
<1>7. Talk(up, down)'
    BY <1>2, <1>6, TalkStays
<1>8. /\ Stream(toTarget', up, 0, OfferHead, OfferData, FALSE)
      /\ Stream(toInitiator', down, bad, OfferHead, OfferData, PaddingInDigest)
      /\ ~corrupted' => bad = 0
    BY <1>5, <1>6
<1> QED
    BY <1>4, <1>7, <1>8, Serving

LEMMA ServedCorruption ==
    ASSUME Served, Corruption
    PROVE  Served'
<1>1. InForce
    BY DEF Served
<1>2. PICK up, down, bad : Carrying(up, down, bad) /\ Talk(up, down)
    BY DEF Served
<1>3. [Next]_vars
    BY DEF Next
<1>4. InForce' /\ OfferHead' = OfferHead /\ OfferData' = OfferData
    BY <1>1, <1>3, InForceStays
<1>5. /\ Stream(toTarget, up, 0, OfferHead, OfferData, FALSE)
      /\ Stream(toInitiator, down, 0, OfferHead, OfferData, PaddingInDigest)
    BY <1>2 DEF Carrying, Corruption
<1>6. toTarget' = toTarget /\ corrupted' = TRUE
    BY DEF Corruption
<1>7. Talk(up, down)'
    BY <1>2, TalkStays DEF Corruption, loginVars, numberVars, targetVars
<1>8. PICK hd, dd, pad : hd = OfferHead /\ dd = OfferData /\ pad = PaddingInDigest
    OBVIOUS
<1>9. hd \in BOOLEAN /\ dd \in BOOLEAN /\ pad \in BOOLEAN
    BY <1>1, <1>8, SameDigests, ConnectionAssumption DEF ConnectionAssumption
<1>10. PICK i \in DOMAIN toInitiator :
          /\ \/ offer["HeaderDigest"] /\ toInitiator[i][1] = "head"
             \/ offer["DataDigest"] /\ toInitiator[i][1] = "byte"
          /\ \E e \in Changed(toInitiator[i]) : toInitiator' = [toInitiator EXCEPT ![i] = e]
    BY DEF Corruption
<1>11. PICK e : e \in Changed(toInitiator[i]) /\ toInitiator' = Put(toInitiator, i, e)
    BY <1>10 DEF Put
<1>12. PICK s : s = toInitiator
    OBVIOUS
<1>13. Stream(s, down, 0, hd, dd, pad) /\ IsSeq(s)
    BY <1>5, <1>8, <1>12, StreamIsSeq
<1>14. i \in 1 .. Len(s)
    BY <1>10, <1>12, <1>13, SeqLen
<1>15. \E next : Stream(Put(s, i, e), down, next, hd, dd, pad)
    <2>1. CASE e = s[i]
        <3>1. Put(s, i, e) = s
            BY <1>13, <1>14, <2>1, Altered, SameSeq
        <3> QED
            BY <1>13, <3>1
    <2>2. CASE e # s[i]
        <3>1. Disturbs(s, i, e, hd, dd)
            <4>1. (hd /\ s[i][1] = "head") \/ (dd /\ s[i][1] = "byte")
                BY <1>8, <1>10, <1>12 DEF OfferHead, OfferData
            <4>2. s[i][1] = "head" => \E h : e = Bhs(h)
                BY <1>11, <1>12 DEF Changed
            <4>3. s[i][1] = "byte" => \E b : e = Byte(b)
                BY <1>11, <1>12 DEF Changed
            <4> QED
                BY <1>14, <2>2, <4>1, <4>2, <4>3 DEF Disturbs
        <3> QED
            BY <1>9, <1>13, <3>1, StreamSpoils
    <2> QED
        BY <2>1, <2>2
<1>16. PICK next : Stream(toInitiator', down, next, OfferHead, OfferData, PaddingInDigest)
    BY <1>8, <1>11, <1>12, <1>15
<1>17. Stream(toTarget', up, 0, OfferHead, OfferData, FALSE)
    BY <1>5, <1>6
<1> QED
    BY <1>4, <1>6, <1>7, <1>16, <1>17, Serving

LEMMA ServedStep ==
    ASSUME NoneIsNoData, NoneIsNoRecord, Served, [Next]_vars
    PROVE  Served'
<1>1. ~Login /\ ~TargetLogin
    BY DEF Served, InForce, Running, Login, SendSecurity, SecurityDone, OperationalDone, LoginFails,
           TargetLogin, TargetSecurity, TargetOperational, TargetCloses, LoginArrived
<1>2. CASE UNCHANGED vars
    BY <1>2, ServedStays
<1>3. CASE Receiver
    BY <1>3, ServedReceives, ServedDataOut, ServedStays DEF Receiver
<1>4. CASE Target
    BY <1>1, <1>4, ServedTakes, ServedAnswers DEF Target
<1>5. CASE Corruption
    BY <1>5, ServedCorruption
<1>6. CASE \E c \in Cmd : Submit(c)
    BY <1>6, ServedSubmit
<1> QED
    BY <1>1, <1>2, <1>3, <1>4, <1>5, <1>6 DEF Next

----------------------------------------------------------------------------
(* Before the login is over *)

\* Nobody is configured to receive nothing.
PositiveLimits == \A p \in OurOffers \cup TheirOffers : p[MaxRecv] > 0

Prospects ==
    /\ {params[MaxRecv], offer[MaxRecv]} \subseteq Nat \ {0}
    /\ stage = "fullFeature" => Limits
    /\ tExp \in Nat

Unserved == Before /\ Prospects

LEMMA LimitsOfParams ==
    ASSUME NEW p, IsParams(p)
    PROVE  /\ {p["HeaderDigest"], p["DataDigest"], p["ImmediateData"]} \subseteq BOOLEAN
           /\ {p["FirstBurstLength"], p["MaxBurstLength"], p[MaxRecv]} \subseteq Nat
BY DEF IsParams, Keys, Digests, Flags, InOrder, Numbers, Minima, Times, MaxRecv, MaxSend

\* What the target makes of its parameters when it has the initiator's.
LEMMA TargetAgrees ==
    ASSUME NoneIsNoData, DeclaresLimit = TRUE, Before, TargetOperational, stage' # "closed"
    PROVE  /\ stage' = "fullFeature" /\ tExp' \in 1 .. 2
           /\ offer'[MaxRecv] = offer[MaxRecv] /\ offer'[MaxSend] = params[MaxRecv]
           /\ \A k \in Keys \ {MaxRecv} : offer'[k] = Agreed(k, params[k], offer[k])
<1>1. stage = "operational" /\ TheyReceive = "pdu"
    BY DEF TargetOperational, LoginArrived
<1>2. SecondAsked
    BY <1>1, TargetHasRequest DEF FirstAsked
<1>3. Sound(SecondRequest) /\ Plain(toTarget, SecondRequest)
    BY <1>2, SoundLogin DEF SecondRequest, SecondAsked
<1>4. Request = SecondRequest
    BY <1>1, <1>3, TargetReads
<1>5. PICK exp \in 1 .. 2 :
        /\ offer' = [k \in Keys \cup {MaxSend} |->
                IF k = MaxRecv THEN TheirLimit
                ELSE IF k = MaxSend THEN Ours(MaxRecv)
                ELSE Agreed(k, Ours(k), offer[k])]
        /\ tExp' = exp /\ stage' = "fullFeature"
    BY DEF TargetOperational
<1>6. \A k \in Keys : Ours(k) = params[k]
    <2>1. Request.data[1] = Text(params)
        BY <1>4 DEF SecondRequest, LoginRequest
    <2> QED
        BY <2>1, TextRead DEF Ours, Before
<1>7. MaxSend \notin Keys /\ MaxRecv \in Keys /\ MaxRecv # MaxSend
    BY DEF MaxSend, MaxRecv, Keys, Numbers, Digests, Flags, InOrder, Minima, Times
<1> QED
    BY <1>5, <1>6, <1>7 DEF TheirLimit

LEMMA ProspectsAgreed ==
    ASSUME NoneIsNoData, DeclaresLimit = TRUE, Unserved, TargetOperational
    PROVE  Prospects'
<1>1. CASE stage' = "closed"
    BY <1>1 DEF TargetOperational, Unserved, Prospects, loginVars
<1>2. CASE stage' # "closed"
    <2>1. /\ stage' = "fullFeature" /\ tExp' \in 1 .. 2 /\ params' = params
          /\ offer'[MaxRecv] = offer[MaxRecv] /\ offer'[MaxSend] = params[MaxRecv]
          /\ \A k \in Keys \ {MaxRecv} : offer'[k] = Agreed(k, params[k], offer[k])
        BY <1>2, TargetAgrees DEF Unserved, TargetOperational, loginVars
    <2>2. IsParams(params) /\ IsParams(offer)
        BY DEF Unserved, Before, TargetOperational
    <2>3. {"HeaderDigest", "DataDigest", "ImmediateData", "FirstBurstLength", "MaxBurstLength"}
            \subseteq Keys \ {MaxRecv}
        BY DEF Keys, Digests, Flags, Numbers, Minima, MaxRecv
    <2>4. ASSUME NEW k \in {"HeaderDigest", "DataDigest", "ImmediateData"}
          PROVE  offer'[k] \in BOOLEAN
        <3>1. Agreed(k, params[k], offer[k]) = (params[k] /\ offer[k])
            BY DEF Agreed, Minima, InOrder
        <3> QED
            BY <2>1, <2>3, <3>1
    <2>5. ASSUME NEW k \in {"FirstBurstLength", "MaxBurstLength"}
          PROVE  offer'[k] \in Nat
        <3>1. Agreed(k, params[k], offer[k]) = Lesser(params[k], offer[k])
            BY DEF Agreed, Minima
        <3>2. params[k] \in Nat /\ offer[k] \in Nat
            BY <2>2, LimitsOfParams
        <3> QED
            BY <2>1, <2>3, <3>1, <3>2 DEF Lesser
    <2>6. {offer'[MaxRecv], offer'[MaxSend]} \subseteq Nat \ {0}
        BY <2>1 DEF Unserved, Prospects
    <2>7. Limits'
        BY <2>4, <2>5, <2>6 DEF Limits, OfferHead, OfferData
    <2> QED
        BY <2>1, <2>6, <2>7 DEF Unserved, Prospects
<1> QED
    BY <1>1, <1>2

\* The other steps of the login leave the parameters alone.
LEMMA ProspectsStay ==
    ASSUME NoneIsNoData, Unserved,
           \/ SendSecurity \/ SecurityDone \/ LoginFails
           \/ TargetSecurity \/ TargetCloses \/ UNCHANGED vars
    PROVE  Prospects'
<1>1. params' = params /\ offer' = offer
    BY DEF SendSecurity, SecurityDone, LoginFails, TargetSecurity, TargetCloses, vars,
           loginVars, targetVars
<1>2. stage' = "fullFeature" => stage = "fullFeature"
    BY DEF SendSecurity, SecurityDone, LoginFails, TargetSecurity, TargetCloses, vars,
           targetVars
<1>3. Limits' <=> Limits
    BY <1>1 DEF Limits, OfferHead, OfferData
<1>4. tExp' \in Nat
    <2>1. CASE TargetSecurity
        <3>1. Request = FirstRequest
            BY <2>1, SecurityAsked DEF Unserved
        <3>2. tExp' = FirstRequest.head.cmdSN
            BY <2>1, <3>1 DEF TargetSecurity
        <3> QED
            BY <3>2 DEF FirstRequest, LoginRequest
    <2>2. CASE ~TargetSecurity
        BY <2>2 DEF SendSecurity, SecurityDone, LoginFails, TargetCloses, vars, targetVars,
                    Unserved, Prospects
    <2> QED
        BY <2>1, <2>2
<1> QED
    BY <1>1, <1>2, <1>3, <1>4 DEF Unserved, Prospects

\* When the login is over nothing is under way.
LEMMA TalkBegins ==
    ASSUME NothingDone', cmdSN' = tExp', expStatSN' = tStat', tExp' \in Nat, tStat' \in Nat
    PROVE  Talk(<<>>, <<>>)'
<1>1. PICK e : e = <<>>
    OBVIOUS
<1>2. Elements(e) = {} /\ Len(e) = 0
    BY <1>1 DEF Elements
<1>3. InSequence(e)
    BY <1>2 DEF InSequence
<1>4. ASSUME NEW c \in Cmd
      PROVE  About(c, e, e)'
    <2>1. cmds'[c] = Command("none", "idle", <<>>) /\ tasks'[c] = None
        BY DEF NothingDone, Command
    <2>2. Round(c)' = None
        BY DEF NothingDone, Round
    <2>3. Of(e, c) = {}
        BY <1>2 DEF Of
    <2> QED
        BY <2>1, <2>2, <2>3 DEF About, Situation, Fresh
<1>5. Numbered(e)'
    BY <1>2 DEF Numbered
<1>6. AckFollows(e)'
    BY <1>1, <1>2 DEF AckFollows
<1>7. r2t' = None /\ cmds' = [c \in Cmd |-> cmds'[c]] /\ tasks' = [c \in Cmd |-> tasks'[c]]
    BY DEF NothingDone
<1>8. Talk(e, e)'
    BY <1>2, <1>3, <1>4, <1>5, <1>6, <1>7 DEF Talk
<1> QED
    BY <1>1, <1>8

LEMMA ServedBegins ==
    ASSUME NoneIsNoData, Unserved, OperationalDone
    PROVE  Served'
<1>1. Running'
    BY LoginOperationalDone DEF Unserved
<1>2. /\ phase = "operational" /\ Arrived /\ Read /\ Accepted
      /\ cmdSN' = Pdu.head.exp /\ expStatSN' = Pdu.head.statSN + 1
      /\ UNCHANGED <<cmds, r2t, toTarget, corrupted, stage, offer, tExp, tStat, tasks>>
    BY DEF OperationalDone, targetVars
<1>3. stage = "fullFeature"
    BY <1>1, <1>2 DEF Running
<1>4. SecondAnswered
    BY <1>2, <1>3, BeforeAt DEF SecondAsked, Refused, Unserved
<1>5. PICK text : Plain(toInitiator, Response(0, tStat - 1, tExp, <<text>>))
    BY <1>4 DEF SecondAnswered
<1>6. Pdu = Response(0, tStat - 1, tExp, <<text>>) /\ toInitiator' = <<>>
    BY <1>2, <1>5, SoundResponse, InitiatorReads
<1>7. tStat \in Nat /\ tExp \in Nat
    BY DEF Unserved, Before, Prospects
<1>8. cmdSN' = tExp' /\ expStatSN' = tStat'
    BY <1>2, <1>6, <1>7 DEF Response
<1>9. NothingDone' /\ tStat' \in Nat /\ tExp' \in Nat
    BY <1>2, <1>7 DEF Unserved, Before, NothingDone
<1>10. Talk(<<>>, <<>>)'
    BY <1>8, <1>9, TalkBegins
<1>11. Limits'
    BY <1>2, <1>3 DEF Unserved, Prospects, Limits, OfferHead, OfferData
<1>12. toTarget' = <<>>
    BY <1>2, <1>4 DEF SecondAnswered
<1>13. /\ Stream(<<>>, <<>>, 0, OfferHead', OfferData', FALSE)
       /\ Stream(<<>>, <<>>, 0, OfferHead', OfferData', PaddingInDigest)
    BY StreamOfNone
<1>14. Carrying(<<>>, <<>>, 0)'
    BY <1>6, <1>12, <1>13 DEF Carrying
<1> QED
    BY <1>1, <1>10, <1>11, <1>14 DEF Served, InForce

----------------------------------------------------------------------------
(* The whole connection *)

ConnInv == Unserved \/ Served

LEMMA ConnInit ==
    ASSUME PositiveLimits, Init
    PROVE  ConnInv
<1>1. Before
    BY LoginInit DEF LoginInv, Running, Init
<1>2. params \in OurOffers /\ offer \in TheirOffers /\ stage = "security" /\ tExp = 0
    BY DEF Init
<1>3. IsParams(params) /\ IsParams(offer)
    BY <1>2, ConnectionAssumption DEF ConnectionAssumption
<1>4. params[MaxRecv] \in Nat /\ offer[MaxRecv] \in Nat
    BY <1>3, LimitsOfParams
<1>5. params[MaxRecv] > 0 /\ offer[MaxRecv] > 0
    BY <1>2 DEF PositiveLimits
<1> QED
    BY <1>1, <1>2, <1>4, <1>5 DEF ConnInv, Unserved, Prospects

LEMMA ConnStep ==
    ASSUME NoneIsNoData, NoneIsNoRecord, DeclaresLimit = TRUE, ConnInv, [Next]_vars
    PROVE  ConnInv'
<1>1. CASE Served
    BY <1>1, ServedStep DEF ConnInv
<1>2. CASE Unserved /\ UNCHANGED vars
    BY <1>2, BeforeStays, ProspectsStay DEF ConnInv, Unserved
<1>3. CASE Unserved /\ Next
    <2>1. Login \/ TargetLogin
        BY <1>3, LoginOnly DEF Unserved
    <2>2. Unserved /\ Before
        BY <1>3 DEF Unserved
    <2>3. CASE OperationalDone
        BY <2>2, <2>3, ServedBegins DEF ConnInv
    <2>4. CASE TargetOperational
        BY <2>2, <2>4, LoginTargetOperational, ProspectsAgreed DEF ConnInv, Unserved
    <2>5. CASE SendSecurity \/ SecurityDone \/ LoginFails
        BY <2>2, <2>5, LoginSendSecurity, LoginSecurityDone, LoginLoginFails, ProspectsStay
        DEF ConnInv, Unserved
    <2>6. CASE TargetSecurity \/ TargetCloses
        BY <2>2, <2>6, LoginTargetSecurity, LoginTargetCloses, ProspectsStay
        DEF ConnInv, Unserved
    <2> QED
        BY <2>1, <2>3, <2>4, <2>5, <2>6 DEF Login, TargetLogin
<1> QED
    BY <1>1, <1>2, <1>3 DEF ConnInv

\* What the caller has been told of a command.
LEMMA ToldSo ==
    ASSUME NEW c \in Cmd, NEW imm, NEW seg, NEW rt, NEW U, NEW D,
           Situation(c, imm, seg, cmds[c], tasks[c], rt, U, D), NoneIsNoRecord
    PROVE  /\ cmds[c].at = "ok" =>
                 IF cmds[c].op = "read" THEN cmds[c].data = Payload(c)
                 ELSE tasks[c] # None /\ tasks[c].got = Payload(c)
           /\ cmds[c].at = "failed" => cmds[c].data = <<"sense">>
<1>1. PICK cm, tk : cm = cmds[c] /\ tk = tasks[c]
    OBVIOUS
<1>2. CASE cm.at \in {"ok", "failed"}
    <2>1. Ended(c, cm, tk, rt, U, D)
        <3>1. ~Fresh(cm, tk, rt, U, D)
            BY <1>2 DEF Fresh, Command
        <3>2. ~Submitted(imm, cm, tk, rt, U, D)
            BY <1>2 DEF Submitted, Command
        <3>3. ~Reading(c, cm, tk, rt, U, D)
            BY <1>2 DEF Reading, Command
        <3>4. cm # WriteCommand
            BY <1>2 DEF WriteCommand, Command
        <3> QED
            BY <1>1, <3>1, <3>2, <3>3, <3>4 DEF Situation, Waiting, AskedFor, Sending, Responded
    <2>2. PICK got :
            /\ tk = Task("done", got, None)
            /\ \/ \E op \in {"read", "write"} : cm = Command(op, "failed", <<"sense">>)
               \/ cm = Command("read", "ok", Payload(c))
               \/ cm = Command("write", "ok", <<>>) /\ got = Payload(c)
        BY <2>1 DEF Ended
    <2>3. tk # None
        BY <2>2 DEF NoneIsNoRecord, Task
    <2>4. CASE \E op \in {"read", "write"} : cm = Command(op, "failed", <<"sense">>)
        BY <1>1, <2>4 DEF Command
    <2>5. CASE cm = Command("read", "ok", Payload(c))
        BY <1>1, <2>5 DEF Command
    <2>6. CASE cm = Command("write", "ok", <<>>) /\ got = Payload(c)
        BY <1>1, <2>2, <2>3, <2>6 DEF Command, Task
    <2> QED
        BY <2>2, <2>4, <2>5, <2>6
<1>3. CASE cm.at \notin {"ok", "failed"}
    BY <1>1, <1>3
<1> QED
    BY <1>2, <1>3

LEMMA ConnIntact ==
    ASSUME NoneIsNoRecord, ConnInv
    PROVE  DataIntact
<1> SUFFICES ASSUME NEW c \in Cmd
             PROVE  /\ cmds[c].at = "ok" =>
                          IF cmds[c].op = "read" THEN cmds[c].data = Payload(c)
                          ELSE tasks[c] # None /\ tasks[c].got = Payload(c)
                    /\ cmds[c].at = "failed" => cmds[c].data = <<"sense">>
    BY DEF DataIntact
<1>1. CASE Unserved
    BY <1>1 DEF Unserved, Before, NothingDone
<1>2. CASE Served
    <2>1. PICK up, down : Talk(up, down)
        BY <1>2 DEF Served
    <2>2. Situation(c, ImmediatePart(c), MaxSegment, cmds[c], tasks[c], Round(c),
                    Of(up, c), Of(down, c))
        BY <2>1, TalkOf
    <2> QED
        BY <2>2, ToldSo
<1> QED
    BY <1>1, <1>2 DEF ConnInv

(* A command that ends with GOOD has done what it was for: a write has      *)
(* brought the target the whole payload in order, in immediate data or      *)
(* asked for by R2Ts, and a read has assembled what the target sent. One    *)
(* that ends with a failure has the target's sense data. This is so         *)
(* whatever the burst and segment lengths, and when an element under a      *)
(* digest is changed on the way to the initiator: recv_pdu fails, the       *)
(* receiver ends, and what is not answered is not acknowledged.             *)
THEOREM AnswersAreTrue ==
    ASSUME NoneIsNoData, NoneIsNoRecord, DeclaresLimit = TRUE, PositiveLimits
    PROVE  Spec => []DataIntact
<1>1. Init => ConnInv
    BY ConnInit
<1>2. ConnInv /\ [Next]_vars => ConnInv'
    BY ConnStep
<1>3. ConnInv => DataIntact
    BY ConnIntact
<1> QED
    BY <1>1, <1>2, <1>3, PTL DEF Spec

\* A command that is open is one the caller waits for, if nothing is under way.
LEMMA OpenIsSent ==
    ASSUME NEW c, NEW imm, NEW seg, NEW cm, NEW tk, NEW rt, NEW U, NEW D,
           Situation(c, imm, seg, cm, tk, rt, U, D), tk # None, tk.op # "done"
    PROVE  cm.at = "sent"
BY DEF Situation, Fresh, Submitted, Reading, Waiting, AskedFor, Sending, Responded, Ended,
       Command, WriteCommand, Task

LEMMA ConnAck ==
    ASSUME ConnInv
    PROVE  QuietAckExact
<1> SUFFICES ASSUME FullFeature, Serves, toInitiator = <<>>, \A c \in Cmd : cmds[c].at # "sent"
             PROVE  expStatSN = tStat
    BY DEF QuietAckExact
<1>1. Served
    BY BeforeAt DEF ConnInv, Unserved, FullFeature
<1>2. PICK up, down, bad : Carrying(up, down, bad) /\ Talk(up, down)
    BY <1>1 DEF Served
<1>3. Stream(<<>>, down, bad, OfferHead, OfferData, PaddingInDigest)
    BY <1>2 DEF Carrying
<1>4. down = <<>>
    BY <1>3, StreamEmpty
<1>5. ASSUME NEW c \in Cmd PROVE ~Open(c)
    <2>1. Situation(c, ImmediatePart(c), MaxSegment, cmds[c], tasks[c], Round(c),
                    Of(up, c), Of(down, c))
        BY <1>2, TalkOf
    <2>2. (tasks[c] # None /\ tasks[c].op # "done") => cmds[c].at = "sent"
        BY <2>1, OpenIsSent
    <2> QED
        BY <2>2 DEF Open
<1> QED
    BY <1>2, <1>4, <1>5 DEF Talk, AckFollows

(* update_sequence_numbers takes the StatSN of R2Ts and of Data-Ins without *)
(* status, which do not use one up, as if they did. When all is answered    *)
(* and nothing is on the way, ExpStatSN is nevertheless the StatSN the      *)
(* target gives next: the last PDU taken was a status.                      *)
THEOREM QuietAck ==
    ASSUME NoneIsNoData, NoneIsNoRecord, DeclaresLimit = TRUE, PositiveLimits
    PROVE  Spec => []QuietAckExact
<1>1. Init => ConnInv
    BY ConnInit
<1>2. ConnInv /\ [Next]_vars => ConnInv'
    BY ConnStep
<1>3. ConnInv => QuietAckExact
    BY ConnAck
<1> QED
    BY <1>1, <1>2, <1>3, PTL DEF Spec

----------------------------------------------------------------------------
(* What the target finds *)

\* The first burst goes into one PDU.
BurstFits == offer["FirstBurstLength"] <= offer[MaxRecv]

BurstsFit == \A p \in TheirOffers : p["FirstBurstLength"] <= p[MaxRecv]

LEMMA BurstStep ==
    ASSUME NoneIsNoData, DeclaresLimit = TRUE, ConnInv, BurstFits, [Next]_vars
    PROVE  BurstFits'
<1>1. CASE Served
    BY <1>1, InForceStays DEF Served, BurstFits
<1>2. CASE Unserved /\ TargetOperational /\ stage' # "closed"
    <2>1. /\ offer'[MaxRecv] = offer[MaxRecv]
          /\ \A k \in Keys \ {MaxRecv} : offer'[k] = Agreed(k, params[k], offer[k])
        BY <1>2, TargetAgrees DEF Unserved
    <2>2. IsParams(params) /\ IsParams(offer)
        BY <1>2 DEF Unserved, Before, TargetOperational
    <2>3. "FirstBurstLength" \in Keys \ {MaxRecv} /\ "FirstBurstLength" \in Minima
        BY DEF Keys, Numbers, Minima, MaxRecv
    <2>4. offer'["FirstBurstLength"] = Lesser(params["FirstBurstLength"], offer["FirstBurstLength"])
        BY <2>1, <2>3 DEF Agreed
    <2>5. /\ params["FirstBurstLength"] \in Nat /\ offer["FirstBurstLength"] \in Nat
          /\ offer[MaxRecv] \in Nat
        BY <2>2, LimitsOfParams
    <2> QED
        BY <2>1, <2>4, <2>5 DEF BurstFits, Lesser
<1>3. CASE Unserved /\ ~(TargetOperational /\ stage' # "closed")
    <2>1. Login \/ TargetLogin \/ UNCHANGED vars
        BY <1>3, LoginOnly DEF Unserved
    <2>2. offer' = offer
        BY <1>3, <2>1 DEF Login, SendSecurity, SecurityDone, OperationalDone, LoginFails,
           TargetLogin, TargetSecurity, TargetOperational, TargetCloses, vars, targetVars
    <2> QED
        BY <2>2 DEF BurstFits
<1> QED
    BY <1>1, <1>2, <1>3 DEF ConnInv

LEMMA CommandAccepted ==
    ASSUME InForce, BurstFits, NEW c, NEW imm, imm = ImmediatePart(c), NEW x, Sound(x),
           IsCommand(x), Unsent(x, imm), x.head.cmdSN = tExp
    PROVE  CommandConforms(x.head)
<1>1. x.head.lun = Lun /\ x.data = (IF x.head.op = "write" THEN imm ELSE None)
    BY DEF Unsent
<1>2. PICK l : l = x.head.len
    OBVIOUS
<1>3. l = IF x.data = None THEN 0 ELSE Len(x.data)
    BY <1>2 DEF Sound
<1>4. PICK first, limit : first = offer["FirstBurstLength"] /\ limit = offer[MaxRecv]
    OBVIOUS
<1>5. first \in Nat /\ limit \in Nat /\ first <= limit
    BY <1>4 DEF InForce, Limits, BurstFits
<1>6. l \in Nat /\ l <= first /\ (l > 0 => x.head.op = "write" /\ offer["ImmediateData"])
    <2>1. CASE x.data = None
        BY <1>3, <1>5, <2>1
    <2>2. CASE x.data # None
        <3>1. x.head.op = "write" /\ x.data = imm /\ imm # None
            BY <1>1, <2>2
        <3>2. offer["ImmediateData"]
              /\ \E n \in Nat \ {0} : n <= PayloadLen /\ n <= first /\ imm = Part(c, 0, n)
            BY <1>4, <3>1, ImmediateIs
        <3>3. PICK n \in Nat \ {0} : n <= PayloadLen /\ n <= first /\ imm = Part(c, 0, n)
            BY <3>2
        <3>4. Len(imm) = n
            BY <3>3, FrontIs
        <3> QED
            BY <1>3, <2>2, <3>1, <3>2, <3>3, <3>4
    <2> QED
        BY <2>1, <2>2
<1>7. Lesser(first, limit) = first
    BY <1>5 DEF Lesser
<1> QED
    BY <1>1, <1>2, <1>4, <1>6, <1>7 DEF CommandConforms

LEMMA DataOutAccepted ==
    ASSUME NoneIsNoRecord, Lun = 0, NEW x, NEW got, NEW ttt, NEW n, NEW end,
           tasks[x.head.cmd] = Task("write", got, Asked(ttt, n, end)),
           Expected(x, got, ttt, n, end, offer[MaxRecv])
    PROVE  DataOutConforms(x.head)
<1>1. PICK task : task = tasks[x.head.cmd]
    OBVIOUS
<1>2. task.got = got /\ task.asked = Asked(ttt, n, end)
    BY <1>1 DEF Task
<1>3. task # None /\ task.asked # None
    BY <1>1 DEF Task, Asked, NoneIsNoRecord
<1>4. task.asked.ttt = ttt /\ task.asked.dataSN = n /\ task.asked.end = end
    BY <1>2 DEF Asked
<1> QED
    BY <1>1, <1>2, <1>3, <1>4 DEF DataOutConforms, Expected

LEMMA ServedAccepted ==
    ASSUME NoneIsNoData, NoneIsNoRecord, Lun = 0, Served, BurstFits
    PROVE  CommandsAccepted
<1>1. InForce /\ Serves
    BY DEF Served, InForce, Running, Serves
<1>2. PICK up, down, bad : Carrying(up, down, bad) /\ Talk(up, down)
    BY DEF Served
<1>3. Stream(toTarget, up, 0, OfferHead, OfferData, FALSE)
    BY <1>2 DEF Carrying
<1>4. ASSUME TheyReceive = "error" PROVE DigestsDiffer(Request.head)
    <2>1. PICK hd, dd, s, read :
             hd = OfferHead /\ dd = OfferData /\ s = toTarget /\ read = PaddingInDigest
        OBVIOUS
    <2>2. hd \in BOOLEAN /\ dd \in BOOLEAN /\ read \in BOOLEAN
          /\ Stream(s, up, 0, hd, dd, FALSE)
        BY <1>1, <1>3, <2>1, SameDigests, ConnectionAssumption DEF ConnectionAssumption
    <2>3. TheirHeadDigest = hd /\ TheirDataDigest = dd
        BY <1>1, <2>1, SameDigests
    <2>4. Received(s, hd, dd, read) = "error" /\ Request = Taken(s, hd)
        BY <1>4, <2>1, <2>3 DEF TheyReceive, Request
    <2>5. Mismatch(s, hd, dd, read)
        BY <2>2, <2>4, StreamReadable
    <2> QED
        BY <2>1, <2>3, <2>4, <2>5 DEF Mismatch, DigestsDiffer
<1>5. ASSUME TheyReceive = "pdu" PROVE Conforms(Request.head)
    <2>1. up # <<>> /\ IsSeq(up) /\ Request = up[1] /\ Sound(up[1])
        BY <1>1, <1>3, <1>5, TargetGets
    <2>2. PICK x : x = Request
        OBVIOUS
    <2>3. PICK c : c = x.head.cmd
        OBVIOUS
    <2>4. FirstOf(x, up) /\ Sound(x)
        BY <2>1, <2>2 DEF FirstOf
    <2>5. /\ c \in Cmd /\ Of(up, c) = Of(Tail(up), c) \cup {x}
          /\ \A q \in Of(Tail(up), c) : Turn(x, q)
          /\ \A q \in Of(up, c) : q.head.cmd = c
        BY <1>2, <2>1, <2>3, <2>4, FirstOfIts DEF Talk
    <2>6. PICK imm, seg, tk, rt, cm : /\ imm = ImmediatePart(c) /\ seg = MaxSegment
                                      /\ cm = cmds[c] /\ tk = tasks[c] /\ rt = Round(c)
        OBVIOUS
    <2>7. PICK P, Q, R : P = Of(up, c) /\ Q = Of(down, c) /\ R = Of(Tail(up), c)
        OBVIOUS
    <2>8. /\ Situation(c, imm, seg, cm, tk, rt, P, Q)
          /\ seg \in Nat \ {0} /\ Immediate(c, imm) /\ seg = offer[MaxRecv]
        BY <1>1, <1>2, <2>5, <2>6, <2>7, TalkOf, SegmentIs, ImmediateIs
    <2>9. P = R \cup {x} /\ (\A q \in R : Turn(x, q)) /\ x \in P /\ \A q \in P : q.head.cmd = c
        BY <2>5, <2>7
    <2>10. IsCommand(x) \/ x.head.op = "dataOut"
        BY <2>8, <2>9, SituationToTarget
    <2>11. CASE IsCommand(x)
        <3>1. Unsent(x, imm)
            BY <2>8, <2>9, <2>11, TakesCommand
        <3>2. x.head.cmdSN = tExp
            BY <1>2, <2>1, <2>4, <2>11, NumberIs DEF Talk
        <3>3. CommandConforms(x.head)
            BY <1>1, <2>4, <2>6, <2>11, <3>1, <3>2, CommandAccepted
        <3> QED
            BY <1>1, <2>2, <2>11, <3>3 DEF Conforms, IsCommand
    <2>12. CASE x.head.op = "dataOut"
        <3>1. AfterDataOut(x, c, imm, seg, cm, tk, rt, R, Q)
            BY <2>8, <2>9, <2>12, TakesDataOut
        <3>2. PICK got, ttt, n, end :
                /\ tk = Task("write", got, Asked(ttt, n, end))
                /\ Expected(x, got, ttt, n, end, seg)
            BY <3>1 DEF AfterDataOut
        <3>3. tasks[x.head.cmd] = Task("write", got, Asked(ttt, n, end))
              /\ Expected(x, got, ttt, n, end, offer[MaxRecv])
            BY <2>3, <2>6, <2>8, <3>2
        <3>4. DataOutConforms(x.head)
            BY <3>3, DataOutAccepted
        <3> QED
            BY <1>1, <2>2, <2>12, <3>4 DEF Conforms
    <2> QED
        BY <2>10, <2>11, <2>12
<1> QED
    BY <1>4, <1>5 DEF Rejected, CommandsAccepted

\* The invariant with what acceptance depends on.
AcceptInv == ConnInv /\ BurstFits

LEMMA AcceptInit ==
    ASSUME PositiveLimits, BurstsFit, Init
    PROVE  AcceptInv
<1>1. ConnInv
    BY ConnInit
<1>2. BurstFits
    BY DEF Init, BurstsFit, BurstFits
<1> QED
    BY <1>1, <1>2 DEF AcceptInv

LEMMA AcceptStep ==
    ASSUME NoneIsNoData, NoneIsNoRecord, DeclaresLimit = TRUE, AcceptInv, [Next]_vars
    PROVE  AcceptInv'
BY ConnStep, BurstStep DEF AcceptInv

\* From the target's last response on nothing is on its way to it until the
\* initiator has read that response.
LEMMA QuietBefore ==
    ASSUME Before, Serves
    PROVE  ~Rejected
<1>1. toTarget = <<>>
    BY DEF Before, Serves, Started, FirstAsked, FirstAnswered, SecondAsked, Refused, SecondAnswered
<1> QED
    BY <1>1, TargetWaits DEF Rejected

LEMMA AllAccepted ==
    ASSUME NoneIsNoData, NoneIsNoRecord, Lun = 0, AcceptInv
    PROVE  CommandsAccepted
<1>1. CASE Served
    BY <1>1, ServedAccepted DEF AcceptInv
<1>2. CASE Unserved
    BY <1>2, QuietBefore DEF Unserved, CommandsAccepted
<1> QED
    BY <1>1, <1>2 DEF AcceptInv, ConnInv

(* A target that checks each PDU of the full feature phase against RFC 7143 *)
(* finds nothing to reject: the CmdSN of each command, the length of        *)
(* immediate data, and TTT, DataSN, offset, length, LUN and F bit of the    *)
(* Data-Outs that handle_r2t makes of a burst. If it includes the padding   *)
(* in its data digests, as the RFC has it, it rejects a padded segment      *)
(* under a data digest and nothing else.                                    *)
THEOREM NothingRejected ==
    ASSUME NoneIsNoData, NoneIsNoRecord, DeclaresLimit = TRUE, Lun = 0,
           PositiveLimits, BurstsFit
    PROVE  Spec => []CommandsAccepted
<1>1. Init => AcceptInv
    BY AcceptInit
<1>2. AcceptInv /\ [Next]_vars => AcceptInv'
    BY AcceptStep
<1>3. AcceptInv => CommandsAccepted
    BY AllAccepted
<1> QED
    BY <1>1, <1>2, <1>3, PTL DEF Spec
=============================================================================
