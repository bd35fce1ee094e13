----------------------------- MODULE Connection -----------------------------
(***************************************************************************)
(* One connection from its first login request to reads and writes in full *)
(* feature phase: what the two sides negotiate (login.rs), how PDUs lie on *)
(* the byte streams before and after the digests are switched on           *)
(* (transport.rs), and what is sent under the parameters that were agreed: *)
(* immediate data (pipeline.rs) and the Data-Outs that answer an R2T       *)
(* (session.rs).  How several tasks submit at a time is module Session;    *)
(* here a command is drawn, built and sent in one step.                    *)
(*                                                                         *)
(* The target is external: one with parameters of its own, that takes a    *)
(* command or a Data-Out only if it is as RFC 7143 wants it.  In the login *)
(* it may go on or refuse, whatever the requests are like: Rejected says   *)
(* where a strict one would refuse.                                        *)
(***************************************************************************)
EXTENDS Framing, Negotiation

CONSTANTS
    Cmd,             \* commands issued after the login
    Ops,             \* what they may be: a subset of {"read", "write"}
    OurOffers,       \* parameters the initiator may be configured with
    TheirOffers,     \* parameters the target may be configured with
    DefaultMaxRecv,  \* a target that declares no limit has this one (8192)
    DeclaresLimit,   \* the target declares MaxRecvDataSegmentLength
    MayContinue,     \* the target may answer without the T bit
    InitialStatSN,   \* its first StatSN
    PaddingInDigest, \* it includes the padding in data digests
    PayloadLen,      \* bytes of a read or write
    Lun              \* the logical unit

ASSUME ConnectionAssumption ==
    /\ Ops \subseteq {"read", "write"}
    /\ \A p \in OurOffers \cup TheirOffers : IsParams(p)
    /\ {DeclaresLimit, MayContinue, PaddingInDigest} \subseteq BOOLEAN
    /\ {DefaultMaxRecv, InitialStatSN, Lun} \subseteq Nat
    /\ PayloadLen \in Nat \ {0}

VARIABLES
    \* the initiator
    phase,        \* login_with_params and after
    params,       \* NegotiatedParams
    cmdSN, maxCmdSN, expStatSN,
    cmds,         \* [op, at, data] of each command
    r2t,          \* the R2T that handle_r2t is answering
    \* the connection
    toTarget, toInitiator,
    corrupted,    \* an element on its way to the initiator has been changed
    \* the target
    stage,        \* its side of the login
    offer,        \* its parameters
    tExp, tStat,  \* ExpCmdSN, next StatSN
    tasks         \* what it knows of each command

loginVars  == <<phase, params>>
numberVars == <<cmdSN, maxCmdSN, expStatSN>>
targetVars == <<stage, offer, tExp, tStat, tasks>>
vars == <<loginVars, numberVars, cmds, r2t, toTarget, toInitiator, corrupted, targetVars>>

FullFeature == phase = "fullFeature"

\* enable_digests is called on both halves when login_with_params has returned.
HeadDigest == FullFeature /\ params["HeaderDigest"]
DataDigest == FullFeature /\ params["DataDigest"]

Send(pdu) == toTarget' = toTarget \o Serialize(pdu, HeadDigest, DataDigest, FALSE)

\* A PDU is there for the initiator to read.
Arrived == Received(toInitiator, HeadDigest, DataDigest, FALSE) = "pdu"
Pdu     == Taken(toInitiator, HeadDigest)
Read    == toInitiator' = Rest(toInitiator, HeadDigest, DataDigest)

----------------------------------------------------------------------------
(* Login *)

LoginRequest(csg, sn, ack, text) ==
    [head |-> [op |-> "login", csg |-> csg, cmdSN |-> sn, ack |-> ack, len |-> 1],
     data |-> <<text>>]

SendSecurity ==
    /\ phase = "start"
    /\ Send(LoginRequest("security", 1, 0, "names"))
    /\ phase' = "security"
    /\ UNCHANGED <<params, numberVars, cmds, r2t, toInitiator, corrupted, targetVars>>

Accepted == Pdu.head.op = "loginResponse" /\ Pdu.head.status = 0

\* The stage that the response says it is in is not looked at.
SecurityDone ==
    /\ phase = "security" /\ Arrived /\ Accepted
    /\ Read
    /\ Send(LoginRequest("operational", 2, 1, Text(params)))
    /\ phase' = "operational"
    /\ UNCHANGED <<params, numberVars, cmds, r2t, corrupted, targetVars>>

OperationalDone ==
    /\ phase = "operational" /\ Arrived /\ Accepted
    /\ ~Unusable(Pdu.data[1])
    /\ Read
    /\ params' = Applied(params, Pdu.data[1])
    /\ cmdSN' = Pdu.head.exp /\ maxCmdSN' = Pdu.head.exp
    /\ expStatSN' = Pdu.head.statSN + 1
    /\ phase' = "fullFeature"
    /\ UNCHANGED <<cmds, r2t, toTarget, corrupted, targetVars>>

\* Fault: the end of the stream is waited out.
LoginRefused ==
    /\ phase \in {"security", "operational"}
    /\ Arrived /\ Read /\ (Accepted => phase = "operational" /\ Unusable(Pdu.data[1]))
    /\ phase' = "failed"
    /\ UNCHANGED <<params, numberVars, cmds, r2t, toTarget, corrupted, targetVars>>

\* Any other response, a text that cannot be used, or the end of the stream.
LoginFails ==
    /\ phase \in {"security", "operational"}
    /\ \/ Arrived /\ Read /\ (Accepted => phase = "operational" /\ Unusable(Pdu.data[1]))
       \/ toInitiator = <<>> /\ stage = "closed" /\ UNCHANGED toInitiator
    /\ phase' = "failed"
    /\ UNCHANGED <<params, numberVars, cmds, r2t, toTarget, corrupted, targetVars>>

----------------------------------------------------------------------------
(* Commands: submit_command and the tasks of the pipeline *)

Payload(c) == [i \in 1 .. PayloadLen |-> <<c, i>>]

\* scsi_write_single_inner: as much of the payload as the first burst takes.
ImmediatePart(c) ==
    LET len == Lesser(PayloadLen, params["FirstBurstLength"]) IN
    IF params["ImmediateData"] /\ len > 0 THEN SubSeq(Payload(c), 1, len) ELSE None

SegmentLen(data) == IF data = None THEN 0 ELSE Len(data)

Submit(c) ==
    /\ FullFeature /\ cmds[c].at = "idle" /\ cmdSN <= maxCmdSN
    /\ \E op \in Ops :
          LET data == IF op = "write" THEN ImmediatePart(c) ELSE None IN
          /\ Send([head |-> [op |-> op, cmd |-> c, lun |-> Lun, cmdSN |-> cmdSN,
                             ack |-> expStatSN, len |-> SegmentLen(data)],
                   data |-> data])
          /\ cmds' = [cmds EXCEPT ![c] = [op |-> op, at |-> "sent", data |-> <<>>]]
    /\ cmdSN' = cmdSN + 1
    /\ UNCHANGED <<loginVars, maxCmdSN, expStatSN, r2t, toInitiator, corrupted, targetVars>>

----------------------------------------------------------------------------
(* The receiver task *)

\* Fault: the status number itself is acknowledged.
UpdateNumbersStale == expStatSN' = Pdu.head.statSN /\ maxCmdSN' = Pdu.head.max

\* update_sequence_numbers: from every PDU, whether its StatSN counts or not.
UpdateNumbers == expStatSN' = Pdu.head.statSN + 1 /\ maxCmdSN' = Pdu.head.max

Receives(op) ==
    /\ FullFeature /\ r2t = None /\ Arrived /\ Pdu.head.op = op
    /\ Read /\ UpdateNumbers
    /\ UNCHANGED <<loginVars, cmdSN, toTarget, corrupted, targetVars>>

Ends(c, ok, data) ==
    cmds' = [cmds EXCEPT ![c].at = IF ok THEN "ok" ELSE "failed", ![c].data = data]

HandleScsiResponse ==
    /\ Receives("response")
    /\ Ends(Pdu.head.cmd, Pdu.head.good,
            IF Pdu.data = None THEN cmds[Pdu.head.cmd].data ELSE Pdu.data)
    /\ UNCHANGED r2t

\* What has been gathered, grown with zeros if need be, and overwritten from
\* the PDU's offset on.
Gathered(old, offset, new) ==
    [i \in 1 .. Greater(Len(old), offset + Len(new)) |->
        IF i > offset /\ i <= offset + Len(new) THEN new[i - offset]
        ELSE IF i <= Len(old) THEN old[i] ELSE 0]

HandleDataIn ==
    /\ Receives("dataIn")
    /\ LET c == Pdu.head.cmd
           data == Gathered(cmds[c].data, Pdu.head.offset, Pdu.data)
       IN  IF Pdu.head.status THEN Ends(c, TRUE, data)
           ELSE cmds' = [cmds EXCEPT ![c].data = data]
    /\ UNCHANGED r2t

HandleR2t ==
    /\ Receives("r2t")
    /\ r2t' = [cmd |-> Pdu.head.cmd, ttt |-> Pdu.head.ttt, offset |-> Pdu.head.offset,
               desired |-> Pdu.head.desired, sent |-> 0, dataSN |-> 0, ack |-> expStatSN']
    /\ UNCHANGED cmds

\* Fault: every Data-Out of the sequence starts at the offset of the R2T.
OffsetOfR2t == r2t.offset

Offset == r2t.offset + r2t.sent

\* The target's limit, or else our own, or else 262144.
MaxSegment ==
    IF params[MaxSend] > 0 THEN params[MaxSend]
    ELSE IF params[MaxRecv] > 0 THEN params[MaxRecv] ELSE 262144

\* One Data-Out of the sequence that an R2T asks for.  Its LUN is always 0.
SendDataOut ==
    /\ FullFeature /\ r2t # None
    /\ LET len   == Lesser(r2t.desired - r2t.sent, MaxSegment)
           data  == SubSeq(Payload(r2t.cmd), Offset + 1, Lesser(Offset + len, PayloadLen))
           final == r2t.sent + len >= r2t.desired
       IN  /\ Send([head |-> [op |-> "dataOut", cmd |-> r2t.cmd, lun |-> 0, ttt |-> r2t.ttt,
                              offset |-> Offset, dataSN |-> r2t.dataSN, ack |-> r2t.ack,
                              final |-> final, len |-> Len(data)],
                    data |-> data])
           /\ r2t' = IF final THEN None
                     ELSE [r2t EXCEPT !.sent = @ + len, !.dataSN = @ + 1]
    /\ UNCHANGED <<loginVars, numberVars, cmds, toInitiator, corrupted, targetVars>>

\* A digest error ends the receiver task.
ReceiverEnds ==
    /\ FullFeature /\ r2t = None
    /\ Received(toInitiator, HeadDigest, DataDigest, FALSE) = "error"
    /\ phase' = "lost"
    /\ UNCHANGED <<params, numberVars, cmds, r2t, toTarget, toInitiator, corrupted, targetVars>>

----------------------------------------------------------------------------
(* External: the target *)

TheirHeadDigest == stage = "fullFeature" /\ offer["HeaderDigest"]
TheirDataDigest == stage = "fullFeature" /\ offer["DataDigest"]

TheyReceive == Received(toTarget, TheirHeadDigest, TheirDataDigest, PaddingInDigest)
Request     == Taken(toTarget, TheirHeadDigest)
TheyRead    == toTarget' = Rest(toTarget, TheirHeadDigest, TheirDataDigest)

Answer(pdu) ==
    toInitiator' = toInitiator
        \o Serialize(pdu, TheirHeadDigest, TheirDataDigest, PaddingInDigest)

LoginResponse(status, exp, data) ==
    [head |-> [op |-> "loginResponse", status |-> status, statSN |-> tStat, exp |-> exp,
               len |-> SegmentLen(data)],
     data |-> data]

LoginArrived(csg) ==
    /\ stage \in {"security", "operational"}
    /\ TheyReceive = "pdu" /\ Request.head.csg = csg

TargetSecurity ==
    /\ LoginArrived("security") /\ stage = "security" /\ TheyRead
    /\ \/ /\ Answer(LoginResponse(0, Request.head.cmdSN, None))
          /\ stage' \in {"operational"} \cup (IF MayContinue THEN {"security"} ELSE {})
       \/ /\ Answer(LoginResponse(2, Request.head.cmdSN, None))
          /\ stage' = "closed"
    /\ tExp' = Request.head.cmdSN
    /\ tStat' = tStat + 1
    /\ UNCHANGED <<loginVars, numberVars, cmds, r2t, corrupted, offer, tasks>>

\* The initiator's value, as its text says.
Ours(k) ==
    LET v == Request.data[1][k] IN
    IF k \in Digests THEN v = "CRC32C" ELSE IF k \in Flags THEN v = "Yes" ELSE v

\* A minimum may be left to the initiator.
AnswerTo(k, own) ==
    IF k = MaxRecv THEN offer[k]
    ELSE IF k \in Digests /\ Ours(k) /\ ~offer[k] THEN Reject
    ELSE IF k \in Minima /\ own THEN offer[k]
    ELSE Value(k, Agreed(k, Ours(k), offer[k]))

TheirLimit == IF DeclaresLimit THEN offer[MaxRecv] ELSE DefaultMaxRecv

TargetOperational ==
    /\ LoginArrived("operational") /\ stage = "operational" /\ TheyRead
    /\ \/ \E own \in BOOLEAN, exp \in 1 .. 2 :
             LET answered == Keys \ (IF DeclaresLimit THEN {} ELSE {MaxRecv}) IN
             /\ Answer(LoginResponse(0, exp, <<[k \in answered |-> AnswerTo(k, own)]>>))
             /\ offer' = [k \in Keys \cup {MaxSend} |->
                    IF k = MaxRecv THEN TheirLimit
                    ELSE IF k = MaxSend THEN Ours(MaxRecv)
                    ELSE Agreed(k, Ours(k), offer[k])]
             /\ tExp' = exp
             /\ stage' = "fullFeature"
       \/ /\ Answer(LoginResponse(2, Request.head.cmdSN, None))
          /\ stage' = "closed"
          /\ UNCHANGED <<offer, tExp>>
    /\ tStat' = tStat + 1
    /\ UNCHANGED <<loginVars, numberVars, cmds, r2t, corrupted, tasks>>

TargetCloses ==
    /\ stage \in {"security", "operational"}
    /\ stage' = "closed"
    /\ UNCHANGED <<loginVars, numberVars, cmds, r2t, toTarget, toInitiator, corrupted,
                   offer, tExp, tStat, tasks>>

Serves == stage = "fullFeature"

\* What RFC 7143 lets a target accept.  All requests of a login have the CmdSN
\* of the first (and its ITT, which changes like the CmdSN and is not modelled).
LoginConforms(h) ==
    h.csg = stage /\ (h.csg = "operational" => h.ack = tStat /\ h.cmdSN = tExp)

CommandConforms(h) ==
    /\ h.cmdSN = tExp /\ h.lun = Lun
    /\ h.len <= Lesser(offer["FirstBurstLength"], offer[MaxRecv])
    /\ h.len > 0 => h.op = "write" /\ offer["ImmediateData"]

DataOutConforms(h) ==
    LET task == tasks[h.cmd] IN
    /\ task # None /\ task.asked # None
    /\ h.ttt = task.asked.ttt /\ h.lun = Lun
    /\ h.offset = Len(task.got) /\ h.dataSN = task.asked.dataSN
    /\ h.len <= offer[MaxRecv]
    /\ h.offset + h.len <= task.asked.end
    /\ h.final <=> h.offset + h.len = task.asked.end

Conforms(h) ==
    IF h.op = "login" THEN LoginConforms(h)
    ELSE Serves /\ (IF h.op = "dataOut" THEN DataOutConforms(h) ELSE CommandConforms(h))

\* A target that checks each PDU rejects what has arrived.
Rejected ==
    /\ stage # "closed"
    /\ TheyReceive = "error" \/ (TheyReceive = "pdu" /\ ~Conforms(Request.head))

\* The two sides digest different bytes: the target includes the padding, and
\* there is some.
DigestsDiffer(h) == TheirDataDigest /\ PaddingInDigest /\ Padded(h.len) # h.len

SegmentOf(pdu) == IF pdu.data = None THEN <<>> ELSE pdu.data

\* What it expects of the sequence after a Data-Out.
Following(asked) == [asked EXCEPT !.dataSN = @ + 1]

TargetTakes ==
    /\ Serves /\ TheyReceive = "pdu" /\ Conforms(Request.head)
    /\ LET h == Request.head IN
       IF h.op = "dataOut"
       THEN /\ tasks' = [tasks EXCEPT
                   ![h.cmd].got = @ \o SegmentOf(Request),
                   ![h.cmd].asked = IF h.final THEN None ELSE Following(@)]
            /\ UNCHANGED tExp
       ELSE /\ tasks' = [tasks EXCEPT ![h.cmd] =
                   [op |-> h.op, got |-> SegmentOf(Request), asked |-> None]]
            /\ tExp' = tExp + 1
    /\ TheyRead
    /\ UNCHANGED <<loginVars, numberVars, cmds, r2t, toInitiator, corrupted,
                   stage, offer, tStat>>

Idle(c) == Serves /\ tasks[c] # None /\ tasks[c].op # "done" /\ tasks[c].asked = None

keptVars == <<stage, offer, tExp>>

\* One burst at a time.  An R2T names the next StatSN and does not use it up.
TargetAsks(c) ==
    /\ Idle(c) /\ tasks[c].op = "write"
    /\ LET got == Len(tasks[c].got) IN
       \E end \in got + 1 .. Lesser(PayloadLen, got + offer["MaxBurstLength"]) :
          /\ Answer([head |-> [op |-> "r2t", cmd |-> c, ttt |-> got, offset |-> got,
                               desired |-> end - got, statSN |-> tStat, max |-> tExp + 1,
                               len |-> 0],
                     data |-> None])
          /\ tasks' = [tasks EXCEPT ![c].asked = [ttt |-> got, dataSN |-> 0, end |-> end]]
    /\ UNCHANGED <<loginVars, numberVars, cmds, r2t, toTarget, corrupted,
                   keptVars, tStat>>

\* The StatSN of a Data-In without status is reserved.
TargetSendsData(c) ==
    /\ Idle(c) /\ tasks[c].op = "read"
    /\ LET sent == Len(tasks[c].got)
           len  == Lesser(PayloadLen - sent, offer[MaxSend])
           last == sent + len = PayloadLen
           data == SubSeq(Payload(c), sent + 1, sent + len)
       IN  /\ Answer([head |-> [op |-> "dataIn", cmd |-> c, status |-> last, offset |-> sent,
                                statSN |-> IF last THEN tStat ELSE 0, max |-> tExp + 1,
                                len |-> len],
                      data |-> data])
           /\ tasks' = [tasks EXCEPT ![c].got = @ \o data,
                                     ![c].op = IF last THEN "done" ELSE "read"]
           /\ tStat' = tStat + (IF last THEN 1 ELSE 0)
    /\ UNCHANGED <<loginVars, numberVars, cmds, r2t, toTarget, corrupted,
                   keptVars>>

TargetResponds(c) ==
    /\ Idle(c)
    /\ \E good \in BOOLEAN :
          /\ good => tasks[c].op = "write" /\ Len(tasks[c].got) = PayloadLen
          /\ LET sense == IF good THEN None ELSE <<"sense">> IN
             Answer([head |-> [op |-> "response", cmd |-> c, good |-> good, statSN |-> tStat,
                               max |-> tExp + 1, len |-> SegmentLen(sense)],
                     data |-> sense])
    /\ tasks' = [tasks EXCEPT ![c].op = "done"]
    /\ tStat' = tStat + 1
    /\ UNCHANGED <<loginVars, numberVars, cmds, r2t, toTarget, corrupted,
                   keptVars>>

\* One element that a digest covers is changed on the way: a header names
\* another command, or a byte is another.
Changed(e) ==
    IF e[1] = "head" THEN {Bhs([e[2] EXCEPT !.cmd = c]) : c \in Cmd} \ {e}
    ELSE {Byte("noise")}

Corruption ==
    /\ FullFeature /\ stage = "fullFeature" /\ ~corrupted
    /\ \E i \in DOMAIN toInitiator :
          /\ \/ offer["HeaderDigest"] /\ toInitiator[i][1] = "head"
             \/ offer["DataDigest"] /\ toInitiator[i][1] = "byte"
          /\ \E e \in Changed(toInitiator[i]) : toInitiator' = [toInitiator EXCEPT ![i] = e]
    /\ corrupted' = TRUE
    /\ UNCHANGED <<loginVars, numberVars, cmds, r2t, toTarget, targetVars>>

----------------------------------------------------------------------------

Init ==
    /\ phase = "start" /\ params \in OurOffers
    /\ cmdSN = 0 /\ maxCmdSN = 0 /\ expStatSN = 0
    /\ cmds = [c \in Cmd |-> [op |-> "none", at |-> "idle", data |-> <<>>]]
    /\ r2t = None
    /\ toTarget = <<>> /\ toInitiator = <<>> /\ corrupted = FALSE
    /\ stage = "security" /\ offer \in TheirOffers
    /\ tExp = 0 /\ tStat = InitialStatSN
    /\ tasks = [c \in Cmd |-> None]

Login    == SendSecurity \/ SecurityDone \/ OperationalDone \/ LoginFails
Receiver == HandleScsiResponse \/ HandleDataIn \/ HandleR2t \/ SendDataOut \/ ReceiverEnds
TargetLogin == TargetSecurity \/ TargetOperational \/ TargetCloses
Target ==
    \/ TargetLogin \/ TargetTakes
    \/ \E c \in Cmd : TargetAsks(c) \/ TargetSendsData(c) \/ TargetResponds(c)

Next ==
    \/ Login \/ Receiver \/ Target \/ Corruption
    \/ \E c \in Cmd : Submit(c)

\* The task that logs in is polled.  The target answers or closes.
Fairness == WF_vars(Login) /\ WF_vars(TargetLogin)

Spec == Init /\ [][Next]_vars /\ Fairness

----------------------------------------------------------------------------
(* Properties *)

\* After the login both sides go by the same parameters, whichever values they
\* came with and whether the target answers with results or with values of its
\* own: and, or, minimum, list, declaration, each for its key.
ParametersAgree ==
    FullFeature =>
        /\ params[MaxSend] = offer[MaxRecv]
        /\ params[MaxRecv] = offer[MaxSend]
        /\ \A k \in Keys \ {MaxRecv} : params[k] = offer[k]

\* After the login a target that checks every PDU finds nothing to reject, for
\* LUN 0: the CmdSN, the amount of immediate data, the offset, DataSN, F bit and
\* length of each Data-Out, and the place where every PDU ends on the stream.
\* The exception is a digest it computes as RFC 7143 has it, over the padding,
\* of a segment that is padded: data_digest leaves the padding out.
CommandsAccepted ==
    (Serves /\ Rejected) => TheyReceive = "error" /\ DigestsDiffer(Request.head)

\* The same of the login is not so: operational_phase draws a new CmdSN, and a
\* response without the T bit, or a first StatSN other than 0, is answered with
\* the request for the next stage and ExpStatSN 1 all the same.
LoginConformant == Rejected => Serves

\* What is acknowledged to a caller is what was sent, also when a covered
\* element was changed on the way: a write has arrived whole and in order, a
\* read has the target's bytes, sense data is the target's.
DataIntact ==
    \A c \in Cmd :
        /\ cmds[c].at = "ok" =>
              IF cmds[c].op = "read" THEN cmds[c].data = Payload(c)
              ELSE tasks[c] # None /\ tasks[c].got = Payload(c)
        /\ cmds[c].at = "failed" => cmds[c].data = <<"sense">>

\* When all is answered, ExpStatSN is the target's next StatSN, though every
\* R2T and every Data-In without status put a wrong number there on the way.
QuietAckExact ==
    (/\ FullFeature /\ Serves
     /\ toInitiator = <<>> /\ toTarget = <<>> /\ r2t = None
     /\ \A c \in Cmd : cmds[c].at # "sent") => expStatSN = tStat

\* No data segment is longer than what the target has declared to receive.
SendLimitRespected ==
    \A i \in DOMAIN toTarget :
        (FullFeature /\ toTarget[i][1] = "head") => toTarget[i][2].len <= params[MaxSend]

\* A login ends, in full feature phase or with an error, if the target answers
\* or closes the connection.
LoginEnds == (phase = "start") ~> (phase \notin {"start", "security", "operational"})
=============================================================================
