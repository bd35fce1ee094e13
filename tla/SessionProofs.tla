--------------------------- MODULE SessionProofs ---------------------------
(***************************************************************************)
(* Type correctness, slot ownership and response routing of Session, for   *)
(* any number of commands, slots and segments and any target and schedule. *)
(***************************************************************************)
EXTENDS Session, FiniteSetTheorems, SequenceTheorems, WellFoundedInduction,
        TLAPS

----------------------------------------------------------------------------
(* Inductive invariants.  Ownership is behind SlotHeld and OwnResponse,    *)
(* Delivery behind ReadDataExact and the refinement, Payloads behind       *)
(* OwnPayload, Windowing behind CmdSNAccounted and WindowOverrunBounded.  A *)
(* command that holds a slot is traced along its way: the submitting task, *)
(* the target, the one answer in the connection, the receiver.             *)

PreSend == {"idle", "loadCmdSN", "window", "allocLo", "allocHi", "store",
            "stamp", "send", "error"}

\* A PDU about c carries the ITT c was sent with, and the target has c.
Consistent(p) ==
    p.op # "nopIn" =>
        /\ p.cmd \in Cmd
        /\ p.itt = itt[p.cmd]
        /\ p.op \in {"dataIn", "dataInStatus"} => p.seg \in Segments
        /\ tgt[p.cmd] \notin {"none", "sent", "ignored"}
        /\ IsAnswer(p) => tgt[p.cmd] \in {"good", "check"}

WireInv == \A k \in 1 .. Len(toInitiator) : Consistent(toInitiator[k])

\* The receiver handles a PDU of the kind its place in the code is for.
ReceiverInv ==
    /\ rpc \in {"response", "dataIn", "dataInStatus", "r2t", "nopIn", "free",
                "unregister"} => pdu \in Pdu /\ Consistent(pdu)
    /\ rpc \in {"response", "dataIn", "dataInStatus", "r2t", "nopIn"} =>
          pdu.op = rpc
    /\ rpc = "free" => IsAnswer(pdu)
    /\ rpc = "unregister" => pdu.op = "response"

\* A command has one answer at most, in the connection or with the receiver.
OneAnswer ==
    /\ \A k, l \in 1 .. Len(toInitiator) :
          (/\ IsAnswer(toInitiator[k]) /\ IsAnswer(toInitiator[l])
           /\ toInitiator[k].cmd = toInitiator[l].cmd) => k = l
    /\ rpc \in {"response", "dataInStatus", "free"} =>
          \A k \in 1 .. Len(toInitiator) :
              IsAnswer(toInitiator[k]) => toInitiator[k].cmd # pdu.cmd

\* The target knows nothing of a command that has not been sent.
UnsentUnknown == \A c \in Cmd : pc[c] \in PreSend => tgt[c] = "none"

\* The sender stored under the ITT of a command is that command's, from the
\* moment it is stored to the moment the receiver takes it.
SenderStored ==
    \A c \in Cmd :
        (Holding(c) /\ pc[c] # "store" /\ ~(rpc = "free" /\ pdu.cmd = c)) =>
            completions[itt[c]] = c

\* The conjunction is inductive: SlotHeld alone is not, for the receiver frees
\* whatever slot the PDU names, and completes whoever's sender lies there.
Ownership ==
    /\ TypeOK
    /\ WireInv
    /\ ReceiverInv
    /\ OneAnswer
    /\ UnsentUnknown
    /\ SlotHeld
    /\ SenderStored
    /\ OwnResponse

----------------------------------------------------------------------------
(* Read data *)

CarriesData(p) == p.op \in {"dataIn", "dataInStatus"}

\* The target has taken c, and c's answer has not been completed: what lies in
\* the accumulator under c's ITT is c's.
Gathering(c) ==
    \/ tgt[c] \in {"accepted", "asked", "served"}
    \/ \E k \in 1 .. Len(toInitiator) : IsAnswer(toInitiator[k]) /\ toInitiator[k].cmd = c
    \/ rpc \in {"response", "dataInStatus"} /\ pdu.cmd = c

\* Segment s of c has been received, or is on its way.
Delivered(c, s) ==
    \/ <<c, s>> \in accumulator[itt[c]]
    \/ \E k \in 1 .. Len(toInitiator) :
          CarriesData(toInitiator[k]) /\ toInitiator[k].cmd = c /\ toInitiator[k].seg = s
    \/ rpc \in {"dataIn", "dataInStatus"} /\ pdu.cmd = c /\ pdu.seg = s

\* A PDU brings data of a read still being gathered, or the answer the target
\* gave; GOOD ends a read when all its segments have been sent.
Truthful(p) ==
    /\ CarriesData(p) =>
          kind[p.cmd] = "read" /\ p.seg \in 1 .. segs[p.cmd] /\ Gathering(p.cmd)
    /\ IsAnswer(p) =>
          /\ p.status = tgt[p.cmd]
          /\ (p.status = "good" /\ kind[p.cmd] = "read") => segs[p.cmd] = DataIns

PdusTruthful ==
    /\ \A k \in 1 .. Len(toInitiator) : Truthful(toInitiator[k])
    /\ rpc \in {"response", "dataIn", "dataInStatus"} => Truthful(pdu)

\* No data comes behind the answer.
DataBeforeAnswer ==
    /\ \A k, l \in 1 .. Len(toInitiator) :
          (/\ IsAnswer(toInitiator[k]) /\ CarriesData(toInitiator[l])
           /\ toInitiator[k].cmd = toInitiator[l].cmd) => l <= k
    /\ rpc \in {"response", "dataInStatus"} =>
          \A k \in 1 .. Len(toInitiator) :
              CarriesData(toInitiator[k]) => toInitiator[k].cmd # pdu.cmd

\* Data-In is sent for reads, R2Ts for writes.
SegmentsOfReads ==
    \A c \in Cmd :
        /\ segs[c] > 0 => kind[c] = "read" /\ tgt[c] \in {"accepted", "good", "check"}
        /\ tgt[c] \in {"asked", "served"} => kind[c] = "writeR2t"

AccumulatorOwned ==
    \A i \in Itts : \A x \in accumulator[i] :
        x[1] \in Cmd /\ itt[x[1]] = i /\ Gathering(x[1]) /\ x[2] \in 1 .. segs[x[1]]

NothingLost == \A c \in Cmd : Gathering(c) => \A s \in 1 .. segs[c] : Delivered(c, s)

DataFor(c) == IF kind[c] = "read" THEN {c} \X Segments ELSE {}

\* What a task has been given, and what it made of it.
Informed ==
    \A c \in Cmd :
        /\ mailbox[c] # None =>
              /\ mailbox[c].status = tgt[c]
              /\ mailbox[c].status = "good" => mailbox[c].data = DataFor(c)
        /\ pc[c] = "ok" => mailbox[c] # None /\ mailbox[c].status = "good"
        /\ pc[c] = "failed" => mailbox[c] # None /\ mailbox[c].status = "check"

\* ReadDataExact speaks of a task that has ended.  That its data is whole
\* and nobody else's depends on every segment's way from the target to the
\* accumulator, and on the answer coming last.
Delivery ==
    /\ PdusTruthful
    /\ DataBeforeAnswer
    /\ SegmentsOfReads
    /\ AccumulatorOwned
    /\ NothingLost
    /\ Informed

----------------------------------------------------------------------------
(* Write data *)

\* A payload lies under the ITT of its write.  One that an R2T can ask for lies
\* there as long as the write holds the slot, and then until the receiver comes
\* to remove it; one that went with its command may stay behind.
PayloadsHeld ==
    \A i \in Itts : \A c \in Cmd : writeData[i] = c =>
        /\ itt[c] = i /\ pc[c] \notin PreSend \cup {"register"}
        /\ ReachesRange(c) => Holding(c) \/ (rpc = "unregister" /\ pdu.cmd = c)

\* A write whose data is asked for is not answered before its payload has been
\* registered and sent.
RegisterBeforeAnswer ==
    \A c \in Cmd : pc[c] = "register" /\ ReachesRange(c) =>
        tgt[c] \in {"sent", "ignored", "accepted", "asked"}

\* An R2T is sent once, and the target waits for what it asks.
OneR2t ==
    /\ \A k, l \in 1 .. Len(toInitiator) :
          (/\ toInitiator[k].op = "r2t" /\ toInitiator[l].op = "r2t"
           /\ toInitiator[k].cmd = toInitiator[l].cmd) => k = l
    /\ \A k \in 1 .. Len(toInitiator) :
          toInitiator[k].op = "r2t" => tgt[toInitiator[k].cmd] = "asked"
    /\ rpc = "r2t" =>
          /\ tgt[pdu.cmd] = "asked"
          /\ \A k \in 1 .. Len(toInitiator) :
                toInitiator[k].op = "r2t" => toInitiator[k].cmd # pdu.cmd

\* Only reads are answered by a Data-In, which leaves no payload to remove.
StatusOfReads ==
    (rpc = "free" /\ pdu.op = "dataInStatus") => kind[pdu.cmd] = "read"

\* Inductive, with Delivery, when the target answers CHECK CONDITION to no
\* write it has not had the data of: such a write can be over before its
\* payload is registered, which then nothing removes.
Payloads ==
    /\ PayloadsHeld
    /\ RegisterBeforeAnswer
    /\ OneR2t
    /\ StatusOfReads
    /\ OwnPayload

----------------------------------------------------------------------------
(* The window the target offers never shrinks, and reaches the initiator in *)
(* the order in which it was offered.                                       *)
WindowGrows ==
    /\ InitialCmdSN <= maxCmdSN /\ maxCmdSN <= tgtMax
    /\ tgtMax <= tgtExp + Depth - 1
    /\ \A k \in 1 .. Len(toInitiator) :
          maxCmdSN <= toInitiator[k].max /\ toInitiator[k].max <= tgtMax
    /\ \A k, l \in 1 .. Len(toInitiator) :
          k <= l => toInitiator[k].max <= toInitiator[l].max

\* What a task compares with the window is a value cmd_sn had.
SeenBehind == \A c \in Cmd : pc[c] = "window" => seen[c] <= cmdSN

\* Tasks that have not drawn their CmdSN yet and have passed the test of the
\* window, or would pass it with what they have loaded were MaxCmdSN m.
Cleared(m) ==
    {c \in Cmd : \/ pc[c] \in {"allocLo", "allocHi", "store", "stamp"}
                 \/ pc[c] = "window" /\ seen[c] <= m}

\* Once all of them have drawn one, cmd_sn is still bounded, and this remains
\* so if the window opens to any m and lets more of the waiting tasks pass.
Overrun ==
    \A m \in Nat : maxCmdSN <= m =>
        cmdSN + Cardinality(Cleared(m)) <= m + Submitters + logouts

\* WindowOverrunBounded alone says nothing of the tasks that have passed the
\* test already, and CmdSNAccounted is what keeps the comparison of the
\* wrapped counters a comparison of the counters.
Windowing ==
    /\ TypeOK
    /\ CmdSNAccounted
    /\ WindowGrows
    /\ SeenBehind
    /\ Cardinality(Submitting) <= Submitters
    /\ Overrun

----------------------------------------------------------------------------

USE SessionAssumption, HalfRangeAssumption

(* A word of the bitmap that is not full has a lowest clear bit: alloc's      *)
(* trailing_zeros finds one, and it is clear.                                 *)
LEMMA LowestFreeExists ==
    ASSUME NEW word \in SUBSET Nat, \E i \in word : slots[i] = None
    PROVE  LowestFree(word) \in word /\ slots[LowestFree(word)] = None
<1> DEFINE F == {i \in word : slots[i] = None}
<1> DEFINE Less == OpToRel(<, Nat)
<1>1. F # {} /\ F \subseteq Nat
    OBVIOUS
<1>2. PICK x \in F : \A y \in F : ~(<<y, x>> \in Less)
    BY <1>1, NatLessThanWellFounded, WFMin
<1>3. ASSUME NEW y \in F, y < x PROVE FALSE
    <2>1. <<y, x>> \in Less
        BY <1>1, <1>3 DEF OpToRel
    <2> QED BY <1>2, <2>1
<1>4. \A y \in F : x <= y
    BY <1>1, <1>3
<1> QED
    BY <1>4 DEF LowestFree

(* A PDU the target appends keeps the queue a sequence of PDUs and leaves the *)
(* ones before it alone.                                                      *)
LEMMA SendsProperties ==
    ASSUME TypeOK, NEW op \in {"response", "dataIn", "dataInStatus", "r2t", "nopIn"},
           NEW c \in Cmd \cup {None}, NEW seg \in 0 .. DataIns,
           NEW status \in {"good", "check"}, TargetSends(op, c, seg, status)
    PROVE  /\ tgtMax' \in Nat
           /\ toInitiator' \in Seq(Pdu)
           /\ Len(toInitiator) \in Nat
           /\ Len(toInitiator') = Len(toInitiator) + 1
           /\ \A k \in 1 .. Len(toInitiator) : toInitiator'[k] = toInitiator[k]
           /\ \E p \in Pdu :
                 /\ toInitiator'[Len(toInitiator) + 1] = p
                 /\ p.op = op /\ p.cmd = c /\ p.seg = seg /\ p.status = status
                 /\ c # None => p.itt = itt[c]
<1> DEFINE p == [op |-> op, cmd |-> c, seg |-> seg, status |-> status,
                 itt |-> IF c = None THEN 0 ELSE itt[c], max |-> tgtMax']
<1>1. tgtMax' \in Nat
    BY DEF TypeOK, TargetSends
<1>2. 0 \in Itts
    BY DEF Itts
<1>3. p \in Pdu
    BY <1>1, <1>2 DEF TypeOK, Pdu
<1>4. toInitiator \in Seq(Pdu) /\ toInitiator' = Append(toInitiator, p)
    BY DEF TypeOK, TargetSends
<1>5. Len(toInitiator) \in Nat
    BY <1>4, LenProperties
<1> HIDE DEF p
<1>6. /\ toInitiator' \in Seq(Pdu)
      /\ Len(toInitiator') = Len(toInitiator) + 1
      /\ \A k \in 1 .. Len(toInitiator) : toInitiator'[k] = toInitiator[k]
      /\ toInitiator'[Len(toInitiator) + 1] = p
    BY <1>3, <1>4, AppendProperties
<1> QED BY <1>1, <1>3, <1>5, <1>6 DEF p

(* A PDU the receiver takes from the queue was the first; the rest moves up.  *)
LEMMA ReceiveProperties ==
    ASSUME TypeOK, Receive
    PROVE  /\ pdu' \in Pdu
           /\ pdu' = toInitiator[1]
           /\ toInitiator' \in Seq(Pdu)
           /\ Len(toInitiator) \in Nat \ {0}
           /\ Len(toInitiator') = Len(toInitiator) - 1
           /\ \A k \in 1 .. Len(toInitiator') : toInitiator'[k] = toInitiator[k + 1]
<1>1. toInitiator \in Seq(Pdu) /\ toInitiator # <<>>
    BY DEF TypeOK, Receive
<1>2. pdu' = Head(toInitiator) /\ toInitiator' = Tail(toInitiator)
    BY DEF Receive
<1>3. Len(toInitiator) \in Nat \ {0}
    BY <1>1, EmptySeq
<1> QED BY <1>1, <1>2, <1>3, HeadTailProperties

LEMMA TypeInit == Init => TypeOK
<1> SUFFICES ASSUME Init PROVE TypeOK
    OBVIOUS
<1>1. 0 \in Itts
    BY DEF Itts
<1>2. <<>> \in Seq(Pdu)
    BY EmptySeq
<1> QED BY <1>1, <1>2 DEF Init, TypeOK, PcValues, TgtValues, Data

(* Steps of the submitting tasks preserve the types. *)
LEMMA TypeTasks ==
    ASSUME TypeOK, NEW c \in Cmd, Start(c) \/ Submit(c) \/ Await(c)
    PROVE  TypeOK'
<1>1. CASE Start(c)
    BY <1>1 DEF TypeOK, Start, Go, poolVars, stateVars, recvVars, boundVars,
                targetVars, PcValues
<1>2. CASE LoadCmdSN(c)
    BY <1>2 DEF TypeOK, LoadCmdSN, Go, poolVars, stateVars, recvVars, boundVars,
                targetVars, PcValues
<1>3. ASSUME NEW here, NEW there \in PcValues, OnlyGo(c, here, there)
      PROVE  TypeOK'
    BY <1>3 DEF TypeOK, OnlyGo, Go, poolVars, stateVars, recvVars, boundVars,
                targetVars, localVars
<1>4. CASE \/ WindowOpen(c) \/ WindowClosed(c) \/ LoFull(c) \/ HiFull(c)
           \/ SendFails(c) \/ TakeResponse(c) \/ TimeOut(c)
    BY <1>3, <1>4 DEF WindowOpen, WindowClosed, LoFull, HiFull, SendFails,
                      TakeResponse, TimeOut, PcValues, Terminal
<1>5. ASSUME NEW here, NEW word \in SUBSET Itts, Alloc(c, here, word)
      PROVE  TypeOK'
    <2>1. word \in SUBSET Nat /\ \E i \in word : slots[i] = None
        BY <1>5 DEF Alloc, Itts
    <2>2. LowestFree(word) \in word
        BY <2>1, LowestFreeExists
    <2> QED
        BY <1>5, <2>2 DEF TypeOK, Alloc, Go, poolVars, stateVars, recvVars,
                          boundVars, targetVars, PcValues
<1>6. CASE AllocLo(c) \/ AllocHi(c)
    <2>1. LoItts \in SUBSET Itts /\ HiItts \in SUBSET Itts
        BY DEF Itts, LoItts, HiItts
    <2> QED BY <1>5, <1>6, <2>1 DEF AllocLo, AllocHi
<1>7. CASE StoreSender(c)
    BY <1>7 DEF TypeOK, StoreSender, Go, poolVars, stateVars, recvVars,
                boundVars, targetVars, PcValues
<1>8. CASE Stamp(c)
    BY <1>8 DEF TypeOK, Stamp, Go, poolVars, stateVars, recvVars, boundVars,
                targetVars, PcValues
<1>9. CASE Send(c)
    BY <1>9 DEF TypeOK, Send, Go, poolVars, stateVars, recvVars, boundVars,
                targetVars, PcValues, TgtValues
<1>10. CASE RegisterWriteData(c)
    BY <1>10 DEF TypeOK, RegisterWriteData, Go, poolVars, stateVars, recvVars,
                 boundVars, targetVars, PcValues
<1> QED
    BY <1>1, <1>2, <1>4, <1>6, <1>7, <1>8, <1>9, <1>10 DEF Submit, Await

(* Steps of the receiver preserve the types, given what it has in hand. *)
LEMMA TypeReceiver ==
    ASSUME TypeOK, ReceiverInv, Receiver
    PROVE  TypeOK'
<1> USE DEF Move, poolVars, stateVars, boundVars, windowVars
<1>1. CASE Receive
    <2>1. pdu' \in Pdu /\ toInitiator' \in Seq(Pdu)
        BY <1>1, ReceiveProperties
    <2>2. pdu'.max \in Nat /\ pdu'.op \in {"response", "dataIn", "dataInStatus", "r2t", "nopIn"}
        BY <2>1 DEF Pdu
    <2> QED BY <1>1, <2>1, <2>2 DEF TypeOK, Receive
<1>2. CASE ReceiverDies
    BY <1>2 DEF TypeOK, ReceiverDies
<1>3. ASSUME rpc \in {"response", "dataIn", "dataInStatus", "r2t"}
      PROVE  /\ pdu \in Pdu /\ pdu.cmd \in Cmd /\ pdu.itt \in Itts
             /\ pdu.status \in {"good", "check"}
             /\ rpc # "response" /\ rpc # "r2t" => pdu.seg \in Segments
    BY <1>3 DEF ReceiverInv, Consistent, Pdu
<1>4. ASSUME NEW here \in {"response", "dataInStatus"}, NEW data \in Data,
             Complete(here, data),
             accumulator' = [accumulator EXCEPT ![pdu.itt] = {}]
      PROVE  TypeOK'
    <2>1. [status |-> pdu.status, data |-> data, from |-> pdu.cmd] \in Response
        BY <1>3, <1>4 DEF Response, Complete
    <2>2. mailbox' \in [Cmd -> Response \cup {None}]
        BY <1>4, <2>1 DEF TypeOK, Complete
    <2>3. accumulator' \in [Itts -> Data]
        BY <1>4 DEF TypeOK, Data
    <2> QED BY <1>4, <2>2, <2>3 DEF TypeOK, Complete
<1>5. ASSUME rpc \in {"dataIn", "dataInStatus"} PROVE Accumulated \in Data
    BY <1>3, <1>5 DEF TypeOK, Accumulated, Data
<1>6. CASE HandleScsiResponse
    <2>1. accumulator[pdu.itt] \in Data
        BY <1>3, <1>6 DEF TypeOK, HandleScsiResponse, Complete
    <2> QED BY <1>4, <1>6, <2>1 DEF HandleScsiResponse
<1>7. CASE HandleDataIn
    BY <1>5, <1>7 DEF TypeOK, HandleDataIn
<1>8. CASE HandleDataInStatus
    BY <1>4, <1>5, <1>8 DEF HandleDataInStatus, Complete
<1>9. CASE FreeItt
    BY <1>9 DEF TypeOK, FreeItt
<1>10. CASE RemoveWriteData
    BY <1>10 DEF TypeOK, RemoveWriteData
<1>11. CASE SendDataOut
    <2>1. Registered \in Cmd /\ pdu.cmd \in Cmd
        BY <1>3, <1>11 DEF TypeOK, SendDataOut, Registered
    <2>2. landed' \in [Cmd -> SUBSET Cmd]
        BY <1>11, <2>1 DEF TypeOK, SendDataOut, Sliced
    <2>3. tgt' \in [Cmd -> TgtValues]
        <3>1. \E to \in TgtValues : tgt' = [tgt EXCEPT ![pdu.cmd] = to]
            BY <1>11, <2>1 DEF TypeOK, SendDataOut, TgtValues
        <3> QED BY <3>1 DEF TypeOK
    <2>4. /\ UNCHANGED <<poolVars, windowVars, mailbox, accumulator>>
          /\ Move("r2t", "recv") /\ pdu' = None /\ polls' = 0
        BY <1>11 DEF SendDataOut
    <2> QED BY <2>2, <2>3, <2>4 DEF TypeOK
<1>12. CASE DataOutFails
    <2>1. pdu.cmd \in Cmd /\ Registered \in Cmd
        BY <1>3, <1>12 DEF TypeOK, DataOutFails, Registered
    <2>2. landed' \in [Cmd -> SUBSET Cmd]
        BY SMTT(60), <1>12, <2>1 DEF TypeOK, DataOutFails, Sliced
    <2> QED BY SMTT(60), <1>12, <2>2 DEF TypeOK, DataOutFails
<1>13. CASE R2tPoll
    BY <1>13 DEF TypeOK, R2tPoll
<1>14. CASE R2tGiveUp
    BY <1>14 DEF TypeOK, R2tGiveUp
<1>15. CASE HandleNopIn
    BY <1>15 DEF TypeOK, HandleNopIn
<1> QED
    BY <1>1, <1>2, <1>6, <1>7, <1>8, <1>9, <1>10, <1>11, <1>12, <1>13, <1>14,
       <1>15 DEF Receiver

(* Steps of the target and the connection preserve the types. *)
LEMMA TypeTarget ==
    ASSUME TypeOK,
           \/ SendLogout \/ TargetPings \/ ConnLost
           \/ \E c \in Cmd : TargetAnswers(c)
    PROVE  TypeOK'
<1> USE DEF poolVars, stateVars, taskVars, recvVars, boundVars, targetVars,
            Advance, TgtValues
<1>0. 0 \in 0 .. DataIns
    OBVIOUS
<1>1. CASE SendLogout
    BY <1>1 DEF TypeOK, SendLogout
<1>2. CASE ConnLost
    BY <1>2 DEF TypeOK, ConnLost
<1>3. CASE TargetPings
    <2>1. tgtMax' \in Nat /\ toInitiator' \in Seq(Pdu)
        BY <1>0, <1>3, SendsProperties DEF TargetPings
    <2> QED BY <1>3, <2>1 DEF TypeOK, TargetPings, TargetSends
<1>4. ASSUME NEW c \in Cmd, TargetAnswers(c) PROVE TypeOK'
    <2>1. CASE TargetAccepts(c)
        BY SMTT(60), <2>1 DEF TypeOK, TargetAccepts
    <2>2. CASE TargetIgnores(c)
        BY <2>2 DEF TypeOK, TargetIgnores
    <2>3. CASE TargetSendsDataIn(c)
        <3>1. segs[c] + 1 \in 0 .. DataIns
            BY <2>3 DEF TypeOK, TargetSendsDataIn
        <3>2. tgtMax' \in Nat /\ toInitiator' \in Seq(Pdu)
            BY <2>3, <3>1, SendsProperties DEF TargetSendsDataIn
        <3> QED BY <2>3, <3>1, <3>2 DEF TypeOK, TargetSendsDataIn, TargetSends
    <2>4. CASE TargetSendsDataInStatus(c)
        <3>1. segs[c] + 1 \in 0 .. DataIns
            BY <2>4 DEF TypeOK, TargetSendsDataInStatus
        <3>2. tgtMax' \in Nat /\ toInitiator' \in Seq(Pdu)
            BY <2>4, <3>1, SendsProperties DEF TargetSendsDataInStatus
        <3> QED
            BY <2>4, <3>1, <3>2 DEF TypeOK, TargetSendsDataInStatus, TargetSends
    <2>5. CASE TargetSendsR2t(c)
        <3>1. tgtMax' \in Nat /\ toInitiator' \in Seq(Pdu)
            BY <1>0, <2>5, SendsProperties DEF TargetSendsR2t
        <3> QED BY <2>5, <3>1 DEF TypeOK, TargetSendsR2t, TargetSends
    <2>6. CASE TargetResponds(c)
        <3>1. tgtMax' \in Nat /\ toInitiator' \in Seq(Pdu)
            BY <1>0, <2>6, SendsProperties DEF TargetResponds
        <3> QED BY <2>6, <3>1 DEF TypeOK, TargetResponds, TargetSends
    <2>7. CASE TargetRejects(c)
        <3>1. tgtMax' \in Nat /\ toInitiator' \in Seq(Pdu)
            BY <1>0, <2>7, SendsProperties DEF TargetRejects
        <3> QED BY <2>7, <3>1 DEF TypeOK, TargetRejects, TargetSends
    <2> QED BY <1>4, <2>1, <2>2, <2>3, <2>4, <2>5, <2>6, <2>7 DEF TargetAnswers
<1> QED BY <1>1, <1>2, <1>3, <1>4

LEMMA OwnershipInit == Init => Ownership
<1> SUFFICES ASSUME Init PROVE Ownership
    OBVIOUS
<1>1. TypeOK
    BY TypeInit
<1>2. Len(toInitiator) = 0
    BY EmptySeq DEF Init
<1>3. \A c \in Cmd : ~Holding(c)
    BY <1>2 DEF Init, Holding, AnswerPending
<1>4. WireInv /\ ReceiverInv /\ OneAnswer
    BY <1>2 DEF Init, WireInv, ReceiverInv, OneAnswer
<1> QED
    BY <1>1, <1>3, <1>4
    DEF Init, Ownership, UnsentUnknown, SlotHeld, SenderStored, OwnResponse

(* The task of c moves between two places on the same side of the send and of *)
(* the allocation, and nothing that Ownership speaks of changes but pc.       *)
LEMMA OwnershipMove ==
    ASSUME Ownership, TypeOK', NEW c \in Cmd, NEW here, NEW there,
           pc[c] = here, pc' = [pc EXCEPT ![c] = there],
           UNCHANGED <<slots, completions, itt, mailbox, rpc, pdu, tgt, toInitiator>>,
           there \in PreSend => here \in PreSend,
           there \in {"store", "stamp", "send", "error"} => here \in {"stamp", "send"},
           here # "store"
    PROVE  Ownership'
<1> USE DEF Ownership, TypeOK
<1>1. WireInv' /\ ReceiverInv' /\ OneAnswer'
    BY DEF WireInv, ReceiverInv, OneAnswer, Consistent, IsAnswer
<1>2. UnsentUnknown'
    BY DEF UnsentUnknown
<1>3. \A d \in Cmd : Holding(d)' => Holding(d) /\ (d = c => here # "store")
    BY DEF Holding, AnswerPending, IsAnswer
<1>4. SlotHeld'
    BY <1>3 DEF SlotHeld
<1>6. SenderStored'
    <2> SUFFICES ASSUME NEW d \in Cmd, Holding(d)', pc'[d] # "store",
                        ~(rpc = "free" /\ pdu.cmd = d)
                 PROVE  completions[itt[d]] = d
        BY DEF SenderStored
    <2>1. Holding(d) /\ pc[d] # "store"
        BY <1>3
    <2> QED BY <2>1 DEF SenderStored
<1>5. OwnResponse'
    BY DEF OwnResponse
<1> QED BY <1>1, <1>2, <1>4, <1>5, <1>6

(* The tasks of submit_command and of its callers.                            *)
LEMMA OwnershipTasks ==
    ASSUME Ownership, TypeOK', NEW c \in Cmd, Start(c) \/ Submit(c) \/ Await(c)
    PROVE  Ownership'
<1> USE DEF Go, poolVars, stateVars, recvVars, boundVars, targetVars, localVars
<1>1. CASE Start(c)
    BY <1>1, OwnershipMove DEF Start, PreSend
<1>2. CASE LoadCmdSN(c)
    BY <1>2, OwnershipMove DEF LoadCmdSN, PreSend
<1>3. CASE WindowOpen(c) \/ WindowClosed(c) \/ LoFull(c) \/ HiFull(c) \/ SendFails(c)
    BY <1>3, OwnershipMove
    DEF WindowOpen, WindowClosed, LoFull, HiFull, SendFails, OnlyGo, PreSend
<1>4. CASE TakeResponse(c) \/ TimeOut(c)
    BY <1>4, OwnershipMove DEF TakeResponse, TimeOut, OnlyGo, PreSend
<1>5. CASE Stamp(c)
    BY <1>5, OwnershipMove DEF Stamp, PreSend
<1>6. CASE RegisterWriteData(c)
    <2>1. /\ pc[c] = "register" /\ pc' = [pc EXCEPT ![c] = "await"]
          /\ UNCHANGED <<slots, completions, itt, mailbox, rpc, pdu, tgt, toInitiator>>
        BY <1>6 DEF RegisterWriteData
    <2>2. "await" \notin PreSend
        BY DEF PreSend
    <2> QED BY <2>1, <2>2, OwnershipMove
<1>7. ASSUME NEW here \in {"allocLo", "allocHi"}, NEW word \in SUBSET Nat,
             Alloc(c, here, word)
      PROVE  Ownership'
    <2> DEFINE i == LowestFree(word)
    <2>1. i \in word /\ slots[i] = None
        BY <1>7, LowestFreeExists DEF Alloc
    <2> HIDE DEF i
    <2>2. /\ slots' = [slots EXCEPT ![i] = c]
          /\ itt' = [itt EXCEPT ![c] = i]
          /\ pc' = [pc EXCEPT ![c] = "store"]
          /\ pc[c] = here
          /\ UNCHANGED <<completions, mailbox, rpc, pdu, tgt, toInitiator>>
        BY <1>7 DEF Alloc, i
    <2>3. tgt[c] = "none"
        BY <1>7, <2>2 DEF Ownership, UnsentUnknown, PreSend
    <2>4. \A p \in Pdu : Consistent(p) => Consistent(p)'
        <3> SUFFICES ASSUME NEW p \in Pdu, Consistent(p), p.op # "nopIn"
                     PROVE  Consistent(p)'
            BY DEF Consistent
        <3>1. p.cmd \in Cmd /\ p.cmd # c
            BY <2>3 DEF Consistent
        <3>2. itt'[p.cmd] = itt[p.cmd]
            BY <2>2, <3>1 DEF Ownership, TypeOK
        <3> QED BY <2>2, <3>1, <3>2 DEF Consistent, IsAnswer
    <2>5. toInitiator \in Seq(Pdu)
        BY DEF Ownership, TypeOK
    <2>6. WireInv'
        BY <2>2, <2>4, <2>5, ElementOfSeq DEF Ownership, WireInv
    <2>7. ReceiverInv' /\ OneAnswer'
        BY <2>2, <2>4 DEF Ownership, ReceiverInv, OneAnswer, IsAnswer
    <2>8. UnsentUnknown'
        BY <2>2, <2>3 DEF Ownership, TypeOK, UnsentUnknown
    <2>9. \A d \in Cmd : Holding(d)' /\ d # c => Holding(d)
        BY <2>2 DEF Ownership, TypeOK, Holding, AnswerPending, IsAnswer
    <2>10. \A d \in Cmd : Holding(d) => itt[d] # i
        BY <2>1 DEF Ownership, SlotHeld
    <2>11. i \in Itts
        BY <2>1, <2>2, <1>7 DEF Ownership, TypeOK, Alloc, Go, Itts
    <2>12. SlotHeld'
        <3>1. slots'[itt'[c]] = c
            BY <2>2, <2>11 DEF Ownership, TypeOK
        <3>2. ASSUME NEW d \in Cmd, d # c, Holding(d)'
              PROVE  slots'[itt'[d]] = d
            BY <2>2, <2>9, <2>10, <3>2 DEF Ownership, TypeOK, SlotHeld
        <3> QED BY <3>1, <3>2 DEF SlotHeld
    <2>13. SenderStored'
        BY <2>2, <2>9, <2>10 DEF Ownership, TypeOK, SenderStored
    <2>14. OwnResponse'
        BY <2>2 DEF Ownership, OwnResponse
    <2> QED BY <2>6, <2>7, <2>8, <2>12, <2>13, <2>14 DEF Ownership
<1>8. CASE AllocLo(c) \/ AllocHi(c)
    BY <1>7, <1>8 DEF AllocLo, AllocHi, LoItts, HiItts
<1>9. CASE StoreSender(c)
    <2>1. WireInv' /\ ReceiverInv' /\ OneAnswer' /\ OwnResponse'
        BY <1>9 DEF StoreSender, Ownership, WireInv, ReceiverInv, OneAnswer,
                    OwnResponse, Consistent, IsAnswer
    <2>2. UnsentUnknown'
        BY <1>9 DEF StoreSender, Ownership, TypeOK, UnsentUnknown, PreSend
    <2>3. \A d \in Cmd : Holding(d)' => Holding(d)
        BY <1>9 DEF StoreSender, Ownership, TypeOK, Holding, AnswerPending, IsAnswer
    <2>4. SlotHeld'
        BY <1>9, <2>3 DEF StoreSender, Ownership, SlotHeld
    <2>5. Holding(c)
        BY <1>9 DEF StoreSender, Holding
    <2>6. \A d \in Cmd : Holding(d) /\ d # c => itt[d] # itt[c]
        BY <2>5 DEF Ownership, SlotHeld
    <2>7. SenderStored'
        BY <1>9, <2>3, <2>6 DEF StoreSender, Ownership, TypeOK, SenderStored
    <2> QED BY <2>1, <2>2, <2>4, <2>7 DEF Ownership
<1>10. CASE Send(c)
    <2>1. tgt[c] = "none"
        BY <1>10 DEF Send, Ownership, UnsentUnknown, PreSend
    <2>2. \A p \in Pdu : Consistent(p) => Consistent(p)'
        BY <1>10, <2>1 DEF Send, Ownership, TypeOK, Consistent, IsAnswer
    <2>3. toInitiator \in Seq(Pdu)
        BY DEF Ownership, TypeOK
    <2>4. WireInv'
        BY <1>10, <2>2, <2>3, ElementOfSeq DEF Send, Ownership, WireInv
    <2>5. ReceiverInv' /\ OneAnswer' /\ OwnResponse'
        BY <1>10, <2>2 DEF Send, Ownership, ReceiverInv, OneAnswer, OwnResponse,
                           IsAnswer
    <2>6. UnsentUnknown'
        BY <1>10 DEF Send, Ownership, TypeOK, UnsentUnknown, PreSend
    <2>7. \A d \in Cmd : Holding(d)' => Holding(d)
        BY <1>10 DEF Send, Ownership, TypeOK, Holding, AnswerPending, IsAnswer
    <2>8. SlotHeld' /\ SenderStored'
        BY <1>10, <2>7 DEF Send, Ownership, TypeOK, SlotHeld, SenderStored
    <2> QED BY <2>4, <2>5, <2>6, <2>8 DEF Ownership
<1> QED
    BY <1>1, <1>2, <1>3, <1>4, <1>5, <1>6, <1>8, <1>9, <1>10 DEF Submit, Await

(* The receiver is between two PDUs, or ends or goes on with one that is no   *)
(* answer, and nothing else that Ownership speaks of changes.                 *)
LEMMA OwnershipIdleReceiver ==
    ASSUME Ownership, TypeOK',
           rpc \notin {"response", "dataInStatus", "free"},
           \/ rpc' \in {"recv", "dead"}
           \/ rpc' = rpc /\ pdu' = pdu,
           UNCHANGED <<slots, completions, itt, mailbox, toInitiator, pc>>,
           \A c \in Cmd : tgt'[c] = tgt[c] \/ (tgt[c] = "asked" /\ tgt'[c] = "served")
    PROVE  Ownership'
<1>1. \A p : Consistent(p) => Consistent(p)'
    BY DEF Consistent, IsAnswer
<1>2. WireInv' /\ ReceiverInv'
    BY <1>1 DEF Ownership, WireInv, ReceiverInv, IsAnswer
<1>3. OneAnswer' /\ OwnResponse'
    BY DEF Ownership, OneAnswer, OwnResponse, IsAnswer
<1>4. UnsentUnknown'
    BY DEF Ownership, UnsentUnknown
<1>5. \A c \in Cmd : Holding(c)' => Holding(c)
    BY DEF Holding, AnswerPending, IsAnswer
<1>6. SlotHeld'
    BY <1>5 DEF Ownership, SlotHeld
<1>7. SenderStored'
    BY <1>5 DEF Ownership, SenderStored
<1> QED BY <1>2, <1>3, <1>4, <1>6, <1>7 DEF Ownership

(* The receiver takes the sender out of completions[itt] and sends the        *)
(* response: the sender is that of the command the target answered.           *)
LEMMA OwnershipComplete ==
    ASSUME Ownership, TypeOK', NEW here \in {"response", "dataInStatus"},
           NEW data, Complete(here, data)
    PROVE  Ownership'
<1> DEFINE c == pdu.cmd
<1> USE DEF Complete, Move, windowVars
<1>1. /\ pdu \in Pdu /\ Consistent(pdu) /\ IsAnswer(pdu)
      /\ c \in Cmd /\ pdu.itt = itt[c] /\ tgt[c] \in {"good", "check"}
    BY DEF Ownership, ReceiverInv, Consistent, IsAnswer
<1>2. Holding(c) /\ pc[c] \notin PreSend
    BY <1>1 DEF Ownership, UnsentUnknown, Holding, AnswerPending
<1>3. completions[itt[c]] = c
    BY <1>1, <1>2 DEF Ownership, SenderStored, PreSend
<1>4. OwnResponse'
    BY <1>1, <1>3 DEF Ownership, TypeOK, OwnResponse
<1>5. WireInv' /\ ReceiverInv' /\ OneAnswer' /\ UnsentUnknown'
    BY <1>1 DEF Ownership, WireInv, ReceiverInv, OneAnswer, UnsentUnknown,
                Consistent, IsAnswer
<1>6. \A d \in Cmd : Holding(d)' => Holding(d)
    BY DEF Holding, AnswerPending, IsAnswer
<1>7. SlotHeld'
    BY <1>6 DEF Ownership, SlotHeld
<1>8. SenderStored'
    <2> SUFFICES ASSUME NEW d \in Cmd, Holding(d)', pc[d] # "store", d # c
                 PROVE  completions'[itt[d]] = d
        BY DEF SenderStored
    <2>1. Holding(d)
        BY <1>6
    <2>2. completions[itt[d]] = d
        BY <2>1 DEF Ownership, SenderStored
    <2>3. itt[d] # itt[c]
        BY <1>2, <1>3, <2>2
    <2> QED BY <1>1, <2>2, <2>3 DEF Ownership, TypeOK
<1> QED BY <1>4, <1>5, <1>7, <1>8 DEF Ownership

(* The receiver task.                                                         *)
LEMMA OwnershipReceiver ==
    ASSUME Ownership, TypeOK', Receiver
    PROVE  Ownership'
<1> USE DEF Move, windowVars, poolVars
<1>1. CASE Receive
    <2> DEFINE n == Len(toInitiator)
    <2>1. /\ pdu' \in Pdu /\ pdu' = toInitiator[1] /\ n \in Nat \ {0}
          /\ Len(toInitiator') = n - 1
          /\ \A k \in 1 .. n - 1 : toInitiator'[k] = toInitiator[k + 1]
        BY <1>1, ReceiveProperties DEF Ownership
    <2>2. /\ rpc = "recv" /\ rpc' = pdu'.op
          /\ UNCHANGED <<slots, completions, itt, mailbox, tgt, pc>>
        BY <1>1 DEF Receive
    <2>3. \A p : Consistent(p) => Consistent(p)'
        BY <2>2 DEF Consistent, IsAnswer
    <2>4. \A k \in 1 .. n - 1 : k \in 1 .. n /\ k + 1 \in 1 .. n
        BY <2>1
    <2>5. Consistent(toInitiator[1])
        BY <2>1 DEF Ownership, WireInv
    <2>6. WireInv'
        BY <2>1, <2>3, <2>4 DEF Ownership, WireInv
    <2>7. ReceiverInv'
        BY <2>1, <2>2, <2>3, <2>5 DEF ReceiverInv, IsAnswer, Pdu
    <2>8. OneAnswer'
        <3>1. \A k, l \in 1 .. n - 1 :
                 (/\ IsAnswer(toInitiator[k + 1]) /\ IsAnswer(toInitiator[l + 1])
                  /\ toInitiator[k + 1].cmd = toInitiator[l + 1].cmd) => k = l
            <4> SUFFICES ASSUME NEW k \in 1 .. n - 1, NEW l \in 1 .. n - 1,
                                IsAnswer(toInitiator[k + 1]), IsAnswer(toInitiator[l + 1]),
                                toInitiator[k + 1].cmd = toInitiator[l + 1].cmd
                         PROVE  k = l
                OBVIOUS
            <4>1. k + 1 \in 1 .. n /\ l + 1 \in 1 .. n
                BY <2>4
            <4>2. k + 1 = l + 1
                BY <4>1 DEF Ownership, OneAnswer
            <4> QED BY <2>1, <4>2
        <3>2. IsAnswer(pdu') => \A k \in 1 .. n - 1 :
                 IsAnswer(toInitiator[k + 1]) => toInitiator[k + 1].cmd # pdu'.cmd
            <4> SUFFICES ASSUME IsAnswer(pdu'), NEW k \in 1 .. n - 1,
                                IsAnswer(toInitiator[k + 1]),
                                toInitiator[k + 1].cmd = pdu'.cmd
                         PROVE  FALSE
                OBVIOUS
            <4>1. 1 \in 1 .. n /\ k + 1 \in 1 .. n /\ k + 1 # 1
                BY <2>1
            <4> QED BY <2>1, <4>1 DEF Ownership, OneAnswer
        <3>3. rpc' \in {"response", "dataInStatus", "free"} => IsAnswer(pdu')
            BY <2>1, <2>2 DEF IsAnswer, Pdu
        <3>4. Len(toInitiator') = n - 1
            BY <2>1
        <3> HIDE DEF n
        <3> QED BY <2>1, <3>1, <3>2, <3>3, <3>4 DEF OneAnswer
    <2>9. UnsentUnknown' /\ OwnResponse'
        BY <2>2 DEF Ownership, UnsentUnknown, OwnResponse
    <2>10. \A c \in Cmd : Holding(c)' => Holding(c)
        <3> SUFFICES ASSUME NEW c \in Cmd, AnswerPending(c)' PROVE AnswerPending(c)
            BY <2>2 DEF Holding
        <3>1. CASE rpc' \in {"response", "dataInStatus", "free"} /\ pdu'.cmd = c
            <4>1. IsAnswer(toInitiator[1]) /\ toInitiator[1].cmd = c /\ 1 \in 1 .. n
                BY <2>1, <2>2, <3>1 DEF IsAnswer, Pdu
            <4> QED BY <4>1 DEF AnswerPending
        <3>2. CASE \E k \in 1 .. n - 1 : IsAnswer(toInitiator'[k]) /\ toInitiator'[k].cmd = c
            BY <2>1, <2>4, <3>2 DEF AnswerPending
        <3> QED BY <2>1, <3>1, <3>2 DEF AnswerPending, IsAnswer
    <2>11. SlotHeld'
        BY <2>2, <2>10 DEF Ownership, SlotHeld
    <2>12. SenderStored'
        BY <2>2, <2>10 DEF Ownership, SenderStored
    <2> QED BY <2>6, <2>7, <2>8, <2>9, <2>11, <2>12 DEF Ownership
<1>2. CASE HandleScsiResponse
    BY <1>2, OwnershipComplete DEF HandleScsiResponse
<1>3. CASE HandleDataInStatus
    BY <1>3, OwnershipComplete DEF HandleDataInStatus
<1>4. CASE ReceiverDies \/ HandleDataIn \/ RemoveWriteData
    BY <1>4, OwnershipIdleReceiver DEF ReceiverDies, HandleDataIn, RemoveWriteData
<1>5. CASE DataOutFails \/ R2tPoll \/ R2tGiveUp \/ HandleNopIn
    BY <1>5, OwnershipIdleReceiver DEF DataOutFails, R2tPoll, R2tGiveUp, HandleNopIn
<1>6. CASE SendDataOut
    <2>1. \A c \in Cmd : tgt'[c] = tgt[c] \/ (tgt[c] = "asked" /\ tgt'[c] = "served")
        BY <1>6 DEF SendDataOut, Ownership, TypeOK
    <2> QED BY <1>6, <2>1, OwnershipIdleReceiver DEF SendDataOut
<1>7. CASE FreeItt
    <2>1. PICK c \in Cmd : /\ pdu \in Pdu /\ Consistent(pdu) /\ IsAnswer(pdu)
                           /\ c = pdu.cmd /\ pdu.itt = itt[c]
                           /\ tgt[c] \in {"good", "check"}
        BY <1>7 DEF FreeItt, Ownership, ReceiverInv, Consistent, IsAnswer
    <2>2. slots[itt[c]] = c /\ pc[c] \notin PreSend
        BY <1>7, <2>1 DEF FreeItt, Ownership, SlotHeld, UnsentUnknown, Holding,
                          AnswerPending
    <2>3. WireInv' /\ ReceiverInv' /\ UnsentUnknown' /\ OwnResponse'
        BY <1>7, <2>1 DEF FreeItt, Ownership, WireInv, ReceiverInv, UnsentUnknown,
                          OwnResponse, Consistent, IsAnswer
    <2>4. OneAnswer'
        BY <1>7 DEF FreeItt, Ownership, OneAnswer, IsAnswer
    <2>5. \A d \in Cmd : Holding(d)' => Holding(d) /\ d # c
        <3>1. ~Holding(c)'
            <4>1. pc'[c] \notin PreSend /\ tgt'[c] \in {"good", "check"}
                BY <1>7, <2>1, <2>2 DEF FreeItt
            <4>2. ~AnswerPending(c)'
                BY <1>7, <2>1 DEF FreeItt, Ownership, OneAnswer, AnswerPending, IsAnswer
            <4> QED BY <4>1, <4>2 DEF Holding, PreSend
        <3>2. \A d \in Cmd : Holding(d)' => Holding(d)
            BY <1>7 DEF FreeItt, Holding, AnswerPending, IsAnswer
        <3> QED BY <3>1, <3>2
    <2>6. SlotHeld'
        BY <1>7, <2>1, <2>2, <2>5 DEF FreeItt, Ownership, TypeOK, SlotHeld
    <2>7. SenderStored'
        BY <1>7, <2>1, <2>5 DEF FreeItt, Ownership, SenderStored
    <2> QED BY <2>3, <2>4, <2>6, <2>7 DEF Ownership
<1> QED BY <1>1, <1>2, <1>3, <1>4, <1>5, <1>6, <1>7 DEF Receiver

(* The target sends a PDU about c, which it has accepted: an answer, and then *)
(* tgt[c] says so and there was none before, or none.                         *)
LEMMA OwnershipSends ==
    ASSUME Ownership, TypeOK', NEW c \in Cmd,
           NEW op \in {"response", "dataIn", "dataInStatus", "r2t"},
           NEW seg \in 0 .. DataIns, NEW status \in {"good", "check"},
           TargetSends(op, c, seg, status),
           op \in {"dataIn", "dataInStatus"} => seg \in Segments,
           tgt[c] \in {"accepted", "asked", "served"},
           NEW to \in {"accepted", "asked", "good", "check"},
           tgt' = [tgt EXCEPT ![c] = to],
           op \in {"response", "dataInStatus"} <=> to \in {"good", "check"},
           UNCHANGED <<poolVars, taskVars, recvVars>>
    PROVE  Ownership'
<1> DEFINE n == Len(toInitiator)
<1> USE DEF poolVars, taskVars, recvVars
<1>1. /\ n \in Nat /\ Len(toInitiator') = n + 1
      /\ \A k \in 1 .. n : toInitiator'[k] = toInitiator[k]
      /\ \E p \in Pdu :
            /\ toInitiator'[n + 1] = p
            /\ p.op = op /\ p.cmd = c /\ p.seg = seg /\ p.itt = itt[c]
    <2>1. c # None /\ c \in Cmd \cup {None}
        OBVIOUS
    <2>2. TypeOK
        BY DEF Ownership
    <2>3. op \in {"response", "dataIn", "dataInStatus", "r2t", "nopIn"}
        OBVIOUS
    <2> QED BY <2>1, <2>2, <2>3, SendsProperties
<1>0. PICK p \in Pdu :
         /\ toInitiator'[n + 1] = p
         /\ p.op = op /\ p.cmd = c /\ p.seg = seg /\ p.itt = itt[c]
    BY <1>1
<1>2. IsAnswer(p) <=> to \in {"good", "check"}
    BY <1>0, <1>1 DEF IsAnswer
<1>3. tgt'[c] = to /\ \A d \in Cmd : d # c => tgt'[d] = tgt[d]
    BY DEF Ownership, TypeOK
<1>4. \A q \in Pdu : Consistent(q) => Consistent(q)'
    BY <1>3 DEF Consistent, IsAnswer
<1>5. Consistent(p)'
    BY <1>0, <1>1, <1>2, <1>3 DEF Consistent, IsAnswer
<1>6. \A k \in 1 .. n + 1 : k \in 1 .. n \/ k = n + 1
    BY <1>1
<1>7. toInitiator \in Seq(Pdu)
    BY DEF Ownership, TypeOK
<1>8. WireInv'
    BY SMTT(60), <1>0, <1>1, <1>4, <1>5, <1>6, <1>7, ElementOfSeq DEF Ownership, WireInv
<1>9. ReceiverInv'
    BY <1>4 DEF Ownership, ReceiverInv, IsAnswer
<1>10. \A q \in Pdu : Consistent(q) /\ IsAnswer(q) => q.cmd # c
    BY DEF Consistent, IsAnswer
<1>11. \A k \in 1 .. n : IsAnswer(toInitiator[k]) => toInitiator[k].cmd # c
    BY <1>7, <1>10, ElementOfSeq DEF Ownership, WireInv
<1>12. rpc \in {"response", "dataInStatus", "free"} => pdu.cmd # c
    BY <1>10 DEF Ownership, ReceiverInv, IsAnswer
<1>13. OneAnswer'
    <2>1. p.cmd = c /\ toInitiator'[n + 1] = p
        BY <1>0
    <2>2. ASSUME NEW k \in 1 .. n + 1, NEW l \in 1 .. n + 1,
                 IsAnswer(toInitiator'[k]), IsAnswer(toInitiator'[l]),
                 toInitiator'[k].cmd = toInitiator'[l].cmd
          PROVE  k = l
        <3>1. CASE k \in 1 .. n /\ l \in 1 .. n
            BY <1>1, <2>2, <3>1 DEF Ownership, OneAnswer
        <3>2. CASE k \in 1 .. n /\ l = n + 1
            BY <1>1, <1>11, <2>1, <2>2, <3>2
        <3>3. CASE k = n + 1 /\ l \in 1 .. n
            BY <1>1, <1>11, <2>1, <2>2, <3>3
        <3> QED BY <1>6, <3>1, <3>2, <3>3
    <2>3. ASSUME rpc \in {"response", "dataInStatus", "free"},
                 NEW k \in 1 .. n + 1, IsAnswer(toInitiator'[k])
          PROVE  toInitiator'[k].cmd # pdu.cmd
        <3>1. CASE k \in 1 .. n
            BY <1>1, <2>3, <3>1 DEF Ownership, OneAnswer
        <3>2. CASE k = n + 1
            BY <1>12, <2>1, <2>3, <3>2
        <3> QED BY <1>6, <3>1, <3>2
    <2>4. Len(toInitiator') = n + 1 /\ rpc' = rpc /\ pdu' = pdu
        BY <1>1
    <2> HIDE DEF n
    <2> QED BY <2>2, <2>3, <2>4 DEF OneAnswer, IsAnswer
<1>14. UnsentUnknown' /\ OwnResponse'
    BY <1>3 DEF Ownership, UnsentUnknown, OwnResponse
<1>15. Holding(c)
    BY DEF Holding
<1>16. \A d \in Cmd : Holding(d)' => Holding(d)
    <2> SUFFICES ASSUME NEW d \in Cmd, d # c, Holding(d)' PROVE Holding(d)
        BY <1>15
    <2>1. AnswerPending(d)' => AnswerPending(d)
        BY <1>0, <1>1, <1>6 DEF AnswerPending, IsAnswer
    <2> QED BY <1>3, <2>1 DEF Holding
<1>17. SlotHeld'
    BY <1>16 DEF Ownership, SlotHeld
<1>18. SenderStored'
    BY <1>16 DEF Ownership, SenderStored
<1> QED BY <1>8, <1>9, <1>13, <1>14, <1>17, <1>18 DEF Ownership

(* The target, the connection and the Logout.                                 *)
LEMMA OwnershipTarget ==
    ASSUME Ownership, TypeOK',
           \/ SendLogout \/ TargetPings \/ ConnLost
           \/ \E c \in Cmd : TargetAnswers(c)
    PROVE  Ownership'
<1> USE DEF Advance
<1>0. 0 \in 0 .. DataIns
    OBVIOUS
<1>1. CASE SendLogout \/ ConnLost
    <2>1. UNCHANGED <<slots, completions, itt, mailbox, rpc, pdu, tgt, toInitiator, pc>>
        BY <1>1 DEF SendLogout, ConnLost, poolVars, taskVars, recvVars, targetVars
    <2>2. UNCHANGED <<WireInv, ReceiverInv, OneAnswer, UnsentUnknown>>
        BY <2>1 DEF WireInv, ReceiverInv, OneAnswer, UnsentUnknown, Consistent,
                    IsAnswer
    <2>3. UNCHANGED <<SlotHeld, SenderStored, OwnResponse>>
        BY <2>1 DEF SlotHeld, SenderStored, OwnResponse, Holding, AnswerPending,
                    IsAnswer
    <2> QED BY <2>2, <2>3 DEF Ownership
<1>2. CASE TargetPings
    <2> DEFINE n == Len(toInitiator)
    <2>1. PICK p \in Pdu :
             /\ p.op = "nopIn"
             /\ n \in Nat /\ Len(toInitiator') = n + 1
             /\ \A k \in 1 .. n : toInitiator'[k] = toInitiator[k]
             /\ toInitiator'[n + 1] = p
        BY <1>0, <1>2, SendsProperties DEF TargetPings, Ownership
    <2>2. UNCHANGED <<slots, completions, itt, mailbox, rpc, pdu, tgt, pc>>
        BY <1>2 DEF TargetPings, poolVars, taskVars, recvVars
    <2>3. \A k \in 1 .. n + 1 : k \in 1 .. n \/ k = n + 1
        BY <2>1
    <2>4. \A q : Consistent(q) => Consistent(q)'
        BY <2>2 DEF Consistent, IsAnswer
    <2>5. Consistent(p)' /\ ~IsAnswer(p)
        BY <2>1 DEF Consistent, IsAnswer
    <2>6. WireInv'
        BY <2>1, <2>3, <2>4, <2>5 DEF Ownership, WireInv
    <2>7. ReceiverInv' /\ UnsentUnknown' /\ OwnResponse'
        BY <2>2, <2>4 DEF Ownership, ReceiverInv, UnsentUnknown, OwnResponse, IsAnswer
    <2>8. OneAnswer'
        BY <2>1, <2>2, <2>3, <2>5 DEF Ownership, OneAnswer, IsAnswer
    <2>9. \A d \in Cmd : Holding(d)' => Holding(d)
        BY <2>1, <2>2, <2>3, <2>5 DEF Holding, AnswerPending, IsAnswer
    <2>10. SlotHeld' /\ SenderStored'
        BY <2>2, <2>9 DEF Ownership, SlotHeld, SenderStored
    <2> QED BY <2>6, <2>7, <2>8, <2>10 DEF Ownership
<1>3. ASSUME NEW c \in Cmd, TargetAccepts(c) \/ TargetIgnores(c)
      PROVE  Ownership'
    <2>1. /\ tgt[c] = "sent"
          /\ \E to \in {"accepted", "ignored"} : tgt' = [tgt EXCEPT ![c] = to]
          /\ UNCHANGED <<slots, completions, itt, mailbox, rpc, pdu, toInitiator, pc>>
        BY <1>3 DEF TargetAccepts, TargetIgnores, poolVars, taskVars, recvVars
    <2>2. tgt'[c] \in {"accepted", "ignored"} /\ \A d \in Cmd : d # c => tgt'[d] = tgt[d]
        BY <2>1 DEF Ownership, TypeOK
    <2>3. \A q : Consistent(q) => Consistent(q)'
        BY <2>1, <2>2 DEF Consistent, IsAnswer
    <2>4. WireInv' /\ ReceiverInv' /\ OneAnswer' /\ OwnResponse'
        BY <2>1, <2>3 DEF Ownership, WireInv, ReceiverInv, OneAnswer, OwnResponse,
                          IsAnswer
    <2>5. UnsentUnknown'
        BY <2>1, <2>2 DEF Ownership, UnsentUnknown
    <2>6. \A d \in Cmd : Holding(d)' => Holding(d)
        BY <2>1, <2>2 DEF Holding, AnswerPending, IsAnswer
    <2>7. SlotHeld'
        BY <2>1, <2>6 DEF Ownership, SlotHeld
    <2>8. SenderStored'
        BY <2>1, <2>6 DEF Ownership, SenderStored
    <2> QED BY <2>4, <2>5, <2>7, <2>8 DEF Ownership
<1>4. ASSUME NEW c \in Cmd, TargetSendsDataIn(c) \/ TargetSendsDataInStatus(c)
      PROVE  Ownership'
    <2>1. segs[c] + 1 \in 0 .. DataIns /\ segs[c] + 1 \in Segments
        <3>1. segs[c] \in 0 .. DataIns /\ segs[c] < DataIns
            BY SMTT(60), <1>4 DEF TargetSendsDataIn, TargetSendsDataInStatus, Ownership, TypeOK
        <3> QED BY <3>1 DEF Segments
    <2>2. CASE TargetSendsDataIn(c)
        BY <2>1, <2>2, OwnershipSends DEF TargetSendsDataIn
    <2>3. CASE TargetSendsDataInStatus(c)
        BY <2>1, <2>3, OwnershipSends DEF TargetSendsDataInStatus
    <2> QED BY <1>4, <2>2, <2>3
<1>5. ASSUME NEW c \in Cmd, TargetSendsR2t(c) PROVE Ownership'
    BY <1>0, <1>5, OwnershipSends DEF TargetSendsR2t
<1>6. ASSUME NEW c \in Cmd, TargetResponds(c) PROVE Ownership'
    BY <1>0, <1>6, OwnershipSends DEF TargetResponds
<1>7. ASSUME NEW c \in Cmd, TargetRejects(c) PROVE Ownership'
    BY <1>0, <1>7, OwnershipSends DEF TargetRejects
<1> QED BY <1>1, <1>2, <1>3, <1>4, <1>5, <1>6, <1>7 DEF TargetAnswers

LEMMA OwnershipStep == Ownership /\ [Next]_vars => Ownership'
<1> SUFFICES ASSUME Ownership, [Next]_vars PROVE Ownership'
    OBVIOUS
<1>1. TypeOK /\ ReceiverInv
    BY DEF Ownership
<1>2. ASSUME NEW c \in Cmd, Start(c) \/ Submit(c) \/ Await(c) PROVE Ownership'
    BY <1>1, <1>2, TypeTasks, OwnershipTasks
<1>3. CASE Receiver
    BY <1>1, <1>3, TypeReceiver, OwnershipReceiver
<1>4. CASE SendLogout \/ TargetPings \/ ConnLost \/ \E c \in Cmd : TargetAnswers(c)
    BY <1>1, <1>4, TypeTarget, OwnershipTarget
<1>5. CASE UNCHANGED vars
    <2>0. UNCHANGED <<poolVars, stateVars, taskVars, recvVars, conn, targetVars, boundVars>>
        BY <1>5 DEF vars
    <2>1. UNCHANGED <<slots, completions, itt, mailbox, rpc, pdu, tgt, toInitiator, pc>>
        BY <2>0 DEF poolVars, taskVars, recvVars, targetVars
    <2>2. TypeOK'
        BY <1>1, <2>0 DEF TypeOK, poolVars, stateVars, taskVars, recvVars,
                          targetVars, boundVars
    <2>3. UNCHANGED <<WireInv, ReceiverInv, OneAnswer, UnsentUnknown>>
        BY <2>1 DEF WireInv, ReceiverInv, OneAnswer, UnsentUnknown, Consistent,
                    IsAnswer
    <2>4. UNCHANGED <<SlotHeld, SenderStored, OwnResponse>>
        BY <2>1 DEF SlotHeld, SenderStored, OwnResponse, Holding, AnswerPending,
                    IsAnswer
    <2> QED BY <2>2, <2>3, <2>4 DEF Ownership
<1> QED BY <1>2, <1>3, <1>4, <1>5 DEF Next

(* Ownership holds of every behaviour of the session.                         *)
THEOREM OwnershipInvariant == Spec => []Ownership
<1>1. Init => Ownership
    BY OwnershipInit
<1>2. Ownership /\ [Next]_vars => Ownership'
    BY OwnershipStep
<1> QED BY <1>1, <1>2, PTL DEF Spec

(* Every variable keeps its type.                                             *)
THEOREM TypeCorrect == Spec => []TypeOK
<1>1. Ownership => TypeOK
    BY DEF Ownership
<1> QED BY <1>1, OwnershipInvariant, PTL

(* No ITT is given to a second command before the answer to the first has     *)
(* been handled, whatever times out or fails in between.                      *)
THEOREM SlotsAreHeld == Spec => []SlotHeld
<1>1. Ownership => SlotHeld
    BY DEF Ownership
<1> QED BY <1>1, OwnershipInvariant, PTL

(* A task is never handed the response to another command.                    *)
THEOREM ResponsesAreOwn == Spec => []OwnResponse
<1>1. Ownership => OwnResponse
    BY DEF Ownership
<1> QED BY <1>1, OwnershipInvariant, PTL

=============================================================================
