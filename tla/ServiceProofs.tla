--------------------------- MODULE ServiceProofs ---------------------------
(***************************************************************************)
(* What a session promises its callers, for any number of commands and any *)
(* target: a read returns exactly its own data, and the session implements *)
(* CommandService.                                                         *)
(***************************************************************************)
EXTENDS SessionProofs, SessionService

OnWire == {toInitiator[k] : k \in 1 .. Len(toInitiator)}

Known(c) == tgt[c] \notin {"none", "sent", "ignored"}

(* Delivery speaks of the PDUs on their way, and of the order of some.        *)
LEMMA WireForms ==
    /\ \A c \in Cmd :
          Gathering(c) <=> \/ tgt[c] \in {"accepted", "asked", "served"}
                           \/ \E p \in OnWire : IsAnswer(p) /\ p.cmd = c
                           \/ rpc \in {"response", "dataInStatus"} /\ pdu.cmd = c
    /\ \A c \in Cmd : \A s :
          Delivered(c, s) <=> \/ <<c, s>> \in accumulator[itt[c]]
                              \/ \E p \in OnWire : CarriesData(p) /\ p.cmd = c /\ p.seg = s
                              \/ rpc \in {"dataIn", "dataInStatus"} /\ pdu.cmd = c /\ pdu.seg = s
    /\ PdusTruthful <=> /\ \A p \in OnWire : Truthful(p)
                        /\ rpc \in {"response", "dataIn", "dataInStatus"} => Truthful(pdu)
    /\ WireInv <=> \A p \in OnWire : Consistent(p)
BY Zenon DEF OnWire, Gathering, Delivered, PdusTruthful, WireInv

(* The same a step later. *)
LEMMA WireFormsNext ==
    /\ \A c \in Cmd :
          Gathering(c)' <=> \/ tgt'[c] \in {"accepted", "asked", "served"}
                            \/ \E p \in OnWire' : IsAnswer(p) /\ p.cmd = c
                            \/ rpc' \in {"response", "dataInStatus"} /\ pdu'.cmd = c
    /\ \A c \in Cmd : \A s :
          Delivered(c, s)' <=> \/ <<c, s>> \in accumulator'[itt'[c]]
                               \/ \E p \in OnWire' : CarriesData(p) /\ p.cmd = c /\ p.seg = s
                               \/ rpc' \in {"dataIn", "dataInStatus"} /\ pdu'.cmd = c /\ pdu'.seg = s
    /\ PdusTruthful' <=> /\ \A p \in OnWire' : Truthful(p)'
                         /\ rpc' \in {"response", "dataIn", "dataInStatus"} => Truthful(pdu)'
BY Zenon DEF OnWire, Gathering, Delivered, PdusTruthful, IsAnswer, CarriesData

(* A PDU that is an answer or brings data is about a command the target has   *)
(* taken.                                                                     *)
LEMMA PdusAboutKnown ==
    ASSUME Ownership
    PROVE  /\ \A p \in OnWire :
                 IsAnswer(p) \/ CarriesData(p) => p.cmd \in Cmd /\ Known(p.cmd)
           /\ \A p \in OnWire : IsAnswer(p) => tgt[p.cmd] \in {"good", "check"}
           /\ rpc \in {"response", "dataIn", "dataInStatus", "r2t"} =>
                 pdu.cmd \in Cmd /\ Known(pdu.cmd) /\ pdu.itt = itt[pdu.cmd]
           /\ rpc \in {"response", "dataInStatus"} =>
                 tgt[pdu.cmd] \in {"good", "check"} /\ pdu.cmd \in Cmd
           /\ \A c \in Cmd : Gathering(c) => Known(c) /\ slots[itt[c]] = c
<1>1. \A p \in OnWire : Consistent(p)
    BY WireForms DEF Ownership
<1>2. \A p \in OnWire : IsAnswer(p) \/ CarriesData(p) => p.op # "nopIn"
    BY DEF IsAnswer, CarriesData
<1>3. /\ \A p \in OnWire : IsAnswer(p) \/ CarriesData(p) => p.cmd \in Cmd /\ Known(p.cmd)
      /\ \A p \in OnWire : IsAnswer(p) => tgt[p.cmd] \in {"good", "check"}
    BY <1>1, <1>2 DEF Consistent, Known
<1>4. /\ rpc \in {"response", "dataIn", "dataInStatus", "r2t"} =>
            pdu.cmd \in Cmd /\ Known(pdu.cmd) /\ pdu.itt = itt[pdu.cmd]
      /\ rpc \in {"response", "dataInStatus"} =>
            tgt[pdu.cmd] \in {"good", "check"} /\ pdu.cmd \in Cmd
    BY DEF Ownership, ReceiverInv, Consistent, IsAnswer, Known
<1>5. \A c \in Cmd : Gathering(c) => Known(c)
    BY <1>3, <1>4, WireForms DEF Known
<1>6. \A c \in Cmd : Gathering(c) => slots[itt[c]] = c
    BY DEF Gathering, AnswerPending, Holding, Ownership, SlotHeld
<1> QED
    BY <1>3, <1>4, <1>5, <1>6

LEMMA InformedAnswered ==
    ASSUME Ownership, Delivery, NEW c \in Cmd, mailbox[c] # None
    PROVE  tgt[c] \in {"good", "check"}
<1>1. mailbox[c] \in Response
    BY DEF Ownership, TypeOK
<1>2. mailbox[c].status \in {"good", "check"}
    BY <1>1 DEF Response
<1> QED BY <1>2 DEF Delivery, Informed

LEMMA DeliveryInit == Init => Delivery
<1> SUFFICES ASSUME Init PROVE Delivery
    OBVIOUS
<1>1. Len(toInitiator) = 0 /\ OnWire = {}
    BY EmptySeq DEF Init, OnWire
<1>2. PdusTruthful /\ DataBeforeAnswer
    BY <1>1 DEF Init, PdusTruthful, DataBeforeAnswer
<1>3. \A c \in Cmd : ~Gathering(c)
    BY <1>1, WireForms DEF Init
<1>4. SegmentsOfReads /\ AccumulatorOwned /\ NothingLost
    BY <1>3 DEF Init, SegmentsOfReads, AccumulatorOwned, NothingLost
<1>5. Informed
    BY DEF Init, Informed
<1> QED BY <1>2, <1>4, <1>5 DEF Delivery

(* A step that moves no data: of a task, of the target with no PDU sent, of   *)
(* the receiver outside the handlers of answers and data.                     *)
LEMMA DeliveryFrame ==
    ASSUME Ownership, Delivery, TypeOK',
           UNCHANGED <<accumulator, toInitiator, segs>>,
           \/ UNCHANGED <<rpc, pdu>>
           \/ /\ rpc \notin {"response", "dataIn", "dataInStatus"}
              /\ rpc' \notin {"response", "dataIn", "dataInStatus"},
           \A c \in Cmd : Known(c) =>
               /\ itt'[c] = itt[c] /\ kind'[c] = kind[c]
               /\ tgt'[c] = tgt[c] \/ (tgt[c] = "asked" /\ tgt'[c] = "served"),
           \A c \in Cmd : ~Known(c) =>
               tgt'[c] \in {"none", "sent", "ignored", "accepted"},
           mailbox' = mailbox,
           \A c \in Cmd : pc'[c] = "ok" =>
               pc[c] = "ok" \/ (mailbox[c] # None /\ mailbox[c].status = "good"),
           \A c \in Cmd : pc'[c] = "failed" =>
               pc[c] = "failed" \/ (mailbox[c] # None /\ mailbox[c].status = "check")
    PROVE  Delivery'
<1>0. segs \in [Cmd -> Nat]
    BY DEF Ownership, TypeOK
<1>1. OnWire' = OnWire
    BY DEF OnWire
<1>2. \A c \in Cmd : ~Known(c) => segs[c] = 0
    BY <1>0 DEF Delivery, SegmentsOfReads, Known
<1>3. \A c \in Cmd : Known(c) => (Gathering(c)' <=> Gathering(c))
    BY <1>1, PdusAboutKnown, WireForms, WireFormsNext DEF Known
<1>4. \A p \in OnWire : Truthful(p)'
    <2> SUFFICES ASSUME NEW p \in OnWire PROVE Truthful(p)'
        OBVIOUS
    <2>1. Truthful(p)
        BY WireForms DEF Delivery
    <2> QED BY <1>3, <2>1, PdusAboutKnown DEF Truthful, IsAnswer, CarriesData
<1>5. rpc' \in {"response", "dataIn", "dataInStatus"} => Truthful(pdu)'
    <2> SUFFICES ASSUME rpc' \in {"response", "dataIn", "dataInStatus"}
                 PROVE  Truthful(pdu)'
        OBVIOUS
    <2>1. rpc' = rpc /\ pdu' = pdu
        OBVIOUS
    <2>2. Truthful(pdu) /\ Known(pdu.cmd) /\ pdu.cmd \in Cmd
        BY <2>1, PdusAboutKnown, WireForms DEF Delivery
    <2>3. IsAnswer(pdu) => tgt[pdu.cmd] \in {"good", "check"}
        BY <2>1, PdusAboutKnown DEF IsAnswer, Ownership, ReceiverInv
    <2>4. Gathering(pdu.cmd) => Gathering(pdu.cmd)'
        BY <1>1, <2>1, <2>2, PdusAboutKnown DEF Gathering, Known
    <2> QED BY <2>1, <2>2, <2>3, <2>4 DEF Truthful, IsAnswer, CarriesData
<1>6. PdusTruthful'
    BY <1>1, <1>4, <1>5, WireFormsNext
<1>7. DataBeforeAnswer'
    BY DEF Delivery, DataBeforeAnswer, IsAnswer, CarriesData
<1>8. SegmentsOfReads'
    BY <1>2 DEF Delivery, SegmentsOfReads
<1>9. AccumulatorOwned'
    <2> SUFFICES ASSUME NEW i \in Itts, NEW x \in accumulator[i]
                 PROVE  (/\ x[1] \in Cmd /\ itt[x[1]] = i /\ Gathering(x[1])
                         /\ x[2] \in 1 .. segs[x[1]])'
        BY DEF AccumulatorOwned
    <2>1. /\ x[1] \in Cmd /\ itt[x[1]] = i /\ Gathering(x[1])
          /\ x[2] \in 1 .. segs[x[1]]
        BY DEF Delivery, AccumulatorOwned
    <2> QED BY <1>3, <2>1, PdusAboutKnown
<1>10. NothingLost'
    <2> SUFFICES ASSUME NEW c \in Cmd, Gathering(c)', NEW s \in 1 .. segs[c]
                 PROVE  Delivered(c, s)'
        BY DEF NothingLost
    <2>1. Known(c) /\ Gathering(c)
        BY <1>2, <1>3, PdusAboutKnown
    <2>2. Delivered(c, s)
        BY <2>1 DEF Delivery, NothingLost
    <2> QED BY <2>1, <2>2 DEF Delivered, CarriesData
<1>11. Informed'
    <2>1. Informed
        BY DEF Delivery
    <2>2. \A c \in Cmd : mailbox[c] # None =>
              tgt'[c] = tgt[c] /\ DataFor(c)' = DataFor(c)
        BY InformedAnswered DEF Known, DataFor
    <2> QED BY <2>1, <2>2 DEF Informed
<1> QED BY <1>6, <1>7, <1>8, <1>9, <1>10, <1>11 DEF Delivery

LEMMA DeliveryTasks ==
    ASSUME Ownership, Delivery, TypeOK', NEW c \in Cmd,
           Start(c) \/ Submit(c) \/ Await(c)
    PROVE  Delivery'
<1>1. /\ pc \in [Cmd -> PcValues] /\ kind \in [Cmd -> Kinds \cup {"none"}]
      /\ itt \in [Cmd -> Itts] /\ tgt \in [Cmd -> TgtValues]
    BY DEF Ownership, TypeOK
<1>2. /\ mailbox' = mailbox
      /\ UNCHANGED <<accumulator, toInitiator, segs, rpc, pdu>>
      /\ \A d \in Cmd : d # c => pc'[d] = pc[d] /\ itt'[d] = itt[d]
                             /\ kind'[d] = kind[d] /\ tgt'[d] = tgt[d]
    BY <1>1 DEF Start, Submit, LoadCmdSN, WindowOpen, WindowClosed, AllocLo, LoFull,
        AllocHi, HiFull, Alloc, StoreSender, Stamp, Send, SendFails, Await,
        RegisterWriteData, TakeResponse, TimeOut, OnlyGo, Go, recvVars, targetVars,
        localVars
<1>3. CASE TakeResponse(c) \/ TimeOut(c) \/ RegisterWriteData(c)
    <2>1. UNCHANGED <<itt, kind, tgt>>
        BY <1>3 DEF TakeResponse, TimeOut, RegisterWriteData, OnlyGo, Go, targetVars,
                    localVars
    <2>2. /\ pc'[c] = "ok" => mailbox[c] # None /\ mailbox[c].status = "good"
          /\ pc'[c] = "failed" => mailbox[c] # None /\ mailbox[c].status # "good"
        BY <1>1, <1>3 DEF TakeResponse, TimeOut, RegisterWriteData, OnlyGo, Go
    <2>3. mailbox[c] # None => mailbox[c].status \in {"good", "check"}
        BY InformedAnswered DEF Delivery, Informed
    <2> QED BY <1>2, <2>1, <2>2, <2>3, DeliveryFrame DEF Known
<1>4. CASE Start(c) \/ Submit(c)
    <2>1. pc[c] \in PreSend /\ pc'[c] \notin {"ok", "failed"}
        BY <1>1, <1>4 DEF Start, Submit, LoadCmdSN, WindowOpen, WindowClosed, AllocLo,
            LoFull, AllocHi, HiFull, Alloc, StoreSender, Stamp, Send, SendFails,
            OnlyGo, Go, PreSend
    <2>2. tgt[c] = "none"
        BY <2>1 DEF Ownership, UnsentUnknown
    <2>3. tgt'[c] \in {"none", "sent"}
        BY <1>1, <1>4, <2>2 DEF Start, Submit, LoadCmdSN, WindowOpen, WindowClosed,
            AllocLo, LoFull, AllocHi, HiFull, Alloc, StoreSender, Stamp, Send,
            SendFails, OnlyGo, Go, targetVars
    <2> QED BY <1>2, <2>1, <2>2, <2>3, DeliveryFrame DEF Known
<1> QED BY <1>3, <1>4 DEF Await

(* The receiver takes a PDU off the connection and goes to its handler.       *)
LEMMA DeliveryReceive ==
    ASSUME Ownership, Delivery, TypeOK', Receive
    PROVE  Delivery'
<1> DEFINE n == Len(toInitiator)
<1>1. /\ pdu' = toInitiator[1] /\ n \in Nat \ {0} /\ pdu' \in Pdu
      /\ Len(toInitiator') = n - 1
      /\ \A k \in 1 .. Len(toInitiator') : toInitiator'[k] = toInitiator[k + 1]
    BY ReceiveProperties DEF Ownership
<1>2. /\ rpc = "recv" /\ rpc' = pdu'.op
      /\ UNCHANGED <<accumulator, segs, kind, itt, tgt, mailbox, pc>>
    BY <1>1, HeadTailProperties DEF Receive, Move, Ownership, TypeOK
<1>3. OnWire = {pdu'} \cup OnWire'
    <2>1. \A k \in 1 .. n : k = 1 \/ (k - 1 \in 1 .. n - 1 /\ toInitiator[k] = toInitiator'[k - 1])
        BY <1>1
    <2>2. OnWire \subseteq {pdu'} \cup OnWire'
        BY <1>1, <2>1 DEF OnWire
    <2>3. \A k \in 1 .. n - 1 : k + 1 \in 1 .. n
        BY <1>1
    <2>4. OnWire' \subseteq OnWire /\ pdu' \in OnWire
        BY <1>1, <2>3 DEF OnWire
    <2> QED BY <2>2, <2>4
<1>4. /\ IsAnswer(pdu') <=> rpc' \in {"response", "dataInStatus"}
      /\ CarriesData(pdu') <=> rpc' \in {"dataIn", "dataInStatus"}
    BY <1>2 DEF IsAnswer, CarriesData
<1>5. \A c \in Cmd : Gathering(c)' <=> Gathering(c)
    BY <1>2, <1>3, <1>4, WireForms, WireFormsNext
<1>6. \A c \in Cmd : \A s : Delivered(c, s)' <=> Delivered(c, s)
    <2> SUFFICES ASSUME NEW c \in Cmd, NEW s PROVE Delivered(c, s)' <=> Delivered(c, s)
        OBVIOUS
    <2> DEFINE Brings(p) == CarriesData(p) /\ p.cmd = c /\ p.seg = s
    <2>1. Delivered(c, s) <=> \/ <<c, s>> \in accumulator[itt[c]]
                              \/ \E p \in OnWire : Brings(p)
        BY <1>2, WireForms
    <2>2. Delivered(c, s)' <=> \/ <<c, s>> \in accumulator[itt[c]]
                               \/ \E p \in OnWire' : Brings(p)
                               \/ Brings(pdu')
        BY <1>2, <1>4, WireFormsNext
    <2>3. (\E p \in OnWire : Brings(p)) <=> (\E p \in OnWire' : Brings(p)) \/ Brings(pdu')
        BY <1>3
    <2> QED BY <2>1, <2>2, <2>3
<1>7. PdusTruthful'
    <2>1. \A p \in OnWire : Truthful(p)'
        <3> SUFFICES ASSUME NEW p \in OnWire PROVE Truthful(p)'
            OBVIOUS
        <3>1. Truthful(p)
            BY WireForms DEF Delivery
        <3>2. IsAnswer(p) \/ CarriesData(p) => p.cmd \in Cmd
            BY PdusAboutKnown
        <3> QED BY <1>2, <1>5, <3>1, <3>2 DEF Truthful, IsAnswer, CarriesData
    <2>2. Truthful(pdu)'
        <3> SUFFICES ASSUME NEW p \in OnWire, p = pdu' PROVE Truthful(pdu)'
            BY <1>3
        <3>1. Truthful(p)'
            BY <2>1
        <3> QED BY <3>1 DEF Truthful, IsAnswer, CarriesData, Gathering
    <2> QED BY <1>3, <2>1, <2>2, WireFormsNext
<1>8. DataBeforeAnswer'
    <2>1. \A k, l \in 1 .. n :
              (/\ IsAnswer(toInitiator[k]) /\ CarriesData(toInitiator[l])
               /\ toInitiator[k].cmd = toInitiator[l].cmd) => l <= k
        BY DEF Delivery, DataBeforeAnswer
    <2>2. \A k, l \in 1 .. n - 1 :
              (/\ IsAnswer(toInitiator'[k]) /\ CarriesData(toInitiator'[l])
               /\ toInitiator'[k].cmd = toInitiator'[l].cmd) => l <= k
        <3> SUFFICES ASSUME NEW k \in 1 .. n - 1, NEW l \in 1 .. n - 1,
                            IsAnswer(toInitiator[k + 1]), CarriesData(toInitiator[l + 1]),
                            toInitiator[k + 1].cmd = toInitiator[l + 1].cmd
                     PROVE  l <= k
            BY <1>1
        <3>1. k + 1 \in 1 .. n /\ l + 1 \in 1 .. n
            BY <1>1
        <3>2. l + 1 <= k + 1
            BY <2>1, <3>1
        <3> QED BY <3>2
    <2>3. rpc' \in {"response", "dataInStatus"} =>
              \A l \in 1 .. n - 1 : CarriesData(toInitiator'[l]) => toInitiator'[l].cmd # pdu'.cmd
        <3> SUFFICES ASSUME IsAnswer(toInitiator[1]), NEW l \in 1 .. n - 1,
                            CarriesData(toInitiator[l + 1]),
                            toInitiator[l + 1].cmd = toInitiator[1].cmd
                     PROVE  FALSE
            BY <1>1, <1>4
        <3>1. 1 \in 1 .. n /\ l + 1 \in 1 .. n
            BY <1>1
        <3>2. l + 1 <= 1
            BY <2>1, <3>1
        <3> QED BY <3>2
    <2> QED BY <1>1, <2>2, <2>3 DEF DataBeforeAnswer, IsAnswer, CarriesData
<1>9. SegmentsOfReads' /\ Informed'
    BY <1>2 DEF Delivery, SegmentsOfReads, Informed, DataFor
<1>10. AccumulatorOwned'
    BY <1>2, <1>5 DEF Delivery, AccumulatorOwned
<1>11. NothingLost'
    BY <1>2, <1>5, <1>6 DEF Delivery, NothingLost
<1> QED BY <1>7, <1>8, <1>9, <1>10, <1>11 DEF Delivery

(* Data is added to the accumulator. *)
LEMMA DeliveryDataIn ==
    ASSUME Ownership, Delivery, TypeOK', HandleDataIn
    PROVE  Delivery'
<1> DEFINE c == pdu.cmd
<1>1. /\ rpc = "dataIn" /\ rpc' = "recv"
      /\ accumulator' = [accumulator EXCEPT ![pdu.itt] = Accumulated]
      /\ UNCHANGED <<toInitiator, segs, kind, itt, tgt, mailbox, pc>>
    BY DEF HandleDataIn, Move, windowVars
<1>2. c \in Cmd /\ pdu.itt = itt[c] /\ itt[c] \in Itts /\ pdu.op = "dataIn"
    BY <1>1, PdusAboutKnown DEF Ownership, ReceiverInv, TypeOK
<1>3. kind[c] = "read" /\ pdu.seg \in 1 .. segs[c] /\ Gathering(c)
    BY <1>1, <1>2, WireForms DEF Delivery, Truthful, CarriesData
<1>4. accumulator \in [Itts -> Data]
    BY DEF Ownership, TypeOK
<1>5. OnWire' = OnWire
    BY <1>1 DEF OnWire
<1>6. \A d \in Cmd : Gathering(d)' <=> Gathering(d)
    BY <1>1, <1>5, WireForms, WireFormsNext
<1>7. \A d \in Cmd : \A s : Delivered(d, s) => Delivered(d, s)'
    <2> SUFFICES ASSUME NEW d \in Cmd, NEW s, Delivered(d, s) PROVE Delivered(d, s)'
        OBVIOUS
    <2>1. itt[d] \in Itts
        BY DEF Ownership, TypeOK
    <2>2. accumulator[itt[d]] \subseteq accumulator'[itt[d]]
        BY <1>1, <1>4, <2>1 DEF Accumulated
    <2>3. <<c, pdu.seg>> \in accumulator'[itt[c]]
        BY <1>1, <1>2, <1>4 DEF Accumulated
    <2> QED BY <1>1, <2>2, <2>3 DEF Delivered
<1>8. PdusTruthful'
    <2> SUFFICES ASSUME NEW p \in OnWire PROVE Truthful(p)'
        BY <1>1, <1>5, WireFormsNext
    <2>1. Truthful(p) /\ (IsAnswer(p) \/ CarriesData(p) => p.cmd \in Cmd)
        BY WireForms, PdusAboutKnown DEF Delivery
    <2> QED BY <1>1, <1>6, <2>1 DEF Truthful, IsAnswer, CarriesData
<1>9. DataBeforeAnswer' /\ SegmentsOfReads' /\ Informed'
    BY <1>1 DEF Delivery, DataBeforeAnswer, SegmentsOfReads, Informed, DataFor,
                IsAnswer, CarriesData
<1>10. AccumulatorOwned'
    <2> SUFFICES ASSUME NEW i \in Itts, NEW x \in accumulator'[i]
                 PROVE  /\ x[1] \in Cmd /\ itt[x[1]] = i /\ Gathering(x[1])'
                        /\ x[2] \in 1 .. segs[x[1]]
        BY <1>1 DEF AccumulatorOwned
    <2>1. CASE x \in accumulator[i]
        BY <1>6, <2>1 DEF Delivery, AccumulatorOwned
    <2>2. CASE x \notin accumulator[i]
        <3>1. i = itt[c] /\ x = <<c, pdu.seg>>
            BY <1>1, <1>2, <1>4, <2>2 DEF Accumulated
        <3> QED BY <1>2, <1>3, <1>6, <3>1
    <2> QED BY <2>1, <2>2
<1>11. NothingLost'
    BY <1>1, <1>6, <1>7 DEF Delivery, NothingLost
<1> QED BY <1>8, <1>9, <1>10, <1>11 DEF Delivery

(* What has been gathered when the answer comes is what the command asked for. *)
LEMMA GatheredExact ==
    ASSUME Ownership, Delivery, rpc \in {"response", "dataInStatus"},
           pdu.status = "good"
    PROVE  (IF rpc = "response" THEN accumulator[pdu.itt] ELSE Accumulated)
               = DataFor(pdu.cmd)
<1> DEFINE c == pdu.cmd
<1> DEFINE data == IF rpc = "response" THEN accumulator[pdu.itt] ELSE Accumulated
<1>1. c \in Cmd /\ pdu.itt = itt[c] /\ itt[c] \in Itts /\ pdu.op = rpc
    BY PdusAboutKnown DEF Ownership, ReceiverInv, TypeOK
<1>2. Gathering(c) /\ slots[itt[c]] = c
    BY <1>1, PdusAboutKnown DEF Gathering
<1>3. /\ kind[c] = "read" => segs[c] = DataIns
      /\ rpc = "dataInStatus" => kind[c] = "read" /\ pdu.seg \in 1 .. segs[c]
    BY <1>1, WireForms DEF Delivery, Truthful, CarriesData, IsAnswer
<1>4. accumulator[itt[c]] \in Data /\ segs[c] \in 0 .. DataIns
    BY <1>1 DEF Ownership, TypeOK
<1>5. \A x \in accumulator[itt[c]] : x[1] = c /\ x[2] \in 1 .. segs[c]
    <2> SUFFICES ASSUME NEW x \in accumulator[itt[c]]
                 PROVE  x[1] = c /\ x[2] \in 1 .. segs[c]
        OBVIOUS
    <2>1. x[1] \in Cmd /\ itt[x[1]] = itt[c] /\ Gathering(x[1]) /\ x[2] \in 1 .. segs[x[1]]
        BY <1>1 DEF Delivery, AccumulatorOwned
    <2>2. slots[itt[x[1]]] = x[1]
        BY <2>1, PdusAboutKnown
    <2> QED BY <1>2, <2>1, <2>2
<1>6. CASE kind[c] = "read"
    <2>1. \A s \in Segments : Delivered(c, s)
        BY <1>1, <1>2, <1>3, <1>6 DEF Delivery, NothingLost, Segments
    <2>2. \A p \in OnWire : CarriesData(p) => p.cmd # c
        BY DEF OnWire, Delivery, DataBeforeAnswer
    <2>3. \A s \in Segments : <<c, s>> \in data
        BY <1>1, <2>1, <2>2, WireForms DEF Accumulated
    <2>4. \A x \in data : x \in {c} \X Segments
        BY <1>1, <1>3, <1>4, <1>5, <1>6 DEF Data, Segments, Accumulated
    <2>5. data = {c} \X Segments
        BY <2>3, <2>4
    <2> QED BY <1>6, <2>5 DEF DataFor
<1>7. CASE kind[c] # "read"
    <2>1. segs[c] = 0
        BY <1>1, <1>4, <1>7 DEF Delivery, SegmentsOfReads
    <2>2. accumulator[itt[c]] = {}
        BY <1>5, <2>1
    <2> QED BY <1>1, <1>3, <1>7, <2>2 DEF DataFor
<1> QED BY <1>6, <1>7

(* A response is handled: the command it answers has all its data. *)
LEMMA DeliveryComplete ==
    ASSUME Ownership, Delivery, TypeOK', HandleScsiResponse \/ HandleDataInStatus
    PROVE  Delivery'
<1> DEFINE c == pdu.cmd
<1> DEFINE data == IF rpc = "response" THEN accumulator[pdu.itt] ELSE Accumulated
<1>1. /\ rpc \in {"response", "dataInStatus"} /\ rpc' = "free" /\ pdu' = pdu
      /\ accumulator' = [accumulator EXCEPT ![pdu.itt] = {}]
      /\ UNCHANGED <<toInitiator, segs, kind, itt, tgt, pc>>
      /\ mailbox' = [d \in Cmd |->
                       IF d = completions[pdu.itt] /\ Listening(d)
                       THEN [status |-> pdu.status, data |-> data, from |-> pdu.cmd]
                       ELSE mailbox[d]]
    BY DEF HandleScsiResponse, HandleDataInStatus, Complete, Move, windowVars
<1>2. /\ c \in Cmd /\ pdu.itt = itt[c] /\ itt[c] \in Itts /\ pdu.op = rpc
      /\ tgt[c] \in {"good", "check"} /\ Gathering(c) /\ slots[itt[c]] = c
    BY <1>1, PdusAboutKnown DEF Ownership, ReceiverInv, TypeOK, Gathering
<1>3. accumulator \in [Itts -> Data]
    BY DEF Ownership, TypeOK
<1>4. completions[itt[c]] = c
    BY <1>1, <1>2 DEF Ownership, UnsentUnknown, SenderStored, Holding, AnswerPending, PreSend
<1>5. OnWire' = OnWire
    BY <1>1 DEF OnWire
<1>6. \A p \in OnWire : /\ IsAnswer(p) => p.cmd # c
                        /\ CarriesData(p) => p.cmd # c
    BY <1>1 DEF OnWire, Ownership, OneAnswer, Delivery, DataBeforeAnswer
<1>7. \A d \in Cmd : Gathering(d)' <=> Gathering(d) /\ d # c
    <2>1. \A d \in Cmd : d = c => ~Gathering(d)'
        BY <1>1, <1>2, <1>5, <1>6, WireFormsNext
    <2>2. \A d \in Cmd : d # c => (Gathering(d)' <=> Gathering(d))
        BY <1>1, <1>5, WireForms, WireFormsNext
    <2> QED BY <2>1, <2>2
<1>8. \A d \in Cmd : Gathering(d)' => itt[d] # itt[c]
    BY <1>2, <1>7, PdusAboutKnown
<1>9. PdusTruthful'
    <2> SUFFICES ASSUME NEW p \in OnWire PROVE Truthful(p)'
        BY <1>1, <1>5, WireFormsNext
    <2>1. Truthful(p) /\ (IsAnswer(p) \/ CarriesData(p) => p.cmd \in Cmd)
        BY WireForms, PdusAboutKnown DEF Delivery
    <2> QED BY <1>1, <1>6, <1>7, <2>1 DEF Truthful, IsAnswer, CarriesData
<1>10. DataBeforeAnswer' /\ SegmentsOfReads'
    BY <1>1 DEF Delivery, DataBeforeAnswer, SegmentsOfReads, IsAnswer, CarriesData
<1>11. AccumulatorOwned'
    <2> SUFFICES ASSUME NEW i \in Itts, NEW x \in accumulator'[i]
                 PROVE  /\ x[1] \in Cmd /\ itt[x[1]] = i /\ Gathering(x[1])'
                        /\ x[2] \in 1 .. segs[x[1]]
        BY <1>1 DEF AccumulatorOwned
    <2>1. i # itt[c] /\ x \in accumulator[i]
        BY <1>1, <1>2, <1>3
    <2>2. x[1] \in Cmd /\ itt[x[1]] = i /\ Gathering(x[1]) /\ x[2] \in 1 .. segs[x[1]]
        BY <2>1 DEF Delivery, AccumulatorOwned
    <2> QED BY <1>7, <2>1, <2>2
<1>12. NothingLost'
    <2> SUFFICES ASSUME NEW d \in Cmd, Gathering(d)', NEW s \in 1 .. segs[d]
                 PROVE  Delivered(d, s)'
        BY <1>1 DEF NothingLost
    <2>1. Delivered(d, s) /\ d # c
        BY <1>7 DEF Delivery, NothingLost
    <2>2. itt[d] \in Itts /\ itt[d] # itt[c]
        BY <1>8 DEF Ownership, TypeOK
    <2>3. accumulator'[itt[d]] = accumulator[itt[d]]
        BY <1>1, <1>2, <1>3, <2>2
    <2> QED BY <1>1, <2>1, <2>3 DEF Delivered, CarriesData
<1>13. Informed'
    <2>1. \A d \in Cmd : DataFor(d)' = DataFor(d)
        BY <1>1 DEF DataFor
    <2>2. \A d \in Cmd : d # c \/ ~Listening(d) => mailbox'[d] = mailbox[d]
        BY <1>1, <1>2, <1>4
    <2>3. ASSUME Listening(c)
          PROVE  /\ mailbox'[c].status = tgt[c]
                 /\ mailbox'[c].status = "good" => mailbox'[c].data = DataFor(c)
                 /\ pc[c] \notin {"ok", "failed"}
        <3>1. mailbox'[c] = [status |-> pdu.status, data |-> data, from |-> pdu.cmd]
            BY <1>1, <1>2, <1>4, <2>3
        <3>2. pdu.status = tgt[c]
            BY <1>1, <1>2, WireForms DEF Delivery, Truthful, IsAnswer
        <3>3. pdu.status = "good" => data = DataFor(c)
            BY <1>1, GatheredExact
        <3>4. pc[c] \notin {"ok", "failed"}
            BY <2>3 DEF Listening, Terminal
        <3>5. mailbox'[c].status = pdu.status /\ mailbox'[c].data = data
            BY <3>1
        <3> QED BY <3>2, <3>3, <3>4, <3>5
    <2> QED BY <1>1, <1>2, <2>1, <2>2, <2>3 DEF Delivery, Informed
<1> QED BY <1>9, <1>10, <1>11, <1>12, <1>13 DEF Delivery

LEMMA DeliveryReceiver ==
    ASSUME Ownership, Delivery, TypeOK', Receiver
    PROVE  Delivery'
<1>1. CASE \/ ReceiverDies \/ FreeItt \/ RemoveWriteData \/ DataOutFails
           \/ R2tPoll \/ R2tGiveUp \/ HandleNopIn
    <2>1. /\ UNCHANGED <<accumulator, toInitiator, segs, kind, itt, tgt, mailbox, pc>>
          /\ rpc \notin {"response", "dataIn", "dataInStatus"}
          /\ rpc' \notin {"response", "dataIn", "dataInStatus"}
        BY <1>1 DEF ReceiverDies, FreeItt, RemoveWriteData, DataOutFails, R2tPoll,
                    R2tGiveUp, HandleNopIn, Move, windowVars
    <2>2. \A c \in Cmd : ~Known(c) => tgt[c] \in {"none", "sent", "ignored"}
        BY DEF Known
    <2> QED BY <2>1, <2>2, DeliveryFrame
<1>2. CASE SendDataOut
    <2>1. /\ UNCHANGED <<accumulator, toInitiator, segs, kind, itt, mailbox, pc>>
          /\ rpc = "r2t" /\ rpc' = "recv"
          /\ \E whole \in BOOLEAN :
                 tgt' = [tgt EXCEPT ![pdu.cmd] = IF @ = "asked" /\ whole THEN "served" ELSE @]
        BY <1>2 DEF SendDataOut, Move, windowVars
    <2>2. /\ tgt \in [Cmd -> TgtValues] /\ pdu.cmd \in Cmd
          /\ \A c \in Cmd : tgt'[c] = tgt[c] \/ (tgt[c] = "asked" /\ tgt'[c] = "served")
        <3>1. tgt \in [Cmd -> TgtValues] /\ pdu.cmd \in Cmd
            BY <2>1, PdusAboutKnown DEF Ownership, TypeOK
        <3> QED BY <2>1, <3>1
    <2>3. \A c \in Cmd : ~Known(c) => tgt'[c] \in {"none", "sent", "ignored"}
        BY <2>2 DEF Known
    <2> QED BY <2>1, <2>2, <2>3, DeliveryFrame
<1> QED
    BY <1>1, <1>2, DeliveryReceive, DeliveryDataIn, DeliveryComplete DEF Receiver

(* The target sends a PDU about c, which it has taken and not answered: data, *)
(* an answer, both, or an R2T.                                                *)
LEMMA DeliverySends ==
    ASSUME Ownership, Delivery, TypeOK', NEW c \in Cmd,
           NEW op \in {"response", "dataIn", "dataInStatus", "r2t"},
           NEW seg \in 0 .. DataIns, NEW status \in {"good", "check"},
           TargetSends(op, c, seg, status),
           tgt[c] \in {"accepted", "asked", "served"},
           NEW to \in {"accepted", "asked", "good", "check"},
           tgt' = [tgt EXCEPT ![c] = to],
           op \in {"response", "dataInStatus"} <=> to \in {"good", "check"},
           to \in {"good", "check"} => to = status,
           op \notin {"dataIn", "dataInStatus"} => segs' = segs,
           op \in {"dataIn", "dataInStatus"} =>
               /\ kind[c] = "read" /\ tgt[c] = "accepted" /\ to # "asked"
               /\ seg = segs[c] + 1 /\ segs' = [segs EXCEPT ![c] = @ + 1],
           to = "good" /\ kind[c] = "read" => segs'[c] = DataIns,
           to = "asked" => kind[c] = "writeR2t",
           UNCHANGED <<poolVars, taskVars, recvVars>>
    PROVE  Delivery'
<1> DEFINE n == Len(toInitiator)
<1>0. /\ UNCHANGED <<accumulator, kind, itt, mailbox, pc, rpc, pdu>>
      /\ segs \in [Cmd -> 0 .. DataIns] /\ tgt \in [Cmd -> TgtValues]
      /\ segs' \in [Cmd -> 0 .. DataIns]
      /\ itt \in [Cmd -> Itts]
    BY DEF Ownership, TypeOK, poolVars, taskVars, recvVars
<1>1. /\ n \in Nat /\ Len(toInitiator') = n + 1
      /\ \A k \in 1 .. n : toInitiator'[k] = toInitiator[k]
      /\ \E p \in Pdu :
            /\ toInitiator'[n + 1] = p /\ p.op = op /\ p.cmd = c /\ p.seg = seg
            /\ p.status = status
    <2>1. c # None /\ c \in Cmd \cup {None}
        BY SessionAssumption
    <2>2. TypeOK
        BY DEF Ownership
    <2>3. op \in {"response", "dataIn", "dataInStatus", "r2t", "nopIn"}
        OBVIOUS
    <2> QED BY <2>1, <2>2, <2>3, SendsProperties
<1>2. PICK p \in Pdu :
         /\ toInitiator'[n + 1] = p /\ p.op = op /\ p.cmd = c /\ p.seg = seg
         /\ p.status = status
    BY <1>1
<1>3. OnWire' = OnWire \cup {p}
    <2>1. \A k \in 1 .. n + 1 : k \in 1 .. n \/ k = n + 1
        BY <1>1
    <2>2. OnWire' \subseteq OnWire \cup {p}
        BY <1>1, <1>2, <2>1 DEF OnWire
    <2>3. \A k \in 1 .. n : k \in 1 .. n + 1
        BY <1>1
    <2>4. n + 1 \in 1 .. n + 1
        BY <1>1
    <2>5. OnWire \cup {p} \subseteq OnWire'
        BY <1>1, <1>2, <2>3, <2>4 DEF OnWire
    <2> QED BY <2>2, <2>5
<1>4. /\ IsAnswer(p) <=> to \in {"good", "check"}
      /\ CarriesData(p) <=> op \in {"dataIn", "dataInStatus"}
    BY <1>2 DEF IsAnswer, CarriesData
<1>5. /\ tgt'[c] = to /\ \A d \in Cmd : d # c => tgt'[d] = tgt[d]
      /\ \A d \in Cmd : d # c => segs'[d] = segs[d]
      /\ segs[c] <= segs'[c]
    BY <1>0
<1>6. /\ \A q \in OnWire : IsAnswer(q) => q.cmd # c
      /\ rpc \in {"response", "dataInStatus"} => pdu.cmd # c
    BY PdusAboutKnown
<1>7. \A d \in Cmd : Gathering(d)' <=> Gathering(d)
    <2>1. \A d \in Cmd : d # c => (Gathering(d)' <=> Gathering(d))
        <3> SUFFICES ASSUME NEW d \in Cmd, d # c PROVE Gathering(d)' <=> Gathering(d)
            OBVIOUS
        <3>1. (\E q \in OnWire' : IsAnswer(q) /\ q.cmd = d)
                  <=> (\E q \in OnWire : IsAnswer(q) /\ q.cmd = d)
            BY <1>2, <1>3
        <3> QED BY <1>0, <1>5, <3>1, WireForms, WireFormsNext
    <2>2. Gathering(c)
        BY DEF Gathering
    <2>3. Gathering(c)'
        BY <1>2, <1>3, <1>4, <1>5, WireFormsNext
    <2> QED BY <2>1, <2>2, <2>3
<1>8. PdusTruthful'
    <2>1. \A q \in OnWire : Truthful(q)'
        <3> SUFFICES ASSUME NEW q \in OnWire PROVE Truthful(q)'
            OBVIOUS
        <3>1. /\ Truthful(q) /\ (IsAnswer(q) \/ CarriesData(q) => q.cmd \in Cmd)
              /\ IsAnswer(q) => q.cmd # c
            BY <1>6, WireForms, PdusAboutKnown DEF Delivery
        <3>2. segs[c] \in Nat /\ segs'[c] \in Nat
            BY <1>0
        <3> QED BY <1>0, <1>5, <1>7, <3>1, <3>2 DEF Truthful, IsAnswer, CarriesData
    <2>2. Truthful(p)'
        <3>1. CarriesData(p) => /\ kind[c] = "read" /\ seg \in 1 .. segs'[c]
                                /\ Gathering(c)'
            BY <1>0, <1>4, <1>7 DEF Gathering
        <3>2. IsAnswer(p) => /\ status = tgt'[c]
                             /\ (status = "good" /\ kind[c] = "read") => segs'[c] = DataIns
            BY <1>4, <1>5
        <3> SUFFICES ASSUME NEW d \in Cmd, d = c, d = p.cmd,
                            NEW q, q = p
                     PROVE  /\ CarriesData(q) =>
                                 /\ kind'[d] = "read" /\ q.seg \in 1 .. segs'[d]
                                 /\ Gathering(d)'
                            /\ IsAnswer(q) =>
                                 /\ q.status = tgt'[d]
                                 /\ (q.status = "good" /\ kind'[d] = "read")
                                        => segs'[d] = DataIns
            BY <1>2 DEF Truthful, IsAnswer, CarriesData
        <3> QED BY <1>0, <1>2, <1>7, <3>1, <3>2 DEF Gathering
    <2>3. rpc' \in {"response", "dataIn", "dataInStatus"} => Truthful(pdu)'
        <3> SUFFICES ASSUME rpc \in {"response", "dataIn", "dataInStatus"}
                     PROVE  Truthful(pdu)'
            BY <1>0
        <3>1. /\ Truthful(pdu) /\ pdu.cmd \in Cmd /\ pdu.op = rpc
              /\ IsAnswer(pdu) => pdu.cmd # c
            BY <1>6, WireForms, PdusAboutKnown
               DEF Delivery, Ownership, ReceiverInv, IsAnswer
        <3>2. segs[c] \in Nat /\ segs'[c] \in Nat
            BY <1>0
        <3>3. \A d \in Cmd : d = pdu.cmd => (Gathering(d)' <=> Gathering(d))
            BY <1>7
        <3> SUFFICES ASSUME NEW q, q = pdu PROVE Truthful(q)'
            BY <1>0 DEF Truthful, IsAnswer, CarriesData, Gathering
        <3> QED BY <1>0, <1>5, <3>1, <3>2, <3>3 DEF Truthful, IsAnswer, CarriesData
    <2> QED BY <1>3, <2>1, <2>2, <2>3, WireFormsNext
<1>9. DataBeforeAnswer'
    <2>1. \A k \in 1 .. n + 1 : k \in 1 .. n \/ k = n + 1
        BY <1>1
    <2>2. \A k \in 1 .. n : IsAnswer(toInitiator[k]) => toInitiator[k].cmd # c
        BY <1>6 DEF OnWire
    <2>3. ASSUME NEW k \in 1 .. n + 1, NEW l \in 1 .. n + 1,
                 IsAnswer(toInitiator'[k]), CarriesData(toInitiator'[l]),
                 toInitiator'[k].cmd = toInitiator'[l].cmd
          PROVE  l <= k
        <3>1. CASE k \in 1 .. n /\ l \in 1 .. n
            BY <1>1, <2>3, <3>1 DEF Delivery, DataBeforeAnswer
        <3>2. CASE k \in 1 .. n /\ l = n + 1
            BY <1>1, <1>2, <2>2, <2>3, <3>2
        <3>3. CASE k = n + 1
            BY <1>1, <3>3
        <3> QED BY <2>1, <3>1, <3>2, <3>3
    <2>4. ASSUME rpc \in {"response", "dataInStatus"},
                 NEW k \in 1 .. n + 1, CarriesData(toInitiator'[k])
          PROVE  toInitiator'[k].cmd # pdu.cmd
        <3>1. CASE k \in 1 .. n
            BY <1>1, <2>4, <3>1 DEF Delivery, DataBeforeAnswer
        <3>2. CASE k = n + 1
            BY <1>2, <1>6, <2>4, <3>2
        <3> QED BY <2>1, <3>1, <3>2
    <2> HIDE DEF n
    <2> QED BY <1>0, <1>1, <2>3, <2>4 DEF DataBeforeAnswer, IsAnswer, CarriesData
<1>10. SegmentsOfReads'
    <2>1. \A d \in Cmd :
              /\ segs[d] > 0 => kind[d] = "read" /\ tgt[d] \in {"accepted", "good", "check"}
              /\ tgt[d] \in {"asked", "served"} => kind[d] = "writeR2t"
        BY DEF Delivery, SegmentsOfReads
    <2>2. segs'[c] > 0 => kind[c] = "read" /\ to \in {"accepted", "good", "check"}
        BY <1>0, <1>5, <2>1
    <2> QED BY <1>0, <1>5, <2>1, <2>2 DEF SegmentsOfReads
<1>11. AccumulatorOwned'
    <2> SUFFICES ASSUME NEW i \in Itts, NEW x \in accumulator[i]
                 PROVE  /\ x[1] \in Cmd /\ itt[x[1]] = i /\ Gathering(x[1])'
                        /\ x[2] \in 1 .. segs'[x[1]]
        BY <1>0 DEF AccumulatorOwned
    <2>1. x[1] \in Cmd /\ itt[x[1]] = i /\ Gathering(x[1]) /\ x[2] \in 1 .. segs[x[1]]
        BY DEF Delivery, AccumulatorOwned
    <2>2. segs[x[1]] \in Nat /\ segs'[x[1]] \in Nat /\ segs[x[1]] <= segs'[x[1]]
        BY <1>0, <1>5, <2>1
    <2> QED BY <1>7, <2>1, <2>2
<1>12. NothingLost'
    <2> SUFFICES ASSUME NEW d \in Cmd, Gathering(d), NEW s \in 1 .. segs'[d]
                 PROVE  Delivered(d, s)'
        BY <1>7 DEF NothingLost
    <2>1. Delivered(d, s) => Delivered(d, s)'
        <3> DEFINE Brings(q) == CarriesData(q) /\ q.cmd = d /\ q.seg = s
        <3>1. (\E q \in OnWire : Brings(q)) => (\E q \in OnWire' : Brings(q))
            BY <1>3
        <3>2. accumulator'[itt'[d]] = accumulator[itt[d]] /\ rpc' = rpc /\ pdu' = pdu
            BY <1>0
        <3> QED BY <3>1, <3>2, WireForms, WireFormsNext
    <2>2. CASE s \in 1 .. segs[d]
        BY <2>1, <2>2 DEF Delivery, NothingLost
    <2>3. CASE s \notin 1 .. segs[d]
        <3>1. d = c /\ CarriesData(p) /\ s = seg
            BY <1>0, <1>4, <1>5, <2>3
        <3> QED BY <1>2, <1>3, <3>1, WireFormsNext
    <2> QED BY <2>2, <2>3
<1>13. Informed'
    <2>1. \A d \in Cmd : mailbox[d] # None => d # c
        BY InformedAnswered
    <2> QED BY <1>0, <1>5, <2>1 DEF Delivery, Informed, DataFor
<1> QED BY <1>8, <1>9, <1>10, <1>11, <1>12, <1>13 DEF Delivery

(* A ping brings neither data nor an answer. *)
LEMMA DeliveryPing ==
    ASSUME Ownership, Delivery, TypeOK', TargetPings
    PROVE  Delivery'
<1> DEFINE n == Len(toInitiator)
<1>0. UNCHANGED <<accumulator, kind, itt, mailbox, pc, rpc, pdu, tgt, segs>>
    BY DEF TargetPings, recvVars, taskVars
<1>1. /\ n \in Nat /\ Len(toInitiator') = n + 1
      /\ \A k \in 1 .. n : toInitiator'[k] = toInitiator[k]
      /\ toInitiator'[n + 1].op = "nopIn"
    <2>1. TypeOK /\ 0 \in 0 .. DataIns
        BY SessionAssumption DEF Ownership
    <2> QED BY <2>1, SendsProperties DEF TargetPings
<1>2. \A q : q.op = "nopIn" => ~IsAnswer(q) /\ ~CarriesData(q)
    BY DEF IsAnswer, CarriesData
<1>3. /\ OnWire \subseteq OnWire'
      /\ \A q \in OnWire' : q \in OnWire \/ q.op = "nopIn"
    <2>1. \A k \in 1 .. n + 1 : k \in 1 .. n \/ k = n + 1
        BY <1>1
    <2>2. \A k \in 1 .. n : k \in 1 .. n + 1
        BY <1>1
    <2> QED BY <1>1, <2>1, <2>2 DEF OnWire
<1>4. \A d \in Cmd : Gathering(d)' <=> Gathering(d)
    BY <1>0, <1>2, <1>3, WireForms, WireFormsNext
<1>5. PdusTruthful'
    <2>1. \A q \in OnWire' : Truthful(q)'
        <3> SUFFICES ASSUME NEW q \in OnWire PROVE Truthful(q)'
            BY <1>2, <1>3 DEF Truthful, IsAnswer, CarriesData
        <3>1. Truthful(q) /\ (IsAnswer(q) \/ CarriesData(q) => q.cmd \in Cmd)
            BY WireForms, PdusAboutKnown DEF Delivery
        <3> QED BY <1>0, <1>4, <3>1 DEF Truthful, IsAnswer, CarriesData
    <2>2. rpc \in {"response", "dataIn", "dataInStatus"} => Truthful(pdu)'
        <3> SUFFICES ASSUME NEW q, q = pdu, rpc \in {"response", "dataIn", "dataInStatus"}
                     PROVE  Truthful(q)'
            BY <1>0 DEF Truthful, IsAnswer, CarriesData, Gathering
        <3>1. Truthful(q) /\ q.cmd \in Cmd
            BY WireForms, PdusAboutKnown DEF Delivery
        <3> QED BY <1>0, <1>4, <3>1 DEF Truthful, IsAnswer, CarriesData
    <2> QED BY <1>0, <2>1, <2>2, WireFormsNext
<1>6. DataBeforeAnswer'
    <2>1. \A k \in 1 .. n + 1 :
              IsAnswer(toInitiator'[k]) \/ CarriesData(toInitiator'[k]) =>
                  k \in 1 .. n /\ toInitiator'[k] = toInitiator[k]
        BY <1>1, <1>2
    <2> HIDE DEF n
    <2> QED BY <1>0, <1>1, <2>1 DEF Delivery, DataBeforeAnswer, IsAnswer, CarriesData, n
<1>7. SegmentsOfReads' /\ Informed'
    BY <1>0 DEF Delivery, SegmentsOfReads, Informed, DataFor
<1>8. AccumulatorOwned'
    BY <1>0, <1>4 DEF Delivery, AccumulatorOwned
<1>9. NothingLost'
    <2> SUFFICES ASSUME NEW d \in Cmd, Gathering(d), NEW s \in 1 .. segs[d]
                 PROVE  Delivered(d, s)'
        BY <1>0, <1>4 DEF NothingLost
    <2> DEFINE Brings(q) == CarriesData(q) /\ q.cmd = d /\ q.seg = s
    <2>1. Delivered(d, s)
        BY DEF Delivery, NothingLost
    <2>2. (\E q \in OnWire : Brings(q)) => (\E q \in OnWire' : Brings(q))
        BY <1>3
    <2>3. accumulator'[itt'[d]] = accumulator[itt[d]] /\ rpc' = rpc /\ pdu' = pdu
        BY <1>0
    <2>4. Delivered(d, s) <=> \/ <<d, s>> \in accumulator[itt[d]]
                              \/ \E q \in OnWire : Brings(q)
                              \/ rpc \in {"dataIn", "dataInStatus"} /\ pdu.cmd = d /\ pdu.seg = s
        BY WireForms
    <2>5. Delivered(d, s)' <=> \/ <<d, s>> \in accumulator'[itt'[d]]
                               \/ \E q \in OnWire' : Brings(q)
                               \/ rpc' \in {"dataIn", "dataInStatus"} /\ pdu'.cmd = d /\ pdu'.seg = s
        BY WireFormsNext
    <2> QED BY <2>1, <2>2, <2>3, <2>4, <2>5
<1> QED BY <1>5, <1>6, <1>7, <1>8, <1>9 DEF Delivery

LEMMA DeliveryTarget ==
    ASSUME Ownership, Delivery, TypeOK',
           \/ SendLogout \/ ConnLost \/ \E c \in Cmd : TargetAnswers(c)
    PROVE  Delivery'
<1>1. CASE SendLogout \/ ConnLost
    <2>1. UNCHANGED <<accumulator, toInitiator, segs, rpc, pdu, itt, kind, tgt, mailbox, pc>>
        BY <1>1 DEF SendLogout, ConnLost, recvVars, taskVars, targetVars
    <2>2. \A c \in Cmd : ~Known(c) => tgt[c] \in {"none", "sent", "ignored"}
        BY DEF Known
    <2> QED BY <2>1, <2>2, DeliveryFrame
<1> SUFFICES ASSUME NEW c \in Cmd, TargetAnswers(c) PROVE Delivery'
    BY <1>1
<1> USE DEF Advance
<1>2. /\ segs \in [Cmd -> 0 .. DataIns] /\ tgt \in [Cmd -> TgtValues]
      /\ 0 \in 0 .. DataIns /\ DataIns \in Nat \ {0}
      /\ \A d \in Cmd : segs[d] > 0 => kind[d] = "read"
      /\ \A d \in Cmd : tgt[d] \in {"asked", "served"} => kind[d] = "writeR2t"
    <2>1. segs \in [Cmd -> 0 .. DataIns] /\ tgt \in [Cmd -> TgtValues]
        BY DEF Ownership, TypeOK
    <2>2. 0 \in 0 .. DataIns /\ DataIns \in Nat \ {0}
        BY SessionAssumption
    <2> QED BY <2>1, <2>2 DEF Delivery, SegmentsOfReads
<1>3. CASE TargetAccepts(c) \/ TargetIgnores(c)
    <2>1. /\ UNCHANGED <<accumulator, toInitiator, segs, rpc, pdu, itt, kind, mailbox, pc>>
          /\ tgt[c] = "sent" /\ tgt'[c] \in {"accepted", "ignored"}
          /\ \A d \in Cmd : d # c => tgt'[d] = tgt[d]
        BY <1>2, <1>3 DEF TargetAccepts, TargetIgnores, recvVars, taskVars
    <2>2. \A d \in Cmd : /\ ~Known(d) => tgt'[d] \in {"none", "sent", "ignored", "accepted"}
                         /\ Known(d) => d # c
        BY <2>1 DEF Known
    <2> QED BY <2>1, <2>2, DeliveryFrame
<1>4. CASE TargetSendsDataIn(c)
    <2>1. segs[c] + 1 \in 0 .. DataIns
        BY <1>2, <1>4 DEF TargetSendsDataIn
    <2> QED BY <1>2, <1>4, <2>1, DeliverySends DEF TargetSendsDataIn
<1>5. CASE TargetSendsDataInStatus(c)
    <2>1. segs[c] + 1 \in 0 .. DataIns /\ segs'[c] = DataIns
        BY <1>2, <1>5 DEF TargetSendsDataInStatus
    <2> QED BY <1>2, <1>5, <2>1, DeliverySends DEF TargetSendsDataInStatus
<1>6. CASE TargetSendsR2t(c)
    BY <1>2, <1>6, DeliverySends DEF TargetSendsR2t
<1>7. CASE TargetResponds(c)
    BY <1>2, <1>7, DeliverySends DEF TargetResponds, DataDone
<1>8. CASE TargetRejects(c)
    BY <1>2, <1>8, DeliverySends DEF TargetRejects
<1> QED BY <1>3, <1>4, <1>5, <1>6, <1>7, <1>8 DEF TargetAnswers

LEMMA DeliveryStep ==
    ASSUME Ownership, Delivery, [Next]_vars
    PROVE  Delivery'
<1>1. CASE UNCHANGED vars
    <2>1. UNCHANGED <<accumulator, toInitiator, segs, rpc, pdu, itt, kind, tgt, mailbox, pc>>
        BY <1>1 DEF vars, recvVars, taskVars, targetVars
    <2>2. \A c \in Cmd : ~Known(c) => tgt[c] \in {"none", "sent", "ignored"}
        BY DEF Known
    <2>3. Ownership'
        BY <1>1, OwnershipStep
    <2> QED BY <2>1, <2>2, <2>3, DeliveryFrame DEF Ownership
<1>2. CASE Next
    <2>1. TypeOK'
        BY <1>2, OwnershipStep DEF Ownership
    <2> QED
        BY <1>2, <2>1, DeliveryTasks, DeliveryReceiver, DeliveryPing, DeliveryTarget
           DEF Next
<1> QED BY <1>1, <1>2

(* The accumulator and the mailboxes hold what Delivery says. *)
THEOREM DeliveryInvariant == Spec => [](Ownership /\ Delivery)
<1>1. Init => Ownership /\ Delivery
    BY OwnershipInit, DeliveryInit
<1>2. Ownership /\ Delivery /\ [Next]_vars => (Ownership /\ Delivery)'
    BY OwnershipStep, DeliveryStep
<1> QED BY <1>1, <1>2, PTL DEF Spec

(* A read that succeeds returns exactly its own Data-In, whatever timed out   *)
(* before it under the same ITT: data_accumulator is emptied by the answer    *)
(* that ends a command, and no data comes behind an answer.                   *)
THEOREM ReadsAreExact == Spec => []ReadDataExact
<1>1. Delivery => ReadDataExact
    BY DEF Delivery, Informed, DataFor, ReadDataExact
<1> QED BY <1>1, DeliveryInvariant, PTL

----------------------------------------------------------------------------
(* Session implements CommandService.  A step that takes no task from one     *)
(* state of CommandService to another and answers no command is a stutter.    *)
LEMMA ServiceStutters ==
    ASSUME UNCHANGED kind,
           \A c \in Cmd : /\ CallerState(c)' = CallerState(c)
                          /\ TargetAnswer(c)' = TargetAnswer(c)
                          /\ pc'[c] = "ok" <=> pc[c] = "ok"
                          /\ pc[c] = "ok" => mailbox'[c] = mailbox[c]
    PROVE  UNCHANGED Service!serviceVars
BY DEF Service!serviceVars

LEMMA CallerStates ==
    ASSUME NEW c \in Cmd
    PROVE  /\ pc[c] = "idle" => CallerState(c) = "idle"
           /\ pc[c] \in Terminal => CallerState(c) = pc[c]
           /\ pc[c] \notin {"idle"} \cup Terminal => CallerState(c) = "issued"
           /\ pc'[c] = "idle" => CallerState(c)' = "idle"
           /\ pc'[c] \in Terminal => CallerState(c)' = pc'[c]
           /\ pc'[c] \notin {"idle"} \cup Terminal => CallerState(c)' = "issued"
BY DEF CallerState, Terminal

(* Submission and the window are inside "issued". *)
LEMMA TasksServe ==
    ASSUME Ownership, Delivery, NEW c \in Cmd, Start(c) \/ Submit(c) \/ Await(c)
    PROVE  [Service!ServiceNext]_Service!serviceVars
<1>1. /\ pc \in [Cmd -> PcValues] /\ kind \in [Cmd -> Kinds \cup {"none"}]
      /\ mailbox \in [Cmd -> Response \cup {None}] /\ tgt \in [Cmd -> TgtValues]
    BY DEF Ownership, TypeOK
<1>2. /\ UNCHANGED mailbox
      /\ \A d \in Cmd : d # c => pc'[d] = pc[d]
      /\ \A d \in Cmd : d # c => CallerState(d)' = CallerState(d)
    <2>1. UNCHANGED mailbox /\ \A d \in Cmd : d # c => pc'[d] = pc[d]
        BY <1>1 DEF Start, Submit, LoadCmdSN, WindowOpen, WindowClosed, AllocLo, LoFull,
            AllocHi, HiFull, Alloc, StoreSender, Stamp, Send, SendFails, Await,
            RegisterWriteData, TakeResponse, TimeOut, OnlyGo, Go, localVars
    <2> QED BY <2>1 DEF CallerState
<1>3. CASE Start(c)
    <2>1. /\ pc[c] = "idle" /\ pc'[c] = "loadCmdSN" /\ tgt' = tgt
          /\ \E k \in Kinds : kind' = [kind EXCEPT ![c] = k]
        BY <1>1, <1>3 DEF Start, Go, targetVars
    <2>2. CallerState(c) = "idle" /\ CallerState(c)' = "issued"
        BY <2>1, CallerStates DEF Terminal
    <2>3. Service!Issue(c)
        BY <1>1, <1>2, <2>1, <2>2 DEF Service!Issue, TargetAnswer
    <2> QED BY <2>3 DEF Service!ServiceNext
<1>4. CASE SendFails(c)
    <2>1. pc[c] = "send" /\ pc'[c] = "error" /\ UNCHANGED <<tgt, kind>>
        BY <1>1, <1>4 DEF SendFails, OnlyGo, Go, targetVars, localVars
    <2>2. CallerState(c) = "issued" /\ CallerState(c)' = "error"
        BY <2>1, CallerStates DEF Terminal
    <2>3. TargetAnswer(c) = "none"
        BY <2>1 DEF Ownership, UnsentUnknown, PreSend, TargetAnswer
    <2>4. Service!CannotSend(c)
        BY <1>1, <1>2, <2>1, <2>2, <2>3 DEF Service!CannotSend, TargetAnswer
    <2> QED BY <2>4 DEF Service!ServiceNext
<1>5. CASE TimeOut(c)
    <2>1. pc[c] = "await" /\ pc'[c] = "timedOut" /\ UNCHANGED <<tgt, kind>>
        BY <1>1, <1>5 DEF TimeOut, OnlyGo, Go, targetVars, localVars
    <2>2. CallerState(c) = "issued" /\ CallerState(c)' = "timedOut"
        BY <2>1, CallerStates DEF Terminal
    <2>3. Service!TimeOut(c)
        BY <1>1, <1>2, <2>1, <2>2 DEF Service!TimeOut, TargetAnswer
    <2> QED BY <2>3 DEF Service!ServiceNext
<1>6. CASE TakeResponse(c)
    <2>1. /\ pc[c] = "await" /\ UNCHANGED <<tgt, kind>> /\ mailbox[c] # None
          /\ pc'[c] = IF mailbox[c].status = "good" THEN "ok" ELSE "failed"
        BY <1>1, <1>6 DEF TakeResponse, OnlyGo, Go, targetVars, localVars
    <2>2. /\ tgt[c] \in {"good", "check"} /\ mailbox[c].status = tgt[c]
          /\ mailbox[c].status = "good" => mailbox[c].data = DataFor(c)
        BY <2>1, InformedAnswered DEF Delivery, Informed
    <2>3. TargetAnswer(c) = tgt[c]
        BY <2>2 DEF TargetAnswer
    <2>4. CallerState(c) = "issued" /\ CallerState(c)' = pc'[c]
        BY <2>1, CallerStates DEF Terminal
    <2>5. CASE tgt[c] = "good"
        <3>1. pc'[c] = "ok" /\ mailbox[c].data = IF kind[c] = "read" THEN ReadOf(c) ELSE {}
            BY <2>1, <2>2, <2>5 DEF DataFor, ReadOf
        <3>2. Service!Succeed(c)
            BY <1>1, <1>2, <2>1, <2>3, <2>4, <2>5, <3>1 DEF Service!Succeed, TargetAnswer
        <3> QED BY <3>2 DEF Service!ServiceNext
    <2>6. CASE tgt[c] = "check"
        <3>1. pc'[c] = "failed"
            BY <2>1, <2>2, <2>6
        <3>2. Service!Fail(c)
            BY <1>1, <1>2, <2>1, <2>3, <2>4, <2>6, <3>1 DEF Service!Fail, TargetAnswer
        <3> QED BY <3>2 DEF Service!ServiceNext
    <2> QED BY <2>2, <2>5, <2>6
<1>7. CASE \/ LoadCmdSN(c) \/ WindowOpen(c) \/ WindowClosed(c) \/ AllocLo(c) \/ LoFull(c)
           \/ AllocHi(c) \/ HiFull(c) \/ StoreSender(c) \/ Stamp(c) \/ Send(c)
           \/ RegisterWriteData(c)
    <2>1. /\ UNCHANGED kind
          /\ pc[c] \notin {"idle"} \cup Terminal /\ pc'[c] \notin {"idle"} \cup Terminal
        BY <1>1, <1>7 DEF LoadCmdSN, WindowOpen, WindowClosed, AllocLo, LoFull, AllocHi,
            HiFull, Alloc, StoreSender, Stamp, Send, RegisterWriteData, OnlyGo, Go,
            localVars, Terminal
    <2>2. tgt' = tgt \/ (Send(c) /\ tgt' = [tgt EXCEPT ![c] = "sent"])
        BY <1>7 DEF LoadCmdSN, WindowOpen, WindowClosed, AllocLo, LoFull, AllocHi,
            HiFull, Alloc, StoreSender, Stamp, Send, RegisterWriteData, OnlyGo, Go,
            targetVars
    <2>3. Send(c) => tgt[c] = "none"
        BY DEF Send, Go, Ownership, UnsentUnknown, PreSend
    <2>4. \A d \in Cmd : TargetAnswer(d)' = TargetAnswer(d)
        BY <1>1, <2>2, <2>3 DEF TargetAnswer
    <2>5. CallerState(c)' = CallerState(c) /\ pc[c] # "ok" /\ pc'[c] # "ok"
        BY <2>1, CallerStates DEF Terminal
    <2>6. UNCHANGED Service!serviceVars
        BY <1>2, <2>1, <2>4, <2>5, ServiceStutters
    <2> QED BY <2>6
<1> QED BY <1>3, <1>4, <1>5, <1>6, <1>7 DEF Submit, Await

(* What the receiver does is not seen before the task takes the response. *)
LEMMA ReceiverServes ==
    ASSUME Ownership, Delivery, Receiver
    PROVE  UNCHANGED Service!serviceVars
<1>1. UNCHANGED <<kind, pc>>
    BY DEF Receiver, Receive, ReceiverDies, HandleScsiResponse, HandleDataIn,
           HandleDataInStatus, Complete, FreeItt, RemoveWriteData, SendDataOut,
           DataOutFails, R2tPoll, R2tGiveUp, HandleNopIn, Move
<1>2. \A c \in Cmd : TargetAnswer(c)' = TargetAnswer(c)
    <2>1. CASE SendDataOut
        <3>1. \E whole \in BOOLEAN :
                  tgt' = [tgt EXCEPT ![pdu.cmd] = IF @ = "asked" /\ whole THEN "served" ELSE @]
            BY <2>1 DEF SendDataOut
        <3>2. tgt \in [Cmd -> TgtValues]
            BY DEF Ownership, TypeOK
        <3> QED BY <3>1, <3>2 DEF TargetAnswer
    <2>2. CASE tgt' = tgt
        BY <2>2 DEF TargetAnswer
    <2> QED
        BY <2>1, <2>2 DEF Receiver, Receive, ReceiverDies, HandleScsiResponse, HandleDataIn,
           HandleDataInStatus, Complete, FreeItt, RemoveWriteData, DataOutFails,
           R2tPoll, R2tGiveUp, HandleNopIn, Move
<1>3. \A c \in Cmd : pc[c] = "ok" => mailbox'[c] = mailbox[c]
    BY DEF Receiver, Receive, ReceiverDies, HandleScsiResponse, HandleDataIn,
           HandleDataInStatus, Complete, FreeItt, RemoveWriteData, SendDataOut,
           DataOutFails, R2tPoll, R2tGiveUp, HandleNopIn, Move, Listening, Terminal
<1>4. \A c \in Cmd : CallerState(c)' = CallerState(c)
    BY <1>1 DEF CallerState
<1> QED BY <1>1, <1>2, <1>3, <1>4, ServiceStutters

(* The target answers a command once, which has been sent and has not ended   *)
(* in any other way than by its timeout.                                      *)
LEMMA TargetServes ==
    ASSUME Ownership, Delivery, NEW c \in Cmd, TargetAnswers(c)
    PROVE  [Service!ServiceNext]_Service!serviceVars
<1>1. tgt \in [Cmd -> TgtValues] /\ pc \in [Cmd -> PcValues]
    BY DEF Ownership, TypeOK
<1>2. /\ UNCHANGED <<kind, pc, mailbox>>
      /\ \A d \in Cmd : CallerState(d)' = CallerState(d)
    <2>1. UNCHANGED <<kind, pc, mailbox>>
        BY DEF TargetAnswers, TargetAccepts, TargetIgnores, TargetSendsDataIn,
            TargetSendsDataInStatus, TargetSendsR2t, TargetResponds, TargetRejects,
            Advance, taskVars
    <2> QED BY <2>1 DEF CallerState
<1>3. CASE TargetAccepts(c) \/ TargetIgnores(c) \/ TargetSendsDataIn(c) \/ TargetSendsR2t(c)
    <2>1. \A d \in Cmd : TargetAnswer(d)' = TargetAnswer(d)
        BY <1>1, <1>3 DEF TargetAccepts, TargetIgnores, TargetSendsDataIn, TargetSendsR2t,
            Advance, TargetAnswer
    <2>2. UNCHANGED Service!serviceVars
        BY <1>2, <2>1, ServiceStutters
    <2> QED BY <2>2
<1>4. CASE TargetSendsDataInStatus(c) \/ TargetResponds(c) \/ TargetRejects(c)
    <2>1. /\ tgt[c] \in {"accepted", "asked", "served"}
          /\ \E s \in {"good", "check"} : tgt' = [tgt EXCEPT ![c] = s]
        BY <1>4 DEF TargetSendsDataInStatus, TargetResponds, TargetRejects, Advance
    <2>2. pc[c] \notin PreSend /\ pc[c] \notin {"ok", "failed"}
        BY <2>1, InformedAnswered DEF Ownership, UnsentUnknown, Delivery, Informed
    <2>3. CallerState(c) \in {"issued", "timedOut"}
        BY <1>1, <2>2, CallerStates DEF PreSend, PcValues, Terminal
    <2>4. PICK s \in {"good", "check"} : tgt' = [tgt EXCEPT ![c] = s]
        BY <2>1
    <2>5. TargetAnswer(c) = "none" /\ TargetAnswer(c)' = s
        BY <1>1, <2>1, <2>4 DEF TargetAnswer
    <2>6. \A d \in Cmd : d # c => TargetAnswer(d)' = TargetAnswer(d)
        BY <1>1, <2>4 DEF TargetAnswer
    <2>7. Service!Answer(c)
        BY <1>2, <2>3, <2>5, <2>6 DEF Service!Answer
    <2> QED BY <2>7 DEF Service!ServiceNext
<1> QED BY <1>3, <1>4 DEF TargetAnswers

LEMMA ServiceStep ==
    ASSUME Ownership, Delivery, [Next]_vars
    PROVE  [Service!ServiceNext]_Service!serviceVars
<1>1. CASE SendLogout \/ TargetPings \/ ConnLost \/ UNCHANGED vars
    <2>1. UNCHANGED <<kind, pc, mailbox, tgt>>
        BY <1>1 DEF SendLogout, TargetPings, ConnLost, vars, taskVars, targetVars
    <2>2. \A c \in Cmd : CallerState(c)' = CallerState(c) /\ TargetAnswer(c)' = TargetAnswer(c)
        BY <2>1 DEF CallerState, TargetAnswer
    <2>3. UNCHANGED Service!serviceVars
        BY <2>1, <2>2, ServiceStutters
    <2> QED BY <2>3
<1>2. CASE Receiver
    BY <1>2, ReceiverServes
<1>3. CASE \E c \in Cmd : Start(c) \/ Submit(c) \/ Await(c) \/ TargetAnswers(c)
    BY <1>3, TasksServe, TargetServes
<1> QED BY <1>1, <1>2, <1>3 DEF Next

(* Whatever the window, the slots, the PDUs in flight and the timeouts do, a  *)
(* command issued to the session ends as one issued to CommandService does.   *)
THEOREM SessionImplementsService == Spec => ImplementsService
<1>1. Init => Service!ServiceInit
    BY DEF Init, Service!ServiceInit, CallerState, TargetAnswer
<1>2. Ownership /\ Delivery /\ [Next]_vars => [Service!ServiceNext]_Service!serviceVars
    BY ServiceStep
<1> QED
    BY <1>1, <1>2, DeliveryInvariant, PTL DEF Spec, ImplementsService, Service!ServiceSpec

----------------------------------------------------------------------------
(* Payloads of writes.  The hypothesis keeps a write whose data an R2T asks   *)
(* for from being over before its task registers the payload.                 *)
DataAsked == EarlyStatus = FALSE

LEMMA PayloadsInit == Init => Payloads
<1> SUFFICES ASSUME Init PROVE Payloads
    OBVIOUS
<1>1. Len(toInitiator) = 0
    BY EmptySeq DEF Init
<1> QED
    BY <1>1, SessionAssumption
       DEF Init, Payloads, PayloadsHeld, RegisterBeforeAnswer, OneR2t, StatusOfReads,
           OwnPayload

(* A step that leaves the connection alone and handles no answer. *)
LEMMA PayloadsFrame ==
    ASSUME Ownership, Payloads, toInitiator' = toInitiator, OwnPayload',
           \/ UNCHANGED <<rpc, pdu>>
           \/ /\ rpc \notin {"response", "dataInStatus", "free", "unregister"}
              /\ rpc' \in {"recv", "dead"},
           \A c \in Cmd : Known(c) \/ pc[c] \notin PreSend =>
               itt'[c] = itt[c] /\ kind'[c] = kind[c],
           \A c \in Cmd :
               \/ tgt'[c] = tgt[c]
               \/ /\ tgt[c] \in {"none", "sent"}
                  /\ tgt'[c] \in {"sent", "ignored", "accepted"},
           \A i \in Itts : \A c \in Cmd : writeData'[i] = c =>
               \/ writeData[i] = c
               \/ i = itt[c] /\ pc[c] = "register" /\ pc'[c] = "await",
           \A c \in Cmd : pc[c] \notin PreSend \cup {"register"} =>
               pc'[c] \notin PreSend \cup {"register"},
           \A c \in Cmd : pc'[c] = "register" =>
               pc[c] = "register" \/ tgt'[c] = "sent"
    PROVE  Payloads'
<1>1. \A c \in Cmd : Holding(c) /\ pc[c] \notin PreSend => Holding(c)'
    BY DEF Holding, AnswerPending, PreSend
<1>2. PayloadsHeld'
    <2> SUFFICES ASSUME NEW i \in Itts, NEW c \in Cmd, writeData'[i] = c
                 PROVE  /\ itt'[c] = i /\ pc'[c] \notin PreSend \cup {"register"}
                        /\ ReachesRange(c)' =>
                              Holding(c)' \/ (rpc' = "unregister" /\ pdu'.cmd = c)
        BY DEF PayloadsHeld
    <2>1. CASE writeData[i] = c
        <3>1. /\ itt[c] = i /\ pc[c] \notin PreSend \cup {"register"}
              /\ ReachesRange(c) => Holding(c) \/ (rpc = "unregister" /\ pdu.cmd = c)
            BY <2>1 DEF Payloads, PayloadsHeld
        <3> QED BY <1>1, <3>1 DEF ReachesRange
    <2>2. CASE i = itt[c] /\ pc[c] = "register" /\ pc'[c] = "await"
        <3>1. ReachesRange(c) => tgt[c] \in {"sent", "ignored", "accepted", "asked"}
            BY <2>2 DEF Payloads, RegisterBeforeAnswer
        <3>2. pc[c] \notin PreSend /\ pc'[c] \notin PreSend \cup {"register"}
            BY <2>2 DEF PreSend
        <3>3. ReachesRange(c) => Holding(c)
            BY <3>1 DEF Holding
        <3> QED BY <1>1, <2>2, <3>2, <3>3 DEF ReachesRange
    <2> QED BY <2>1, <2>2
<1>3. RegisterBeforeAnswer'
    <2> SUFFICES ASSUME NEW c \in Cmd, pc'[c] = "register", ReachesRange(c)'
                 PROVE  tgt'[c] \in {"sent", "ignored", "accepted", "asked"}
        BY DEF RegisterBeforeAnswer
    <2>1. CASE pc[c] = "register"
        <3>1. ReachesRange(c)
            BY <2>1 DEF PreSend, ReachesRange
        <3>2. tgt[c] \in {"sent", "ignored", "accepted", "asked"}
            BY <2>1, <3>1 DEF Payloads, RegisterBeforeAnswer
        <3> QED BY <3>2
    <2> QED BY <2>1
<1>4. OneR2t'
    <2>1. \A c \in Cmd : tgt[c] = "asked" => tgt'[c] = "asked"
        OBVIOUS
    <2>2. rpc' = "r2t" => rpc = "r2t" /\ pdu' = pdu /\ pdu.cmd \in Cmd
        BY PdusAboutKnown
    <2>3. \A k \in 1 .. Len(toInitiator) : toInitiator[k].op = "r2t" => toInitiator[k].cmd \in Cmd
        BY DEF Ownership, WireInv, Consistent
    <2> QED BY <2>1, <2>2, <2>3 DEF Payloads, OneR2t
<1>5. StatusOfReads'
    <2>1. rpc' = "free" => /\ rpc = "free" /\ pdu' = pdu
                           /\ pdu.cmd \in Cmd /\ Known(pdu.cmd)
        BY DEF Ownership, ReceiverInv, Consistent, IsAnswer, Known
    <2> QED BY <2>1 DEF Payloads, StatusOfReads
<1> QED BY <1>2, <1>3, <1>4, <1>5 DEF Payloads

LEMMA PayloadsTasks ==
    ASSUME Ownership, Payloads, NEW c \in Cmd, Start(c) \/ Submit(c) \/ Await(c)
    PROVE  Payloads'
<1>1. /\ pc \in [Cmd -> PcValues] /\ kind \in [Cmd -> Kinds \cup {"none"}]
      /\ itt \in [Cmd -> Itts] /\ tgt \in [Cmd -> TgtValues]
      /\ writeData \in [Itts -> Cmd \cup {None}]
    BY DEF Ownership, TypeOK
<1>2. /\ UNCHANGED <<toInitiator, landed, rpc, pdu>>
      /\ \A d \in Cmd : d # c => pc'[d] = pc[d] /\ itt'[d] = itt[d]
                             /\ kind'[d] = kind[d] /\ tgt'[d] = tgt[d]
    BY <1>1 DEF Start, Submit, LoadCmdSN, WindowOpen, WindowClosed, AllocLo, LoFull,
        AllocHi, HiFull, Alloc, StoreSender, Stamp, Send, SendFails, Await,
        RegisterWriteData, TakeResponse, TimeOut, OnlyGo, Go, recvVars, targetVars,
        localVars
<1>3. OwnPayload'
    BY <1>2 DEF Payloads, OwnPayload
<1>4. CASE RegisterWriteData(c)
    <2>1. /\ UNCHANGED <<itt, kind, tgt>> /\ pc[c] = "register" /\ pc'[c] = "await"
          /\ writeData' = [writeData EXCEPT ![itt[c]] = c]
        BY <1>1, <1>4 DEF RegisterWriteData, Go, targetVars
    <2>2. \A i \in Itts : \A d \in Cmd : writeData'[i] = d =>
              \/ writeData[i] = d
              \/ i = itt[d] /\ pc[d] = "register" /\ pc'[d] = "await"
        BY <1>1, <2>1
    <2>3. pc'[c] \notin PreSend \cup {"register"}
        BY <2>1 DEF PreSend
    <2> QED BY <1>2, <1>3, <2>1, <2>2, <2>3, PayloadsFrame
<1>5. CASE TakeResponse(c) \/ TimeOut(c)
    <2>1. /\ UNCHANGED <<itt, kind, tgt, writeData>>
          /\ pc'[c] \in {"ok", "failed", "timedOut"}
        BY <1>1, <1>5 DEF TakeResponse, TimeOut, OnlyGo, Go, targetVars, localVars, poolVars
    <2>2. pc'[c] \notin PreSend \cup {"register"}
        BY <2>1 DEF PreSend
    <2> QED BY <1>2, <1>3, <2>1, <2>2, PayloadsFrame
<1>6. CASE Start(c) \/ Submit(c)
    <2>1. pc[c] \in PreSend /\ writeData' = writeData
        BY <1>6 DEF Start, Submit, LoadCmdSN, WindowOpen, WindowClosed, AllocLo,
            LoFull, AllocHi, HiFull, Alloc, StoreSender, Stamp, Send, SendFails,
            OnlyGo, Go, PreSend, poolVars
    <2>2. tgt[c] = "none" /\ ~Known(c)
        BY <2>1 DEF Ownership, UnsentUnknown, Known
    <2>3. tgt'[c] \in {"none", "sent"}
        BY <1>1, <1>6, <2>2 DEF Start, Submit, LoadCmdSN, WindowOpen, WindowClosed,
            AllocLo, LoFull, AllocHi, HiFull, Alloc, StoreSender, Stamp, Send,
            SendFails, OnlyGo, Go, targetVars
    <2>4. pc'[c] = "register" => tgt'[c] = "sent"
        <3>1. pc'[c] = "register" => Send(c)
            BY <1>1, <1>6 DEF Start, Submit, LoadCmdSN, WindowOpen, WindowClosed,
                AllocLo, LoFull, AllocHi, HiFull, Alloc, StoreSender, Stamp,
                SendFails, OnlyGo, Go
        <3> QED BY <1>1, <3>1 DEF Send
    <2> QED BY <1>2, <1>3, <2>1, <2>2, <2>3, <2>4, PayloadsFrame
<1> QED BY <1>4, <1>5, <1>6 DEF Await

(* The bytes sent for an R2T are those of the command the R2T is about: a     *)
(* payload that has any in the range asked lies under the ITT of a command    *)
(* that holds the slot, as that one does.                                     *)
LEMMA SlicedIsOwn ==
    ASSUME Ownership, Payloads, rpc = "r2t", Registered # None
    PROVE  /\ Sliced \subseteq {pdu.cmd}
           /\ ReachesRange(Registered) => Registered = pdu.cmd
<1>1. /\ pdu.cmd \in Cmd /\ pdu.itt = itt[pdu.cmd] /\ itt[pdu.cmd] \in Itts
      /\ tgt[pdu.cmd] = "asked"
    BY PdusAboutKnown DEF Payloads, OneR2t, Ownership, TypeOK
<1>2. Registered \in Cmd
    BY <1>1 DEF Registered, Ownership, TypeOK
<1>3. ASSUME ReachesRange(Registered) PROVE Registered = pdu.cmd
    <2>1. itt[Registered] = itt[pdu.cmd] /\ Holding(Registered)
        BY <1>1, <1>2, <1>3 DEF Registered, Payloads, PayloadsHeld
    <2>2. slots[itt[Registered]] = Registered /\ slots[itt[pdu.cmd]] = pdu.cmd
        BY <1>1, <1>2, <2>1 DEF Ownership, SlotHeld, Holding
    <2> QED BY <2>1, <2>2
<1> QED BY <1>3 DEF Sliced

LEMMA PayloadsReceive ==
    ASSUME Ownership, Payloads, TypeOK', Receive
    PROVE  Payloads'
<1> DEFINE n == Len(toInitiator)
<1>1. /\ pdu' = toInitiator[1] /\ n \in Nat \ {0} /\ pdu' \in Pdu
      /\ Len(toInitiator') = n - 1
      /\ \A k \in 1 .. Len(toInitiator') : toInitiator'[k] = toInitiator[k + 1]
    BY ReceiveProperties DEF Ownership
<1>2. /\ rpc = "recv" /\ rpc' = pdu'.op
      /\ UNCHANGED <<writeData, landed, kind, itt, tgt, pc>>
    BY <1>1, HeadTailProperties DEF Receive, Move, Ownership, TypeOK, poolVars
<1>3. \A k \in 1 .. n : k = 1 \/ (k - 1 \in 1 .. n - 1 /\ toInitiator[k] = toInitiator'[k - 1])
    BY <1>1
<1>4. \A k \in 1 .. n - 1 : k + 1 \in 1 .. n /\ toInitiator'[k] = toInitiator[k + 1]
    BY <1>1
<1>5. 1 \in 1 .. n
    BY <1>1
<1>6. \A c \in Cmd : Holding(c) => Holding(c)'
    <2> SUFFICES ASSUME NEW c \in Cmd, AnswerPending(c) PROVE AnswerPending(c)'
        BY <1>2 DEF Holding
    <2>1. PICK k \in 1 .. n : IsAnswer(toInitiator[k]) /\ toInitiator[k].cmd = c
        BY <1>2 DEF AnswerPending
    <2>2. CASE k = 1
        BY <1>1, <1>2, <2>1, <2>2 DEF AnswerPending, IsAnswer
    <2>3. CASE k # 1
        BY <1>1, <1>3, <2>1, <2>3 DEF AnswerPending, IsAnswer
    <2> QED BY <2>2, <2>3
<1>7. PayloadsHeld'
    BY <1>2, <1>6 DEF Payloads, PayloadsHeld, ReachesRange
<1>8. RegisterBeforeAnswer' /\ OwnPayload'
    BY <1>2 DEF Payloads, RegisterBeforeAnswer, OwnPayload, ReachesRange
<1>9. OneR2t'
    <2>1. \A k, l \in 1 .. n :
              (/\ toInitiator[k].op = "r2t" /\ toInitiator[l].op = "r2t"
               /\ toInitiator[k].cmd = toInitiator[l].cmd) => k = l
        BY DEF Payloads, OneR2t
    <2>2. \A k \in 1 .. n : toInitiator[k].op = "r2t" => tgt[toInitiator[k].cmd] = "asked"
        BY DEF Payloads, OneR2t
    <2>3. ASSUME NEW k \in 1 .. n - 1, NEW l \in 1 .. n - 1,
                 toInitiator'[k].op = "r2t", toInitiator'[l].op = "r2t",
                 toInitiator'[k].cmd = toInitiator'[l].cmd
          PROVE  k = l
        <3>1. k + 1 = l + 1
            BY <1>4, <2>1, <2>3
        <3> QED BY <3>1
    <2>4. ASSUME NEW k \in 1 .. n - 1, toInitiator'[k].op = "r2t"
          PROVE  /\ tgt[toInitiator'[k].cmd] = "asked"
                 /\ rpc' = "r2t" => toInitiator'[k].cmd # pdu'.cmd
        <3>1. k + 1 # 1
            BY <1>1
        <3> QED BY <1>1, <1>2, <1>4, <1>5, <2>1, <2>2, <2>4, <3>1
    <2>5. rpc' = "r2t" => tgt[pdu'.cmd] = "asked"
        BY <1>1, <1>2, <1>5, <2>2
    <2>6. Len(toInitiator') = n - 1
        BY <1>1
    <2> HIDE DEF n
    <2> QED BY <1>2, <2>3, <2>4, <2>5, <2>6 DEF OneR2t
<1>10. StatusOfReads'
    BY <1>1, <1>2 DEF StatusOfReads, Pdu
<1> QED BY <1>7, <1>8, <1>9, <1>10 DEF Payloads

LEMMA PayloadsReceiver ==
    ASSUME Ownership, Delivery, Payloads, TypeOK', Receiver
    PROVE  Payloads'
<1>1. CASE ReceiverDies \/ HandleDataIn \/ DataOutFails \/ R2tPoll \/ R2tGiveUp \/ HandleNopIn
    <2>1. /\ UNCHANGED <<writeData, toInitiator, kind, itt, tgt, pc>>
          /\ \/ UNCHANGED <<rpc, pdu>>
             \/ /\ rpc \notin {"response", "dataInStatus", "free", "unregister"}
                /\ rpc' \in {"recv", "dead"}
        BY <1>1 DEF ReceiverDies, HandleDataIn, DataOutFails, R2tPoll, R2tGiveUp,
                    HandleNopIn, Move, windowVars, poolVars
    <2>2. CASE DataOutFails
        <3>1. /\ Sliced \subseteq {pdu.cmd} /\ landed \in [Cmd -> SUBSET Cmd]
              /\ \E part \in {{}, Sliced} :
                    landed' = [landed EXCEPT ![pdu.cmd] = @ \cup part]
            BY <2>2, SlicedIsOwn DEF DataOutFails, Move, Ownership, TypeOK
        <3>2. OwnPayload'
            BY <3>1 DEF Payloads, OwnPayload
        <3> QED BY <2>1, <3>2, PayloadsFrame
    <2>3. CASE landed' = landed
        <3>1. OwnPayload'
            BY <2>3 DEF Payloads, OwnPayload
        <3> QED BY <2>1, <3>1, PayloadsFrame
    <2> QED
        BY <1>1, <2>2, <2>3 DEF ReceiverDies, HandleDataIn, R2tPoll, R2tGiveUp,
            HandleNopIn
<1>2. CASE HandleScsiResponse \/ HandleDataInStatus
    <2>1. /\ UNCHANGED <<writeData, toInitiator, landed, kind, itt, tgt, pc, pdu>>
          /\ rpc \in {"response", "dataInStatus"} /\ rpc' = "free"
        BY <1>2 DEF HandleScsiResponse, HandleDataInStatus, Complete, Move, windowVars
    <2>2. \A c \in Cmd : Holding(c) => Holding(c)'
        BY <2>1 DEF Holding, AnswerPending, IsAnswer
    <2>3. PayloadsHeld' /\ RegisterBeforeAnswer' /\ OneR2t' /\ OwnPayload'
        BY <2>1, <2>2 DEF Payloads, PayloadsHeld, RegisterBeforeAnswer, OneR2t, OwnPayload,
                          ReachesRange
    <2>4. pdu.op = "dataInStatus" => kind[pdu.cmd] = "read"
        BY <2>1, WireForms DEF Delivery, Truthful, CarriesData
    <2>5. StatusOfReads'
        BY <2>1, <2>4 DEF StatusOfReads
    <2> QED BY <2>3, <2>5 DEF Payloads
<1>3. CASE FreeItt
    <2>1. /\ UNCHANGED <<writeData, toInitiator, landed, kind, itt, tgt, pc>>
          /\ rpc = "free" /\ rpc' = IF pdu.op = "response" THEN "unregister" ELSE "recv"
          /\ pdu.op = "response" => pdu' = pdu
        BY <1>3 DEF FreeItt, Move, windowVars
    <2>2. pdu.op # "response" => kind[pdu.cmd] = "read"
        BY <2>1 DEF Payloads, StatusOfReads, Ownership, ReceiverInv, IsAnswer
    <2>3. \A c \in Cmd : Holding(c) /\ ReachesRange(c) =>
              Holding(c)' \/ (rpc' = "unregister" /\ pdu'.cmd = c)
        BY <2>1, <2>2 DEF Holding, AnswerPending, IsAnswer, ReachesRange
    <2>4. PayloadsHeld'
        BY <2>1, <2>3 DEF Payloads, PayloadsHeld, ReachesRange
    <2>5. RegisterBeforeAnswer' /\ OneR2t' /\ OwnPayload' /\ StatusOfReads'
        BY <2>1 DEF Payloads, RegisterBeforeAnswer, OneR2t, OwnPayload, StatusOfReads,
                    ReachesRange
    <2> QED BY <2>4, <2>5 DEF Payloads
<1>4. CASE RemoveWriteData
    <2>1. /\ UNCHANGED <<toInitiator, landed, kind, itt, tgt, pc>>
          /\ rpc = "unregister" /\ rpc' = "recv"
          /\ writeData' = [writeData EXCEPT ![pdu.itt] = None]
        BY <1>4 DEF RemoveWriteData, Move, windowVars
    <2>2. /\ writeData \in [Itts -> Cmd \cup {None}] /\ pdu.itt \in Itts
          /\ pdu.cmd \in Cmd => pdu.itt = itt[pdu.cmd]
        BY <2>1 DEF Ownership, TypeOK, ReceiverInv, Consistent, Pdu
    <2>3. \A c \in Cmd : Holding(c) => Holding(c)'
        BY <2>1 DEF Holding, AnswerPending, IsAnswer
    <2>4. PayloadsHeld'
        <3> SUFFICES ASSUME NEW i \in Itts, NEW c \in Cmd, writeData'[i] = c
                     PROVE  /\ itt[c] = i /\ pc[c] \notin PreSend \cup {"register"}
                            /\ ReachesRange(c) => Holding(c)'
            BY <2>1 DEF PayloadsHeld, ReachesRange
        <3>1. i # pdu.itt /\ writeData[i] = c
            BY <2>1, <2>2, SessionAssumption
        <3>2. /\ itt[c] = i /\ pc[c] \notin PreSend \cup {"register"}
              /\ ReachesRange(c) => Holding(c) \/ pdu.cmd = c
            BY <3>1 DEF Payloads, PayloadsHeld
        <3> QED BY <2>2, <2>3, <3>1, <3>2
    <2>5. RegisterBeforeAnswer' /\ OneR2t' /\ OwnPayload' /\ StatusOfReads'
        BY <2>1 DEF Payloads, RegisterBeforeAnswer, OneR2t, OwnPayload, StatusOfReads,
                    ReachesRange
    <2> QED BY <2>4, <2>5 DEF Payloads
<1>5. CASE SendDataOut
    <2>1. /\ UNCHANGED <<writeData, toInitiator, kind, itt, pc>>
          /\ rpc = "r2t" /\ rpc' = "recv" /\ Registered # None
          /\ landed' = [landed EXCEPT ![pdu.cmd] = @ \cup Sliced]
          /\ \E whole \in BOOLEAN :
                /\ ~ReachesRange(Registered) => ~whole
                /\ tgt' = [tgt EXCEPT ![pdu.cmd] =
                                          IF @ = "asked" /\ whole THEN "served" ELSE @]
        BY <1>5 DEF SendDataOut, Move, windowVars, poolVars
    <2>2. /\ tgt \in [Cmd -> TgtValues] /\ landed \in [Cmd -> SUBSET Cmd]
          /\ pdu.cmd \in Cmd /\ pdu.itt = itt[pdu.cmd] /\ itt[pdu.cmd] \in Itts
          /\ Sliced \subseteq {pdu.cmd}
          /\ ReachesRange(Registered) => Registered = pdu.cmd
        BY <2>1, SlicedIsOwn, PdusAboutKnown DEF Ownership, TypeOK
    <2>3. OwnPayload'
        BY <2>1, <2>2 DEF Payloads, OwnPayload
    <2>4. /\ \A c \in Cmd : tgt'[c] = tgt[c] \/ (tgt[c] = "asked" /\ tgt'[c] = "served")
          /\ \A c \in Cmd : c # pdu.cmd => tgt'[c] = tgt[c]
        BY <2>1, <2>2
    <2>5. \A c \in Cmd : Holding(c) => Holding(c)'
        BY <2>1, <2>4 DEF Holding, AnswerPending, IsAnswer
    <2>6. PayloadsHeld'
        BY <2>1, <2>5 DEF Payloads, PayloadsHeld, ReachesRange
    <2>7. Registered = pdu.cmd => pc[pdu.cmd] # "register"
        BY <2>1, <2>2 DEF Registered, Payloads, PayloadsHeld
    <2>8. RegisterBeforeAnswer'
        <3>1. tgt' = tgt \/ pc[pdu.cmd] # "register"
            BY <2>1, <2>2, <2>7
        <3> QED BY <2>1, <2>4, <3>1 DEF Payloads, RegisterBeforeAnswer, ReachesRange
    <2>9. OneR2t'
        <3>1. \A k \in 1 .. Len(toInitiator) :
                  toInitiator[k].op = "r2t" => toInitiator[k].cmd \in Cmd \ {pdu.cmd}
            BY <2>1 DEF Payloads, OneR2t, Ownership, WireInv, Consistent
        <3> QED BY <2>1, <2>4, <3>1 DEF Payloads, OneR2t
    <2>10. StatusOfReads'
        BY <2>1 DEF StatusOfReads
    <2> QED BY <2>3, <2>6, <2>8, <2>9, <2>10 DEF Payloads
<1> QED
    BY <1>1, <1>2, <1>3, <1>4, <1>5, PayloadsReceive DEF Receiver

(* The target sends p: an R2T for what it has accepted, an answer to what has *)
(* had its data, or a PDU that asks and answers nothing.                      *)
LEMMA PayloadsSends ==
    ASSUME Ownership, Payloads, NEW n \in Nat, n = Len(toInitiator), NEW p,
           Len(toInitiator') = n + 1, toInitiator'[n + 1] = p,
           \A k \in 1 .. n : toInitiator'[k] = toInitiator[k],
           UNCHANGED <<writeData, kind, itt, pc, rpc, pdu, landed>>,
           \A c \in Cmd :
               \/ tgt'[c] = tgt[c]
               \/ p.op = "r2t" /\ p.cmd = c /\ tgt'[c] = "asked"
               \/ /\ IsAnswer(p) /\ p.cmd = c
                  /\ tgt[c] = "served" \/ (~ReachesRange(c) /\ tgt[c] = "accepted"),
           p.op = "r2t" =>
               p.cmd \in Cmd /\ tgt[p.cmd] = "accepted" /\ tgt'[p.cmd] = "asked"
    PROVE  Payloads'
<1>1. \A k \in 1 .. n + 1 : k \in 1 .. n \/ k = n + 1
    OBVIOUS
<1>2. n + 1 \in 1 .. n + 1 /\ \A k \in 1 .. n : k \in 1 .. n + 1
    OBVIOUS
<1>3. \A c \in Cmd : Holding(c) => Holding(c)'
    <2> SUFFICES ASSUME NEW c \in Cmd, Holding(c) PROVE Holding(c)'
        OBVIOUS
    <2>1. AnswerPending(c) => AnswerPending(c)'
        BY <1>2 DEF AnswerPending, IsAnswer
    <2>2. IsAnswer(p) /\ p.cmd = c => AnswerPending(c)'
        BY <1>2 DEF AnswerPending, IsAnswer
    <2> QED BY <2>1, <2>2 DEF Holding
<1>4. PayloadsHeld'
    BY <1>3 DEF Payloads, PayloadsHeld, ReachesRange
<1>5. RegisterBeforeAnswer'
    BY DEF Payloads, RegisterBeforeAnswer, ReachesRange
<1>6. OneR2t'
    <2>1. \A k \in 1 .. n : toInitiator[k].op = "r2t" =>
              /\ toInitiator[k].cmd \in Cmd /\ tgt[toInitiator[k].cmd] = "asked"
        BY DEF Payloads, OneR2t, Ownership, WireInv, Consistent
    <2>2. rpc = "r2t" => pdu.cmd \in Cmd /\ tgt[pdu.cmd] = "asked"
        BY PdusAboutKnown DEF Payloads, OneR2t
    <2>3. \A c \in Cmd : tgt[c] = "asked" => tgt'[c] = "asked"
        OBVIOUS
    <2>4. ASSUME NEW k \in 1 .. n + 1, NEW l \in 1 .. n + 1,
                 toInitiator'[k].op = "r2t", toInitiator'[l].op = "r2t",
                 toInitiator'[k].cmd = toInitiator'[l].cmd
          PROVE  k = l
        <3>1. CASE k \in 1 .. n /\ l \in 1 .. n
            BY <2>4, <3>1 DEF Payloads, OneR2t
        <3>2. CASE k \in 1 .. n /\ l = n + 1
            BY <2>1, <2>4, <3>2
        <3>3. CASE k = n + 1 /\ l \in 1 .. n
            BY <2>1, <2>4, <3>3
        <3> QED BY <1>1, <3>1, <3>2, <3>3
    <2>5. ASSUME NEW k \in 1 .. n + 1, toInitiator'[k].op = "r2t"
          PROVE  /\ tgt'[toInitiator'[k].cmd] = "asked"
                 /\ rpc = "r2t" => toInitiator'[k].cmd # pdu.cmd
        <3>1. CASE k \in 1 .. n
            BY <2>1, <2>3, <2>5, <3>1 DEF Payloads, OneR2t
        <3>2. CASE k = n + 1
            BY <2>2, <2>5, <3>2
        <3> QED BY <1>1, <3>1, <3>2
    <2>6. rpc = "r2t" => tgt'[pdu.cmd] = "asked"
        BY <2>2, <2>3
    <2> QED BY <2>4, <2>5, <2>6 DEF OneR2t
<1>7. StatusOfReads' /\ OwnPayload'
    BY DEF Payloads, StatusOfReads, OwnPayload
<1> QED BY <1>4, <1>5, <1>6, <1>7 DEF Payloads

LEMMA PayloadsTarget ==
    ASSUME Ownership, Delivery, Payloads, DataAsked,
           \/ SendLogout \/ ConnLost \/ TargetPings \/ \E c \in Cmd : TargetAnswers(c)
    PROVE  Payloads'
<1>1. CASE SendLogout \/ ConnLost
    <2>1. UNCHANGED <<writeData, toInitiator, landed, rpc, pdu, itt, kind, tgt, pc>>
        BY <1>1 DEF SendLogout, ConnLost, recvVars, taskVars, targetVars, poolVars
    <2>2. OwnPayload'
        BY <2>1 DEF Payloads, OwnPayload
    <2> QED BY <2>1, <2>2, PayloadsFrame
<1>2. TypeOK /\ 0 \in 0 .. DataIns
    BY SessionAssumption DEF Ownership
<1>3. CASE TargetPings
    <2>1. UNCHANGED <<writeData, landed, rpc, pdu, itt, kind, tgt, pc>>
        BY <1>3 DEF TargetPings, TargetSends, recvVars, taskVars, poolVars
    <2>2. /\ Len(toInitiator) \in Nat
          /\ Len(toInitiator') = Len(toInitiator) + 1
          /\ \A k \in 1 .. Len(toInitiator) : toInitiator'[k] = toInitiator[k]
          /\ toInitiator'[Len(toInitiator) + 1].op = "nopIn"
        <3>1. TargetSends("nopIn", None, 0, "good")
            BY <1>3 DEF TargetPings
        <3> QED BY <1>2, <3>1, SendsProperties
    <2>3. tgt' = tgt
        BY <1>3 DEF TargetPings
    <2> QED BY <2>1, <2>2, <2>3, PayloadsSends
<1> SUFFICES ASSUME NEW c \in Cmd, TargetAnswers(c) PROVE Payloads'
    BY <1>1, <1>3
<1> USE DEF Advance
<1>4. /\ segs \in [Cmd -> 0 .. DataIns] /\ tgt \in [Cmd -> TgtValues]
      /\ kind \in [Cmd -> Kinds \cup {"none"}] /\ landed \in [Cmd -> SUBSET Cmd]
    BY <1>2 DEF TypeOK
<1>5. CASE TargetAccepts(c) \/ TargetIgnores(c)
    <2>1. /\ UNCHANGED <<writeData, toInitiator, rpc, pdu, itt, kind, pc>>
          /\ tgt[c] = "sent" /\ tgt'[c] \in {"accepted", "ignored"}
          /\ \A d \in Cmd : d # c => tgt'[d] = tgt[d]
        BY <1>4, <1>5 DEF TargetAccepts, TargetIgnores, recvVars, taskVars, poolVars
    <2>2. OwnPayload'
        BY <1>5 DEF TargetAccepts, TargetIgnores, Payloads, OwnPayload
    <2> QED BY <2>1, <2>2, PayloadsFrame
<1>6. ASSUME NEW op \in {"response", "dataIn", "dataInStatus", "r2t"},
             NEW seg \in 0 .. DataIns, NEW status \in {"good", "check"},
             TargetSends(op, c, seg, status),
             UNCHANGED <<poolVars, taskVars, recvVars>>,
             NEW to, tgt' = [tgt EXCEPT ![c] = to],
             \/ op = "dataIn" /\ to = tgt[c]
             \/ op = "r2t" /\ tgt[c] = "accepted" /\ to = "asked"
             \/ /\ op \in {"response", "dataInStatus"}
                /\ tgt[c] = "served" \/ (~ReachesRange(c) /\ tgt[c] = "accepted")
      PROVE  Payloads'
    <2>1. UNCHANGED <<writeData, landed, rpc, pdu, itt, kind, pc>>
        BY <1>6 DEF TargetSends, recvVars, taskVars, poolVars
    <2>2. /\ c \in Cmd \cup {None} /\ TypeOK
          /\ op \in {"response", "dataIn", "dataInStatus", "r2t", "nopIn"}
        BY <1>2
    <2>3. PICK p \in Pdu : /\ toInitiator'[Len(toInitiator) + 1] = p /\ p.op = op /\ p.cmd = c
                           /\ Len(toInitiator) \in Nat
                           /\ Len(toInitiator') = Len(toInitiator) + 1
                           /\ \A k \in 1 .. Len(toInitiator) : toInitiator'[k] = toInitiator[k]
        BY <1>6, <2>2, SendsProperties
    <2>4. tgt'[c] = to /\ \A d \in Cmd : d # c => tgt'[d] = tgt[d]
        BY <1>4, <1>6
    <2>5. IsAnswer(p) <=> op \in {"response", "dataInStatus"}
        BY <2>3 DEF IsAnswer
    <2> QED BY <1>6, <2>1, <2>3, <2>4, <2>5, PayloadsSends
<1>7. CASE TargetSendsDataIn(c)
    <2>1. segs[c] + 1 \in 0 .. DataIns
        BY <1>4, <1>7, SessionAssumption DEF TargetSendsDataIn
    <2> QED BY <1>6, <1>7, <2>1 DEF TargetSendsDataIn
<1>8. CASE TargetSendsDataInStatus(c)
    <2>1. segs[c] + 1 \in 0 .. DataIns
        BY <1>4, <1>8, SessionAssumption DEF TargetSendsDataInStatus
    <2>2. ~ReachesRange(c)
        BY <1>8 DEF TargetSendsDataInStatus, ReachesRange
    <2> QED BY <1>6, <1>8, <2>1, <2>2 DEF TargetSendsDataInStatus
<1>9. CASE TargetSendsR2t(c)
    BY <1>2, <1>6, <1>9 DEF TargetSendsR2t
<1>10. CASE TargetResponds(c)
    <2>1. tgt[c] = "served" \/ (~ReachesRange(c) /\ tgt[c] = "accepted")
        BY <1>4, <1>10 DEF TargetResponds, DataDone, ReachesRange
    <2> QED BY <1>2, <1>6, <1>10, <2>1 DEF TargetResponds
<1>11. CASE TargetRejects(c)
    BY <1>11 DEF TargetRejects, DataAsked
<1> QED BY <1>5, <1>7, <1>8, <1>9, <1>10, <1>11 DEF TargetAnswers

LEMMA PayloadsStep ==
    ASSUME Ownership, Delivery, Payloads, DataAsked, [Next]_vars
    PROVE  Payloads'
<1>1. CASE UNCHANGED vars
    <2>1. UNCHANGED <<writeData, toInitiator, landed, rpc, pdu, itt, kind, tgt, pc>>
        BY <1>1 DEF vars, recvVars, taskVars, targetVars, poolVars
    <2>2. OwnPayload'
        BY <2>1 DEF Payloads, OwnPayload
    <2> QED BY <2>1, <2>2, PayloadsFrame
<1>2. CASE Next
    <2>1. TypeOK'
        BY <1>2, OwnershipStep DEF Ownership
    <2> QED BY <1>2, <2>1, PayloadsTasks, PayloadsReceiver, PayloadsTarget DEF Next
<1> QED BY <1>1, <1>2

(* What the target is sent for a write on an R2T is that write's own payload, *)
(* for any number of writes, slots and lookups of handle_r2t and whatever     *)
(* stale payloads lie about: as long as no write whose data is asked for can  *)
(* be answered before it has been had.                                        *)
THEOREM PayloadsAreOwn ==
    ASSUME EarlyStatus = FALSE
    PROVE  Spec => []OwnPayload
<1>1. DataAsked
    BY DEF DataAsked
<1>2. Init => Payloads
    BY PayloadsInit
<1>3. Ownership /\ Delivery /\ Payloads /\ [Next]_vars => Payloads'
    BY <1>1, PayloadsStep
<1>4. Payloads => OwnPayload
    BY DEF Payloads
<1> QED BY <1>2, <1>3, <1>4, DeliveryInvariant, PTL DEF Spec
=============================================================================
