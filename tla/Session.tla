------------------------------ MODULE Session ------------------------------
(***************************************************************************)
(* An iSCSI full-feature session (crates/iscsi-lib/src/iscsi/session.rs):  *)
(* the tasks that call submit_command, the lock-free ITT pool they share,  *)
(* the command window, and the one receiver task that routes the target's  *)
(* PDUs back to them.  A step is what one task does between two points     *)
(* where another task can see or change the same shared state: an atomic   *)
(* load, a CAS, a fetch_add, a critical section of a mutex, a PDU written  *)
(* under the writer lock.                                                  *)
(*                                                                         *)
(* The target is external: it is any target that takes commands in CmdSN   *)
(* order inside the window it advertised, ignores those beyond it, answers *)
(* each accepted command once, and asks for write data with an R2T.  The   *)
(* connection delivers in order (TCP) until it is lost.                    *)
(*                                                                         *)
(* CmdSN counters are kept unwrapped, so that properties can say how far   *)
(* one is ahead of another; the program's u32 is the counter modulo        *)
(* 2 * HalfRange and every comparison of the code is made on that value.   *)
(* exp_stat_sn and exp_cmd_sn are stored by the receiver and copied into   *)
(* headers, and no decision of the initiator reads them: they are not      *)
(* modelled.  The bytes of a payload are represented by the command they   *)
(* belong to, those of a read by <<command, segment>> pairs.               *)
(*                                                                         *)
(* Whether a write sends data with its command, and how much, the login    *)
(* settles for the whole session: "writeImm" is a write that fits in the   *)
(* first burst, "writeR2t" one that does not.  Without immediate data all  *)
(* writes are of the second kind.  The target asks by R2T for what lies    *)
(* beyond the first burst (from offset 0 without immediate data).          *)
(***************************************************************************)
EXTENDS SerialArith, Sequences, FiniteSets

CONSTANTS
    Cmd,           \* the commands issued, each by a task of its own
    Submitters,    \* tasks that may be between the entry of submit_command
                   \* and its fetch_add at the same time
    None,          \* "no command": an empty slot, sender or map entry
    WordBits,      \* slots per word of the two-word bitmap (64 in the code)
    Kinds,         \* the kinds of command the tasks may issue in this session
    InitialCmdSN,  \* initial_cmd_sn from the login phase
    Depth,         \* the target's queue depth: the window it offers
    DataIns,       \* Data-In PDUs that make up one read
    R2tPolls,      \* lookups handle_r2t makes before it gives up (50)
    EarlyStatus,   \* the target may answer CHECK CONDITION at any time
    MaxPings,      \* bound: NOP-In pings the target sends
    MaxLogouts,    \* bound: calls of send_logout
    ConnMayFail    \* the connection may be lost

ASSUME SessionAssumption ==
    /\ IsFiniteSet(Cmd)
    /\ None \notin Cmd
    /\ Submitters \in Nat \ {0}
    /\ WordBits \in Nat \ {0}
    /\ Kinds \subseteq {"read", "writeImm", "writeR2t"}
    /\ InitialCmdSN \in Nat
    /\ Depth \in Nat \ {0}
    /\ DataIns \in Nat \ {0}
    /\ R2tPolls \in Nat
    /\ MaxPings \in Nat
    /\ MaxLogouts \in Nat
    /\ EarlyStatus \in BOOLEAN
    /\ ConnMayFail \in BOOLEAN
    /\ Cardinality(Cmd) + Depth + MaxLogouts < HalfRange

VARIABLES
    \* IttPool
    slots,        \* bitmap: slots[i] # None is a set bit, naming who set it
    completions,  \* completions[i]: whose oneshot sender is stored
    writeData,    \* writeData[i]: whose payload is registered
    \* SessionState
    cmdSN, maxCmdSN,
    \* the submitting tasks
    pc,           \* where the task of each command is
    kind,         \* what it issues
    seen,         \* cmd_sn as cmd_sn_in_window loaded it
    itt,          \* the ITT it was given
    sn,           \* the CmdSN it was given
    mailbox,      \* what its oneshot channel holds
    \* the receiver task
    rpc,          \* where it is in its loop
    pdu,          \* the PDU it is handling
    polls,        \* failed lookups of handle_r2t so far
    accumulator,  \* data_accumulator: Data-In segments by ITT
    \* the connection and the target
    conn,
    toInitiator,  \* PDUs on their way to the initiator, in order
    tgt,          \* where the target is with each command
    segs,         \* Data-In segments it has sent for each read
    landed,       \* whose payloads the Data-Outs for each write brought
    tgtExp,       \* its ExpCmdSN
    tgtMax,       \* its MaxCmdSN
    pings, logouts

poolVars   == <<slots, completions, writeData>>
stateVars  == <<cmdSN, maxCmdSN>>
taskVars   == <<pc, kind, seen, itt, sn, mailbox>>
recvVars   == <<rpc, pdu, polls, accumulator>>
targetVars == <<toInitiator, tgt, segs, landed, tgtExp, tgtMax>>
boundVars  == <<pings, logouts>>
localVars  == <<kind, seen, itt, sn, mailbox>>
vars == <<poolVars, stateVars, taskVars, recvVars, conn, targetVars, boundVars>>

----------------------------------------------------------------------------
(* Data *)

LoItts == 0 .. WordBits - 1
HiItts == WordBits .. 2 * WordBits - 1
Itts   == 0 .. 2 * WordBits - 1

IsWrite(c) == kind[c] \in {"writeImm", "writeR2t"}

Segments == 1 .. DataIns
Data     == SUBSET (Cmd \X Segments)

\* The PduResponse a oneshot carries; from is the command the target answered.
Response == [status : {"good", "check"}, data : Data, from : Cmd]

\* What the target sends.  cmd names the command a PDU is about, None in a
\* NOP-In; the ITT of a PDU is the one that command was sent with.
Pdu == [op   : {"response", "dataIn", "dataInStatus", "r2t", "nopIn"},
        cmd  : Cmd \cup {None},
        itt  : Itts,
        seg  : 0 .. DataIns,
        status : {"good", "check"},
        max  : Nat]

Terminal == {"ok", "failed", "timedOut", "error"}

\* The receiving half of the oneshot is alive until the task is done with it.
Listening(c) == pc[c] \notin Terminal

Init ==
    /\ slots = [i \in Itts |-> None]
    /\ completions = [i \in Itts |-> None]
    /\ writeData = [i \in Itts |-> None]
    /\ cmdSN = InitialCmdSN
    /\ maxCmdSN = InitialCmdSN
    /\ pc = [c \in Cmd |-> "idle"]
    /\ kind = [c \in Cmd |-> "none"]
    /\ seen = [c \in Cmd |-> 0]
    /\ itt = [c \in Cmd |-> 0]
    /\ sn = [c \in Cmd |-> 0]
    /\ mailbox = [c \in Cmd |-> None]
    /\ rpc = "recv"
    /\ pdu = None
    /\ polls = 0
    /\ accumulator = [i \in Itts |-> {}]
    /\ conn = "up"
    /\ toInitiator = <<>>
    /\ tgt = [c \in Cmd |-> "none"]
    /\ segs = [c \in Cmd |-> 0]
    /\ landed = [c \in Cmd |-> {}]
    /\ tgtExp = InitialCmdSN
    /\ tgtMax = InitialCmdSN + Depth - 1
    /\ pings = 0
    /\ logouts = 0

----------------------------------------------------------------------------
(* The submitting task: submit_command, register_write_data, the await *)

Go(c, here, there) ==
    /\ pc[c] = here
    /\ pc' = [pc EXCEPT ![c] = there]
    /\ UNCHANGED <<recvVars, conn, boundVars>>

\* A step that changes nothing but the place of the task.
OnlyGo(c, here, there) ==
    /\ Go(c, here, there)
    /\ UNCHANGED <<poolVars, stateVars, localVars, targetVars>>

\* In submit_command, up to its fetch_add.
Submitting ==
    {c \in Cmd : pc[c] \in {"loadCmdSN", "window", "allocLo", "allocHi",
                            "store", "stamp"}}

\* The length of a write decides whether its data all goes with the command.
Start(c) ==
    /\ Cardinality(Submitting) < Submitters
    /\ Go(c, "idle", "loadCmdSN")
    /\ \E k \in Kinds : kind' = [kind EXCEPT ![c] = k]
    /\ UNCHANGED <<poolVars, stateVars, seen, itt, sn, mailbox, targetVars>>

\* cmd_sn_in_window: the two loads are separate atomics.
LoadCmdSN(c) ==
    /\ Go(c, "loadCmdSN", "window")
    /\ seen' = [seen EXCEPT ![c] = cmdSN]
    /\ UNCHANGED <<poolVars, stateVars, kind, itt, sn, mailbox, targetVars>>

\* Fault: the wrapped counters compared as plain integers.
InWindowPlain(c) == Wrap(seen[c]) <= Wrap(maxCmdSN)

InWindow(c) == SerialLE(Wrap(seen[c]), Wrap(maxCmdSN))

WindowOpen(c) ==
    /\ InWindow(c)
    /\ OnlyGo(c, "window", "allocLo")

WindowClosed(c) ==
    /\ ~InWindow(c)
    /\ OnlyGo(c, "window", "loadCmdSN")

\* IttPool::alloc takes the lowest clear bit of a word with a CAS it repeats
\* until the word did not change between the load and the store.
LowestFree(word) ==
    CHOOSE i \in word : /\ slots[i] = None
                        /\ \A j \in word : slots[j] = None => i <= j

WordFull(word) == \A i \in word : slots[i] # None

Alloc(c, here, word) ==
    /\ Go(c, here, "store")
    /\ \E i \in word : slots[i] = None
    /\ slots' = [slots EXCEPT ![LowestFree(word)] = c]
    /\ itt' = [itt EXCEPT ![c] = LowestFree(word)]
    /\ UNCHANGED <<completions, writeData, stateVars, kind, seen, sn, mailbox,
                   targetVars>>

AllocLo(c) == Alloc(c, "allocLo", LoItts)

LoFull(c) ==
    /\ WordFull(LoItts)
    /\ OnlyGo(c, "allocLo", "allocHi")

AllocHi(c) == Alloc(c, "allocHi", HiItts)

\* alloc returns None; submit_command yields and calls it again.
HiFull(c) ==
    /\ WordFull(HiItts)
    /\ OnlyGo(c, "allocHi", "allocLo")

StoreSender(c) ==
    /\ Go(c, "store", "stamp")
    /\ completions' = [completions EXCEPT ![itt[c]] = c]
    /\ UNCHANGED <<slots, writeData, stateVars, kind, seen, itt, sn, mailbox, targetVars>>

\* Fault: a load and a store in place of the fetch_add.
StampFromSeen(c) ==
    /\ Go(c, "stamp", "send")
    /\ sn' = [sn EXCEPT ![c] = seen[c]]
    /\ cmdSN' = seen[c] + 1
    /\ UNCHANGED <<poolVars, maxCmdSN, kind, seen, itt, mailbox, targetVars>>

\* cmd_sn.fetch_add(1)
Stamp(c) ==
    /\ Go(c, "stamp", "send")
    /\ sn' = [sn EXCEPT ![c] = cmdSN]
    /\ cmdSN' = cmdSN + 1
    /\ UNCHANGED <<poolVars, maxCmdSN, kind, seen, itt, mailbox, targetVars>>

\* The PDU is written under the writer lock; a lost connection may still take
\* it.  The caller of a write registers its payload only once submit_command
\* has returned.
Send(c) ==
    /\ Go(c, "send", IF IsWrite(c) THEN "register" ELSE "await")
    /\ tgt' = [tgt EXCEPT ![c] = "sent"]
    /\ UNCHANGED <<poolVars, stateVars, kind, seen, itt, sn, mailbox,
                   toInitiator, segs, landed, tgtExp, tgtMax>>

\* send_pdu(..).await? returns: the slot, the sender and the CmdSN stay taken.
SendFails(c) ==
    /\ conn = "lost"
    /\ OnlyGo(c, "send", "error")

RegisterWriteData(c) ==
    /\ Go(c, "register", "await")
    /\ writeData' = [writeData EXCEPT ![itt[c]] = c]
    /\ UNCHANGED <<slots, completions, stateVars, kind, seen, itt, sn, mailbox, targetVars>>

\* Fault: the status of the response is not looked at.
TakeAnyResponse(c) ==
    /\ mailbox[c] # None
    /\ OnlyGo(c, "await", "ok")

\* A response that is there is taken even if the timer has fired as well.
TakeResponse(c) ==
    /\ mailbox[c] # None
    /\ OnlyGo(c, "await", IF mailbox[c].status = "good" THEN "ok" ELSE "failed")

\* Fault: a timeout gives the slot back before the answer has come.
TimeOutFreesSlot(c) ==
    /\ mailbox[c] = None
    /\ Go(c, "await", "timedOut")
    /\ slots' = [slots EXCEPT ![itt[c]] = None]
    /\ UNCHANGED <<completions, writeData, stateVars, kind, seen, itt, sn,
                   mailbox, targetVars>>

\* READ_TIMEOUT or WRITE_TIMEOUT: the receiving half is dropped, the slot and
\* the sender stay.
TimeOut(c) ==
    /\ mailbox[c] = None
    /\ OnlyGo(c, "await", "timedOut")

\* send_logout draws a CmdSN of its own.
SendLogout ==
    /\ logouts < MaxLogouts
    /\ logouts' = logouts + 1
    /\ cmdSN' = cmdSN + 1
    /\ UNCHANGED <<poolVars, maxCmdSN, taskVars, recvVars, conn, targetVars,
                   pings>>

----------------------------------------------------------------------------
(* The receiver task *)

\* No step of the receiver touches these.
Move(here, there) ==
    /\ rpc = here
    /\ rpc' = there
    /\ UNCHANGED <<cmdSN, pc, kind, seen, itt, sn, conn, segs, tgtExp, tgtMax,
                   boundVars>>

windowVars == <<maxCmdSN, toInitiator>>

\* recv_pdu, then update_sequence_numbers, then the dispatch on the opcode.
Receive ==
    /\ toInitiator # <<>>
    /\ pdu' = Head(toInitiator)
    /\ toInitiator' = Tail(toInitiator)
    /\ maxCmdSN' = Head(toInitiator).max
    /\ Move("recv", Head(toInitiator).op)
    /\ UNCHANGED <<poolVars, mailbox, polls, accumulator, tgt, landed>>

\* recv_pdu fails; the task returns and nobody is told.
ReceiverDies ==
    /\ conn = "lost"
    /\ Move("recv", "dead")
    /\ UNCHANGED <<poolVars, windowVars, mailbox, pdu, polls, accumulator, tgt,
                   landed>>

\* complete_async up to the free: take the sender, send the response if the
\* receiving half still exists.  The accumulated data has been taken before.
Complete(here, data) ==
    /\ Move(here, "free")
    /\ completions' = [completions EXCEPT ![pdu.itt] = None]
    /\ mailbox' = [c \in Cmd |->
                     IF c = completions[pdu.itt] /\ Listening(c)
                     THEN [status |-> pdu.status, data |-> data, from |-> pdu.cmd]
                     ELSE mailbox[c]]
    /\ UNCHANGED <<slots, writeData, windowVars, pdu, polls, tgt, landed>>

\* Fault: the accumulated data is copied, not removed.
HandleScsiResponseKeepsData ==
    /\ Complete("response", accumulator[pdu.itt])
    /\ UNCHANGED accumulator

\* handle_scsi_response up to the free of the slot.
HandleScsiResponse ==
    /\ Complete("response", accumulator[pdu.itt])
    /\ accumulator' = [accumulator EXCEPT ![pdu.itt] = {}]

Accumulated == accumulator[pdu.itt] \cup {<<pdu.cmd, pdu.seg>>}

\* Data-In without the S bit only adds to the accumulator.
HandleDataIn ==
    /\ Move("dataIn", "recv")
    /\ accumulator' = [accumulator EXCEPT ![pdu.itt] = Accumulated]
    /\ pdu' = None
    /\ UNCHANGED <<poolVars, windowVars, mailbox, polls, tgt, landed>>

\* Data-In with the S bit also completes the command.
HandleDataInStatus ==
    /\ Complete("dataInStatus", Accumulated)
    /\ accumulator' = [accumulator EXCEPT ![pdu.itt] = {}]

\* Fault: only a SCSI Response gives the slot back.
FreeIttOfResponse ==
    /\ Move("free", IF pdu.op = "response" THEN "unregister" ELSE "recv")
    /\ slots' = IF pdu.op = "response" THEN [slots EXCEPT ![pdu.itt] = None]
                                       ELSE slots
    /\ pdu' = IF pdu.op = "response" THEN pdu ELSE None
    /\ UNCHANGED <<completions, writeData, windowVars, mailbox, polls,
                   accumulator, tgt, landed>>

\* IttPool::free.  handle_scsi_response has one more call to make.
FreeItt ==
    /\ Move("free", IF pdu.op = "response" THEN "unregister" ELSE "recv")
    /\ slots' = [slots EXCEPT ![pdu.itt] = None]
    /\ pdu' = IF pdu.op = "response" THEN pdu ELSE None
    /\ UNCHANGED <<completions, writeData, windowVars, mailbox, polls,
                   accumulator, tgt, landed>>

\* Fault: the payload stays registered after the command is over.
RemoveNothing ==
    /\ Move("unregister", "recv")
    /\ pdu' = None
    /\ UNCHANGED <<poolVars, windowVars, mailbox, polls, accumulator, tgt,
                   landed>>

RemoveWriteData ==
    /\ Move("unregister", "recv")
    /\ writeData' = [writeData EXCEPT ![pdu.itt] = None]
    /\ pdu' = None
    /\ UNCHANGED <<slots, completions, windowVars, mailbox, polls, accumulator,
                   tgt, landed>>

Registered == writeData[pdu.itt]

\* The slice an R2T asks for begins behind the first burst: a payload that fits
\* in it has nothing there.
ReachesRange(c) == kind[c] = "writeR2t"

\* Whose bytes the Data-Outs carry when the registered payload is sliced.
Sliced == IF ReachesRange(Registered) THEN {Registered} ELSE {}

\* handle_r2t once the lookup succeeds: the slices of what is registered under
\* the ITT go out as Data-Outs.  A payload that is another command's may end
\* before the range asked does; the target then still lacks the rest.
SendDataOut ==
    /\ Move("r2t", "recv")
    /\ Registered # None
    /\ conn = "up"
    /\ landed' = [landed EXCEPT ![pdu.cmd] = @ \cup Sliced]
    /\ \E whole \in BOOLEAN :
          /\ Registered = pdu.cmd => whole
          /\ ~ReachesRange(Registered) => ~whole
          /\ tgt' = [tgt EXCEPT ![pdu.cmd] =
                                    IF @ = "asked" /\ whole THEN "served" ELSE @]
    /\ pdu' = None
    /\ polls' = 0
    /\ UNCHANGED <<poolVars, windowVars, mailbox, accumulator>>

\* The task ends in handle_r2t, perhaps after some Data-Outs: send_pdu failed,
\* or the registered payload is another command's and too short for the range
\* asked (slice panics).
DataOutFails ==
    /\ Move("r2t", "dead")
    /\ Registered # None
    /\ conn = "lost" \/ Registered # pdu.cmd
    /\ \E part \in {{}, Sliced} : landed' = [landed EXCEPT ![pdu.cmd] = @ \cup part]
    /\ pdu' = None
    /\ polls' = 0
    /\ UNCHANGED <<poolVars, windowVars, mailbox, accumulator, tgt>>

\* Fault: the lookup is repeated without a limit.
R2tPollForever ==
    /\ Move("r2t", "r2t")
    /\ Registered = None
    /\ polls' = polls + 1
    /\ UNCHANGED <<poolVars, windowVars, mailbox, pdu, accumulator, tgt, landed>>

R2tPoll ==
    /\ Move("r2t", "r2t")
    /\ Registered = None
    /\ polls < R2tPolls
    /\ polls' = polls + 1
    /\ UNCHANGED <<poolVars, windowVars, mailbox, pdu, accumulator, tgt, landed>>

\* All lookups failed: the R2T is dropped and the task goes on.
R2tGiveUp ==
    /\ Move("r2t", "recv")
    /\ Registered = None
    /\ polls = R2tPolls
    /\ polls' = 0
    /\ pdu' = None
    /\ UNCHANGED <<poolVars, windowVars, mailbox, accumulator, tgt, landed>>

\* The NOP-Out reply changes nothing here; failing to send it ends the task.
HandleNopIn ==
    /\ Move("nopIn", IF conn = "up" THEN "recv" ELSE "dead")
    /\ pdu' = None
    /\ UNCHANGED <<poolVars, windowVars, mailbox, polls, accumulator, tgt,
                   landed>>

----------------------------------------------------------------------------
(* The target and the connection (external) *)

\* The target moves command c on; nothing of the initiator changes.
Advance(c, from, to) ==
    /\ tgt[c] \in from
    /\ tgt' = [tgt EXCEPT ![c] = to]
    /\ UNCHANGED <<poolVars, stateVars, taskVars, recvVars, conn, boundVars>>

\* Commands are taken in CmdSN order, inside the window advertised.
TargetAccepts(c) ==
    /\ Advance(c, {"sent"}, "accepted")
    /\ conn = "up"
    /\ sn[c] = tgtExp
    /\ sn[c] <= tgtMax
    /\ tgtExp' = tgtExp + 1
    /\ UNCHANGED <<toInitiator, segs, landed, tgtMax>>

\* A command beyond the window is ignored.
TargetIgnores(c) ==
    /\ Advance(c, {"sent"}, "ignored")
    /\ sn[c] > tgtMax
    /\ UNCHANGED <<toInitiator, segs, landed, tgtExp, tgtMax>>

\* Every PDU carries the window, which the target may open as it sends.
TargetSends(op, c, seg, status) ==
    /\ conn = "up"
    /\ tgtMax' \in {tgtMax, tgtExp + Depth - 1}
    /\ toInitiator' =
          Append(toInitiator,
                 [op |-> op, cmd |-> c, seg |-> seg, status |-> status,
                  itt |-> IF c = None THEN 0 ELSE itt[c], max |-> tgtMax'])
    /\ UNCHANGED <<landed, tgtExp>>

TargetSendsDataIn(c) ==
    /\ Advance(c, {"accepted"}, "accepted")
    /\ kind[c] = "read"
    /\ segs[c] < DataIns
    /\ segs' = [segs EXCEPT ![c] = @ + 1]
    /\ TargetSends("dataIn", c, segs[c] + 1, "good")

\* The last Data-In may carry the status (phase collapse).
TargetSendsDataInStatus(c) ==
    /\ Advance(c, {"accepted"}, "good")
    /\ kind[c] = "read"
    /\ segs[c] = DataIns - 1
    /\ segs' = [segs EXCEPT ![c] = @ + 1]
    /\ TargetSends("dataInStatus", c, segs[c] + 1, "good")

TargetSendsR2t(c) ==
    /\ Advance(c, {"accepted"}, "asked")
    /\ kind[c] = "writeR2t"
    /\ TargetSends("r2t", c, 0, "good")
    /\ UNCHANGED segs

\* GOOD answers a command whose data has all been transferred.
DataDone(c) ==
    \/ kind[c] = "read" /\ segs[c] = DataIns
    \/ kind[c] = "writeImm"
    \/ tgt[c] = "served"

TargetResponds(c) ==
    /\ Advance(c, {"accepted", "served"}, "good")
    /\ DataDone(c)
    /\ TargetSends("response", c, 0, "good")
    /\ UNCHANGED segs

\* CHECK CONDITION may come in the middle of a transfer.
TargetRejects(c) ==
    /\ EarlyStatus
    /\ Advance(c, {"accepted", "asked", "served"}, "check")
    /\ TargetSends("response", c, 0, "check")
    /\ UNCHANGED segs

TargetPings ==
    /\ pings < MaxPings
    /\ pings' = pings + 1
    /\ TargetSends("nopIn", None, 0, "good")
    /\ UNCHANGED <<poolVars, stateVars, taskVars, recvVars, conn, tgt, segs,
                   logouts>>

ConnLost ==
    /\ ConnMayFail
    /\ conn = "up"
    /\ conn' = "lost"
    /\ UNCHANGED <<poolVars, stateVars, taskVars, recvVars, targetVars,
                   boundVars>>

----------------------------------------------------------------------------

Submit(c) ==
    \/ LoadCmdSN(c) \/ WindowOpen(c) \/ WindowClosed(c)
    \/ AllocLo(c) \/ LoFull(c) \/ AllocHi(c) \/ HiFull(c) \/ StoreSender(c)
    \/ Stamp(c) \/ Send(c) \/ SendFails(c)

Await(c) == RegisterWriteData(c) \/ TakeResponse(c) \/ TimeOut(c)

Receiver ==
    \/ Receive \/ ReceiverDies \/ HandleScsiResponse \/ HandleDataIn
    \/ HandleDataInStatus \/ FreeItt \/ RemoveWriteData \/ SendDataOut
    \/ DataOutFails \/ R2tPoll \/ R2tGiveUp \/ HandleNopIn

TargetAnswers(c) ==
    \/ TargetAccepts(c) \/ TargetIgnores(c) \/ TargetSendsDataIn(c)
    \/ TargetSendsDataInStatus(c) \/ TargetSendsR2t(c) \/ TargetResponds(c)
    \/ TargetRejects(c)

Next ==
    \/ \E c \in Cmd : Start(c) \/ Submit(c) \/ Await(c) \/ TargetAnswers(c)
    \/ SendLogout \/ Receiver \/ TargetPings \/ ConnLost

Spec == Init /\ [][Next]_vars

\* Every task and the receiver are scheduled again and again by the runtime,
\* and a timer that has been armed fires.  The target keeps working.
Fairness ==
    /\ \A c \in Cmd : WF_vars(Submit(c)) /\ WF_vars(Await(c))
    /\ WF_vars(Receiver)
    /\ \A c \in Cmd : WF_vars(TargetAnswers(c))

FairSpec == Spec /\ Fairness

----------------------------------------------------------------------------
(* Properties *)

PcValues ==
    {"idle", "loadCmdSN", "window", "allocLo", "allocHi", "store", "stamp",
     "send", "register", "await"} \cup Terminal

TgtValues ==
    {"none", "sent", "ignored", "accepted", "asked", "served", "good", "check"}

TypeOK ==
    /\ slots \in [Itts -> Cmd \cup {None}]
    /\ completions \in [Itts -> Cmd \cup {None}]
    /\ writeData \in [Itts -> Cmd \cup {None}]
    /\ cmdSN \in Nat /\ maxCmdSN \in Nat
    /\ pc \in [Cmd -> PcValues]
    /\ kind \in [Cmd -> Kinds \cup {"none"}]
    /\ seen \in [Cmd -> Nat]
    /\ itt \in [Cmd -> Itts]
    /\ sn \in [Cmd -> Nat]
    /\ mailbox \in [Cmd -> Response \cup {None}]
    /\ rpc \in {"recv", "response", "dataIn", "dataInStatus", "r2t", "nopIn",
                "free", "unregister", "dead"}
    /\ pdu \in Pdu \cup {None}
    /\ polls \in 0 .. R2tPolls
    /\ accumulator \in [Itts -> Data]
    /\ conn \in {"up", "lost"}
    /\ toInitiator \in Seq(Pdu)
    /\ tgt \in [Cmd -> TgtValues]
    /\ segs \in [Cmd -> 0 .. DataIns]
    /\ landed \in [Cmd -> SUBSET Cmd]
    /\ tgtExp \in Nat /\ tgtMax \in Nat
    /\ pings \in 0 .. MaxPings
    /\ logouts \in 0 .. MaxLogouts

IsAnswer(p) == p.op \in {"response", "dataInStatus"}

\* The answer to c has not yet reached the point where c's slot is freed.
AnswerPending(c) ==
    \/ \E k \in 1 .. Len(toInitiator) : IsAnswer(toInitiator[k]) /\ toInitiator[k].cmd = c
    \/ rpc \in {"response", "dataInStatus", "free"} /\ pdu.cmd = c

\* c has taken a slot that nothing has freed since.
Holding(c) ==
    \/ pc[c] \in {"store", "stamp", "send", "error"}
    \/ tgt[c] \in {"sent", "ignored", "accepted", "asked", "served"}
    \/ AnswerPending(c)

\* An ITT belongs to one command from its allocation until its answer has been
\* handled: whatever times out, fails or overtakes in between, no other command
\* is given it.
SlotHeld == \A c \in Cmd : Holding(c) => slots[itt[c]] = c

\* The response a task gets is the one the target gave to its own command,
\* also after timeouts have left late answers behind (oneshot routing by ITT).
OwnResponse ==
    \A c \in Cmd : mailbox[c] # None => mailbox[c].from = c

\* A read that succeeds returns exactly its own Data-In, all of it: nothing an
\* earlier command left in data_accumulator under the same ITT.
ReadDataExact ==
    \A c \in Cmd : (pc[c] = "ok" /\ kind[c] = "read") =>
                      mailbox[c].data = {c} \X Segments

\* Past the fetch_add.
Stamped == {c \in Cmd : pc[c] \in {"send", "register", "await"} \cup Terminal}

\* Every CmdSN drawn is carried by exactly one command or Logout: no two tasks
\* share one and none is skipped, so that the target's ExpCmdSN finds no hole.
CmdSNAccounted ==
    /\ \A c \in Stamped : sn[c] \in InitialCmdSN .. cmdSN - 1
    /\ \A c, d \in Stamped : sn[c] = sn[d] => c = d
    /\ cmdSN = InitialCmdSN + Cardinality(Stamped) + logouts

\* The test of the window and the fetch_add are not one atomic step, and yet
\* cmd_sn passes the window by at most the number of tasks that submit at the
\* same time (and the Logouts, which do not look at it).
WindowOverrunBounded == cmdSN <= maxCmdSN + Submitters + logouts

\* What the documentation says of the window: a command is stamped with a
\* CmdSN that MaxCmdSN covers.
WindowRespected == [][\A c \in Cmd : Stamp(c) => sn'[c] <= maxCmdSN]_vars

\* What the target is sent for a write on an R2T is that write's own payload.
OwnPayload == \A c \in Cmd : landed[c] \subseteq {c}

\* The polling of handle_r2t closes the race with register_write_data: an R2T
\* is not dropped once its write has registered the payload.
RegisteredPayloadFound ==
    [][R2tGiveUp => pc[pdu.cmd] = "register"]_vars

\* The receiver is gone, so that neither the window nor the pool moves any
\* more, and the task looks at them again and again.
Stranded(c) ==
    rpc = "dead" /\ pc[c] \in {"loadCmdSN", "window", "allocLo", "allocHi"}


\* The target will not answer c: it has ignored it, or it waits for data that
\* no R2T asks for any more (handle_r2t dropped the R2T, or answered it from
\* a payload too short for it).
Forsaken(c) ==
    \/ tgt[c] = "ignored"
    \/ /\ tgt[c] = "asked"
       /\ ~(rpc = "r2t" /\ pdu.cmd = c)
       /\ \A k \in 1 .. Len(toInitiator) :
             ~(toInitiator[k].op = "r2t" /\ toInitiator[k].cmd = c)

\* Every ITT comes back to the pool, also the one of a command that timed out,
\* unless the receiver task has ended or the target will not answer.
EverySlotFreed ==
    \A i \in Itts :
        (slots[i] # None) ~>
            (slots[i] = None \/ rpc = "dead" \/ Forsaken(slots[i]))
=============================================================================
