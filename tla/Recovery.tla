------------------------------ MODULE Recovery ------------------------------
(***************************************************************************)
(* Keepalive and pending commands (crates/iscsi-lib/src/iscsi/recovery.rs).*)
(* Time passes in ticks of 100 ms, the period of the keepalive's polls; a  *)
(* task whose timer has run out goes on before the next tick, except where *)
(* it waits for the writer's lock.  The peer is external: it sends when it *)
(* has something to send, and may fall silent for ever at any time without *)
(* closing the connection.  It need not answer a NOP-Out: those of the     *)
(* keepalive carry the ITT 0xFFFFFFFF, which asks for no answer.           *)
(*                                                                         *)
(* Nothing in the code uses the queue yet: whoever replaces a session is   *)
(* to push, drain, expire and fail, in any order.                          *)
(***************************************************************************)
EXTENDS Integers, Sequences, FiniteSets

CONSTANTS
    Interval,    \* noop_interval
    Timeout,     \* noop_timeout
    Stalls,      \* the writer's lock may be held by a sender that is stuck
    Horizon,     \* idle time is not counted further: a bound of the model
    Pending,     \* commands that may be queued
    Replacement  \* replacement_timeout, with which the queue is expired

ASSUME RecoveryAssumption ==
    /\ Interval \in Nat \ {0} /\ Timeout \in Nat \ {0}
    /\ Horizon \in Nat /\ Replacement \in Nat
    /\ Stalls \in BOOLEAN

Max2(a, b) == IF a <= b THEN b ELSE a
Min2(a, b) == IF a <= b THEN a ELSE b

VARIABLES
    task,     \* where spawn_keepalive's loop is
    timer,    \* ticks left of its sleep
    left,     \* ticks left to its deadline
    verdict,  \* how its last round ended
    idle,     \* time_since_last_recv
    alive,    \* the peer
    commands, \* PendingQueue: [cmd, age], the oldest first
    fate      \* what has become of each command

keepaliveVars == <<task, timer, left, verdict>>
queueVars     == <<commands, fate>>
vars == <<keepaliveVars, idle, alive, queueVars>>

Sleep == task' = "sleep" /\ timer' = Interval /\ UNCHANGED left

----------------------------------------------------------------------------
(* spawn_keepalive *)

\* Fault: a session that is in use is probed as well.
WakeAlways ==
    /\ task = "sleep" /\ timer = 0
    /\ task' = "send"
    /\ UNCHANGED <<timer, left, verdict, idle, alive, queueVars>>

Wake ==
    /\ task = "sleep" /\ timer = 0
    /\ IF idle < Interval
       THEN verdict' = "active" /\ Sleep
       ELSE task' = "send" /\ UNCHANGED <<timer, left, verdict>>
    /\ UNCHANGED <<idle, alive, queueVars>>

\* send_nop_out
SendNopOut ==
    /\ task = "send"
    /\ task' = "poll" /\ timer' = 1 /\ left' = Timeout
    /\ UNCHANGED <<verdict, idle, alive, queueVars>>

SendFails ==
    /\ task = "send" /\ ~alive
    /\ verdict' = "sendFailed" /\ Sleep
    /\ UNCHANGED <<idle, alive, queueVars>>

\* Fault: what came before the NOP-Out counts, however long before.
AnsweredEver == TRUE

\* Fault: the answer has to come within the last interval of polling.
AnsweredNow == idle < 1

\* Anything that came within the last noop_timeout is taken for the answer.
Answered == idle < Timeout

\* After the last poll, the deadline has passed.
Poll ==
    /\ task = "poll" /\ timer = 0
    /\ IF Answered THEN verdict' = "replied" /\ Sleep
       ELSE IF left > 0 THEN timer' = 1 /\ UNCHANGED <<task, left, verdict>>
       ELSE verdict' = "noReply" /\ Sleep
    /\ UNCHANGED <<idle, alive, queueVars>>

----------------------------------------------------------------------------
(* Session: the receiver task and the clock; external: the peer *)

\* update_last_recv_async, for any PDU of the peer.
Receive ==
    /\ alive
    /\ idle' = 0
    /\ UNCHANGED <<keepaliveVars, alive, queueVars>>

FallSilent ==
    /\ alive /\ alive' = FALSE
    /\ UNCHANGED <<keepaliveVars, idle, queueVars>>

Tick ==
    /\ timer > 0 \/ (task = "send" /\ Stalls)
    /\ timer' = Max2(timer - 1, 0)
    /\ left' = IF task = "poll" THEN left - 1 ELSE left
    /\ idle' = Min2(idle + 1, Horizon)
    /\ commands' = [i \in DOMAIN commands |->
                       [commands[i] EXCEPT !.age = Min2(@ + 1, Replacement)]]
    /\ UNCHANGED <<task, verdict, alive, fate>>

----------------------------------------------------------------------------
(* PendingQueue *)

Push(c) ==
    /\ fate[c] = "new"
    /\ commands' = Append(commands, [cmd |-> c, age |-> 0])
    /\ fate' = [fate EXCEPT ![c] = "queued"]
    /\ UNCHANGED <<keepaliveVars, idle, alive>>

\* Commands of the queue that leave it together.
Leave(cs, how) ==
    fate' = [c \in Pending |->
                IF \E e \in cs : e.cmd = c THEN how ELSE fate[c]]

Entries == {commands[i] : i \in DOMAIN commands}

Expired(e) == e.age >= Replacement

\* The entries at the positions keep, in their order.
Retained(keep) ==
    [k \in 1 .. Cardinality(keep) |->
        commands[CHOOSE i \in keep : Cardinality({j \in keep : j <= i}) = k]]

Unexpired == {i \in DOMAIN commands : ~Expired(commands[i])}

\* Fault: at exactly the timeout a command is dropped and not answered.
ExpireUnanswered ==
    /\ commands # <<>>
    /\ commands' = Retained(Unexpired)
    /\ Leave({e \in Entries : e.age > Replacement}, "failed")
    /\ UNCHANGED <<keepaliveVars, idle, alive>>

Expire ==
    /\ commands # <<>>
    /\ commands' = Retained(Unexpired)
    /\ Leave({e \in Entries : Expired(e)}, "failed")
    /\ UNCHANGED <<keepaliveVars, idle, alive>>

FailAll ==
    /\ commands # <<>> /\ commands' = <<>>
    /\ Leave(Entries, "failed")
    /\ UNCHANGED <<keepaliveVars, idle, alive>>

Drain ==
    /\ commands # <<>> /\ commands' = <<>>
    /\ Leave(Entries, "resubmitted")
    /\ UNCHANGED <<keepaliveVars, idle, alive>>

----------------------------------------------------------------------------

Init ==
    /\ task = "sleep" /\ timer = Interval /\ left = 0 /\ verdict = "active"
    /\ idle = 0 /\ alive = TRUE
    /\ commands = <<>> /\ fate = [c \in Pending |-> "new"]

Keepalive == Wake \/ SendNopOut \/ SendFails \/ Poll
Queue     == Expire \/ FailAll \/ Drain \/ \E c \in Pending : Push(c)

Next == Keepalive \/ Receive \/ FallSilent \/ Tick \/ Queue

Spec == Init /\ [][Next]_vars

----------------------------------------------------------------------------
(* Properties *)

Suspects == verdict \in {"noReply", "sendFailed"}

\* A session that has heard nothing for two intervals and a timeout, or two
\* timeouts and an interval if that is longer, is suspected: however the
\* silence lies to the keepalive's rounds, and whatever else came before.
DetectionBounded ==
    idle >= Interval + Timeout + Max2(Interval, Timeout) => Suspects

\* A round reports a missing answer only when nothing at all has come for an
\* interval and a timeout, wherever PDUs fall between the polls and between
\* the rounds.
SuspicionEarned ==
    [][(task = "poll" /\ task' = "sleep" /\ verdict' = "noReply") =>
            idle >= Interval + Timeout]_vars

\* What the loop is for: a peer that is there is not suspected.
LiveNotSuspected == alive => ~Suspects

\* What a poll takes for the answer came after the NOP-Out it is to answer.
RepliesReal ==
    (task = "poll" /\ timer = 0 /\ Answered) => idle <= Timeout - left

\* A queued command is in the queue once, and leaves it answered or handed over.
QueueAccountsForAll ==
    \A c \in Pending :
        Cardinality({i \in DOMAIN commands : commands[i].cmd = c})
            = IF fate[c] = "queued" THEN 1 ELSE 0
=============================================================================
