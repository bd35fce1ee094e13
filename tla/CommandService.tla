--------------------------- MODULE CommandService ---------------------------
(***************************************************************************)
(* What a session promises the callers of submit_command, with no ITTs, no *)
(* command window and no PDUs: a command is issued, the target gives it at *)
(* most one answer, and the caller ends either with that answer, a read    *)
(* with the whole of its own data, or without one.  A command that could   *)
(* not be sent is never answered; one that timed out may still be.         *)
(***************************************************************************)
CONSTANTS
    Cmd,        \* the commands
    Read(_)     \* the data a read returns; other commands return none

VARIABLES
    state,      \* where the caller of each command is
    asks,       \* the data it asks for
    answer,     \* what the target answered, if it did
    result      \* the data handed to the caller

serviceVars == <<state, asks, answer, result>>

ServiceTypeOK ==
    /\ state \in [Cmd -> {"idle", "issued", "ok", "failed", "timedOut", "error"}]
    /\ answer \in [Cmd -> {"none", "good", "check"}]

ServiceInit ==
    /\ state = [c \in Cmd |-> "idle"]
    /\ asks = [c \in Cmd |-> {}]
    /\ answer = [c \in Cmd |-> "none"]
    /\ result = [c \in Cmd |-> {}]

Issue(c) ==
    /\ state[c] = "idle"
    /\ state' = [state EXCEPT ![c] = "issued"]
    /\ \E data \in {{}, Read(c)} : asks' = [asks EXCEPT ![c] = data]
    /\ UNCHANGED <<answer, result>>

Answer(c) ==
    /\ state[c] \in {"issued", "timedOut"}
    /\ answer[c] = "none"
    /\ \E s \in {"good", "check"} : answer' = [answer EXCEPT ![c] = s]
    /\ UNCHANGED <<state, asks, result>>

Succeed(c) ==
    /\ state[c] = "issued"
    /\ answer[c] = "good"
    /\ state' = [state EXCEPT ![c] = "ok"]
    /\ result' = [result EXCEPT ![c] = asks[c]]
    /\ UNCHANGED <<asks, answer>>

Fail(c) ==
    /\ state[c] = "issued"
    /\ answer[c] = "check"
    /\ state' = [state EXCEPT ![c] = "failed"]
    /\ UNCHANGED <<asks, answer, result>>

TimeOut(c) ==
    /\ state[c] = "issued"
    /\ state' = [state EXCEPT ![c] = "timedOut"]
    /\ UNCHANGED <<asks, answer, result>>

CannotSend(c) ==
    /\ state[c] = "issued"
    /\ answer[c] = "none"
    /\ state' = [state EXCEPT ![c] = "error"]
    /\ UNCHANGED <<asks, answer, result>>

ServiceNext ==
    \E c \in Cmd : Issue(c) \/ Answer(c) \/ Succeed(c) \/ Fail(c) \/ TimeOut(c)
                   \/ CannotSend(c)

ServiceSpec == ServiceInit /\ [][ServiceNext]_serviceVars

=============================================================================
