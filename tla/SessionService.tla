--------------------------- MODULE SessionService ---------------------------
(***************************************************************************)
(* Session implements CommandService: the refinement mapping.  A caller's  *)
(* state is read off the program counter of its task, the target's answer  *)
(* off the state of the target.                                            *)
(***************************************************************************)
EXTENDS Session

ReadOf(c) == {c} \X Segments

CallerState(c) ==
    CASE pc[c] = "idle"       -> "idle"
      [] pc[c] \in Terminal   -> pc[c]
      [] OTHER                -> "issued"

TargetAnswer(c) == IF tgt[c] \in {"good", "check"} THEN tgt[c] ELSE "none"

Service == INSTANCE CommandService WITH
    Read   <- ReadOf,
    state  <- [c \in Cmd |-> CallerState(c)],
    asks   <- [c \in Cmd |-> IF kind[c] = "read" THEN ReadOf(c) ELSE {}],
    answer <- [c \in Cmd |-> TargetAnswer(c)],
    result <- [c \in Cmd |-> IF pc[c] = "ok" THEN mailbox[c].data ELSE {}]

\* A command issued to the session behaves as one issued to CommandService: it
\* ends at most once, with the answer and the data the target gave to it.
ImplementsService == Service!ServiceSpec
=============================================================================
