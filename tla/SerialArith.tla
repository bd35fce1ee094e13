---------------------------- MODULE SerialArith ----------------------------
(***************************************************************************)
(* RFC 1982 serial numbers as session.rs computes with them: CmdSN, StatSN *)
(* and their Exp/Max companions are u32 counters that wrap, and the only   *)
(* comparison the initiator makes between two of them is serial_le.        *)
(* HalfRange is 2^31 in the program; TLC uses a small one.                 *)
(***************************************************************************)
EXTENDS Integers

CONSTANT HalfRange        \* 0x8000_0000 in the code

ASSUME HalfRangeAssumption == HalfRange \in Nat \ {0}

Modulus == 2 * HalfRange  \* 2^32 in the code

\* The values a u32 counter can hold.
Serial == 0 .. Modulus - 1

\* u32::wrapping_sub.
WrappingSub(b, a) == (b - a) % Modulus

\* The value a u32 holds after n increments from zero.
Wrap(n) == n % Modulus

\* serial_le(a, b): equal, or b ahead of a by less than half the space.
SerialLE(a, b) ==
    \/ a = b
    \/ /\ WrappingSub(b, a) > 0
       /\ WrappingSub(b, a) < HalfRange
=============================================================================
