---------------------------- MODULE WindowProofs ----------------------------
(***************************************************************************)
(* Serial numbers of any width, and the command window of Session for any  *)
(* number of commands, submitters and Logouts: while two counters are less *)
(* than half the space apart, serial_le of what the program stores of them *)
(* compares the counters; CmdSNs are handed out once each without a hole,  *)
(* and cmd_sn passes MaxCmdSN by no more than the submitters and the       *)
(* Logouts.                                                                *)
(***************************************************************************)
EXTENDS SessionProofs

USE HalfRangeAssumption

----------------------------------------------------------------------------
(* Serial numbers *)

(* Division with remainder.                                                *)
LEMMA ModFacts ==
    ASSUME NEW a \in Int, NEW M \in Nat \ {0}
    PROVE  /\ a % M \in 0 .. M - 1
           /\ a \div M \in Int
           /\ a = M * (a \div M) + (a % M)
BY SMT

(* A multiple of M between -M and M is zero, in the terms the SMT solver   *)
(* needs to avoid non-linear reasoning later on.                           *)
LEMMA Multiples ==
    ASSUME NEW M \in Nat \ {0}, NEW k \in Int
    PROVE  /\ M * k \in Int
           /\ k <= -1 => M * k <= -M
           /\ k >= 1 => M * k >= M
           /\ k = 0 => M * k = 0
BY SMT

(* The remainder is unique.                                                *)
LEMMA ModUnique ==
    ASSUME NEW M \in Nat \ {0}, NEW k \in Int, NEW r \in 0 .. M - 1,
           NEW x \in Int, x = M * k + r
    PROVE  x % M = r
<1> DEFINE q == x \div M
           s == x % M
           j == k - q
<1>1. q \in Int /\ s \in 0 .. M - 1 /\ x = M * q + s
    BY ModFacts
<1>2. j \in Int /\ M * j = M * k - M * q
    BY <1>1, SMT
<1>3. M * k \in Int /\ M * q \in Int
    BY <1>1, Multiples
<1> HIDE DEF q, s, j
<1>4. M * j = s - r
    BY <1>1, <1>2, <1>3, SMT
<1>5. M * j < M /\ M * j > -M
    BY <1>1, <1>4, SMT
<1>6. j = 0
    BY <1>2, <1>5, Multiples, SMT
<1>7. s = r
    BY <1>1, <1>4, <1>6, Multiples, SMT
<1> QED BY <1>7 DEF s

(* Subtracting two wrapped counters wraps their difference: d is it, up to *)
(* a multiple of the modulus.                                              *)
LEMMA WrapDifference ==
    ASSUME NEW a \in Nat, NEW b \in Nat, NEW k \in {0, 1},
           NEW r \in 0 .. Modulus - 1, b - a = r - Modulus * k
    PROVE  WrappingSub(Wrap(b), Wrap(a)) = r
<1> DEFINE M == Modulus
           A == a % M
           B == b % M
           qa == a \div M
           qb == b \div M
           n == qa - qb - k
<1>1. M \in Nat \ {0}
    BY DEF Modulus
<1>2. a \in Int /\ b \in Int
    OBVIOUS
<1> HIDE DEF M
<1>3. /\ qa \in Int /\ a = M * qa + A /\ A \in 0 .. M - 1
      /\ qb \in Int /\ b = M * qb + B /\ B \in 0 .. M - 1
    <2>1. qa \in Int /\ a = M * qa + A /\ A \in 0 .. M - 1
        BY <1>1, <1>2, ModFacts
    <2>2. qb \in Int /\ b = M * qb + B /\ B \in 0 .. M - 1
        BY <1>1, <1>2, ModFacts
    <2> QED BY <2>1, <2>2
<1>4. b - a = r - M * k /\ r \in 0 .. M - 1
    BY DEF M
<1>5. n \in Int /\ M * n = M * qa - M * qb - M * k
    BY <1>1, <1>3, SMT
<1>6. M * qa \in Int /\ M * qb \in Int /\ M * k \in Int
    BY <1>1, <1>3, Multiples
<1> HIDE DEF A, B, qa, qb, n
<1>7. B - A \in Int /\ B - A = M * n + r
    BY <1>3, <1>4, <1>5, <1>6, SMT
<1>8. (B - A) % M = r
    <2> DEFINE x == B - A
    <2>1. n \in Int /\ r \in 0 .. M - 1 /\ x \in Int /\ x = M * n + r
        BY <1>4, <1>5, <1>7
    <2> HIDE DEF x
    <2>2. x % M = r
        BY <1>1, <2>1, ModUnique
    <2> QED BY <2>2 DEF x
<1> QED BY <1>8 DEF WrappingSub, Wrap, A, B, M

(* serial_le on two wrapped counters is <= on the counters, as long as     *)
(* they are less than half the space apart.                                *)
THEOREM SerialOrder ==
    ASSUME NEW a \in Nat, NEW b \in Nat, a - b < HalfRange, b - a < HalfRange
    PROVE  SerialLE(Wrap(a), Wrap(b)) <=> a <= b
<1>1. CASE a <= b
    <2>1. WrappingSub(Wrap(b), Wrap(a)) = b - a
        <3>1. b - a \in 0 .. Modulus - 1 /\ b - a = (b - a) - Modulus * 0
            BY <1>1 DEF Modulus
        <3> QED BY <3>1, WrapDifference
    <2>2. CASE a = b
        BY <2>2 DEF SerialLE
    <2>3. CASE a # b
        <3>1. b - a > 0
            BY <1>1, <2>3
        <3> QED BY <1>1, <2>1, <3>1 DEF SerialLE
    <2> QED BY <2>2, <2>3
<1>2. CASE b < a
    <2> DEFINE r == Modulus - (a - b)
    <2>1. /\ r \in 0 .. Modulus - 1 /\ r > HalfRange /\ r \in Int
          /\ b - a = r - Modulus * 1
        BY <1>2 DEF Modulus
    <2> HIDE DEF r
    <2>2. WrappingSub(Wrap(b), Wrap(a)) = r
        BY <2>1, WrapDifference
    <2>3. Wrap(a) # Wrap(b)
        <3>1. SUFFICES ASSUME Wrap(a) = Wrap(b) PROVE FALSE
            OBVIOUS
        <3>2. Modulus \in Nat \ {0} /\ Wrap(b) \in Int
            <4>1. Modulus \in Nat \ {0}
                BY DEF Modulus
            <4> QED BY <4>1, ModFacts DEF Wrap
        <3>3. Wrap(b) - Wrap(a) = Modulus * 0 + 0
            BY <3>1, <3>2
        <3>4. WrappingSub(Wrap(b), Wrap(a)) = 0
            <4>1. 0 \in 0 .. Modulus - 1 /\ Wrap(b) - Wrap(a) \in Int
                BY <3>2, <3>3
            <4> QED BY <3>2, <3>3, <4>1, ModUnique DEF WrappingSub
        <3> QED BY <2>1, <2>2, <3>4
    <2>4. ~(r < HalfRange)
        BY <2>1
    <2> QED BY <1>2, <2>2, <2>3, <2>4 DEF SerialLE
<1> QED BY <1>1, <1>2

----------------------------------------------------------------------------
(* The command window *)

USE SessionAssumption

(* The sets the invariant counts are finite.                               *)
LEMMA TasksAreFinite ==
    /\ IsFiniteSet(Stamped) /\ Cardinality(Stamped) \in Nat
    /\ Cardinality(Stamped) <= Cardinality(Cmd)
    /\ IsFiniteSet(Submitting) /\ Cardinality(Submitting) \in Nat
    /\ Cardinality(Cmd) \in Nat
<1>1. Stamped \in SUBSET Cmd /\ Submitting \in SUBSET Cmd
    BY DEF Stamped, Submitting
<1> QED BY <1>1, FS_Subset, FS_CardinalityType

LEMMA ClearedIsFinite ==
    ASSUME NEW m
    PROVE  IsFiniteSet(Cleared(m)) /\ Cardinality(Cleared(m)) \in Nat
<1>1. Cleared(m) \in SUBSET Cmd
    BY DEF Cleared
<1> QED BY <1>1, FS_Subset, FS_CardinalityType

(* cmd_sn is never so far ahead of MaxCmdSN that serial_le misreads it, so *)
(* a task that passes the test has loaded a value the window covers.       *)
LEMMA OpenMeansCovered ==
    ASSUME Windowing, NEW c \in Cmd, WindowOpen(c)
    PROVE  seen[c] <= maxCmdSN
<1>1. /\ seen[c] \in Nat /\ maxCmdSN \in Nat /\ cmdSN \in Nat
      /\ logouts \in 0 .. MaxLogouts
    BY DEF Windowing, TypeOK
<1>2. seen[c] <= cmdSN
    BY DEF Windowing, SeenBehind, WindowOpen, OnlyGo, Go
<1>3. cmdSN = InitialCmdSN + Cardinality(Stamped) + logouts
      /\ InitialCmdSN <= maxCmdSN
    BY DEF Windowing, CmdSNAccounted, WindowGrows
<1>4. seen[c] - maxCmdSN < HalfRange
    <2>1. /\ Cardinality(Stamped) \in Nat /\ Cardinality(Cmd) \in Nat
          /\ Cardinality(Stamped) <= Cardinality(Cmd)
        BY TasksAreFinite
    <2> QED BY <1>1, <1>2, <1>3, <2>1
<1>5. SerialLE(Wrap(seen[c]), Wrap(maxCmdSN))
    BY DEF WindowOpen, InWindow
<1>6. CASE maxCmdSN - seen[c] < HalfRange
    BY <1>1, <1>4, <1>5, <1>6, SerialOrder
<1>7. CASE ~(maxCmdSN - seen[c] < HalfRange)
    BY <1>1, <1>7
<1> QED BY <1>6, <1>7

(* A step that draws no CmdSN and clears no further task keeps the counts. *)
LEMMA NothingDrawn ==
    ASSUME Windowing, TypeOK', WindowGrows', SeenBehind',
           UNCHANGED <<cmdSN, sn, logouts>>, maxCmdSN <= maxCmdSN',
           Stamped' = Stamped, Cardinality(Submitting)' <= Submitters,
           \A m \in Nat : maxCmdSN' <= m => Cleared(m)' \subseteq Cleared(m)
    PROVE  Windowing'
<1>1. CmdSNAccounted'
    BY DEF Windowing, CmdSNAccounted
<1>2. Overrun'
    <2> SUFFICES ASSUME NEW m \in Nat, maxCmdSN' <= m
                 PROVE  cmdSN' + Cardinality(Cleared(m)') <= m + Submitters + logouts'
        BY DEF Overrun
    <2>1. maxCmdSN <= m
        BY DEF Windowing, TypeOK
    <2>2. cmdSN + Cardinality(Cleared(m)) <= m + Submitters + logouts
        BY <2>1 DEF Windowing, Overrun
    <2>3. /\ IsFiniteSet(Cleared(m)) /\ Cardinality(Cleared(m)) \in Nat
        BY ClearedIsFinite
    <2>4. /\ Cardinality(Cleared(m)') <= Cardinality(Cleared(m))
          /\ Cardinality(Cleared(m)') \in Nat
        <3>1. Cleared(m)' \in SUBSET Cleared(m)
            OBVIOUS
        <3> QED BY <2>3, <3>1, FS_Subset, FS_CardinalityType
    <2>5. cmdSN \in Nat /\ logouts \in Nat
        BY DEF Windowing, TypeOK
    <2> QED BY <2>2, <2>3, <2>4, <2>5
<1> QED BY <1>1, <1>2 DEF Windowing

\* Where a task is past the test of the window and before its fetch_add.
ClearedPlaces == {"allocLo", "allocHi", "store", "stamp"}

SubmittingPlaces == {"loadCmdSN", "window"} \cup ClearedPlaces

DrawnPlaces == {"send", "register", "await"} \cup Terminal

(* Nothing but the place of one task changes, and the task neither enters  *)
(* submit_command nor draws a CmdSN.                                       *)
LEMMA TaskMoves ==
    ASSUME Windowing, TypeOK', NEW c \in Cmd, NEW here, NEW there,
           Go(c, here, there),
           UNCHANGED <<cmdSN, maxCmdSN, sn, seen, toInitiator, tgtExp, tgtMax>>,
           there # "window",
           here \in DrawnPlaces <=> there \in DrawnPlaces,
           there \in SubmittingPlaces => here \in SubmittingPlaces,
           there \in ClearedPlaces =>
              here \in ClearedPlaces \/ (here = "window" /\ seen[c] <= maxCmdSN)
    PROVE  Windowing'
<1>1. /\ pc[c] = here /\ pc \in [Cmd -> PcValues] /\ pc' = [pc EXCEPT ![c] = there]
      /\ UNCHANGED logouts /\ pc' \in [Cmd -> PcValues]
      /\ maxCmdSN \in Nat /\ seen \in [Cmd -> Nat]
    BY DEF Go, Windowing, TypeOK, boundVars
<1>2. Stamped' = Stamped
    BY <1>1 DEF Stamped, DrawnPlaces
<1>3. Cardinality(Submitting)' <= Submitters
    <2>1. Submitting' \in SUBSET Submitting
        BY <1>1 DEF Submitting, SubmittingPlaces, ClearedPlaces
    <2>2. /\ IsFiniteSet(Submitting) /\ Cardinality(Submitting) \in Nat
          /\ Cardinality(Submitting) <= Submitters
        BY TasksAreFinite DEF Windowing
    <2>3. /\ Cardinality(Submitting') <= Cardinality(Submitting)
          /\ Cardinality(Submitting') \in Nat
        BY <2>1, <2>2, FS_Subset, FS_CardinalityType
    <2> QED BY <2>2, <2>3
<1>4. \A m \in Nat : maxCmdSN' <= m => Cleared(m)' \subseteq Cleared(m)
    <2> SUFFICES ASSUME NEW m \in Nat, maxCmdSN <= m, NEW d \in Cmd,
                        d \in Cleared(m)'
                 PROVE  d \in Cleared(m)
        BY DEF Cleared
    <2>1. CASE d = c
        BY <1>1, <2>1 DEF Cleared, ClearedPlaces
    <2>2. CASE d # c
        BY <1>1, <2>2 DEF Cleared
    <2> QED BY <2>1, <2>2
<1>5. SeenBehind'
    BY <1>1 DEF Windowing, SeenBehind
<1>6. WindowGrows'
    BY DEF Windowing, WindowGrows
<1> QED BY <1>1, <1>2, <1>3, <1>4, <1>5, <1>6, NothingDrawn

(* Steps of the submitting tasks. *)
LEMMA WindowingTasks ==
    ASSUME Windowing, TypeOK', NEW c \in Cmd, Start(c) \/ Submit(c) \/ Await(c)
    PROVE  Windowing'
<1>0. /\ pc \in [Cmd -> PcValues] /\ seen \in [Cmd -> Nat] /\ sn \in [Cmd -> Nat]
      /\ cmdSN \in Nat /\ maxCmdSN \in Nat /\ logouts \in Nat
    <2>1. TypeOK
        BY DEF Windowing
    <2>2. /\ pc \in [Cmd -> PcValues] /\ seen \in [Cmd -> Nat] /\ sn \in [Cmd -> Nat]
          /\ cmdSN \in Nat /\ maxCmdSN \in Nat /\ logouts \in 0 .. MaxLogouts
        BY <2>1 DEF TypeOK
    <2>3. MaxLogouts \in Nat
        OBVIOUS
    <2> QED BY <2>2, <2>3
<1>1. CASE Start(c)
    <2>1. /\ pc[c] = "idle" /\ pc' = [pc EXCEPT ![c] = "loadCmdSN"]
          /\ UNCHANGED <<cmdSN, maxCmdSN, sn, seen, logouts, toInitiator, tgtExp, tgtMax>>
        BY <1>1 DEF Start, Go, stateVars, targetVars, boundVars
    <2>2. Stamped' = Stamped
        BY <1>0, <2>1 DEF Stamped, Terminal
    <2>3. Cardinality(Submitting)' <= Submitters
        <3>1. Submitting' = Submitting \cup {c}
            BY <1>0, <2>1 DEF Submitting
        <3>2. IsFiniteSet(Submitting) /\ Cardinality(Submitting) \in Nat
            BY TasksAreFinite
        <3>3. /\ IsFiniteSet(Submitting \cup {c})
              /\ Cardinality(Submitting \cup {c}) \in
                    {Cardinality(Submitting), Cardinality(Submitting) + 1}
            BY <3>2, FS_AddElement
        <3>4. Cardinality(Submitting)' \in
                    {Cardinality(Submitting), Cardinality(Submitting) + 1}
            BY <3>1, <3>3
        <3>5. Cardinality(Submitting) < Submitters
            BY <1>1 DEF Start
        <3> QED BY <3>2, <3>4, <3>5
    <2>4. \A m \in Nat : Cleared(m)' \subseteq Cleared(m)
        BY <1>0, <2>1 DEF Cleared
    <2>5. SeenBehind' /\ WindowGrows'
        BY <1>0, <2>1 DEF Windowing, SeenBehind, WindowGrows
    <2> QED BY <1>0, <2>1, <2>2, <2>3, <2>4, <2>5, NothingDrawn
<1>2. CASE LoadCmdSN(c)
    <2>1. /\ pc[c] = "loadCmdSN" /\ pc' = [pc EXCEPT ![c] = "window"]
          /\ seen' = [seen EXCEPT ![c] = cmdSN]
          /\ UNCHANGED <<cmdSN, maxCmdSN, sn, logouts, toInitiator, tgtExp, tgtMax>>
        BY <1>2 DEF LoadCmdSN, Go, stateVars, targetVars, boundVars
    <2>2. Stamped' = Stamped /\ Submitting' = Submitting
        <3>1. Stamped' = Stamped
            BY <1>0, <2>1 DEF Stamped, Terminal
        <3>2. Submitting' = Submitting
            BY <1>0, <2>1 DEF Submitting
        <3> QED BY <3>1, <3>2
    <2>3. CmdSNAccounted' /\ WindowGrows' /\ SeenBehind'
        <3>1. CmdSNAccounted'
            BY <2>1, <2>2 DEF Windowing, CmdSNAccounted
        <3>2. WindowGrows'
            BY <2>1 DEF Windowing, WindowGrows
        <3>3. SeenBehind'
            BY <1>0, <2>1 DEF Windowing, SeenBehind
        <3> QED BY <3>1, <3>2, <3>3
    <2>4. Cardinality(Submitting)' <= Submitters
        BY <2>2 DEF Windowing
    <2>5. Overrun'
        <3> SUFFICES ASSUME NEW m \in Nat, maxCmdSN <= m
                     PROVE  cmdSN + Cardinality(Cleared(m)') <= m + Submitters + logouts
            BY <2>1 DEF Overrun
        <3>1. CASE cmdSN <= m
            <4>1. Cleared(m)' \in SUBSET Submitting
                BY <2>2 DEF Cleared, Submitting
            <4>2. /\ IsFiniteSet(Submitting) /\ Cardinality(Submitting) \in Nat
                  /\ Cardinality(Submitting) <= Submitters
                BY TasksAreFinite DEF Windowing
            <4>3. /\ Cardinality(Cleared(m)') <= Cardinality(Submitting)
                  /\ Cardinality(Cleared(m)') \in Nat
                BY <4>1, <4>2, FS_Subset, FS_CardinalityType
            <4> QED BY <1>0, <3>1, <4>2, <4>3
        <3>2. CASE ~(cmdSN <= m)
            <4>1. Cleared(m)' = Cleared(m)
                BY <1>0, <2>1, <3>2 DEF Cleared
            <4> QED BY <4>1 DEF Windowing, Overrun
        <3> QED BY <3>1, <3>2
    <2> QED BY <2>3, <2>4, <2>5 DEF Windowing
<1>3. CASE Stamp(c)
    <2>1. /\ pc[c] = "stamp" /\ pc' = [pc EXCEPT ![c] = "send"]
          /\ sn' = [sn EXCEPT ![c] = cmdSN] /\ cmdSN' = cmdSN + 1
          /\ UNCHANGED <<maxCmdSN, seen, logouts, toInitiator, tgtExp, tgtMax>>
        BY <1>3 DEF Stamp, Go, targetVars, boundVars
    <2>2. Stamped' = Stamped \cup {c} /\ c \notin Stamped
        BY <1>0, <2>1 DEF Stamped, Terminal
    <2>3. Submitting' \in SUBSET Submitting
        BY <1>0, <2>1 DEF Submitting
    <2>4. CmdSNAccounted'
        <3>1. /\ IsFiniteSet(Stamped) /\ Cardinality(Stamped) \in Nat
            BY TasksAreFinite
        <3>2. Cardinality(Stamped') = Cardinality(Stamped) + 1
            BY <2>2, <3>1, FS_AddElement
        <3>3. /\ \A d \in Stamped : sn[d] \in InitialCmdSN .. cmdSN - 1
              /\ \A d, e \in Stamped : sn[d] = sn[e] => d = e
              /\ cmdSN = InitialCmdSN + Cardinality(Stamped) + logouts
            BY DEF Windowing, CmdSNAccounted
        <3>4. \A d \in Stamped : d \in Cmd /\ d # c /\ sn'[d] = sn[d]
            BY <1>0, <2>1, <2>2 DEF Stamped
        <3>5. sn'[c] = cmdSN /\ InitialCmdSN <= cmdSN
            BY <1>0, <2>1, <3>1, <3>3
        <3>6. \A d \in Stamped' : sn'[d] \in InitialCmdSN .. cmdSN' - 1
            BY <1>0, <2>1, <2>2, <3>3, <3>4, <3>5
        <3>7. \A d \in Stamped : sn[d] # cmdSN
            BY <1>0, <3>3
        <3>8. \A d, e \in Stamped' : sn'[d] = sn'[e] => d = e
            BY <2>2, <3>3, <3>4, <3>5, <3>7
        <3>9. cmdSN' = InitialCmdSN + Cardinality(Stamped') + logouts'
            BY <1>0, <2>1, <3>1, <3>2, <3>3
        <3> QED BY <3>6, <3>8, <3>9 DEF CmdSNAccounted
    <2>5. WindowGrows' /\ SeenBehind'
        BY <1>0, <2>1 DEF Windowing, WindowGrows, SeenBehind
    <2>6. Cardinality(Submitting)' <= Submitters
        <3>1. /\ IsFiniteSet(Submitting) /\ Cardinality(Submitting) \in Nat
              /\ Cardinality(Submitting) <= Submitters
            BY TasksAreFinite DEF Windowing
        <3>2. /\ Cardinality(Submitting') <= Cardinality(Submitting)
              /\ Cardinality(Submitting') \in Nat
            BY <2>3, <3>1, FS_Subset, FS_CardinalityType
        <3> QED BY <3>1, <3>2
    <2>7. Overrun'
        <3> SUFFICES ASSUME NEW m \in Nat, maxCmdSN <= m
                     PROVE  cmdSN + 1 + Cardinality(Cleared(m)') <= m + Submitters + logouts
            BY <2>1 DEF Overrun
        <3>1. Cleared(m)' = Cleared(m) \ {c} /\ c \in Cleared(m)
            BY <1>0, <2>1 DEF Cleared
        <3>2. IsFiniteSet(Cleared(m)) /\ Cardinality(Cleared(m)) \in Nat
            BY ClearedIsFinite
        <3> DEFINE before == Cleared(m)
        <3> HIDE DEF before
        <3>3. IsFiniteSet(before) /\ c \in before
            BY <3>1, <3>2 DEF before
        <3>4. Cardinality(before \ {c}) = Cardinality(before) - 1
            BY <3>3, FS_RemoveElement
        <3>5. Cardinality(Cleared(m)') = Cardinality(Cleared(m)) - 1
            BY <3>1, <3>4 DEF before
        <3>6. cmdSN + Cardinality(Cleared(m)) <= m + Submitters + logouts
            BY DEF Windowing, Overrun
        <3> QED BY <1>0, <3>2, <3>5, <3>6
    <2> QED BY <2>4, <2>5, <2>6, <2>7 DEF Windowing
<1>4. CASE WindowOpen(c)
    <2>1. seen[c] <= maxCmdSN
        BY <1>4, OpenMeansCovered
    <2> QED BY <1>4, <2>1, TaskMoves DEF WindowOpen, OnlyGo, stateVars,
               localVars, targetVars, DrawnPlaces, SubmittingPlaces,
               ClearedPlaces, Terminal
<1>5. CASE WindowClosed(c)
    BY <1>5, TaskMoves DEF WindowClosed, OnlyGo, stateVars, localVars,
       targetVars, DrawnPlaces, SubmittingPlaces, ClearedPlaces, Terminal
<1>6. ASSUME NEW here \in ClearedPlaces, NEW there \in ClearedPlaces,
             Go(c, here, there),
             UNCHANGED <<cmdSN, maxCmdSN, sn, seen, toInitiator, tgtExp, tgtMax>>
      PROVE  Windowing'
    <2>1. /\ here \notin DrawnPlaces /\ there \notin DrawnPlaces
          /\ here \in SubmittingPlaces /\ there # "window"
        BY DEF ClearedPlaces, DrawnPlaces, SubmittingPlaces, Terminal
    <2> QED BY <1>6, <2>1, TaskMoves
<1>7. CASE AllocLo(c) \/ AllocHi(c) \/ LoFull(c) \/ HiFull(c) \/ StoreSender(c)
    <2>1. /\ \E here \in ClearedPlaces, there \in ClearedPlaces : Go(c, here, there)
          /\ UNCHANGED <<cmdSN, maxCmdSN, sn, seen, toInitiator, tgtExp, tgtMax>>
        <3>1. CASE AllocLo(c) \/ AllocHi(c)
            BY <3>1 DEF AllocLo, AllocHi, Alloc, ClearedPlaces, stateVars, targetVars
        <3>2. CASE LoFull(c) \/ HiFull(c)
            BY <3>2 DEF LoFull, HiFull, OnlyGo, ClearedPlaces, stateVars,
                        localVars, targetVars
        <3>3. CASE StoreSender(c)
            BY <3>3 DEF StoreSender, ClearedPlaces, stateVars, targetVars
        <3> QED BY <1>7, <3>1, <3>2, <3>3
    <2> QED BY <1>6, <2>1
<1>8. CASE Send(c)
    BY <1>8, TaskMoves DEF Send, stateVars, DrawnPlaces, SubmittingPlaces,
       ClearedPlaces, Terminal
<1>9. CASE SendFails(c) \/ TakeResponse(c) \/ TimeOut(c)
    BY <1>9, TaskMoves DEF SendFails, TakeResponse, TimeOut, OnlyGo, stateVars,
       localVars, targetVars, DrawnPlaces, SubmittingPlaces,
               ClearedPlaces, Terminal
<1>10. CASE RegisterWriteData(c)
    BY <1>10, TaskMoves DEF RegisterWriteData, stateVars, targetVars, DrawnPlaces,
       SubmittingPlaces, ClearedPlaces, Terminal
<1> QED
    BY <1>1, <1>2, <1>3, <1>4, <1>5, <1>7, <1>8, <1>9, <1>10
       DEF Submit, Await

(* A step of nobody's counters. *)
LEMMA CountersRest ==
    ASSUME Windowing, TypeOK', WindowGrows', maxCmdSN <= maxCmdSN',
           UNCHANGED <<cmdSN, pc, seen, sn, logouts>>
    PROVE  Windowing'
<1>1. /\ Stamped' = Stamped /\ Submitting' = Submitting
      /\ \A m \in Nat : Cleared(m)' = Cleared(m)
    BY DEF Stamped, Submitting, Cleared
<1>2. SeenBehind'
    BY DEF Windowing, SeenBehind
<1>3. Cardinality(Submitting)' <= Submitters
    BY <1>1 DEF Windowing
<1> QED BY <1>1, <1>2, <1>3, NothingDrawn

(* Only Receive, of the receiver's steps, touches the window. *)
LEMMA WindowingReceiver ==
    ASSUME Windowing, TypeOK', Receiver
    PROVE  Windowing'
<1>0. TypeOK /\ WindowGrows /\ maxCmdSN \in Nat
    BY DEF Windowing, TypeOK
<1>1. CASE Receive
    <2>1. /\ UNCHANGED <<cmdSN, pc, seen, sn, tgtExp, tgtMax, logouts>>
          /\ maxCmdSN' = Head(toInitiator).max
        BY <1>1 DEF Receive, Move, boundVars
    <2>2. /\ Head(toInitiator) = toInitiator[1]
          /\ Len(toInitiator) \in Nat \ {0} /\ Len(toInitiator') = Len(toInitiator) - 1
          /\ \A k \in 1 .. Len(toInitiator') : toInitiator'[k] = toInitiator[k + 1]
        BY <1>0, <1>1, ReceiveProperties DEF Receive
    <2>3. 1 \in 1 .. Len(toInitiator)
        BY <2>2
    <2>4. maxCmdSN <= maxCmdSN' /\ maxCmdSN' <= tgtMax
        BY <1>0, <2>1, <2>2, <2>3 DEF WindowGrows
    <2>5. WindowGrows'
        <3>1. \A k \in 1 .. Len(toInitiator') :
                 /\ k + 1 \in 1 .. Len(toInitiator)
                 /\ toInitiator'[k] = toInitiator[k + 1]
            BY <2>2
        <3>2. \A k \in 1 .. Len(toInitiator') :
                 maxCmdSN' <= toInitiator'[k].max /\ toInitiator'[k].max <= tgtMax'
            <4> SUFFICES ASSUME NEW k \in 1 .. Len(toInitiator')
                         PROVE  /\ maxCmdSN' <= toInitiator'[k].max
                                /\ toInitiator'[k].max <= tgtMax'
                OBVIOUS
            <4>1. k + 1 \in 1 .. Len(toInitiator) /\ 1 <= k + 1
                BY <3>1
            <4>2. toInitiator[1].max <= toInitiator[k + 1].max
                BY <1>0, <2>3, <4>1 DEF WindowGrows
            <4>3. toInitiator[k + 1].max <= tgtMax
                BY <1>0, <4>1 DEF WindowGrows
            <4> QED BY <2>1, <2>2, <3>1, <4>2, <4>3
        <3>3. \A k, l \in 1 .. Len(toInitiator') :
                 k <= l => toInitiator'[k].max <= toInitiator'[l].max
            <4> SUFFICES ASSUME NEW k \in 1 .. Len(toInitiator'),
                                NEW l \in 1 .. Len(toInitiator'), k <= l
                         PROVE  toInitiator'[k].max <= toInitiator'[l].max
                OBVIOUS
            <4>1. k + 1 <= l + 1
                OBVIOUS
            <4> QED BY <1>0, <3>1, <4>1 DEF WindowGrows
        <3>4. /\ InitialCmdSN <= maxCmdSN' /\ maxCmdSN' <= tgtMax'
              /\ tgtMax' <= tgtExp' + Depth - 1
            <4>1. InitialCmdSN <= maxCmdSN /\ tgtMax <= tgtExp + Depth - 1
                BY <1>0 DEF WindowGrows
            <4>2. maxCmdSN' \in Nat /\ InitialCmdSN \in Nat
                BY DEF TypeOK
            <4> QED BY <1>0, <2>1, <2>4, <4>1, <4>2
        <3> QED BY <3>2, <3>3, <3>4 DEF WindowGrows
    <2> QED BY <2>1, <2>4, <2>5, CountersRest
<1>2. ASSUME NEW here, NEW there, Move(here, there), UNCHANGED windowVars
      PROVE  Windowing'
    <2>1. UNCHANGED <<cmdSN, maxCmdSN, pc, seen, sn, toInitiator, tgtExp, tgtMax, logouts>>
        BY <1>2 DEF Move, windowVars, boundVars
    <2>2. WindowGrows' /\ maxCmdSN <= maxCmdSN'
        BY <1>0, <2>1 DEF WindowGrows
    <2> QED BY <2>1, <2>2, CountersRest
<1>3. ASSUME NEW here, NEW data, Complete(here, data) PROVE Windowing'
    BY <1>2, <1>3 DEF Complete
<1>4. CASE HandleScsiResponse \/ HandleDataInStatus
    BY <1>3, <1>4 DEF HandleScsiResponse, HandleDataInStatus
<1>5. CASE ReceiverDies \/ HandleDataIn \/ FreeItt \/ RemoveWriteData
    BY <1>2, <1>5 DEF ReceiverDies, HandleDataIn, FreeItt, RemoveWriteData
<1>6. CASE SendDataOut \/ DataOutFails \/ R2tPoll \/ R2tGiveUp \/ HandleNopIn
    BY <1>2, <1>6 DEF SendDataOut, DataOutFails, R2tPoll, R2tGiveUp, HandleNopIn
<1> QED BY <1>1, <1>4, <1>5, <1>6 DEF Receiver

(* Each PDU carries a window that is no smaller than the last one's. *)
LEMMA SendsWindow ==
    ASSUME TypeOK, WindowGrows, UNCHANGED maxCmdSN,
           NEW op, NEW c, NEW seg, NEW status, TargetSends(op, c, seg, status)
    PROVE  WindowGrows'
<1> DEFINE p == [op |-> op, cmd |-> c, seg |-> seg, status |-> status,
                 itt |-> IF c = None THEN 0 ELSE itt[c], max |-> tgtMax']
           n == Len(toInitiator)
<1>1. /\ toInitiator \in Seq(Pdu) /\ toInitiator' = Append(toInitiator, p)
      /\ tgtMax' \in {tgtMax, tgtExp + Depth - 1} /\ UNCHANGED tgtExp
      /\ p.max = tgtMax'
    BY DEF TypeOK, TargetSends
<1>2. n \in Nat /\ tgtMax \in Nat /\ tgtExp \in Nat /\ maxCmdSN \in Nat
    BY <1>1, LenProperties DEF TypeOK
<1>3. /\ InitialCmdSN <= maxCmdSN /\ maxCmdSN <= tgtMax
      /\ tgtMax <= tgtExp + Depth - 1
    BY DEF WindowGrows
<1>4. /\ tgtMax <= tgtMax' /\ tgtMax' <= tgtExp' + Depth - 1 /\ maxCmdSN' <= tgtMax'
      /\ tgtMax' \in Int /\ InitialCmdSN <= maxCmdSN'
    BY <1>1, <1>2, <1>3
<1> HIDE DEF p
<1>5. /\ Len(toInitiator') = n + 1
      /\ \A k \in 1 .. n : toInitiator'[k] = toInitiator[k]
      /\ toInitiator'[n + 1] = p
    <2>1. toInitiator \in Seq(Pdu \cup {p}) /\ p \in Pdu \cup {p}
        BY <1>1, SeqDef
    <2> QED BY <1>1, <2>1, AppendProperties
<1>6. \A k \in 1 .. n : toInitiator[k].max \in Nat
    <2>1. \A k \in 1 .. n : toInitiator[k] \in Pdu
        BY <1>1, ElementOfSeq
    <2> QED BY <2>1 DEF Pdu
<1>7. \A k \in 1 .. n + 1 :
         /\ maxCmdSN' <= toInitiator'[k].max /\ toInitiator'[k].max <= tgtMax'
    <2> SUFFICES ASSUME NEW k \in 1 .. n + 1
                 PROVE  /\ maxCmdSN' <= toInitiator'[k].max
                        /\ toInitiator'[k].max <= tgtMax'
        OBVIOUS
    <2>1. CASE k \in 1 .. n
        <3>1. maxCmdSN <= toInitiator[k].max /\ toInitiator[k].max <= tgtMax
            BY <2>1 DEF WindowGrows
        <3> QED BY <1>2, <1>4, <1>5, <1>6, <2>1, <3>1
    <2>2. CASE k = n + 1
        BY <1>1, <1>4, <1>5, <2>2
    <2> QED BY <1>2, <2>1, <2>2
<1>8. \A k, l \in 1 .. n + 1 : k <= l => toInitiator'[k].max <= toInitiator'[l].max
    <2> SUFFICES ASSUME NEW k \in 1 .. n + 1, NEW l \in 1 .. n + 1, k <= l
                 PROVE  toInitiator'[k].max <= toInitiator'[l].max
        OBVIOUS
    <2>1. CASE l \in 1 .. n
        <3>1. k \in 1 .. n
            BY <1>2, <2>1
        <3> QED BY <1>5, <2>1, <3>1 DEF WindowGrows
    <2>2. CASE l = n + 1
        BY <1>1, <1>5, <1>7, <2>2
    <2> QED BY <1>2, <2>1, <2>2
<1> QED BY <1>1, <1>4, <1>5, <1>7, <1>8 DEF WindowGrows

(* Steps of the target, the connection and send_logout. *)
LEMMA WindowingTarget ==
    ASSUME Windowing, TypeOK',
           SendLogout \/ TargetPings \/ ConnLost \/ \E c \in Cmd : TargetAnswers(c)
    PROVE  Windowing'
<1>0. /\ TypeOK /\ WindowGrows /\ CmdSNAccounted /\ SeenBehind
      /\ maxCmdSN \in Nat /\ cmdSN \in Nat /\ logouts \in Int
    <2>1. TypeOK /\ WindowGrows /\ CmdSNAccounted /\ SeenBehind
        BY DEF Windowing
    <2>2. maxCmdSN \in Nat /\ cmdSN \in Nat /\ logouts \in 0 .. MaxLogouts
        BY <2>1 DEF TypeOK
    <2> QED BY <2>1, <2>2
<1>1. CASE SendLogout
    <2>1. /\ UNCHANGED <<maxCmdSN, pc, seen, sn, toInitiator, tgtExp, tgtMax>>
          /\ cmdSN' = cmdSN + 1 /\ logouts' = logouts + 1
        BY <1>1 DEF SendLogout, taskVars, targetVars
    <2>2. /\ Stamped' = Stamped /\ Submitting' = Submitting
          /\ \A m \in Nat : Cleared(m)' = Cleared(m)
        BY <2>1 DEF Stamped, Submitting, Cleared
    <2>3. CmdSNAccounted'
        <3>1. cmdSN' = InitialCmdSN + Cardinality(Stamped') + logouts'
            BY <1>0, <2>1, <2>2, TasksAreFinite DEF CmdSNAccounted
        <3>2. \A c \in Stamped' : sn'[c] \in InitialCmdSN .. cmdSN' - 1
            BY <1>0, <2>1, <2>2 DEF CmdSNAccounted
        <3>3. \A c, d \in Stamped' : sn'[c] = sn'[d] => c = d
            BY <1>0, <2>1, <2>2 DEF CmdSNAccounted
        <3> QED BY <3>1, <3>2, <3>3 DEF CmdSNAccounted
    <2>4. WindowGrows'
        BY <1>0, <2>1 DEF WindowGrows
    <2>5. SeenBehind'
        <3>1. \A c \in Cmd : seen[c] \in Nat
            BY <1>0 DEF TypeOK
        <3> QED BY <1>0, <2>1, <3>1 DEF SeenBehind
    <2>6. Overrun'
        <3> SUFFICES ASSUME NEW m \in Nat, maxCmdSN <= m
                     PROVE  cmdSN + 1 + Cardinality(Cleared(m))
                              <= m + Submitters + (logouts + 1)
            BY <2>1, <2>2 DEF Overrun
        <3>1. cmdSN + Cardinality(Cleared(m)) <= m + Submitters + logouts
            BY DEF Windowing, Overrun
        <3> QED BY <1>0, <3>1, ClearedIsFinite
    <2>7. Cardinality(Submitting)' <= Submitters
        BY <2>2 DEF Windowing
    <2> QED BY <2>3, <2>4, <2>5, <2>6, <2>7 DEF Windowing
<1>2. ASSUME UNCHANGED <<cmdSN, maxCmdSN, pc, seen, sn, logouts>>, WindowGrows'
      PROVE  Windowing'
    BY <1>0, <1>2, CountersRest
<1>3. CASE TargetPings
    <2>1. WindowGrows'
        BY <1>0, <1>3, SendsWindow DEF TargetPings, stateVars
    <2> QED BY <1>2, <1>3, <2>1 DEF TargetPings, stateVars, taskVars
<1>4. CASE ConnLost
    <2>1. UNCHANGED <<stateVars, taskVars, targetVars, boundVars>>
        BY <1>4 DEF ConnLost
    <2>2. WindowGrows'
        BY <1>0, <2>1 DEF WindowGrows, stateVars, targetVars
    <2> QED BY <1>2, <2>1, <2>2 DEF stateVars, taskVars, boundVars
<1>5. ASSUME NEW c \in Cmd, TargetAnswers(c) PROVE Windowing'
    <2>1. UNCHANGED <<stateVars, taskVars, boundVars>>
        BY <1>5 DEF TargetAnswers, TargetAccepts, TargetIgnores,
           TargetSendsDataIn, TargetSendsDataInStatus, TargetSendsR2t,
           TargetResponds, TargetRejects, Advance
    <2>2. CASE TargetAccepts(c)
        <3>1. /\ tgtExp' = tgtExp + 1 /\ UNCHANGED <<toInitiator, tgtMax, maxCmdSN>>
            BY <2>1, <2>2 DEF TargetAccepts, stateVars
        <3>2. tgtExp \in Nat /\ tgtMax \in Nat
            BY <1>0 DEF TypeOK
        <3>3. tgtMax' <= tgtExp' + Depth - 1
            BY <1>0, <3>1, <3>2 DEF WindowGrows
        <3>4. WindowGrows'
            BY <1>0, <3>1, <3>3 DEF WindowGrows
        <3> QED BY <1>2, <2>1, <3>4 DEF stateVars, taskVars, boundVars
    <2>3. CASE TargetIgnores(c)
        <3>1. UNCHANGED <<toInitiator, tgtExp, tgtMax, maxCmdSN>>
            BY <2>1, <2>3 DEF TargetIgnores, stateVars
        <3>2. WindowGrows'
            BY <1>0, <3>1 DEF WindowGrows
        <3> QED BY <1>2, <2>1, <3>2 DEF stateVars, taskVars, boundVars
    <2>4. CASE \/ TargetSendsDataIn(c) \/ TargetSendsDataInStatus(c)
               \/ TargetSendsR2t(c) \/ TargetResponds(c) \/ TargetRejects(c)
        <3>1. \E op, seg, status : TargetSends(op, c, seg, status)
            BY <2>4 DEF TargetSendsDataIn, TargetSendsDataInStatus,
               TargetSendsR2t, TargetResponds, TargetRejects
        <3>2. UNCHANGED maxCmdSN
            BY <2>1 DEF stateVars
        <3>3. WindowGrows'
            BY <1>0, <3>1, <3>2, SendsWindow
        <3> QED BY <1>2, <2>1, <3>3 DEF stateVars, taskVars, boundVars
    <2> QED BY <1>5, <2>2, <2>3, <2>4 DEF TargetAnswers
<1> QED BY <1>1, <1>3, <1>4, <1>5

LEMMA WindowingInit == Init => Windowing
<1> SUFFICES ASSUME Init PROVE Windowing
    OBVIOUS
<1>1. TypeOK
    BY TypeInit
<1>2. /\ pc = [c \in Cmd |-> "idle"] /\ cmdSN = InitialCmdSN
      /\ maxCmdSN = InitialCmdSN /\ logouts = 0 /\ toInitiator = <<>>
      /\ tgtExp = InitialCmdSN /\ tgtMax = InitialCmdSN + Depth - 1
    BY DEF Init
<1>3. Stamped = {} /\ Submitting = {} /\ \A m \in Nat : Cleared(m) = {}
    BY <1>2 DEF Stamped, Submitting, Cleared, Terminal
<1>4. Cardinality({}) = 0
    BY FS_EmptySet
<1>5. CmdSNAccounted
    BY <1>2, <1>3, <1>4 DEF CmdSNAccounted
<1>6. WindowGrows
    <2>1. Len(toInitiator) = 0
        BY <1>2
    <2> QED BY <1>2, <2>1 DEF WindowGrows
<1>7. SeenBehind
    BY <1>2 DEF SeenBehind
<1>8. Overrun
    <2> SUFFICES ASSUME NEW m \in Nat, InitialCmdSN <= m
                 PROVE  InitialCmdSN + Cardinality(Cleared(m)) <= m + Submitters + 0
        BY <1>2 DEF Overrun
    <2>1. Cardinality(Cleared(m)) = 0
        BY <1>3, <1>4
    <2> QED BY <2>1
<1> QED BY <1>1, <1>3, <1>4, <1>5, <1>6, <1>7, <1>8 DEF Windowing

LEMMA WindowingStep ==
    Ownership /\ Ownership' /\ Windowing /\ [Next]_vars => Windowing'
<1> SUFFICES ASSUME Ownership', Windowing, [Next]_vars PROVE Windowing'
    OBVIOUS
<1>1. TypeOK'
    BY DEF Ownership
<1>2. ASSUME NEW c \in Cmd, Start(c) \/ Submit(c) \/ Await(c) PROVE Windowing'
    BY <1>1, <1>2, WindowingTasks
<1>3. CASE Receiver
    BY <1>1, <1>3, WindowingReceiver
<1>4. CASE SendLogout \/ TargetPings \/ ConnLost \/ \E c \in Cmd : TargetAnswers(c)
    BY <1>1, <1>4, WindowingTarget
<1>5. CASE UNCHANGED vars
    <2>1. UNCHANGED <<stateVars, taskVars, targetVars, boundVars>>
        BY <1>5 DEF vars
    <2>2. WindowGrows' /\ maxCmdSN <= maxCmdSN'
        <3>1. maxCmdSN \in Nat /\ WindowGrows
            BY DEF Windowing, TypeOK
        <3> QED BY <2>1, <3>1 DEF WindowGrows, stateVars, targetVars
    <2> QED BY <1>1, <2>1, <2>2, CountersRest DEF stateVars, taskVars, boundVars
<1> QED BY <1>2, <1>3, <1>4, <1>5 DEF Next

(* Windowing holds of every behaviour of the session.                      *)
THEOREM WindowingInvariant == Spec => []Windowing
<1>1. Init => Windowing
    BY WindowingInit
<1>2. Ownership /\ Ownership' /\ Windowing /\ [Next]_vars => Windowing'
    BY WindowingStep
<1> QED BY <1>1, <1>2, OwnershipInvariant, PTL DEF Spec

(* Every CmdSN drawn is carried by exactly one command or Logout.          *)
THEOREM CmdSNsAccountedFor == Spec => []CmdSNAccounted
<1>1. Windowing => CmdSNAccounted
    BY DEF Windowing
<1> QED BY <1>1, WindowingInvariant, PTL

(* However many tasks pass the test of the window on one value of cmd_sn,  *)
(* they take it beyond MaxCmdSN by no more than their number.              *)
THEOREM OverrunIsBounded == Spec => []WindowOverrunBounded
<1>1. Windowing => WindowOverrunBounded
    <2> SUFFICES ASSUME Windowing PROVE WindowOverrunBounded
        OBVIOUS
    <2>1. maxCmdSN \in Nat /\ cmdSN \in Nat /\ logouts \in Int
        BY DEF Windowing, TypeOK
    <2>2. cmdSN + Cardinality(Cleared(maxCmdSN)) <= maxCmdSN + Submitters + logouts
        BY <2>1 DEF Windowing, Overrun
    <2> QED BY <2>1, <2>2, ClearedIsFinite DEF WindowOverrunBounded
<1> QED BY <1>1, WindowingInvariant, PTL
=============================================================================
