--------------------------- MODULE PipelineProofs ---------------------------
(***************************************************************************)
(* The pipeline for every device, burst length and number of calls: how a  *)
(* range is cut, what read_capacity returns, that a UNIT ATTENTION is      *)
(* hidden from the caller of a read, and that calls of the pipeline read   *)
(* and write blocks as module Blocks promises.                             *)
(***************************************************************************)
EXTENDS Pipeline, SequenceTheorems, TLAPS

USE PipelineAssumption DEF PipelineAssumption

----------------------------------------------------------------------------
(* Chunks *)

LEMMA Quotient ==
    ASSUME NEW n \in Nat \ {0}, NEW m \in Nat \ {0}
    PROVE  LET q == (n + m - 1) \div m
           IN  q \in Nat \ {0} /\ (q - 1) * m < n /\ n <= q * m
<1> DEFINE q == (n + m - 1) \div m
           r == (n + m - 1) % m
<1>1. q \in Int /\ r \in 0 .. m - 1 /\ n + m - 1 = q * m + r
    BY SMT
<1>2. q > 0
    <2>1. q * m >= n
        BY <1>1
    <2>2. q <= 0 => q * m <= 0
        BY <1>1
    <2> QED
        BY <1>1, <2>1, <2>2
<1>3. (q - 1) * m = q * m - m
    BY <1>1
<1> QED
    BY <1>1, <1>2, <1>3

LEMMA Monotone ==
    ASSUME NEW m \in Nat, NEW i \in Int, NEW j \in Int, i <= j
    PROVE  i * m <= j * m
BY SMT

LEMMA MaxBlocksNat == MaxBlocks \in Nat
BY DEF MaxBlocks

(***************************************************************************)
(* The chunks of a range tile it: none is empty or larger than a burst,    *)
(* each begins where the one before ends, the first where the range begins *)
(* and the last ends where it ends.                                        *)
(***************************************************************************)
THEOREM ChunksTile ==
    ASSUME NEW r, r.lba \in Nat, r.count \in Nat \ {0}, Cuts(r)
    PROVE  LET n == Rounds(r.count)
               ch == Chunks(r)
           IN  /\ n \in Nat \ {0} /\ ch[1].lba = r.lba
               /\ \A k \in 1 .. n : ch[k].count \in 1 .. MaxBlocks
               /\ \A k \in 1 .. n - 1 : ch[k + 1].lba = ch[k].lba + ch[k].count
               /\ ch[n].lba + ch[n].count = r.lba + r.count
<1> DEFINE n == Rounds(r.count)
           c == r.count
           M == MaxBlocks
           ch == Chunks(r)
<1>1. M \in Nat \ {0}
    BY MaxBlocksNat DEF Cuts
<1>2. n \in Nat \ {0} /\ (n - 1) * M < c /\ c <= n * M
    BY <1>1, Quotient DEF Rounds
<1>3. \A k \in 1 .. n :
         ch[k].lba = r.lba + (k - 1) * M /\ ch[k].count = Lesser(c - (k - 1) * M, M)
    BY DEF Chunks
<1> HIDE DEF n, M, ch
<1>4. \A k \in 1 .. n - 1 : (k - 1) * M \in Nat /\ k * M = (k - 1) * M + M /\ k * M < c
    <2> TAKE k \in 1 .. n - 1
    <2>1. k \in Nat \ {0} /\ k <= n - 1 /\ n - 1 \in Nat
        BY <1>2
    <2>2. k * M \in Nat /\ (k - 1) * M \in Nat /\ (n - 1) * M \in Nat
        BY <1>1, <2>1
    <2>3. k * M <= (n - 1) * M
        BY <1>1, <2>1, Monotone
    <2>4. k * M = (k - 1) * M + M
        BY <1>1, <2>1
    <2> QED
        BY <1>2, <2>2, <2>3, <2>4
<1>5. \A k \in 1 .. n - 1 : ch[k].count = M
    <2> TAKE k \in 1 .. n - 1
    <2>1. ch[k].count = Lesser(c - (k - 1) * M, M)
        BY <1>2, <1>3
    <2>2. c - (k - 1) * M > M
        BY <1>1, <1>4
    <2> QED
        BY <1>1, <1>4, <2>1, <2>2 DEF Lesser
<1>6. (n - 1) * M \in Nat /\ n * M = (n - 1) * M + M
    BY <1>1, <1>2
<1>7. ch[n].lba = r.lba + (n - 1) * M /\ ch[n].count = c - (n - 1) * M
    <2>1. ch[n].lba = r.lba + (n - 1) * M /\ ch[n].count = Lesser(c - (n - 1) * M, M)
        BY <1>2, <1>3
    <2>2. c - (n - 1) * M <= M
        BY <1>1, <1>2, <1>6
    <2> QED
        BY <1>1, <1>6, <2>1, <2>2 DEF Lesser
<1>8. \A k \in 1 .. n : ch[k].count \in 1 .. M
    <2>1. ch[n].count \in 1 .. M
        BY <1>1, <1>2, <1>6, <1>7
    <2> QED
        BY <1>1, <1>2, <1>5, <2>1
<1>9. \A k \in 1 .. n - 1 : ch[k + 1].lba = ch[k].lba + ch[k].count
    <2> TAKE k \in 1 .. n - 1
    <2>1. k \in 1 .. n /\ k + 1 \in 1 .. n /\ (k + 1) - 1 = k
        BY <1>2
    <2>2. ch[k].lba = r.lba + (k - 1) * M /\ ch[k + 1].lba = r.lba + k * M
        BY <1>3, <2>1
    <2> QED
        BY <1>1, <1>4, <1>5, <2>2
<1>10. ch[1].lba = r.lba
    <2>1. 1 \in 1 .. n /\ (1 - 1) * M = 0
        BY <1>1, <1>2
    <2> QED
        BY <1>3, <2>1
<1>11. ch[n].lba + ch[n].count = r.lba + c
    BY <1>6, <1>7
<1> QED
    BY <1>2, <1>8, <1>9, <1>10, <1>11 DEF n, M, ch

----------------------------------------------------------------------------
(* read_capacity *)

TooLarge == DeviceBlocks - 1 >= Max32

\* READ CAPACITY(16) is sent only to a device too large for the short form.
CapacityInv ==
    /\ attempt \in {0, 1, 2}
    /\ overflow \in BOOLEAN
    /\ phase = "rc16" => TooLarge
    /\ overflow => TooLarge

CapacityStep ==
    /\ phase' = "ready" /\ phase # "ready" =>
         total' = DeviceBlocks \/ (total' = Max32 + 1 /\ total' < DeviceBlocks /\ attempt = 2)
    /\ phase' = "unusable" => attempt = 2

LEMMA CapacityOnly ==
    ASSUME Next
    PROVE  ReadCapacity10 \/ ReadCapacity16 \/ UNCHANGED capacityVars
<1>1. ASSUME NEW c \in Calls, Ask(c) \/ Join(c) \/ Return(c)
      PROVE  UNCHANGED capacityVars
    BY <1>1 DEF Ask, Join, Return
<1>2. ASSUME NEW c \in Calls, NEW k \in DOMAIN tasks[c], TaskStep(c, k) \/ Store(c, k)
      PROVE  UNCHANGED capacityVars
    BY <1>2, Zenon DEF TaskStep, Submit, SubmitFails, TimeOut, ReadGood, WriteGood,
        CheckCondition, OtherStatus, Store
<1> QED
    BY <1>1, <1>2 DEF Next

LEMMA CapacityNext ==
    ASSUME CapacityInv, [Next]_vars
    PROVE  CapacityInv' /\ (CapacityStep \/ UNCHANGED capacityVars)
<1>1. ASSUME AttemptFails
      PROVE  CapacityInv' /\ CapacityStep
    <2>1. CASE attempt < 2 /\ phase' = "rc10" /\ attempt' = attempt + 1
                  /\ UNCHANGED <<overflow, total>>
        <3>1. attempt' \in {0, 1, 2}
            BY <2>1, SMT DEF CapacityInv
        <3> QED
            BY <2>1, <3>1, Zenon DEF CapacityInv, CapacityStep
    <2>2. CASE attempt = 2 /\ overflow /\ Ready(Max32 + 1)
        <3>1. TooLarge
            BY <2>2, Zenon DEF CapacityInv
        <3>2. Max32 + 1 = DeviceBlocks \/ Max32 + 1 < DeviceBlocks
            BY <3>1, SMT DEF TooLarge
        <3> QED
            BY <2>2, <3>2, Zenon DEF CapacityInv, CapacityStep, Ready
    <2>3. CASE attempt = 2 /\ ~overflow /\ Unusable
        BY <2>3, Zenon DEF CapacityInv, CapacityStep, Unusable
    <2> QED
        BY <1>1, <2>1, <2>2, <2>3, Zenon DEF AttemptFails
<1>2. ASSUME Ready(DeviceBlocks)
      PROVE  CapacityInv' /\ CapacityStep
    BY <1>2, Zenon DEF CapacityInv, CapacityStep, Ready
<1>4. CASE ReadCapacity10
    <2>1. CASE DeviceBlocks - 1 >= Max32 /\ overflow' = TRUE /\ phase' = "rc16"
                  /\ UNCHANGED <<attempt, total>>
        BY <2>1, Zenon DEF CapacityInv, CapacityStep, TooLarge
    <2> QED
        BY <1>1, <1>2, <1>4, <2>1, Zenon DEF ReadCapacity10
<1>5. CASE ReadCapacity16
    BY <1>1, <1>2, <1>5, Zenon DEF ReadCapacity16
<1>3. CASE UNCHANGED capacityVars
    BY <1>3, Zenon DEF capacityVars, CapacityInv
<1>6. ReadCapacity10 \/ ReadCapacity16 \/ UNCHANGED capacityVars
    BY CapacityOnly, Zenon DEF vars
<1> QED
    BY <1>3, <1>4, <1>5, <1>6, Zenon

(***************************************************************************)
(* read_capacity never returns more blocks than the device has, and gives  *)
(* up on it only after three attempts.                                     *)
(***************************************************************************)
THEOREM CapacityHonest == Spec => CapacityNeverOverstated
<1>1. Init => CapacityInv
    BY Zenon DEF Init, Capacity, CapacityInv
<1>2. CapacityInv /\ [Next]_vars => CapacityInv'
    BY CapacityNext
<1>3. CapacityInv /\ [Next]_vars => [CapacityStep]_capacityVars
    BY CapacityNext
<1> QED
    BY <1>1, <1>2, <1>3, PTL DEF Spec, CapacityNeverOverstated, CapacityStep

----------------------------------------------------------------------------
(* UNIT ATTENTION *)

IsTask(t) == t = [at |-> t.at, cdb |-> t.cdb, data |-> t.data]

AreTasks(s) ==
    \E n \in Nat : s = [k \in 1 .. n |-> s[k]] /\ \A k \in 1 .. n : IsTask(s[k])

\* The target sends fixed format sense data, which is what is parsed.
FixedFormat == \A sense \in Sense : sense.long /\ sense.format = "fixed"

\* What calls and tasks are, and the calls of failed tasks are in trouble.
TroubleInv ==
    /\ tasks = [c \in Calls |-> tasks[c]]
    /\ \A c \in Calls : AreTasks(tasks[c])
    /\ reply = [c \in Calls |-> reply[c]]
    /\ joined = [c \in Calls |-> joined[c]]
    /\ \A c \in Calls : joined[c] \in Nat
    /\ \A c \in Calls : \A k \in DOMAIN tasks[c] :
          tasks[c][k].at = "failed" => c \in troubled
    /\ ReadSurvivesUnitAttention

LEMMA TaskChanged ==
    ASSUME TroubleInv, NEW c \in Calls, NEW k \in DOMAIN tasks[c],
           NEW t, IsTask(t),
           tasks' = [tasks EXCEPT ![c] = [tasks[c] EXCEPT ![k] = t]]
    PROVE  /\ tasks' = [d \in Calls |-> tasks'[d]]
           /\ \A d \in Calls : AreTasks(tasks'[d])
           /\ \A d \in Calls : /\ DOMAIN tasks'[d] = DOMAIN tasks[d]
                              /\ \A j \in DOMAIN tasks[d] :
                                    tasks'[d][j] = IF d = c /\ j = k THEN t ELSE tasks[d][j]
<1>1. tasks = [d \in Calls |-> tasks[d]] /\ \A d \in Calls : AreTasks(tasks[d])
    BY DEF TroubleInv
<1>2. tasks' = [d \in Calls |-> IF d = c THEN [tasks[c] EXCEPT ![k] = t] ELSE tasks[d]]
    BY <1>1
<1>3. \A d \in Calls \ {c} : tasks'[d] = tasks[d]
    BY <1>2
<1>4. tasks'[c] = [tasks[c] EXCEPT ![k] = t]
    BY <1>2
<1>5. PICK n \in Nat : /\ tasks[c] = [j \in 1 .. n |-> tasks[c][j]]
                       /\ \A j \in 1 .. n : IsTask(tasks[c][j])
    BY <1>1 DEF AreTasks
<1>6. DOMAIN tasks[c] = 1 .. n
    BY <1>5
<1>7. tasks'[c] = [j \in 1 .. n |-> IF j = k THEN t ELSE tasks[c][j]]
    BY <1>4, <1>5, <1>6
<1>8. \A j \in 1 .. n : tasks'[c][j] = IF j = k THEN t ELSE tasks[c][j]
    BY <1>7
<1>9. AreTasks(tasks'[c])
    <2>1. tasks'[c] = [j \in 1 .. n |-> tasks'[c][j]]
        BY <1>7
    <2>2. \A j \in 1 .. n : IsTask(tasks'[c][j])
        <3> TAKE j \in 1 .. n
        <3>1. CASE j = k
            BY <1>8, <3>1, Zenon
        <3>2. CASE j # k
            BY <1>5, <1>8, <3>2, Zenon
        <3> QED
            BY <3>1, <3>2
    <2> QED
        BY <2>1, <2>2, Zenon DEF AreTasks
<1>10. DOMAIN tasks'[c] = 1 .. n
    BY <1>7
<1> QED
    BY <1>1, <1>2, <1>3, <1>6, <1>8, <1>9, <1>10, Zenon

LEMMA FailureTroubles ==
    ASSUME TroubleInv, NEW c \in Calls, NEW k \in DOMAIN tasks[c],
           NEW t, IsTask(t),
           tasks' = [tasks EXCEPT ![c] = [tasks[c] EXCEPT ![k] = t]],
           troubled \subseteq troubled', t.at = "failed" => c \in troubled',
           UNCHANGED <<reply, joined>>
    PROVE  TroubleInv'
<1>1. /\ tasks' = [d \in Calls |-> tasks'[d]]
      /\ \A d \in Calls : AreTasks(tasks'[d])
      /\ \A d \in Calls : /\ DOMAIN tasks'[d] = DOMAIN tasks[d]
                         /\ \A j \in DOMAIN tasks[d] :
                               tasks'[d][j] = IF d = c /\ j = k THEN t ELSE tasks[d][j]
    BY TaskChanged
<1>2. \A d \in Calls : \A j \in DOMAIN tasks'[d] :
         tasks'[d][j].at = "failed" => d \in troubled'
    BY <1>1 DEF TroubleInv
<1>3. ReadSurvivesUnitAttention'
    BY DEF TroubleInv, ReadSurvivesUnitAttention
<1> QED
    BY <1>1, <1>2, <1>3 DEF TroubleInv

LEMMA GoesTo ==
    ASSUME TroubleInv, NEW c \in Calls, NEW k \in DOMAIN tasks[c], NEW at, Goes(c, k, at)
    PROVE  LET t == [tasks[c][k] EXCEPT !.at = at]
           IN  IsTask(t) /\ t.at = at
               /\ tasks' = [tasks EXCEPT ![c] = [tasks[c] EXCEPT ![k] = t]]
<1>1. PICK n \in Nat : /\ tasks[c] = [j \in 1 .. n |-> tasks[c][j]]
                       /\ \A j \in 1 .. n : IsTask(tasks[c][j])
    BY DEF TroubleInv, AreTasks
<1>2. IsTask(tasks[c][k])
    BY <1>1
<1>3. [tasks[c][k] EXCEPT !.at = at]
        = [at |-> at, cdb |-> tasks[c][k].cdb, data |-> tasks[c][k].data]
    BY <1>2 DEF IsTask
<1> QED
    BY <1>3 DEF Goes, IsTask

LEMMA TaskOk ==
    ASSUME NEW u, IsTask(u), NEW d
    PROVE  [u EXCEPT !.at = "ok", !.data = d] = [at |-> "ok", cdb |-> u.cdb, data |-> d]
<1>1. u = [at |-> u.at, cdb |-> u.cdb, data |-> u.data]
    BY DEF IsTask
<1>2. [u EXCEPT !.at = "ok"] = [at |-> "ok", cdb |-> u.cdb, data |-> u.data]
    BY <1>1
<1>3. [[at |-> "ok", cdb |-> u.cdb, data |-> u.data] EXCEPT !.data = d]
        = [at |-> "ok", cdb |-> u.cdb, data |-> d]
    OBVIOUS
<1> QED
    BY <1>2, <1>3

LEMMA TaskSteps ==
    ASSUME TroubleInv, FixedFormat, NEW c \in Calls, NEW k \in DOMAIN tasks[c],
           TaskStep(c, k)
    PROVE  TroubleInv'
<1> DEFINE at(a) == [tasks[c][k] EXCEPT !.at = a]
<1>1. ASSUME NEW a, Goes(c, k, a), troubled \subseteq troubled',
             a = "failed" => c \in troubled', UNCHANGED <<reply, joined>>
      PROVE  TroubleInv'
    <2>1. IsTask(at(a)) /\ at(a).at = a
          /\ tasks' = [tasks EXCEPT ![c] = [tasks[c] EXCEPT ![k] = at(a)]]
        BY <1>1, GoesTo
    <2> HIDE DEF at
    <2> QED
        BY <1>1, <2>1, FailureTroubles
<1>2. CASE Submit(c, k)
    BY <1>1, <1>2 DEF Submit, callVars
<1>3. CASE SubmitFails(c, k)
    BY <1>1, <1>3 DEF SubmitFails, callVars
<1>4. CASE TimeOut(c, k)
    BY <1>1, <1>4 DEF TimeOut, callVars
<1>5. CASE ReadGood(c, k)
    <2>1. PICK d : tasks' = [tasks EXCEPT ![c][k] = [@ EXCEPT !.at = "ok", !.data = d]]
        BY <1>5 DEF ReadGood
    <2> DEFINE t == [at |-> "ok", cdb |-> tasks[c][k].cdb, data |-> d]
    <2>2. IsTask(tasks[c][k]) /\ tasks = [e \in Calls |-> tasks[e]]
        BY DEF TroubleInv, AreTasks
    <2>3. tasks' = [tasks EXCEPT ![c] = [tasks[c] EXCEPT ![k] = t]]
        <3>1. [tasks[c][k] EXCEPT !.at = "ok", !.data = d] = t
            BY <2>2, TaskOk
        <3> HIDE DEF t
        <3> QED
            BY <2>1, <3>1
    <2>4. IsTask(t) /\ t.at # "failed" /\ UNCHANGED <<troubled, reply, joined>>
        BY <1>5 DEF ReadGood, IsTask, callVars
    <2> HIDE DEF t
    <2> QED
        BY <2>3, <2>4, FailureTroubles
<1>6. CASE WriteGood(c, k)
    BY <1>1, <1>6 DEF WriteGood, callVars
<1>7. CASE CheckCondition(c, k)
    <2>1. PICK sense \in Sense :
             /\ Goes(c, k, IF Retried(c, k, sense) THEN "retry" ELSE "failed")
             /\ troubled' = IF /\ call[c].op = "read"
                               /\ tasks[c][k].at = "await"
                               /\ sense.key = "unitAttention"
                            THEN troubled ELSE troubled \cup {c}
        BY <1>7 DEF CheckCondition
    <2>2. sense.key = "unitAttention" => IsUnitAttention(sense)
        BY DEF FixedFormat, IsUnitAttention, SenseKey
    <2>3. Retried(c, k, sense) \/ c \in troubled'
        BY <2>1, <2>2, Zenon DEF Retried
    <2>4. troubled \subseteq troubled' /\ UNCHANGED <<reply, joined>>
        BY <1>7, <2>1 DEF CheckCondition, callVars
    <2> QED
        BY <1>1, <2>1, <2>3, <2>4
<1>8. CASE OtherStatus(c, k)
    BY <1>1, <1>8 DEF OtherStatus, callVars
<1> QED
    BY <1>2, <1>3, <1>4, <1>5, <1>6, <1>7, <1>8 DEF TaskStep

LEMMA CallSteps ==
    ASSUME TroubleInv, NEW c \in Calls, Ask(c) \/ Join(c) \/ Return(c)
    PROVE  TroubleInv'
<1>1. CASE Ask(c)
    <2>1. PICK r \in Requests :
             tasks' = [tasks EXCEPT ![c] =
                IF Cuts(r) THEN [k \in DOMAIN Chunks(r) |-> Task(Chunks(r)[k])] ELSE <<>>]
        BY <1>1 DEF Ask
    <2> DEFINE new == IF Cuts(r) THEN [k \in DOMAIN Chunks(r) |-> Task(Chunks(r)[k])] ELSE <<>>
    <2>2. AreTasks(new) /\ \A k \in DOMAIN new : new[k].at # "failed"
        <3>1. CASE ~Cuts(r)
            <4>1. new = <<>> /\ new = [k \in 1 .. 0 |-> new[k]]
                BY <3>1
            <4> QED
                BY <4>1 DEF AreTasks
        <3>2. CASE Cuts(r)
            <4>1. DOMAIN Chunks(r) = 1 .. Rounds(r.count)
                BY DEF Chunks
            <4>2. PICK n \in Nat : 1 .. Rounds(r.count) = 1 .. n
                <5>1. r.count \in Nat
                    OBVIOUS
                <5>2. CASE r.count = 0
                    BY <5>2 DEF Rounds
                <5>3. CASE r.count # 0
                    <6>1. MaxBlocks \in Nat \ {0}
                        BY <3>2, <5>1, <5>3, MaxBlocksNat DEF Cuts
                    <6>2. Rounds(r.count) \in Nat
                        BY <5>1, <5>3, <6>1, Quotient DEF Rounds
                    <6> QED
                        BY <6>2
                <5> QED
                    BY <5>2, <5>3
            <4>3. new = [k \in 1 .. n |-> Task(Chunks(r)[k])]
                BY <3>2, <4>1, <4>2
            <4>4. \A k \in 1 .. n : new[k] = Task(Chunks(r)[k])
                BY <4>3
            <4>5. \A x : IsTask(Task(x)) /\ Task(x).at # "failed"
                BY DEF IsTask, Task
            <4> QED
                BY <4>3, <4>4, <4>5 DEF AreTasks
        <3> QED
            BY <3>1, <3>2
    <2>3. UNCHANGED <<reply, joined, troubled>>
        BY <1>1 DEF Ask
    <2> HIDE DEF new
    <2>4. /\ tasks' = [d \in Calls |-> IF d = c THEN new ELSE tasks[d]]
        BY <2>1 DEF TroubleInv, new
    <2>5. \A d \in Calls : tasks'[d] = IF d = c THEN new ELSE tasks[d]
        BY <2>4
    <2>6. ReadSurvivesUnitAttention'
        BY <2>3 DEF TroubleInv, ReadSurvivesUnitAttention
    <2> QED
        BY <2>2, <2>3, <2>4, <2>5, <2>6 DEF TroubleInv
<1>2. CASE Join(c)
    <2>1. UNCHANGED <<tasks, troubled>> /\ c \in Calls /\ joined[c] \in Nat
        BY <1>2 DEF Join, TroubleInv
    <2>2. joined[c] + 1 \in DOMAIN tasks[c]
        <3>1. PICK n \in Nat : tasks[c] = [k \in 1 .. n |-> tasks[c][k]]
            BY DEF TroubleInv, AreTasks
        <3>2. Len(tasks[c]) = n /\ DOMAIN tasks[c] = 1 .. n
            BY <3>1
        <3> QED
            BY <1>2, <2>1, <3>2 DEF Join
    <2>3. CASE joined' = [joined EXCEPT ![c] = @ + 1] /\ UNCHANGED reply
        BY <2>1, <2>3 DEF TroubleInv, ReadSurvivesUnitAttention
    <2>4. CASE /\ tasks[c][joined[c] + 1].at = "failed"
               /\ reply' = [reply EXCEPT ![c] = [ok |-> FALSE, data |-> <<>>]]
               /\ UNCHANGED joined
        <3>1. c \in troubled
            BY <2>2, <2>4 DEF TroubleInv
        <3>2. \A d \in Calls : d # c => reply'[d] = reply[d]
            BY <2>4 DEF TroubleInv
        <3>3. ReadSurvivesUnitAttention'
            BY <2>1, <3>1, <3>2 DEF TroubleInv, ReadSurvivesUnitAttention
        <3> QED
            BY <2>1, <2>4, <3>3 DEF TroubleInv
    <2> QED
        BY <1>2, <2>3, <2>4 DEF Join
<1>3. CASE Return(c)
    <2>1. /\ reply' = [reply EXCEPT ![c] = [ok |-> TRUE, data |-> result[c]]]
          /\ UNCHANGED <<tasks, joined, troubled>>
        BY <1>3 DEF Return
    <2>2. reply'[c].ok /\ \A d \in Calls : d # c => reply'[d] = reply[d]
        BY <2>1 DEF TroubleInv
    <2>3. ReadSurvivesUnitAttention'
        BY <2>1, <2>2 DEF TroubleInv, ReadSurvivesUnitAttention
    <2> QED
        BY <2>1, <2>3 DEF TroubleInv
<1> QED
    BY <1>1, <1>2, <1>3

LEMMA OtherSteps ==
    ASSUME TroubleInv, UNCHANGED <<tasks, reply, joined, troubled>>
    PROVE  TroubleInv'
BY DEF TroubleInv, ReadSurvivesUnitAttention

(***************************************************************************)
(* With targets whose sense data can be parsed, a call fails only if one   *)
(* of its commands met more than a UNIT ATTENTION.                         *)
(***************************************************************************)
THEOREM UnitAttentionHidden ==
    ASSUME FixedFormat
    PROVE  Spec => []ReadSurvivesUnitAttention
<1>1. Init => TroubleInv
    <2> SUFFICES ASSUME Init PROVE TroubleInv
        OBVIOUS
    <2>1. /\ tasks = [c \in Calls |-> <<>>] /\ reply = [c \in Calls |-> None]
          /\ joined = [c \in Calls |-> 0]
        BY DEF Init
    <2>2. AreTasks(<<>>)
        <3>1. <<>> = [k \in 1 .. 0 |-> <<>>[k]]
            OBVIOUS
        <3> QED
            BY <3>1 DEF AreTasks
    <2> QED
        BY <2>1, <2>2 DEF TroubleInv, ReadSurvivesUnitAttention
<1>2. TroubleInv /\ [Next]_vars => TroubleInv'
    <2> SUFFICES ASSUME TroubleInv, [Next]_vars PROVE TroubleInv'
        OBVIOUS
    <2>1. CASE ReadCapacity10 \/ ReadCapacity16
        BY <2>1, OtherSteps DEF ReadCapacity10, ReadCapacity16, callVars
    <2>2. ASSUME NEW c \in Calls, Ask(c) \/ Join(c) \/ Return(c)
          PROVE  TroubleInv'
        BY <2>2, CallSteps
    <2>3. ASSUME NEW c \in Calls, NEW k \in DOMAIN tasks[c], TaskStep(c, k)
          PROVE  TroubleInv'
        BY <2>3, TaskSteps
    <2>4. ASSUME NEW c \in Calls, NEW k \in DOMAIN tasks[c], Store(c, k)
          PROVE  TroubleInv'
        <3>1. UNCHANGED <<tasks, reply, joined, troubled>>
            BY <2>4 DEF Store, callVars
        <3> QED
            BY <3>1, OtherSteps
    <2>5. CASE UNCHANGED vars
        BY <2>5, OtherSteps DEF vars, callVars
    <2> QED
        BY <2>1, <2>2, <2>3, <2>4, <2>5 DEF Next
<1>3. TroubleInv => ReadSurvivesUnitAttention
    BY DEF TroubleInv
<1> QED
    BY <1>1, <1>2, <1>3, PTL DEF Spec

----------------------------------------------------------------------------
(* Reads and writes of blocks: the inductive invariant *)

Value == (Calls \cup {None}) \X Int

TaskType ==
    [at   : {"new", "await", "retry", "awaitRetry", "ok", "failed"},
     cdb  : [lba : Nat, count : Nat],
     data : Seq(Value)]

BlockTypes ==
    /\ call \in [Calls -> Requests \cup {None}]
    /\ reply = [c \in Calls |-> reply[c]]
    /\ tasks \in [Calls -> Seq(TaskType)]
    /\ joined \in [Calls -> Nat]
    /\ result \in [Calls -> Seq(Value)]
    /\ media \in [Block -> Value]
    /\ held \in [Calls -> Seq(SUBSET Value)]
    /\ stored \in [Calls -> SUBSET Block]

Unasked(c) ==
    tasks[c] = <<>> /\ joined[c] = 0 /\ result[c] = <<>> /\ stored[c] = {}

\* Where the k-th chunk begins in the range.
Cut(k) == (k - 1) * MaxBlocks

\* The tasks of a call are those of its chunks, and their CDBs name the blocks.
CutAsAsked(c) ==
    /\ Len(tasks[c]) = IF Cuts(call[c]) THEN Rounds(call[c].count) ELSE 0
    /\ \A k \in 1 .. Len(tasks[c]) : tasks[c][k].cdb = Chunks(call[c])[k]

\* held knows what the blocks of a call contain.
Observed(c) ==
    /\ Len(held[c]) = call[c].count
    /\ \A i \in 1 .. call[c].count : call[c].lba + i - 1 \in Block =>
          media[call[c].lba + i - 1] \in held[c][i]

\* A task that has ended well has one value of each of its blocks, or has
\* stored them all.
Accomplished(c, k) ==
    IF call[c].op = "read"
    THEN tasks[c][k].at = "ok" =>
            /\ Len(tasks[c][k].data) = tasks[c][k].cdb.count
            /\ \A i \in 1 .. tasks[c][k].cdb.count :
                  tasks[c][k].data[i] \in held[c][Cut(k) + i]
    ELSE /\ tasks[c][k].data = <<>>
         /\ tasks[c][k].at = "ok" => Span(tasks[c][k].cdb) \subseteq stored[c]

\* What has been gathered from the tasks joined so far.
Gathered(c) ==
    /\ joined[c] <= Len(tasks[c])
    /\ \A k \in 1 .. joined[c] : tasks[c][k].at = "ok"
    /\ IF call[c].op = "read"
       THEN /\ Len(result[c]) = Lesser(joined[c] * MaxBlocks, call[c].count)
            /\ \A i \in 1 .. Len(result[c]) : result[c][i] \in held[c][i]
       ELSE result[c] = <<>>

\* The promise of Blocks concerns a call that returns; what its tasks hold by
\* then has come together from its chunks, whenever each was executed.
Registers ==
    /\ BlockTypes
    /\ \A c \in Calls :
          IF call[c] = None THEN Unasked(c)
          ELSE /\ CutAsAsked(c) /\ Observed(c) /\ Gathered(c)
               /\ \A k \in 1 .. Len(tasks[c]) : Accomplished(c, k)
               /\ stored[c] \subseteq Span(call[c])

(* A chunk lies in the range, its CDB names it, and with it the chunks before *)
(* it make up what has been cut so far.                                       *)
LEMMA ChunkOf ==
    ASSUME NEW r \in Requests, Cuts(r), NEW k \in 1 .. Rounds(r.count)
    PROVE  LET size == Chunks(r)[k].count
           IN  /\ Cut(k) \in Nat /\ size \in Nat \ {0}
               /\ Chunks(r)[k] = [lba |-> r.lba + Cut(k), count |-> size]
               /\ Cut(k) + size <= r.count
               /\ Lesser((k - 1) * MaxBlocks, r.count) = Cut(k)
               /\ Lesser(k * MaxBlocks, r.count) = Cut(k) + size
               /\ \A i \in Nat : Cut(k) <= i /\ i < r.count /\ i < Cut(k) + MaxBlocks =>
                                     i < Cut(k) + size
<1> DEFINE c == r.count
           n == Rounds(c)
           M == MaxBlocks
<1>1. c \in Nat \ {0} /\ r.lba \in Nat
    BY DEF Rounds
<1>2. M \in Nat \ {0}
    BY <1>1, MaxBlocksNat DEF Cuts
<1>3. n \in Nat \ {0} /\ (n - 1) * M < c
    BY <1>1, <1>2, Quotient DEF Rounds
<1>4. Chunks(r)[k] = [lba |-> r.lba + Cut(k), count |-> Lesser(c - Cut(k), M)]
    BY DEF Chunks, Cut
<1>5. k \in Nat \ {0} /\ k <= n
    BY <1>3
<1>6. Cut(k) \in Nat /\ k * M = Cut(k) + M
    BY <1>2, <1>5 DEF Cut
<1>7. Cut(k) < c
    <2>1. (k - 1) * M <= (n - 1) * M
        BY <1>2, <1>3, <1>5, Monotone
    <2>2. (n - 1) * M \in Nat
        BY <1>2, <1>3
    <2> QED
        BY <1>1, <1>3, <1>6, <2>1, <2>2 DEF Cut
<1>8. (k - 1) * M = Cut(k)
    BY DEF Cut
<1> HIDE DEF n, M
<1> QED
    BY <1>1, <1>2, <1>4, <1>6, <1>7, <1>8 DEF Lesser, M

(* Every block of the range is in a chunk. *)
LEMMA ChunksCover ==
    ASSUME NEW r \in Requests, Cuts(r), NEW i \in 0 .. r.count - 1
    PROVE  \E k \in 1 .. Rounds(r.count) :
              Cut(k) <= i /\ i < Cut(k) + Chunks(r)[k].count
<1> DEFINE c == r.count
           n == Rounds(c)
           M == MaxBlocks
           q == i \div M
<1>1. c \in Nat \ {0} /\ i \in Nat /\ i < c
    OBVIOUS
<1>2. M \in Nat \ {0}
    BY <1>1, MaxBlocksNat DEF Cuts
<1>3. n \in Nat \ {0} /\ c <= n * M
    BY <1>1, <1>2, Quotient DEF Rounds
<1>4. q \in Nat /\ q * M <= i /\ i < q * M + M
    BY <1>1, <1>2, SMT
<1>5. q + 1 \in 1 .. n
    <2>1. ~(n <= q)
        <3> SUFFICES ASSUME n <= q PROVE FALSE
            OBVIOUS
        <3>1. n * M <= q * M
            BY <1>2, <1>3, <1>4, Monotone
        <3>2. n * M \in Nat /\ q * M \in Nat
            BY <1>2, <1>3, <1>4
        <3> QED
            BY <1>1, <1>3, <1>4, <3>1, <3>2
    <2> QED
        BY <1>3, <1>4, <2>1
<1>6. Cut(q + 1) = q * M
    BY <1>4 DEF Cut
<1>7. i < Cut(q + 1) + Chunks(r)[q + 1].count
    BY <1>1, <1>4, <1>5, <1>6, ChunkOf
<1> QED
    BY <1>4, <1>5, <1>6, <1>7

LEMMA AllCut ==
    ASSUME NEW r \in Requests, Cuts(r)
    PROVE  Rounds(r.count) \in Nat /\ Lesser(Rounds(r.count) * MaxBlocks, r.count) = r.count
<1>1. CASE r.count = 0
    BY <1>1, MaxBlocksNat DEF Rounds, Lesser
<1>2. CASE r.count # 0
    <2>1. MaxBlocks \in Nat \ {0} /\ r.count \in Nat \ {0}
        BY <1>2, MaxBlocksNat DEF Cuts
    <2>2. Rounds(r.count) \in Nat \ {0} /\ r.count <= Rounds(r.count) * MaxBlocks
        BY <1>2, <2>1, Quotient DEF Rounds
    <2>3. Rounds(r.count) * MaxBlocks \in Nat
        BY <2>1, <2>2
    <2> QED
        BY <2>1, <2>2, <2>3 DEF Lesser
<1> QED
    BY <1>1, <1>2

(* The CDB names the blocks of the chunk: neither cast loses anything. *)
LEMMA BuildExact ==
    ASSUME NEW lba \in Nat, NEW count \in Nat
    PROVE  Build([lba |-> lba, count |-> count]) = [lba |-> lba, count |-> count]
<1>1. lba <= Max32 => lba % (Max32 + 1) = lba
    BY SMT
<1>2. count <= Max16 => count % (Max16 + 1) = count
    BY SMT
<1> QED
    BY <1>1, <1>2 DEF Build

LEMMA FunctionSeq ==
    ASSUME NEW S, NEW n \in Nat, NEW f \in [1 .. n -> S]
    PROVE  f \in Seq(S) /\ Len(f) = n
BY SMT

LEMMA SequenceFunction ==
    ASSUME NEW S, NEW s \in Seq(S)
    PROVE  s = [i \in 1 .. Len(s) |-> s[i]]
BY SMT

LEMMA RegistersInit == Init => Registers
<1> SUFFICES ASSUME Init PROVE Registers
    OBVIOUS
<1>1. /\ <<>> \in Seq(TaskType) /\ <<>> \in Seq(Value) /\ <<>> \in Seq(SUBSET Value)
    BY EmptySeq
<1>2. BlockTypes
    BY <1>1 DEF Init, BlockTypes, Value, Block
<1> QED
    BY <1>2 DEF Init, Registers, Unasked

(* A task that has not ended takes a step, and has what its chunk promises if *)
(* it ends well.                                                              *)
LEMMA RegistersTask ==
    ASSUME Registers, NEW c \in Calls, NEW k \in 1 .. Len(tasks[c]), NEW t \in TaskType,
           tasks' = [tasks EXCEPT ![c] = [tasks[c] EXCEPT ![k] = t]],
           tasks[c][k].at # "ok", t.cdb = tasks[c][k].cdb,
           IF call[c].op = "read"
           THEN t.at = "ok" => /\ Len(t.data) = t.cdb.count
                               /\ \A i \in 1 .. t.cdb.count : t.data[i] \in held[c][Cut(k) + i]
           ELSE /\ t.data = <<>>
                /\ t.at = "ok" => Span(t.cdb) \subseteq stored[c],
           UNCHANGED <<callVars, mediumVars>>
    PROVE  Registers'
<1> USE DEF callVars, mediumVars
<1>1. tasks \in [Calls -> Seq(TaskType)] /\ tasks[c] \in Seq(TaskType)
    BY DEF Registers, BlockTypes
<1>2. /\ [tasks[c] EXCEPT ![k] = t] \in Seq(TaskType)
      /\ Len([tasks[c] EXCEPT ![k] = t]) = Len(tasks[c])
      /\ \A j \in 1 .. Len(tasks[c]) :
            [tasks[c] EXCEPT ![k] = t][j] = IF j = k THEN t ELSE tasks[c][j]
    BY <1>1, ExceptSeq
<1>3. /\ tasks' \in [Calls -> Seq(TaskType)]
      /\ tasks'[c] = [tasks[c] EXCEPT ![k] = t]
      /\ \A d \in Calls : d # c => tasks'[d] = tasks[d]
    BY <1>1, <1>2
<1>4. /\ \A d \in Calls : Len(tasks'[d]) = Len(tasks[d])
      /\ \A j \in 1 .. Len(tasks[c]) : tasks'[c][j] = IF j = k THEN t ELSE tasks[c][j]
    BY <1>2, <1>3
<1>5. BlockTypes'
    BY <1>3 DEF Registers, BlockTypes
<1>6. \A d \in Calls : call[d] # None \/ d # c
    BY EmptySeq DEF Registers, Unasked
<1> SUFFICES ASSUME NEW d \in Calls
             PROVE  IF call[d] = None THEN Unasked(d)'
                    ELSE /\ CutAsAsked(d)' /\ Observed(d)' /\ Gathered(d)'
                         /\ \A j \in 1 .. Len(tasks'[d]) : Accomplished(d, j)'
                         /\ stored[d] \subseteq Span(call[d])
    BY <1>5 DEF Registers, Span
<1>7. CASE call[d] = None
    BY <1>3, <1>6, <1>7 DEF Registers, Unasked
<1>8. CASE call[d] # None
    <2>1. /\ CutAsAsked(d) /\ Observed(d) /\ Gathered(d)
          /\ \A j \in 1 .. Len(tasks[d]) : Accomplished(d, j)
          /\ stored[d] \subseteq Span(call[d])
        BY <1>8 DEF Registers
    <2>2. CutAsAsked(d)'
        <3>1. \A j \in 1 .. Len(tasks[d]) : tasks'[d][j].cdb = tasks[d][j].cdb
            BY <1>3, <1>4
        <3>2. call' = call
            OBVIOUS
        <3> QED
            BY <1>4, <2>1, <3>1, <3>2 DEF CutAsAsked
    <2>3. Observed(d)'
        BY <2>1 DEF Observed
    <2>4. Gathered(d)'
        <3>1. joined[d] \in Nat /\ Len(tasks[d]) \in Nat
            BY <1>1, LenProperties DEF Registers, BlockTypes
        <3>2. \A j \in 1 .. joined[d] : j \in 1 .. Len(tasks[d])
            BY <2>1, <3>1 DEF Gathered
        <3> QED
            BY <1>3, <1>4, <2>1, <3>2 DEF Gathered
    <2>5. \A j \in 1 .. Len(tasks'[d]) : Accomplished(d, j)'
        BY <1>3, <1>4, <2>1 DEF Accomplished, Span, Cut
    <2> QED
        BY <1>8, <2>1, <2>2, <2>3, <2>4, <2>5
<1> QED
    BY <1>7, <1>8

(* What the medium takes is seen by the calls whose ranges it is in. *)
LEMMA RegistersStore ==
    ASSUME Registers, NEW c \in Calls, NEW k \in DOMAIN tasks[c], Store(c, k)
    PROVE  Registers' /\ B!Store(c)
<1>1. PICK b \in (Blocks(c, k) \cap Block) \ stored[c] :
         LET v == <<c, b - call[c].lba + 1>> IN
         /\ media' = [media EXCEPT ![b] = v]
         /\ held' = [d \in Calls |-> [i \in DOMAIN held[d] |->
               IF call[d].lba + i - 1 = b THEN held[d][i] \cup {v} ELSE held[d][i]]]
         /\ stored' = [stored EXCEPT ![c] = @ \cup {b}]
    BY DEF Store
<1> DEFINE v == <<c, b - call[c].lba + 1>>
<1>2. /\ UNCHANGED <<tasks, callVars>> /\ call[c].op = "write"
      /\ UNCHANGED <<call, reply, joined, result>>
    BY DEF Store, callVars
<1>3. /\ tasks[c] \in Seq(TaskType) /\ held \in [Calls -> Seq(SUBSET Value)]
      /\ media \in [Block -> Value] /\ stored \in [Calls -> SUBSET Block]
      /\ call \in [Calls -> Requests \cup {None}]
    BY DEF Registers, BlockTypes
<1>4. DOMAIN tasks[c] = 1 .. Len(tasks[c]) /\ Len(tasks[c]) \in Nat
    BY <1>3, LenProperties
<1>5. call[c] # None
    BY <1>4, EmptySeq DEF Registers, Unasked
<1>6. call[c] \in Requests
    BY <1>3, <1>5
<1>7. b \in Span(call[c])
    <2>1. CutAsAsked(c)
        BY <1>5 DEF Registers
    <2>2. Cuts(call[c]) /\ k \in 1 .. Rounds(call[c].count)
             /\ tasks[c][k].cdb = Chunks(call[c])[k]
        BY <1>4, <2>1 DEF CutAsAsked
    <2> DEFINE size == Chunks(call[c])[k].count
    <2>3. /\ Cut(k) \in Nat /\ size \in Nat
          /\ tasks[c][k].cdb = [lba |-> call[c].lba + Cut(k), count |-> size]
          /\ Cut(k) + size <= call[c].count
        BY <1>6, <2>2, ChunkOf
    <2> HIDE DEF size
    <2>4. b \in call[c].lba + Cut(k) .. call[c].lba + Cut(k) + size - 1
        BY <1>1, <2>3 DEF Blocks, Span
    <2>5. call[c].lba \in Nat /\ call[c].count \in Nat
        BY <1>6
    <2> QED
        BY <2>3, <2>4, <2>5 DEF Span
<1>8. v \in Value
    <2>1. b \in Int /\ call[c].lba \in Int
        BY <1>6 DEF Block
    <2> QED
        BY <2>1 DEF Value
<1>9. /\ held' \in [Calls -> Seq(SUBSET Value)]
      /\ \A d \in Calls : Len(held'[d]) = Len(held[d])
      /\ \A d \in Calls : \A i \in 1 .. Len(held[d]) :
            /\ held[d][i] \subseteq held'[d][i]
            /\ call[d].lba + i - 1 = b => v \in held'[d][i]
    <2> SUFFICES ASSUME NEW d \in Calls
                 PROVE  /\ held'[d] \in Seq(SUBSET Value)
                        /\ Len(held'[d]) = Len(held[d])
                        /\ \A i \in 1 .. Len(held[d]) :
                              /\ held[d][i] \subseteq held'[d][i]
                              /\ call[d].lba + i - 1 = b => v \in held'[d][i]
        BY <1>1
    <2>1. held[d] \in Seq(SUBSET Value) /\ DOMAIN held[d] = 1 .. Len(held[d])
             /\ Len(held[d]) \in Nat
        BY <1>3, LenProperties
    <2>2. \A i \in 1 .. Len(held[d]) : held[d][i] \in SUBSET Value
        BY <2>1, ElementOfSeq
    <2>3. held'[d] = [i \in 1 .. Len(held[d]) |->
               IF call[d].lba + i - 1 = b THEN held[d][i] \cup {v} ELSE held[d][i]]
        BY <1>1, <2>1
    <2> HIDE DEF v
    <2>4. \A i \in 1 .. Len(held[d]) :
              held'[d][i] = IF call[d].lba + i - 1 = b THEN held[d][i] \cup {v} ELSE held[d][i]
        BY <2>3
    <2>5. \A i \in 1 .. Len(held[d]) : held'[d][i] \in SUBSET Value
        BY <1>8, <2>2, <2>4
    <2>6. held'[d] \in Seq(SUBSET Value) /\ Len(held'[d]) = Len(held[d])
        BY <2>1, <2>3, <2>5, IsASeq
    <2> QED
        BY <2>4, <2>6
<1>10. /\ media' \in [Block -> Value] /\ stored' \in [Calls -> SUBSET Block]
       /\ media'[b] = v /\ \A a \in Block : a # b => media'[a] = media[a]
       /\ \A d \in Calls : stored[d] \subseteq stored'[d]
       /\ \A d \in Calls : d # c => stored'[d] = stored[d]
       /\ stored'[c] = stored[c] \cup {b}
    BY <1>1, <1>3, <1>8
<1> HIDE DEF v
<1>11. BlockTypes'
    BY <1>2, <1>9, <1>10 DEF Registers, BlockTypes
<1>12. ASSUME NEW d \in Calls
       PROVE  IF call[d] = None THEN Unasked(d)'
              ELSE /\ CutAsAsked(d)' /\ Observed(d)' /\ Gathered(d)'
                   /\ \A j \in 1 .. Len(tasks[d]) : Accomplished(d, j)'
                   /\ stored'[d] \subseteq Span(call[d])
    <2>1. CASE call[d] = None
        BY <1>2, <1>5, <1>10, <2>1 DEF Registers, Unasked
    <2>2. CASE call[d] # None
        <3>1. /\ CutAsAsked(d) /\ Observed(d) /\ Gathered(d)
              /\ \A j \in 1 .. Len(tasks[d]) : Accomplished(d, j)
              /\ stored[d] \subseteq Span(call[d])
            BY <2>2 DEF Registers
        <3>2. CutAsAsked(d)'
            BY <1>2, <3>1 DEF CutAsAsked, Cuts, Chunks
        <3>3. Observed(d)'
            <4>1. Len(held[d]) = call[d].count
                BY <3>1 DEF Observed
            <4> SUFFICES ASSUME NEW i \in 1 .. call[d].count, call[d].lba + i - 1 \in Block
                         PROVE  media'[call[d].lba + i - 1] \in held'[d][i]
                BY <1>2, <1>9, <4>1 DEF Observed, Block
            <4>2. media[call[d].lba + i - 1] \in held[d][i]
                BY <3>1 DEF Observed
            <4> QED
                BY <1>9, <1>10, <4>1, <4>2
        <3>4. Gathered(d)'
            <4>1. call[d].op = "read" => \A i \in 1 .. Len(result[d]) : i \in 1 .. Len(held[d])
                <5>1. call[d] \in Requests
                    BY <1>3, <2>2
                <5>2. joined[d] * MaxBlocks \in Nat /\ call[d].count \in Nat
                    BY <5>1, MaxBlocksNat DEF Registers, BlockTypes
                <5> QED
                    BY <3>1, <5>2 DEF Gathered, Lesser, Observed
            <4> QED
                BY <1>2, <1>9, <3>1, <4>1 DEF Gathered
        <3>5. \A j \in 1 .. Len(tasks[d]) : Accomplished(d, j)'
            <4> SUFFICES ASSUME NEW j \in 1 .. Len(tasks[d]) PROVE Accomplished(d, j)'
                OBVIOUS
            <4>1. Accomplished(d, j) /\ call[d] \in Requests
                BY <1>3, <2>2, <3>1
            <4>2. CASE call[d].op = "read"
                <5>1. /\ Cuts(call[d]) /\ j \in 1 .. Rounds(call[d].count)
                      /\ tasks[d][j].cdb = Chunks(call[d])[j]
                    BY <3>1 DEF CutAsAsked
                <5>2. /\ Cut(j) \in Nat /\ tasks[d][j].cdb.count \in Nat
                      /\ Cut(j) + tasks[d][j].cdb.count <= Len(held[d])
                    BY <3>1, <4>1, <5>1, ChunkOf DEF Observed
                <5>3. \A i \in 1 .. tasks[d][j].cdb.count : Cut(j) + i \in 1 .. Len(held[d])
                    <6>1. Len(held[d]) \in Nat
                        BY <1>3, LenProperties
                    <6> DEFINE size == tasks[d][j].cdb.count
                               len == Len(held[d])
                    <6>2. Cut(j) \in Nat /\ size \in Nat /\ len \in Nat /\ Cut(j) + size <= len
                        BY <5>2, <6>1
                    <6> HIDE DEF size, len
                    <6>3. \A i \in 1 .. size : Cut(j) + i \in 1 .. len
                        BY <6>2
                    <6> QED
                        BY <6>3 DEF size, len
                <5> QED
                    BY <1>2, <1>9, <4>1, <4>2, <5>3 DEF Accomplished, Cut
            <4>3. CASE call[d].op # "read"
                BY <1>2, <1>10, <4>1, <4>3 DEF Accomplished, Span
            <4> QED
                BY <4>2, <4>3
        <3>6. stored'[d] \subseteq Span(call[d])
            BY <1>7, <1>10, <3>1
        <3> QED
            BY <2>2, <3>2, <3>3, <3>4, <3>5, <3>6
    <2> QED
        BY <2>1, <2>2
<1>13. Registers'
    BY <1>2, <1>11, <1>12 DEF Registers, Span
<1>14. B!Store(c)
    <2>1. b \in (B!Span(call[c]) \cap B!Block) \ stored[c]
        BY <1>1, <1>7 DEF B!Span, B!Block, Span, Block
    <2> QED
        BY <1>1, <1>2, <1>5, <2>1 DEF B!Store, B!Seen
<1> QED
    BY <1>13, <1>14

(* The task of a call is about a range, and its CDB about a part of it. *)
LEMMA TaskOfCall ==
    ASSUME Registers, NEW c \in Calls, NEW k \in DOMAIN tasks[c]
    PROVE  /\ k \in 1 .. Len(tasks[c]) /\ tasks[c][k] \in TaskType
           /\ call[c] # None /\ call[c] \in Requests
           /\ CutAsAsked(c) /\ Observed(c) /\ Accomplished(c, k)
           /\ Cuts(call[c]) /\ k \in 1 .. Rounds(call[c].count)
           /\ tasks[c][k].cdb = Chunks(call[c])[k]
<1>1. tasks[c] \in Seq(TaskType) /\ call \in [Calls -> Requests \cup {None}]
    BY DEF Registers, BlockTypes
<1>2. k \in 1 .. Len(tasks[c]) /\ tasks[c][k] \in TaskType
    BY <1>1, LenProperties, ElementOfSeq
<1>3. call[c] # None
    BY <1>2, EmptySeq DEF Registers, Unasked
<1>4. CutAsAsked(c) /\ Observed(c) /\ Accomplished(c, k)
    BY <1>2, <1>3 DEF Registers
<1>5. Cuts(call[c]) /\ k \in 1 .. Rounds(call[c].count) /\ tasks[c][k].cdb = Chunks(call[c])[k]
    BY <1>2, <1>4 DEF CutAsAsked
<1> QED
    BY <1>1, <1>2, <1>3, <1>4, <1>5

(* A task goes on without ending well. *)
LEMMA RegistersGoes ==
    ASSUME Registers, NEW c \in Calls, NEW k \in DOMAIN tasks[c],
           NEW at \in {"await", "retry", "awaitRetry", "failed"}, Goes(c, k, at),
           tasks[c][k].at # "ok", UNCHANGED <<callVars, mediumVars>>
    PROVE  Registers'
<1> DEFINE u == tasks[c][k]
           t == [at |-> at, cdb |-> u.cdb, data |-> u.data]
<1>1. /\ k \in 1 .. Len(tasks[c]) /\ u \in TaskType
      /\ Accomplished(c, k)
    BY TaskOfCall
<1>2. t \in TaskType /\ t.at # "ok" /\ t.cdb = u.cdb /\ t.data = u.data
    BY <1>1 DEF TaskType
<1>3. [u EXCEPT !.at = at] = t
    BY <1>1 DEF TaskType
<1>4. tasks' = [tasks EXCEPT ![c] = [tasks[c] EXCEPT ![k] = [u EXCEPT !.at = at]]]
    BY DEF Goes
<1> HIDE DEF t
<1>5. tasks' = [tasks EXCEPT ![c] = [tasks[c] EXCEPT ![k] = t]]
    BY <1>3, <1>4
<1>6. call[c].op # "read" => t.data = <<>>
    BY <1>1, <1>2 DEF Accomplished
<1> QED
    BY <1>1, <1>2, <1>5, <1>6, RegistersTask

LEMMA RegistersTaskSteps ==
    ASSUME Registers, ShortReads = FALSE, NEW c \in Calls, NEW k \in DOMAIN tasks[c],
           TaskStep(c, k)
    PROVE  Registers'
<1> DEFINE u == tasks[c][k]
<1>1. CASE \/ Submit(c, k) \/ SubmitFails(c, k) \/ TimeOut(c, k)
           \/ CheckCondition(c, k) \/ OtherStatus(c, k)
    <2>1. /\ \E at \in {"await", "retry", "awaitRetry", "failed"} : Goes(c, k, at)
          /\ u.at # "ok" /\ UNCHANGED <<callVars, mediumVars>>
        BY <1>1 DEF Submit, SubmitFails, TimeOut, CheckCondition, OtherStatus, Sent
    <2> QED
        BY <2>1, RegistersGoes
<1>2. CASE ReadGood(c, k)
    <2> DEFINE cdb == u.cdb
               d == [i \in 1 .. cdb.count |-> media[cdb.lba + i - 1]]
               t == [at |-> "ok", cdb |-> cdb, data |-> d]
    <2>1. /\ k \in 1 .. Len(tasks[c]) /\ u \in TaskType
          /\ call[c] \in Requests /\ Observed(c)
          /\ Cuts(call[c]) /\ k \in 1 .. Rounds(call[c].count)
          /\ cdb = Chunks(call[c])[k]
        BY TaskOfCall
    <2>2. /\ Cut(k) \in Nat /\ cdb.count \in Nat \ {0} /\ cdb.lba = call[c].lba + Cut(k)
          /\ Cut(k) + cdb.count <= call[c].count
          /\ call[c].lba \in Nat /\ call[c].count \in Nat
        <3> DEFINE size == Chunks(call[c])[k].count
        <3>1. /\ Cut(k) \in Nat /\ size \in Nat \ {0}
              /\ Chunks(call[c])[k] = [lba |-> call[c].lba + Cut(k), count |-> size]
              /\ Cut(k) + size <= call[c].count
            BY <2>1, ChunkOf
        <3>2. cdb = [lba |-> call[c].lba + Cut(k), count |-> size]
            BY <2>1, <3>1
        <3> HIDE DEF size, cdb
        <3>3. cdb.lba = call[c].lba + Cut(k) /\ cdb.count = size
            BY <3>2
        <3> QED
            BY <2>1, <3>1, <3>3
    <2>3. /\ Sent(c, k) /\ call[c].op = "read" /\ Span(cdb) \subseteq Block
          /\ tasks' = [tasks EXCEPT ![c] = [tasks[c] EXCEPT ![k] =
                          [u EXCEPT !.at = "ok", !.data = d]]]
          /\ UNCHANGED <<callVars, mediumVars>>
        BY <1>2 DEF ReadGood, Blocks
    <2> HIDE DEF cdb
    <2>4. \A i \in 1 .. cdb.count :
              /\ cdb.lba + i - 1 \in Block
              /\ cdb.lba + i - 1 = call[c].lba + (Cut(k) + i) - 1
              /\ Cut(k) + i \in 1 .. call[c].count
        BY <2>2, <2>3 DEF Span
    <2>5. \A i \in 1 .. cdb.count : media[cdb.lba + i - 1] \in Value
        BY <2>4 DEF Registers, BlockTypes
    <2>6. d \in Seq(Value) /\ Len(d) = cdb.count
        <3>1. d \in [1 .. cdb.count -> Value] /\ cdb.count \in Nat
            BY <2>2, <2>5
        <3> HIDE DEF d
        <3> QED
            BY <3>1
    <2>7. \A i \in 1 .. cdb.count : d[i] \in held[c][Cut(k) + i]
        BY <2>1, <2>4 DEF Observed
    <2> HIDE DEF d
    <2>8. [u EXCEPT !.at = "ok", !.data = d] = t
        <3>1. u = [at |-> u.at, cdb |-> u.cdb, data |-> u.data]
            BY <2>1 DEF TaskType
        <3>2. IsTask(u)
            BY <3>1 DEF IsTask
        <3> QED
            BY <3>2, TaskOk DEF cdb
    <2>9. t \in TaskType /\ t.at = "ok" /\ t.cdb = cdb /\ t.data = d
        BY <2>1, <2>6 DEF TaskType, cdb
    <2> HIDE DEF t
    <2>10. tasks' = [tasks EXCEPT ![c] = [tasks[c] EXCEPT ![k] = t]]
        BY <2>3, <2>8
    <2>11. u.at # "ok" /\ t.cdb = u.cdb
        BY <2>3, <2>9 DEF Sent, cdb
    <2>12. /\ Len(t.data) = t.cdb.count
           /\ \A i \in 1 .. t.cdb.count : t.data[i] \in held[c][Cut(k) + i]
        BY <2>6, <2>7, <2>9
    <2>13. /\ IF call[c].op = "read"
              THEN t.at = "ok" => /\ Len(t.data) = t.cdb.count
                                  /\ \A i \in 1 .. t.cdb.count : t.data[i] \in held[c][Cut(k) + i]
              ELSE /\ t.data = <<>>
                   /\ t.at = "ok" => Span(t.cdb) \subseteq stored[c]
           /\ k \in 1 .. Len(tasks[c]) /\ t \in TaskType
           /\ tasks[c][k].at # "ok" /\ t.cdb = tasks[c][k].cdb
           /\ UNCHANGED <<callVars, mediumVars>>
        BY <2>1, <2>3, <2>9, <2>11, <2>12
    <2> QED
        BY <2>10, <2>13, RegistersTask
<1>3. CASE WriteGood(c, k)
    <2> DEFINE t == [at |-> "ok", cdb |-> u.cdb, data |-> u.data]
    <2>1. /\ k \in 1 .. Len(tasks[c]) /\ u \in TaskType /\ Accomplished(c, k)
        BY TaskOfCall
    <2>2. /\ u.at # "ok" /\ call[c].op = "write" /\ Span(u.cdb) \subseteq stored[c]
          /\ Goes(c, k, "ok") /\ UNCHANGED <<callVars, mediumVars>>
        BY <1>3 DEF WriteGood, Sent, Blocks
    <2>3. t \in TaskType /\ t.at = "ok" /\ t.cdb = u.cdb /\ t.data = u.data
        BY <2>1 DEF TaskType
    <2>4. [u EXCEPT !.at = "ok"] = t
        BY <2>1 DEF TaskType
    <2>5. tasks' = [tasks EXCEPT ![c] = [tasks[c] EXCEPT ![k] = [u EXCEPT !.at = "ok"]]]
        BY <2>2 DEF Goes
    <2> HIDE DEF t
    <2>6. tasks' = [tasks EXCEPT ![c] = [tasks[c] EXCEPT ![k] = t]]
        BY <2>4, <2>5
    <2>7. t.data = <<>>
        BY <2>1, <2>2, <2>3 DEF Accomplished
    <2> QED
        BY <2>1, <2>2, <2>3, <2>6, <2>7, RegistersTask
<1> QED
    BY <1>1, <1>2, <1>3 DEF TaskStep

(* A call begins with the tasks of its chunks and with what its blocks hold. *)
LEMMA RegistersAsk ==
    ASSUME Registers, NEW c \in Calls, Ask(c)
    PROVE  Registers' /\ B!Ask(c)
<1>1. PICK r \in Requests :
          /\ call' = [call EXCEPT ![c] = r]
          /\ tasks' = [tasks EXCEPT ![c] =
                IF Cuts(r) THEN [k \in DOMAIN Chunks(r) |-> Task(Chunks(r)[k])] ELSE <<>>]
          /\ held' = [held EXCEPT ![c] =
                [i \in 1 .. r.count |-> {media[b] : b \in Block \cap {r.lba + i - 1}}]]
    BY DEF Ask
<1> DEFINE ts == IF Cuts(r) THEN [k \in DOMAIN Chunks(r) |-> Task(Chunks(r)[k])] ELSE <<>>
           h == [i \in 1 .. r.count |-> {media[b] : b \in Block \cap {r.lba + i - 1}}]
           n == IF Cuts(r) THEN Rounds(r.count) ELSE 0
<1>2. call[c] = None /\ UNCHANGED <<reply, joined, result, media, stored>>
    BY DEF Ask
<1>3. /\ call \in [Calls -> Requests \cup {None}] /\ tasks \in [Calls -> Seq(TaskType)]
      /\ held \in [Calls -> Seq(SUBSET Value)] /\ media \in [Block -> Value]
      /\ Unasked(c) /\ r # None /\ r.lba \in Nat /\ r.count \in Nat
    BY <1>2 DEF Registers, BlockTypes
<1>4. ts \in Seq(TaskType) /\ Len(ts) = n /\ n \in Nat
         /\ \A k \in 1 .. n : /\ ts[k].cdb = Chunks(r)[k] /\ ts[k].at = "new"
                              /\ ts[k].data = <<>>
    <2>1. CASE Cuts(r)
        <3>1. n \in Nat /\ DOMAIN Chunks(r) = 1 .. n
            BY <2>1, AllCut DEF Chunks
        <3>2. ts = [k \in 1 .. n |-> Task(Chunks(r)[k])]
            BY <2>1, <3>1
        <3>3. ASSUME NEW k \in 1 .. n
              PROVE  /\ Task(Chunks(r)[k]) = [at |-> "new", cdb |-> Chunks(r)[k], data |-> <<>>]
                     /\ Task(Chunks(r)[k]) \in TaskType
            <4> DEFINE size == Chunks(r)[k].count
            <4>1. /\ Cut(k) \in Nat /\ size \in Nat \ {0}
                  /\ Chunks(r)[k] = [lba |-> r.lba + Cut(k), count |-> size]
                BY <2>1, <3>3, ChunkOf
            <4> HIDE DEF size
            <4>2. Build(Chunks(r)[k]) = Chunks(r)[k]
                BY <1>3, <4>1, BuildExact
            <4>3. Task(Chunks(r)[k]) = [at |-> "new", cdb |-> Chunks(r)[k], data |-> <<>>]
                BY <4>2 DEF Task
            <4>4. Chunks(r)[k] \in [lba : Nat, count : Nat] /\ <<>> \in Seq(Value)
                BY <1>3, <4>1, EmptySeq
            <4> QED
                BY <4>3, <4>4 DEF TaskType
        <3> HIDE DEF n, ts
        <3>4. ts \in [1 .. n -> TaskType]
            BY <3>2, <3>3
        <3>5. \A k \in 1 .. n : ts[k] = [at |-> "new", cdb |-> Chunks(r)[k], data |-> <<>>]
            BY <3>2, <3>3
        <3> QED
            BY <3>1, <3>4, <3>5, FunctionSeq
    <2>2. CASE ~Cuts(r)
        BY <2>2, EmptySeq
    <2> QED
        BY <2>1, <2>2
<1>5. h \in Seq(SUBSET Value) /\ Len(h) = r.count
         /\ \A i \in 1 .. r.count : r.lba + i - 1 \in Block => media[r.lba + i - 1] \in h[i]
    <2>1. ASSUME NEW i \in 1 .. r.count
          PROVE  {media[b] : b \in Block \cap {r.lba + i - 1}} \in SUBSET Value
        BY <1>3
    <2>2. h \in [1 .. r.count -> SUBSET Value]
        BY <2>1
    <2>3. \A i \in 1 .. r.count : r.lba + i - 1 \in Block => media[r.lba + i - 1] \in h[i]
        OBVIOUS
    <2> HIDE DEF h
    <2> QED
        BY <1>3, <2>2, <2>3, FunctionSeq
<1> HIDE DEF ts, h
<1>6. call' = [call EXCEPT ![c] = r] /\ tasks' = [tasks EXCEPT ![c] = ts]
         /\ held' = [held EXCEPT ![c] = h]
    BY <1>1 DEF ts, h
<1>7. /\ call'[c] = r /\ tasks'[c] = ts /\ held'[c] = h
      /\ \A d \in Calls : d # c => /\ call'[d] = call[d] /\ tasks'[d] = tasks[d]
                                   /\ held'[d] = held[d]
    BY <1>3, <1>6
<1>8. BlockTypes'
    <2>1. /\ call' \in [Calls -> Requests \cup {None}] /\ tasks' \in [Calls -> Seq(TaskType)]
          /\ held' \in [Calls -> Seq(SUBSET Value)]
        BY <1>3, <1>4, <1>5, <1>6
    <2> QED
        BY <1>2, <2>1 DEF Registers, BlockTypes
<1>9. /\ CutAsAsked(c)' /\ Observed(c)' /\ Gathered(c)'
      /\ \A k \in 1 .. Len(tasks'[c]) : Accomplished(c, k)'
      /\ stored'[c] \subseteq Span(call'[c])
    <2>1. CutAsAsked(c)'
        <3>1. /\ Chunks(call[c])' = Chunks(r) /\ Cuts(call[c])' = Cuts(r)
              /\ Rounds(call[c].count)' = Rounds(r.count)
            BY <1>7 DEF Chunks, Cuts, Rounds, MaxBlocks
        <3> QED
            BY <1>4, <1>7, <3>1 DEF CutAsAsked, n
    <2>2. Observed(c)'
        BY <1>2, <1>5, <1>7 DEF Observed, Block
    <2>3. joined'[c] = 0 /\ result'[c] = <<>> /\ stored'[c] = {}
        BY <1>2, <1>3 DEF Unasked
    <2>4. Gathered(c)'
        <3>1. Lesser(0 * MaxBlocks, r.count) = 0 /\ Len(<<>>) = 0
            BY <1>3, MaxBlocksNat DEF Lesser
        <3> QED
            BY <1>4, <1>7, <2>3, <3>1 DEF Gathered, Lesser, MaxBlocks
    <2>5. \A k \in 1 .. Len(tasks'[c]) : Accomplished(c, k)'
        BY <1>4, <1>7 DEF Accomplished
    <2> QED
        BY <2>1, <2>2, <2>3, <2>4, <2>5
<1>10. ASSUME NEW d \in Calls, d # c
       PROVE  IF call'[d] = None THEN Unasked(d)'
              ELSE /\ CutAsAsked(d)' /\ Observed(d)' /\ Gathered(d)'
                   /\ \A k \in 1 .. Len(tasks'[d]) : Accomplished(d, k)'
                   /\ stored'[d] \subseteq Span(call'[d])
    <2>1. CASE call[d] = None
        BY <1>2, <1>7, <1>10, <2>1 DEF Registers, Unasked
    <2>2. CASE call[d] # None
        <3>1. /\ CutAsAsked(d) /\ Observed(d) /\ Gathered(d)
              /\ \A j \in 1 .. Len(tasks[d]) : Accomplished(d, j)
              /\ stored[d] \subseteq Span(call[d])
            BY <2>2 DEF Registers
        <3>2. CutAsAsked(d)'
            <4>1. /\ Chunks(call[d])' = Chunks(call[d]) /\ Cuts(call[d])' = Cuts(call[d])
                  /\ Rounds(call[d].count)' = Rounds(call[d].count)
                BY <1>7, <1>10 DEF Chunks, Cuts, Rounds, MaxBlocks
            <4> QED
                BY <1>7, <1>10, <3>1, <4>1 DEF CutAsAsked
        <3>3. Observed(d)'
            BY <1>2, <1>7, <1>10, <3>1 DEF Observed, Block
        <3>4. Gathered(d)'
            BY <1>2, <1>7, <1>10, <3>1 DEF Gathered
        <3>5. \A j \in 1 .. Len(tasks'[d]) : Accomplished(d, j)'
            BY <1>2, <1>7, <1>10, <3>1 DEF Accomplished, Span, Cut
        <3> QED
            BY <1>2, <1>7, <1>10, <2>2, <3>1, <3>2, <3>3, <3>4, <3>5
    <2> QED
        BY <2>1, <2>2
<1>11. Registers'
    BY <1>3, <1>7, <1>8, <1>9, <1>10 DEF Registers, Span
<1>12. B!Ask(c)
    BY <1>1, <1>2 DEF B!Ask, B!Block, Block
<1> QED
    BY <1>11, <1>12

(* What a call is answered leaves the rest alone. *)
LEMMA RegistersReply ==
    ASSUME Registers, reply' = [d \in Calls |-> reply'[d]],
           UNCHANGED <<call, tasks, joined, result, media, held, stored>>
    PROVE  Registers'
<1>1. BlockTypes'
    BY DEF Registers, BlockTypes
<1>2. ASSUME NEW d \in Calls
      PROVE  IF call[d] = None THEN Unasked(d)'
             ELSE /\ CutAsAsked(d)' /\ Observed(d)' /\ Gathered(d)'
                  /\ \A j \in 1 .. Len(tasks[d]) : Accomplished(d, j)'
                  /\ stored[d] \subseteq Span(call[d])
    <2>1. CASE call[d] = None
        BY <2>1 DEF Registers, Unasked
    <2>2. CASE call[d] # None
        <3>1. /\ CutAsAsked(d) /\ Observed(d) /\ Gathered(d)
              /\ \A j \in 1 .. Len(tasks[d]) : Accomplished(d, j)
              /\ stored[d] \subseteq Span(call[d])
            BY <2>2 DEF Registers
        <3>2. CutAsAsked(d)' /\ Observed(d)' /\ Gathered(d)'
            BY <3>1 DEF CutAsAsked, Observed, Gathered
        <3>3. \A j \in 1 .. Len(tasks[d]) : Accomplished(d, j)'
            BY <3>1 DEF Accomplished, Span, Cut
        <3> QED
            BY <2>2, <3>1, <3>2, <3>3
    <2> QED
        BY <2>1, <2>2
<1> QED
    BY <1>1, <1>2 DEF Registers, Span

(* A call gathers what the next task has, or gives up. *)
LEMMA RegistersJoin ==
    ASSUME Registers, NEW c \in Calls, Join(c)
    PROVE  Registers' /\ (B!Fail(c) \/ UNCHANGED B!vars)
<1> DEFINE k == joined[c] + 1
           t == tasks[c][k]
<1>1. /\ call[c] # None /\ reply[c] = None /\ joined[c] < Len(tasks[c])
      /\ UNCHANGED <<call, tasks, media, held, stored>>
    BY DEF Join, Awaiting, mediumVars
<1>2. /\ call \in [Calls -> Requests \cup {None}] /\ tasks[c] \in Seq(TaskType)
      /\ joined \in [Calls -> Nat] /\ result \in [Calls -> Seq(Value)]
      /\ reply = [d \in Calls |-> reply[d]]
    BY DEF Registers, BlockTypes
<1>3. k \in DOMAIN tasks[c]
    BY <1>1, <1>2, LenProperties
<1>4. /\ k \in 1 .. Len(tasks[c]) /\ t \in TaskType /\ call[c] \in Requests
      /\ Observed(c) /\ Accomplished(c, k) /\ Cuts(call[c])
      /\ k \in 1 .. Rounds(call[c].count) /\ t.cdb = Chunks(call[c])[k]
    BY <1>3, TaskOfCall
<1>5. CutAsAsked(c) /\ Gathered(c)
    BY <1>1 DEF Registers
<1>6. CASE /\ t.at = "ok" /\ UNCHANGED reply
           /\ joined' = [joined EXCEPT ![c] = @ + 1]
           /\ result' = [result EXCEPT ![c] = @ \o t.data]
    <2> DEFINE size == t.cdb.count
               res == result[c] \o t.data
    <2>1. /\ joined' \in [Calls -> Nat] /\ joined'[c] = k
          /\ \A d \in Calls : d # c => joined'[d] = joined[d]
        BY <1>2, <1>6
    <2>2. result[c] \in Seq(Value) /\ t.data \in Seq(Value)
        BY <1>2, <1>4 DEF TaskType
    <2>3. /\ res \in Seq(Value) /\ Len(res) = Len(result[c]) + Len(t.data)
          /\ \A i \in 1 .. Len(res) :
                res[i] = IF i <= Len(result[c]) THEN result[c][i] ELSE t.data[i - Len(result[c])]
        BY <2>2, ConcatProperties
    <2>4. result' = [result EXCEPT ![c] = res]
        BY <1>6
    <2> HIDE DEF res, t, k
    <2>5. /\ result' \in [Calls -> Seq(Value)] /\ result'[c] = res
          /\ \A d \in Calls : d # c => result'[d] = result[d]
        BY <1>2, <2>3, <2>4
    <2>6. BlockTypes'
        BY <1>1, <1>6, <2>1, <2>5 DEF Registers, BlockTypes
    <2> USE DEF k, t
    <2>7. Gathered(c)'
        <3>1. \A j \in 1 .. k : tasks[c][j].at = "ok"
            BY <1>2, <1>5, <1>6 DEF Gathered
        <3>2. CASE call[c].op = "read"
            <4>1. /\ Cut(k) \in Nat /\ size \in Nat
                  /\ Lesser((k - 1) * MaxBlocks, call[c].count) = Cut(k)
                  /\ Lesser(k * MaxBlocks, call[c].count) = Cut(k) + size
                BY <1>4, ChunkOf
            <4>2. /\ Len(result[c]) = Lesser(joined[c] * MaxBlocks, call[c].count)
                  /\ \A i \in 1 .. Len(result[c]) : result[c][i] \in held[c][i]
                BY <1>5, <3>2 DEF Gathered
            <4>3. Len(result[c]) = Cut(k)
                <5>1. k - 1 = joined[c]
                    BY <1>2
                <5> QED
                    BY <4>1, <4>2, <5>1
            <4>4. Len(t.data) = size /\ \A i \in 1 .. size : t.data[i] \in held[c][Cut(k) + i]
                BY <1>4, <1>6, <3>2 DEF Accomplished
            <4> HIDE DEF size, t, k
            <4>5. Len(res) = Lesser(k * MaxBlocks, call[c].count)
                BY <2>3, <4>1, <4>3, <4>4
            <4>6. ASSUME NEW i \in 1 .. Len(res) PROVE res[i] \in held[c][i]
                <5>1. CASE i <= Cut(k)
                    BY <2>3, <4>1, <4>2, <4>3, <5>1
                <5>2. CASE ~(i <= Cut(k))
                    <6>1. i - Cut(k) \in 1 .. size /\ Cut(k) + (i - Cut(k)) = i
                        BY <2>3, <4>1, <4>3, <4>4, <5>2
                    <6>2. t.data[i - Cut(k)] \in held[c][Cut(k) + (i - Cut(k))]
                        BY <4>4, <6>1
                    <6> QED
                        BY <2>3, <4>3, <5>2, <6>1, <6>2
                <5> QED
                    BY <5>1, <5>2
            <4> QED
                BY <1>1, <1>4, <2>1, <2>5, <3>1, <3>2, <4>5, <4>6 DEF Gathered, Lesser, MaxBlocks
        <3>3. CASE call[c].op # "read"
            <4>1. result[c] = <<>> /\ t.data = <<>>
                BY <1>4, <1>5, <3>3 DEF Gathered, Accomplished
            <4>2. res = <<>>
                BY <4>1 DEF res
            <4> QED
                BY <1>1, <1>4, <2>1, <2>5, <3>1, <3>3, <4>2 DEF Gathered
        <3> QED
            BY <3>2, <3>3
    <2>8. ASSUME NEW d \in Calls
          PROVE  IF call[d] = None THEN Unasked(d)'
                 ELSE /\ CutAsAsked(d)' /\ Observed(d)' /\ Gathered(d)'
                      /\ \A j \in 1 .. Len(tasks[d]) : Accomplished(d, j)'
                      /\ stored[d] \subseteq Span(call[d])
        <3>1. CASE call[d] = None
            BY <1>1, <2>1, <2>5, <3>1 DEF Registers, Unasked
        <3>2. CASE call[d] # None
            <4>1. /\ CutAsAsked(d) /\ Observed(d) /\ Gathered(d)
                  /\ \A j \in 1 .. Len(tasks[d]) : Accomplished(d, j)
                  /\ stored[d] \subseteq Span(call[d])
                BY <3>2 DEF Registers
            <4>2. CutAsAsked(d)' /\ Observed(d)'
                BY <1>1, <4>1 DEF CutAsAsked, Observed
            <4>3. Gathered(d)'
                BY <1>1, <2>1, <2>5, <2>7, <4>1 DEF Gathered
            <4>4. \A j \in 1 .. Len(tasks[d]) : Accomplished(d, j)'
                BY <1>1, <4>1 DEF Accomplished, Span, Cut
            <4> QED
                BY <3>2, <4>1, <4>2, <4>3, <4>4
        <3> QED
            BY <3>1, <3>2
    <2>9. Registers'
        BY <1>1, <2>6, <2>8 DEF Registers, Span
    <2>10. UNCHANGED B!vars
        BY <1>1, <1>6 DEF B!vars
    <2> QED
        BY <2>9, <2>10
<1>7. CASE /\ reply' = [reply EXCEPT ![c] = [ok |-> FALSE, data |-> <<>>]]
           /\ UNCHANGED <<joined, result>>
    <2>1. Registers'
        BY <1>1, <1>2, <1>7, RegistersReply
    <2>2. B!Fail(c)
        BY <1>1, <1>7 DEF B!Fail, B!Error
    <2> QED
        BY <2>1, <2>2
<1> QED
    BY <1>6, <1>7 DEF Join

(* A call returns with a value of each of its blocks, or with all stored. *)
LEMMA RegistersReturn ==
    ASSUME Registers, NEW c \in Calls, Return(c)
    PROVE  Registers' /\ (B!Read(c) \/ B!Written(c))
<1>1. /\ call[c] # None /\ reply[c] = None /\ Cuts(call[c]) /\ joined[c] = Len(tasks[c])
      /\ reply' = [reply EXCEPT ![c] = [ok |-> TRUE, data |-> result[c]]]
      /\ UNCHANGED <<call, tasks, joined, result, media, held, stored>>
    BY DEF Return, Awaiting, mediumVars
<1>2. /\ call \in [Calls -> Requests \cup {None}] /\ tasks[c] \in Seq(TaskType)
      /\ result[c] \in Seq(Value) /\ held[c] \in Seq(SUBSET Value)
      /\ reply = [d \in Calls |-> reply[d]]
    BY DEF Registers, BlockTypes
<1>3. Registers'
    BY <1>1, <1>2, RegistersReply
<1>4. /\ CutAsAsked(c) /\ Observed(c) /\ Gathered(c) /\ stored[c] \subseteq Span(call[c])
      /\ \A k \in 1 .. Len(tasks[c]) : Accomplished(c, k)
    BY <1>1 DEF Registers
<1>5. /\ call[c] \in Requests /\ call[c].lba \in Nat /\ call[c].count \in Nat
      /\ call[c].op \in {"read", "write"}
    BY <1>1, <1>2
<1>6. Len(tasks[c]) = Rounds(call[c].count)
    BY <1>1, <1>4 DEF CutAsAsked
<1>7. CASE call[c].op = "read"
    <2> DEFINE data == result[c]
               seen == UNION {held[c][i] : i \in DOMAIN held[c]}
    <2>1. Len(data) = call[c].count /\ \A i \in 1 .. call[c].count : data[i] \in held[c][i]
        BY <1>1, <1>4, <1>5, <1>6, <1>7, AllCut DEF Gathered
    <2>2. DOMAIN data = 1 .. call[c].count /\ DOMAIN held[c] = 1 .. call[c].count
        BY <1>2, <1>4, <2>1, LenProperties DEF Observed
    <2>3. data = [i \in 1 .. call[c].count |-> data[i]]
        BY <1>2, <2>1, SequenceFunction
    <2>4. \A i \in 1 .. call[c].count : data[i] \in seen
        BY <2>1, <2>2
    <2> HIDE DEF data, seen
    <2>5. data \in [1 .. call[c].count -> seen]
        BY <2>3, <2>4
    <2>6. reply' = [reply EXCEPT ![c] = B!Ok(data)]
        BY <1>1 DEF B!Ok, data
    <2>7. B!Read(c)
        BY <1>1, <1>7, <2>1, <2>2, <2>5, <2>6 DEF B!Read, B!Pending, seen
    <2> QED
        BY <1>3, <2>7
<1>8. CASE call[c].op = "write"
    <2>1. ASSUME NEW b \in Span(call[c]) PROVE b \in stored[c]
        <3> DEFINE i == b - call[c].lba
        <3>1. i \in 0 .. call[c].count - 1 /\ b = call[c].lba + i
            BY <1>5 DEF Span
        <3> HIDE DEF i
        <3>2. PICK k \in 1 .. Rounds(call[c].count) :
                 Cut(k) <= i /\ i < Cut(k) + Chunks(call[c])[k].count
            BY <1>1, <1>5, <3>1, ChunksCover
        <3> DEFINE size == Chunks(call[c])[k].count
        <3>3. /\ Cut(k) \in Nat /\ size \in Nat
              /\ Chunks(call[c])[k] = [lba |-> call[c].lba + Cut(k), count |-> size]
            BY <1>1, <1>5, ChunkOf
        <3>4. tasks[c][k].cdb = [lba |-> call[c].lba + Cut(k), count |-> size]
            BY <1>4, <1>6, <3>3 DEF CutAsAsked
        <3>5. tasks[c][k].at = "ok"
            BY <1>1, <1>4, <1>6 DEF Gathered
        <3>6. Span(tasks[c][k].cdb) \subseteq stored[c]
            BY <1>4, <1>6, <1>8, <3>5 DEF Accomplished
        <3>7. Cut(k) <= i /\ i < Cut(k) + size
            BY <3>2
        <3> HIDE DEF size
        <3>8. b \in Span(tasks[c][k].cdb)
            BY <1>5, <3>1, <3>3, <3>4, <3>7 DEF Span
        <3> QED
            BY <3>6, <3>8
    <2>2. stored[c] = B!Span(call[c])
        BY <1>4, <2>1 DEF Span, B!Span
    <2>3. result[c] = <<>>
        BY <1>4, <1>8 DEF Gathered
    <2>4. B!Written(c)
        BY <1>1, <1>8, <2>2, <2>3 DEF B!Written, B!Pending, B!Ok
    <2> QED
        BY <1>3, <2>4
<1> QED
    BY <1>5, <1>7, <1>8

(***************************************************************************)
(* Every step is one of module Blocks or leaves its variables alone.       *)
(***************************************************************************)
LEMMA RegistersNext ==
    ASSUME ShortReads = FALSE, Registers, [Next]_vars
    PROVE  Registers' /\ [B!Next]_B!vars
<1>1. CASE UNCHANGED <<callVars, tasks, mediumVars>>
    <2>1. Registers'
        BY <1>1, RegistersReply DEF callVars, Registers, BlockTypes, mediumVars
    <2>2. UNCHANGED B!vars
        BY <1>1 DEF callVars, mediumVars, B!vars
    <2> QED
        BY <2>1, <2>2
<1>2. ASSUME NEW c \in Calls, Ask(c) \/ Join(c) \/ Return(c)
      PROVE  Registers' /\ [B!Next]_B!vars
    <2>1. CASE Ask(c)
        BY <2>1, RegistersAsk DEF B!Next
    <2>2. CASE Join(c)
        BY <2>2, RegistersJoin DEF B!Next
    <2>3. CASE Return(c)
        BY <2>3, RegistersReturn DEF B!Next
    <2> QED
        BY <1>2, <2>1, <2>2, <2>3
<1>3. ASSUME NEW c \in Calls, NEW k \in DOMAIN tasks[c], TaskStep(c, k)
      PROVE  Registers' /\ [B!Next]_B!vars
    <2>1. UNCHANGED <<callVars, mediumVars>>
        BY <1>3 DEF TaskStep, Submit, SubmitFails, TimeOut, ReadGood, WriteGood,
                    CheckCondition, OtherStatus
    <2>2. UNCHANGED B!vars
        BY <2>1 DEF callVars, mediumVars, B!vars
    <2> QED
        BY <1>3, <2>2, RegistersTaskSteps
<1>4. ASSUME NEW c \in Calls, NEW k \in DOMAIN tasks[c], Store(c, k)
      PROVE  Registers' /\ [B!Next]_B!vars
    BY <1>4, RegistersStore DEF B!Next
<1>5. CASE ReadCapacity10 \/ ReadCapacity16
    BY <1>1, <1>5 DEF ReadCapacity10, ReadCapacity16
<1>6. CASE UNCHANGED vars
    BY <1>1, <1>6 DEF vars
<1> QED
    BY <1>2, <1>3, <1>4, <1>5, <1>6 DEF Next

(* However a range is cut into chunks, in whatever order the target executes  *)
(* them and whichever of them fails, calls read and write blocks as module    *)
(* Blocks promises, when a GOOD read brings all the blocks that it asked for  *)
(* (the code does not look: a short one moves all the data that follows).     *)
THEOREM PipelineImplementsBlocks ==
    ASSUME ShortReads = FALSE
    PROVE  Spec => ImplementsBlocks
<1>1. Init => B!Init
    BY DEF Init, B!Init, Block, B!Block
<1>2. Init => Registers
    BY RegistersInit
<1>3. Registers /\ [Next]_vars => Registers' /\ [B!Next]_B!vars
    BY RegistersNext
<1> QED
    BY <1>1, <1>2, <1>3, PTL DEF Spec, ImplementsBlocks, B!Spec
=============================================================================
