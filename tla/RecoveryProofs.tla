--------------------------- MODULE RecoveryProofs ---------------------------
(***************************************************************************)
(* The keepalive for every interval and timeout: how late it may be        *)
(* (Bounded), how early (Quiet), and when what it takes for an answer is   *)
(* one (Fresh).  Each says where idle time stands in every place of the    *)
(* loop; Typed is common to the three.                                     *)
(***************************************************************************)
EXTENDS Recovery, FiniteSetTheorems, TLAPS

USE RecoveryAssumption DEF RecoveryAssumption

Typed ==
    /\ task \in {"sleep", "send", "poll"}
    /\ timer \in Nat /\ left \in Nat /\ idle \in Nat
    /\ alive \in BOOLEAN
    /\ task = "sleep" => timer <= Interval
    /\ task = "send" => timer = 0
    /\ task = "poll" => timer <= 1 /\ left <= Timeout /\ timer <= left

Longer == Max2(Interval, Timeout)

\* How long the session can have been idle, while it is not suspected.
Bounded ==
    ~Suspects =>
        /\ task = "sleep" => idle < Interval - timer + Longer
        /\ task = "send" => idle < Interval + Longer
        /\ task = "poll" => idle < Timeout - left + Interval + Longer

\* Nothing has come for an interval and since the NOP-Out, or something has come
\* that the next poll sees.
Quiet ==
    /\ task = "send" => idle = 0 \/ idle >= Interval
    /\ task = "poll" => idle <= 1 - timer \/ idle >= Interval + Timeout - left

\* Idle time is that before the NOP-Out, and too long, or that since.
Fresh ==
    /\ task = "send" => idle = 0 \/ idle >= Timeout
    /\ task = "poll" => idle <= Timeout - left \/ idle >= Timeout

LEMMA TypedInit == Init => Typed
BY DEF Init, Typed

LEMMA TypedNext == Typed /\ [Next]_vars => Typed'
<1> SUFFICES ASSUME Typed, [Next]_vars PROVE Typed'
    OBVIOUS
<1> USE DEF Typed
<1>1. CASE Wake
    BY <1>1 DEF Wake, Sleep
<1>2. CASE SendNopOut
    BY <1>2 DEF SendNopOut
<1>3. CASE SendFails
    BY <1>3 DEF SendFails, Sleep
<1>4. CASE Poll
    BY <1>4 DEF Poll, Answered, Sleep
<1>5. CASE Receive
    BY <1>5 DEF Receive, keepaliveVars
<1>6. CASE FallSilent
    <2>1. alive' \in BOOLEAN
        BY <1>6, Zenon DEF FallSilent
    <2>2. UNCHANGED <<task, timer, left, idle>>
        BY <1>6 DEF FallSilent, keepaliveVars
    <2> QED
        BY <2>1, <2>2
<1>7. CASE Tick
    BY <1>7 DEF Tick, Max2, Min2
<1>8. CASE Queue \/ UNCHANGED vars
    BY <1>8 DEF Queue, Push, Expire, FailAll, Drain, keepaliveVars, vars
<1> QED
    BY <1>1, <1>2, <1>3, <1>4, <1>5, <1>6, <1>7, <1>8 DEF Next, Keepalive

----------------------------------------------------------------------------
(* How late *)

LEMMA LongerBounds == Longer \in Nat /\ Longer >= Interval /\ Longer >= Timeout
BY DEF Longer, Max2

LEMMA BoundedNext ==
    ASSUME Stalls = FALSE, Typed, Bounded, [Next]_vars
    PROVE  Bounded'
<1> USE LongerBounds DEF Typed, Bounded, Suspects
<1>1. CASE Wake
    BY <1>1 DEF Wake, Sleep
<1>2. CASE SendNopOut
    BY <1>2 DEF SendNopOut
<1>3. CASE SendFails
    BY <1>3 DEF SendFails, Sleep
<1>4. CASE Poll
    BY <1>4 DEF Poll, Answered, Sleep
<1>5. CASE Receive
    BY <1>5 DEF Receive, keepaliveVars
<1>6. CASE FallSilent
    BY <1>6 DEF FallSilent, keepaliveVars
<1>7. CASE Tick
    BY <1>7 DEF Tick, Max2, Min2
<1>8. CASE Queue \/ UNCHANGED vars
    BY <1>8 DEF Queue, Push, Expire, FailAll, Drain, keepaliveVars, vars
<1> QED
    BY <1>1, <1>2, <1>3, <1>4, <1>5, <1>6, <1>7, <1>8 DEF Next, Keepalive

(* However the silence lies to the rounds of spawn_keepalive, it is        *)
(* noticed within two of the longer period and one of the other, provided  *)
(* the writer's lock is there when it is wanted.                           *)
THEOREM SilenceNoticed ==
    ASSUME Stalls = FALSE
    PROVE  Spec => []DetectionBounded
<1>1. Init => Typed /\ Bounded
    BY TypedInit, LongerBounds DEF Init, Bounded
<1>2. Typed /\ Bounded /\ [Next]_vars => (Typed /\ Bounded)'
    BY TypedNext, BoundedNext
<1>3. Typed /\ Bounded => DetectionBounded
    BY LongerBounds DEF Typed, Bounded, DetectionBounded, Longer
<1> QED
    BY <1>1, <1>2, <1>3, PTL DEF Spec

----------------------------------------------------------------------------
(* How early *)

LEMMA QuietNext ==
    ASSUME Timeout > 1, Interval + Timeout <= Horizon, Stalls = FALSE,
           Typed, Quiet, [Next]_vars
    PROVE  Quiet'
<1> USE DEF Typed, Quiet
<1>1. CASE Wake
    BY <1>1 DEF Wake, Sleep
<1>2. CASE SendNopOut
    BY <1>2 DEF SendNopOut
<1>3. CASE SendFails
    BY <1>3 DEF SendFails, Sleep
<1>4. CASE Poll
    BY <1>4 DEF Poll, Answered, Sleep
<1>5. CASE Receive
    BY <1>5 DEF Receive, keepaliveVars
<1>6. CASE FallSilent
    BY <1>6 DEF FallSilent, keepaliveVars
<1>7. CASE Tick
    BY <1>7 DEF Tick, Max2, Min2
<1>8. CASE Queue \/ UNCHANGED vars
    BY <1>8 DEF Queue, Push, Expire, FailAll, Drain, keepaliveVars, vars
<1> QED
    BY <1>1, <1>2, <1>3, <1>4, <1>5, <1>6, <1>7, <1>8 DEF Next, Keepalive

LEMMA EarnedStep ==
    ASSUME Timeout > 1, Typed, Quiet, [Next]_vars,
           task = "poll", task' = "sleep", verdict' = "noReply"
    PROVE  idle >= Interval + Timeout
<1>1. Poll
    BY DEF Next, Keepalive, Wake, SendNopOut, SendFails, Receive, FallSilent, Tick, Queue,
           Push, Expire, FailAll, Drain, keepaliveVars, vars
<1> QED
    BY <1>1 DEF Poll, Answered, Sleep, Typed, Quiet

(* Whatever the peer sends and whenever, a round of spawn_keepalive reports *)
(* a missing answer only after an interval and a timeout of silence, if     *)
(* noop_timeout is two polls or more and the writer's lock is there when it *)
(* is wanted.                                                               *)
THEOREM SuspicionIsEarned ==
    ASSUME Timeout > 1, Interval + Timeout <= Horizon, Stalls = FALSE
    PROVE  Spec => SuspicionEarned
<1>1. Init => Typed /\ Quiet
    BY TypedInit DEF Init, Quiet
<1>2. Typed /\ Quiet /\ [Next]_vars => (Typed /\ Quiet)'
    BY TypedNext, QuietNext
<1>3. Typed /\ Quiet /\ [Next]_vars =>
        [(task = "poll" /\ task' = "sleep" /\ verdict' = "noReply") =>
             idle >= Interval + Timeout]_vars
    BY EarnedStep
<1> QED
    BY <1>1, <1>2, <1>3, PTL DEF Spec, SuspicionEarned

----------------------------------------------------------------------------
(* Answers that are answers *)

LEMMA FreshNext ==
    ASSUME Timeout <= Interval, Timeout <= Horizon, Stalls = FALSE,
           Typed, Fresh, [Next]_vars
    PROVE  Fresh'
<1> USE DEF Typed, Fresh
<1>1. CASE Wake
    BY <1>1 DEF Wake, Sleep
<1>2. CASE SendNopOut
    BY <1>2 DEF SendNopOut
<1>3. CASE SendFails
    BY <1>3 DEF SendFails, Sleep
<1>4. CASE Poll
    BY <1>4 DEF Poll, Answered, Sleep
<1>5. CASE Receive
    BY <1>5 DEF Receive, keepaliveVars
<1>6. CASE FallSilent
    BY <1>6 DEF FallSilent, keepaliveVars
<1>7. CASE Tick
    BY <1>7 DEF Tick, Max2, Min2
<1>8. CASE Queue \/ UNCHANGED vars
    BY <1>8 DEF Queue, Push, Expire, FailAll, Drain, keepaliveVars, vars
<1> QED
    BY <1>1, <1>2, <1>3, <1>4, <1>5, <1>6, <1>7, <1>8 DEF Next, Keepalive

(* With noop_timeout no longer than noop_interval, as in the defaults, the *)
(* loop never takes a PDU that came before the NOP-Out for its answer.     *)
THEOREM AnswersAreReal ==
    ASSUME Timeout <= Interval, Timeout <= Horizon, Stalls = FALSE
    PROVE  Spec => []RepliesReal
<1>1. Init => Typed /\ Fresh
    BY TypedInit DEF Init, Fresh
<1>2. Typed /\ Fresh /\ [Next]_vars => (Typed /\ Fresh)'
    BY TypedNext, FreshNext
<1>3. Typed /\ Fresh => RepliesReal
    BY DEF Typed, Fresh, RepliesReal, Answered
<1> QED
    BY <1>1, <1>2, <1>3, PTL DEF Spec

----------------------------------------------------------------------------
(* The pending queue *)

\* A command is at one position of the queue at most, and at one if it has been
\* queued and neither failed nor handed over.
Accounted ==
    /\ DOMAIN fate = Pending
    /\ commands \in Seq([cmd : Pending, age : Nat])
    /\ \A i, j \in DOMAIN commands : commands[i].cmd = commands[j].cmd => i = j
    /\ \A c \in Pending : fate[c] = "queued" <=> \E i \in DOMAIN commands : commands[i].cmd = c

LEMMA ElementOf ==
    ASSUME NEW S, NEW s \in Seq(S), NEW i \in DOMAIN s
    PROVE  s[i] \in S
OBVIOUS

LEMMA SequenceOf ==
    ASSUME NEW S, NEW n \in Nat, NEW s, s = [i \in 1 .. n |-> s[i]],
           \A i \in 1 .. n : s[i] \in S
    PROVE  s \in Seq(S)
OBVIOUS

(* The positions in a set have the ranks 1, 2, ... up to their number.     *)
LEMMA Ranks ==
    ASSUME NEW n \in Nat, NEW keep \in SUBSET (1 .. n)
    PROVE  LET rank(i) == Cardinality({j \in keep : j <= i})
           IN  /\ Cardinality(keep) \in Nat
               /\ \A i \in keep : rank(i) \in 1 .. Cardinality(keep)
               /\ \A i, j \in keep : rank(i) = rank(j) => i = j
               /\ \A k \in 1 .. Cardinality(keep) : \E i \in keep : rank(i) = k
<1> DEFINE upTo == [i \in keep |-> {j \in keep : j <= i}]
           before == [i \in keep |-> upTo[i] \ {i}]
           rank == [i \in keep |-> Cardinality(upTo[i])]
           N == Cardinality(keep)
<1>1. IsFiniteSet(keep) /\ N \in Nat
    <2>1. IsFiniteSet(1 .. n)
        BY FS_Interval
    <2> QED
        BY <2>1, FS_Subset, FS_CardinalityType
<1>2. \A k \in keep : k \in Int
    OBVIOUS
<1>3. ASSUME NEW i \in keep
      PROVE  /\ upTo[i] \in SUBSET keep /\ i \in upTo[i]
             /\ before[i] = upTo[i] \ {i}
             /\ rank[i] = Cardinality(upTo[i])
    BY <1>2
<1>4. ASSUME NEW i \in keep, NEW j \in keep, i < j PROVE upTo[i] \in SUBSET before[j]
    <2> SUFFICES ASSUME NEW k \in upTo[i] PROVE k \in before[j]
        OBVIOUS
    <2>1. k \in keep /\ k <= i
        OBVIOUS
    <2>2. k <= j /\ k # j
        BY <1>2, <1>4, <2>1
    <2> QED
        BY <2>1, <2>2
<1>5. rank = [i \in keep |-> rank[i]]
    OBVIOUS
<1> HIDE DEF upTo, before, rank
<1>6. ASSUME NEW i \in keep
      PROVE  /\ rank[i] \in 1 .. N
             /\ IsFiniteSet(before[i]) /\ rank[i] = Cardinality(before[i]) + 1
    <2>1. IsFiniteSet(upTo[i]) /\ rank[i] <= N
        BY <1>1, <1>3, FS_Subset
    <2>2. IsFiniteSet(before[i]) /\ Cardinality(before[i]) = rank[i] - 1
        BY <1>3, <2>1, FS_RemoveElement
    <2>3. rank[i] \in Nat /\ Cardinality(before[i]) \in Nat
        BY <1>3, <2>1, <2>2, FS_CardinalityType
    <2> QED
        BY <1>1, <2>1, <2>2, <2>3
<1> HIDE DEF N
<1>7. \A i \in keep : rank[i] \in 1 .. N
    BY <1>6
<1>8. ASSUME NEW i \in keep, NEW j \in keep, i < j PROVE rank[i] < rank[j]
    <2>1. rank[i] <= Cardinality(before[j])
        <3>1. upTo[i] \in SUBSET before[j] /\ IsFiniteSet(before[j])
            BY <1>4, <1>6, <1>8
        <3>2. Cardinality(upTo[i]) <= Cardinality(before[j])
            BY <3>1, FS_Subset
        <3> QED
            BY <1>3, <3>2
    <2>2. Cardinality(before[j]) + 1 = rank[j] /\ rank[i] \in Int /\ rank[j] \in Int
        BY <1>6, <1>7
    <2>3. Cardinality(before[j]) \in Int
        BY <1>6, FS_CardinalityType
    <2> QED
        BY <2>1, <2>2, <2>3
<1>9. \A i, j \in keep : rank[i] = rank[j] => i = j
    <2> SUFFICES ASSUME NEW i \in keep, NEW j \in keep, rank[i] = rank[j], i # j PROVE FALSE
        OBVIOUS
    <2>1. i < j \/ j < i
        BY <1>2
    <2>2. rank[i] \in Int
        BY <1>7
    <2>3. rank[i] < rank[i]
        BY <1>8, <2>1
    <2> QED
        BY <2>2, <2>3
<1>10. rank \in Injection(keep, 1 .. N)
    BY <1>5, <1>7, <1>9 DEF Injection, IsInjective
<1>11. IsFiniteSet(1 .. N) /\ Cardinality(1 .. N) = N
    BY <1>1, FS_Interval DEF N
<1>12. rank \in Surjection(keep, 1 .. N)
    BY <1>10, <1>11, FS_Injection DEF N
<1>13. \A k \in 1 .. N : \E i \in keep : rank[i] = k
    BY <1>12 DEF Surjection
<1>14. N \in Nat /\ \A i \in keep : rank[i] = Cardinality({j \in keep : j <= i})
    BY <1>1 DEF N, rank, upTo
<1> QED
    BY <1>7, <1>9, <1>13, <1>14 DEF N

(* What is retained is what is at the positions kept, once each.           *)
LEMMA RetainedOnce ==
    ASSUME Accounted, NEW keep \in SUBSET DOMAIN commands
    PROVE  LET s == Retained(keep)
           IN  /\ DOMAIN s = 1 .. Cardinality(keep) /\ Cardinality(keep) \in Nat
               /\ \A k \in DOMAIN s : \E i \in keep : s[k] = commands[i]
               /\ \A i \in keep : \E k \in DOMAIN s : s[k] = commands[i]
               /\ \A k, l \in DOMAIN s : s[k].cmd = s[l].cmd => k = l
<1> DEFINE rank(i) == Cardinality({j \in keep : j <= i})
           N == Cardinality(keep)
           at(k) == CHOOSE i \in keep : rank(i) = k
           s == Retained(keep)
<1>1. keep \in SUBSET (1 .. Len(commands)) /\ Len(commands) \in Nat
    BY DEF Accounted
<1>2. /\ N \in Nat
      /\ \A i \in keep : rank(i) \in 1 .. N
      /\ \A i, j \in keep : rank(i) = rank(j) => i = j
      /\ \A k \in 1 .. N : \E i \in keep : rank(i) = k
    BY <1>1, Ranks
<1>3. s = [k \in 1 .. N |-> commands[at(k)]]
    BY DEF Retained
<1> HIDE DEF rank, N, s
<1>4. \A k \in 1 .. N : at(k) \in keep /\ rank(at(k)) = k
    BY <1>2
<1>5. \A i \in keep : at(rank(i)) = i
    BY <1>2, <1>4
<1> HIDE DEF at
<1>6. \A k \in DOMAIN s : \E i \in keep : s[k] = commands[i]
    BY <1>3, <1>4
<1>7. \A i \in keep : \E k \in DOMAIN s : s[k] = commands[i]
    BY <1>2, <1>3, <1>5
<1>8. \A k, l \in DOMAIN s : s[k].cmd = s[l].cmd => k = l
    <2> SUFFICES ASSUME NEW k \in 1 .. N, NEW l \in 1 .. N, s[k].cmd = s[l].cmd PROVE k = l
        BY <1>3
    <2>1. at(k) \in keep /\ at(l) \in keep /\ s[k] = commands[at(k)] /\ s[l] = commands[at(l)]
        BY <1>3, <1>4
    <2>2. at(k) = at(l)
        BY <2>1 DEF Accounted
    <2> QED
        BY <1>4, <2>2
<1> QED
    BY <1>2, <1>3, <1>6, <1>7, <1>8 DEF N, s

LEMMA AccountedInit == Init => Accounted
BY DEF Init, Accounted

LEMMA AccountedPush ==
    ASSUME Accounted, NEW c \in Pending, Push(c)
    PROVE  Accounted'
<1>1. /\ fate[c] = "new" /\ commands' = Append(commands, [cmd |-> c, age |-> 0])
      /\ fate' = [fate EXCEPT ![c] = "queued"]
    BY DEF Push
<1>2. /\ DOMAIN commands' = 1 .. Len(commands) + 1 /\ Len(commands') = Len(commands) + 1
      /\ commands'[Len(commands) + 1] = [cmd |-> c, age |-> 0]
      /\ \A i \in DOMAIN commands : commands'[i] = commands[i] /\ i \in DOMAIN commands'
      /\ \A i \in DOMAIN commands' : i = Len(commands) + 1 \/ i \in DOMAIN commands
      /\ Len(commands) + 1 \notin DOMAIN commands
    BY <1>1 DEF Accounted
<1>3. \A i \in DOMAIN commands : commands[i].cmd # c
    BY <1>1 DEF Accounted
<1>4. Len(commands) + 1 \in DOMAIN commands' /\ commands'[Len(commands) + 1].cmd = c
    BY <1>2 DEF Accounted
<1>5. \A d \in Pending : fate'[d] = IF d = c THEN "queued" ELSE fate[d]
    BY <1>1 DEF Accounted
<1>6. DOMAIN fate' = Pending
    BY <1>1 DEF Accounted
<1>7. commands' \in Seq([cmd : Pending, age : Nat])
    BY <1>1 DEF Accounted
<1>8. \A i, j \in DOMAIN commands' : commands'[i].cmd = commands'[j].cmd => i = j
    BY <1>2, <1>3, <1>4 DEF Accounted
<1>9. \A d \in Pending : fate'[d] = "queued" <=> \E i \in DOMAIN commands' : commands'[i].cmd = d
    BY <1>2, <1>4, <1>5 DEF Accounted
<1> QED
    BY <1>6, <1>7, <1>8, <1>9 DEF Accounted

LEMMA AccountedExpire ==
    ASSUME Accounted, Expire
    PROVE  Accounted'
<1> DEFINE keep == Unexpired
           gone == {e \in Entries : Expired(e)}
<1>1. /\ commands' = Retained(keep)
      /\ fate' = [c \in Pending |-> IF \E e \in gone : e.cmd = c THEN "failed" ELSE fate[c]]
    BY DEF Expire, Leave
<1>2. keep \in SUBSET DOMAIN commands
    BY DEF Unexpired
<1>3. /\ DOMAIN commands' = 1 .. Cardinality(keep) /\ Cardinality(keep) \in Nat
      /\ \A k \in DOMAIN commands' : \E i \in keep : commands'[k] = commands[i]
      /\ \A i \in keep : \E k \in DOMAIN commands' : commands'[k] = commands[i]
      /\ \A k, l \in DOMAIN commands' : commands'[k].cmd = commands'[l].cmd => k = l
    BY <1>1, <1>2, RetainedOnce
<1>4. \A i \in DOMAIN commands : i \in keep \/ commands[i] \in gone
    BY DEF Unexpired, Entries
<1>5. \A e \in gone : \E i \in DOMAIN commands : commands[i] = e /\ i \notin keep
    BY DEF Unexpired, Entries
<1> HIDE DEF keep, gone
<1>7. \A c \in Pending : fate'[c] = "queued" <=> \E i \in keep : commands[i].cmd = c
    <2> SUFFICES ASSUME NEW c \in Pending
                 PROVE  fate'[c] = "queued" <=> \E i \in keep : commands[i].cmd = c
        OBVIOUS
    <2>1. CASE \E e \in gone : e.cmd = c
        BY <1>1, <1>2, <1>5, <2>1 DEF Accounted
    <2>2. CASE ~(\E e \in gone : e.cmd = c)
        BY <1>1, <1>2, <1>4, <2>2 DEF Accounted
    <2> QED
        BY <2>1, <2>2
<1>8. commands' \in Seq([cmd : Pending, age : Nat])
    <2> DEFINE S == [cmd : Pending, age : Nat]
               n == Cardinality(keep)
    <2>1. commands \in Seq(S)
        BY DEF Accounted
    <2>2. commands' = [k \in 1 .. n |-> commands'[k]]
        BY <1>1 DEF Retained
    <2>3. \A i \in DOMAIN commands : commands[i] \in S
        BY <2>1, ElementOf
    <2> HIDE DEF S, n
    <2>4. \A k \in 1 .. n : commands'[k] \in S
        BY <1>2, <1>3, <2>3 DEF n
    <2>5. commands' \in Seq(S)
        BY <1>3, <2>2, <2>4, SequenceOf DEF n
    <2> QED
        BY <2>5 DEF S
<1>9. \A c \in Pending : fate'[c] = "queued" <=> \E k \in DOMAIN commands' : commands'[k].cmd = c
    BY <1>3, <1>7
<1> QED
    BY <1>1, <1>3, <1>8, <1>9 DEF Accounted

LEMMA AccountedEmptied ==
    ASSUME Accounted, commands' = <<>>, NEW how \in {"failed", "resubmitted"}, Leave(Entries, how)
    PROVE  Accounted'
<1>1. fate' = [c \in Pending |-> IF \E e \in Entries : e.cmd = c THEN how ELSE fate[c]]
    BY DEF Leave
<1>2. \A c \in Pending : fate'[c] # "queued"
    BY <1>1 DEF Entries, Accounted
<1> QED
    BY <1>1, <1>2 DEF Accounted

LEMMA AccountedNext ==
    ASSUME Accounted, [Next]_vars
    PROVE  Accounted'
<1>1. CASE Tick
    <2>1. /\ commands' = [i \in DOMAIN commands |->
                             [commands[i] EXCEPT !.age = Min2(@ + 1, Replacement)]]
          /\ fate' = fate
        BY <1>1 DEF Tick
    <2> DEFINE S == [cmd : Pending, age : Nat]
    <2>2. commands \in Seq(S) /\ \A i \in DOMAIN commands : commands[i] \in S
        BY ElementOf DEF Accounted
    <2>3. ASSUME NEW i \in DOMAIN commands
          PROVE  commands'[i] \in S /\ commands'[i].cmd = commands[i].cmd
        <3>1. commands'[i] = [commands[i] EXCEPT !.age = Min2(@ + 1, Replacement)]
            BY <2>1
        <3>2. Min2(commands[i].age + 1, Replacement) \in Nat
            BY <2>2 DEF Min2
        <3> QED
            BY <2>2, <3>1, <3>2
    <2> HIDE DEF S
    <2> DEFINE n == Len(commands)
    <2>4. DOMAIN commands = 1 .. n /\ n \in Nat
        BY <2>2
    <2>5. commands' = [i \in 1 .. n |-> commands'[i]]
        BY <2>1, <2>4, Zenon
    <2>6. DOMAIN commands' = DOMAIN commands
        BY <2>1
    <2>7. \A i \in 1 .. n : commands'[i] \in S
        BY <2>3, <2>4
    <2> HIDE DEF n
    <2>8. commands' \in Seq(S)
        BY <2>4, <2>5, <2>7, SequenceOf
    <2>9. \A i \in DOMAIN commands : commands'[i].cmd = commands[i].cmd
        BY <2>3
    <2>10. commands' \in Seq([cmd : Pending, age : Nat])
        BY <2>8 DEF S
    <2>11. /\ \A i, j \in DOMAIN commands' : commands'[i].cmd = commands'[j].cmd => i = j
           /\ \A c \in Pending : fate'[c] = "queued"
                                 <=> \E i \in DOMAIN commands' : commands'[i].cmd = c
        <3>1. /\ \A i, j \in DOMAIN commands : commands[i].cmd = commands[j].cmd => i = j
              /\ \A c \in Pending : fate[c] = "queued"
                                    <=> \E i \in DOMAIN commands : commands[i].cmd = c
            BY Zenon DEF Accounted
        <3>2. fate' = fate
            BY <2>1
        <3> QED
            BY <2>6, <2>9, <3>1, <3>2
    <2> QED
        BY <2>1, <2>10, <2>11 DEF Accounted
<1>2. CASE Queue
    <2>1. CASE \E c \in Pending : Push(c)
        BY <2>1, AccountedPush
    <2>2. CASE Expire
        BY <2>2, AccountedExpire
    <2>3. CASE FailAll \/ Drain
        BY <2>3, AccountedEmptied DEF FailAll, Drain
    <2> QED
        BY <1>2, <2>1, <2>2, <2>3 DEF Queue
<1>3. CASE Keepalive \/ Receive \/ FallSilent \/ UNCHANGED vars
    BY <1>3 DEF Keepalive, Wake, SendNopOut, SendFails, Poll, Receive, FallSilent, queueVars,
                vars, Accounted
<1> QED
    BY <1>1, <1>2, <1>3 DEF Next

(* Pushed, expired, drained and failed in any order, a command is in the   *)
(* queue of PendingQueue once until it is answered or handed over.         *)
THEOREM QueueKeepsAccount == Spec => []QueueAccountsForAll
<1>1. Accounted => QueueAccountsForAll
    <2> SUFFICES ASSUME Accounted, NEW c \in Pending
                 PROVE  Cardinality({i \in DOMAIN commands : commands[i].cmd = c})
                            = IF fate[c] = "queued" THEN 1 ELSE 0
        BY DEF QueueAccountsForAll
    <2>1. CASE fate[c] = "queued"
        <3>1. PICK i \in DOMAIN commands : commands[i].cmd = c
            BY <2>1 DEF Accounted
        <3>2. {j \in DOMAIN commands : commands[j].cmd = c} = {i}
            BY <3>1 DEF Accounted
        <3> QED
            BY <2>1, <3>2, FS_Singleton
    <2>2. CASE fate[c] # "queued"
        <3>1. {j \in DOMAIN commands : commands[j].cmd = c} = {}
            BY <2>2 DEF Accounted
        <3> QED
            BY <2>2, <3>1, FS_EmptySet
    <2> QED
        BY <2>1, <2>2
<1> QED
    BY <1>1, AccountedInit, AccountedNext, PTL DEF Spec
=============================================================================
