---------------------------- MODULE Negotiation ----------------------------
(***************************************************************************)
(* The operational parameters of a login                                   *)
(* (crates/iscsi-lib/src/iscsi/login.rs, NegotiatedParams).  Parameters    *)
(* are a function from the names of the keys, and MaxSend for the limit    *)
(* the target declares; a text maps the keys it has to values.  Numbers    *)
(* stand for themselves in a text; Reject is any value that is no number   *)
(* and none of the words that flags and digests have.                      *)
(***************************************************************************)
EXTENDS Integers

CONSTANT Reject

ASSUME NegotiationAssumption == Reject \notin Nat \cup {"CRC32C", "None", "Yes", "No"}

Digests == {"HeaderDigest", "DataDigest"}
InOrder == {"DataPDUInOrder", "DataSequenceInOrder"}
Flags   == InOrder \cup {"InitialR2T", "ImmediateData"}
Minima  == {"MaxBurstLength", "FirstBurstLength", "MaxOutstandingR2T", "MaxConnections",
            "ErrorRecoveryLevel"}
Times   == {"DefaultTime2Wait", "DefaultTime2Retain"}
MaxRecv == "MaxRecvDataSegmentLength"
MaxSend == "max_send_data_segment_length"

Numbers == Minima \cup Times \cup {MaxRecv}
Keys    == Digests \cup Flags \cup Numbers

\* Flags and digests are on or off, what else is negotiated is a number.
IsParams(p) ==
    /\ DOMAIN p = Keys \cup {MaxSend}
    /\ \A k \in DOMAIN p : p[k] \in (IF k \in Digests \cup Flags THEN BOOLEAN ELSE Nat)

Lesser(a, b)  == IF a <= b THEN a ELSE b
Greater(a, b) == IF a <= b THEN b ELSE a

\* build_operational_text_from.
Value(k, v) ==
    IF k \in Digests THEN (IF v THEN "CRC32C" ELSE "None")
    ELSE IF k \in Flags THEN (IF v THEN "Yes" ELSE "No")
    ELSE v

Text(params) == [k \in Keys |-> Value(k, params[k])]

\* apply_target_response: the texts it does not accept,
Unusable(text) ==
    \E k \in DOMAIN text :
        \/ k \in Digests /\ text[k] \notin {"CRC32C", "None"}
        \/ k \in Numbers /\ text[k] = Reject

\* Fault: every flag is a conjunction.
ResultAllAnd(k, ours, value) ==
    IF k \in Minima THEN Lesser(ours, value)
    ELSE IF k \in Digests THEN value = "CRC32C"
    ELSE IF k \in Flags THEN ours /\ value = "Yes"
    ELSE value

\* and what becomes of a parameter when the target answers with a value.
Result(k, ours, value) ==
    IF k \in Minima THEN Lesser(ours, value)
    ELSE IF k \in Digests THEN value = "CRC32C"
    ELSE IF k = "InitialR2T" THEN ours \/ value = "Yes"
    ELSE IF k = "ImmediateData" THEN ours /\ value = "Yes"
    ELSE IF k \in InOrder THEN value = "Yes"
    ELSE value

Applied(params, text) ==
    [k \in DOMAIN params |->
        IF k = MaxSend THEN (IF MaxRecv \in DOMAIN text THEN text[MaxRecv] ELSE params[k])
        ELSE IF k \in DOMAIN text \ {MaxRecv} THEN Result(k, params[k], text[k])
        ELSE params[k]]

\* External: the result functions of RFC 7143, for an initiator's value and a
\* target's.  MaxRecvDataSegmentLength is declared by each side for itself.
Agreed(k, ours, theirs) ==
    IF k \in Minima \cup {"DefaultTime2Retain"} THEN Lesser(ours, theirs)
    ELSE IF k = "DefaultTime2Wait" THEN Greater(ours, theirs)
    ELSE IF k \in InOrder \cup {"InitialR2T"} THEN ours \/ theirs
    ELSE ours /\ theirs
=============================================================================
