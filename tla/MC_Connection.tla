--------------------------- MODULE MC_Connection ---------------------------
(***************************************************************************)
(* Parameters for small connections.                                       *)
(***************************************************************************)
EXTENDS Connection

\* Flags and digests all on or off; bursts, segments and times are small numbers.
Offer(digests, r2tFirst, immediate, recv, first, times) ==
    [k \in Keys \cup {MaxSend} |->
        IF k \in Digests THEN digests
        ELSE IF k = "InitialR2T" THEN r2tFirst
        ELSE IF k = "ImmediateData" THEN immediate
        ELSE IF k \in InOrder THEN TRUE
        ELSE IF k \in {MaxRecv, MaxSend} THEN recv
        ELSE IF k = "FirstBurstLength" THEN first
        ELSE IF k \in Times THEN times
        ELSE 2]

OurConfigs   == {Offer(TRUE, FALSE, TRUE, 2, 2, 2), Offer(FALSE, FALSE, TRUE, 2, 2, 2)}
TheirConfigs == {Offer(TRUE, TRUE, TRUE, 2, 1, 3), Offer(TRUE, FALSE, FALSE, 1, 1, 1),
                 Offer(TRUE, FALSE, TRUE, 2, 2, 1), Offer(FALSE, FALSE, TRUE, 2, 2, 2)}
SmallSegment == {Offer(TRUE, FALSE, TRUE, 1, 2, 2)}
=============================================================================
