--------------------------- MODULE MCRsyncProgress ---------------------------
(* A transfer of which rsync shows two percentages: with 900K and with 2M. *)
EXTENDS RsyncProgress

MCPercentages == {40, 70}
MCDataAt == [p \in MCPercentages |-> IF p = 40 THEN [val |-> 9000, unit |-> 3]
                                               ELSE [val |-> 20, unit |-> 6]]
MCCounts == {0, 12}
MCExitCodes == {0, 23}
=============================================================================
