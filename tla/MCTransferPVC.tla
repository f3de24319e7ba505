---------------------------- MODULE MCTransferPVC ----------------------------
(* Three claims go to one namespace, at the same time.  Two of them have one *)
(* name, in two namespaces; the other is told apart from these.              *)
EXTENDS TransferPVC

MCFromNs == [t \in Transfers |-> IF t = "third" THEN "elsewhere" ELSE "from"]
MCToNs   == [t \in Transfers |-> "to"]
MCSource == [t \in Transfers |-> IF t = "first" THEN "data" ELSE "logs"]
MCTarget == [t \in Transfers |-> IF t = "first" THEN "data"
                                 ELSE IF t = "second" THEN "logs" ELSE "old-logs"]

\* Each endpoint has its host, or the names are so long that it is the same.
Own    == [t \in Transfers |-> t]
Shared == [t \in Transfers |-> "shared"]

\* Two that are told apart, started again if they fail; the two of one name; all
\* three, one of which at a time has the host.
FirstTwo == [t \in Transfers |-> IF t = "third" THEN 0 ELSE 2]
LastTwo  == [t \in Transfers |-> IF t = "first" THEN 0 ELSE 1]
Each     == [t \in Transfers |-> 1]
Case(h, m) == [host |-> h, most |-> m]
MCCases == {Case(Own, FirstTwo), Case(Shared, FirstTwo), Case(Own, LastTwo),
            Case(Shared, Each)}
=============================================================================
