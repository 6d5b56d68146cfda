---------------------------- MODULE MCSaabCanTx ----------------------------
(***************************************************************************)
(* Two sending threads and the receive handler on a pool of two blocks.    *)
(***************************************************************************)
EXTENDS SaabCanTx

CONSTANTS nodeStatus, cdcStatus, can

MCThreads == {nodeStatus, cdcStatus}
MCPool == <<"b1", "b2">>
MCSends == [c \in MCThreads \cup {can} |-> IF c = nodeStatus THEN 1 ELSE 2]
=============================================================================
