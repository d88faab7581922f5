-------------------------- MODULE MCReportStorage --------------------------
(***************************************************************************)
(* Model-checking instances of ReportStorage.                              *)
(***************************************************************************)
EXTENDS ReportStorage

CONSTANTS w1, w2, p1, p2

\* two writer goroutines in two db-writer replicas
MCProcOfTwoProcs == [w \in Writers |-> IF w = w1 THEN p1 ELSE p2]
\* two writer goroutines (consumer partitions) in one process
MCProcOfOneProc == [w \in Writers |-> p1]

=============================================================================
