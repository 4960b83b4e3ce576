----------------------------- MODULE MCProcTable -----------------------------
(* ProcTable on three or four clients.  Clients are interchangeable within  *)
(* a transport.                                                             *)
EXTENDS ProcTable, TLC

CONSTANTS c1, c2, c3

TcpSymmetry == Permutations(Clients \ ShmClients)
=============================================================================
