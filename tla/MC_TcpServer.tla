--------------------------- MODULE MC_TcpServer ---------------------------
EXTENDS TcpServer, TLC

CONSTANTS c1, c2

(* The silent client's request comes in two segments.                      *)
MCPieces == (c1 :> 2) @@ (c2 :> 1)
=============================================================================
