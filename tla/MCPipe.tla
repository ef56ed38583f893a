------------------------------- MODULE MCPipe -------------------------------
(* Pipe needs no constants but its bound: two peers, two directions.       *)
EXTENDS Pipe
=============================================================================
