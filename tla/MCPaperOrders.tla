---------------------------- MODULE MCPaperOrders ----------------------------
(* A small instance of PaperOrders: two threads, two ids, two faults.        *)
EXTENDS PaperOrders
=============================================================================
