---------------------------- MODULE MCCredentials ----------------------------
(***************************************************************************)
(* A small instance of Credentials: one key, two of the three principals,  *)
(* two strategies, and one caller.                                         *)
(***************************************************************************)
EXTENDS Credentials

MCGrantOf == <<"market-data:write", "paper:write">>
=============================================================================
