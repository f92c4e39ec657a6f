------------------------------ MODULE MCSipOwner ------------------------------
(***************************************************************************)
(* A small instance of SipOwner: a well-formed symbol and one that the     *)
(* runtime contract rejects; a strategy may register either, a lease any   *)
(* set of them.                                                            *)
(***************************************************************************)
EXTENDS SipOwner, TLC

CONSTANTS AAPL, Odd

MCSymbols == {AAPL, Odd}
MCMalformed == {Odd}
MCDefinitions == {{AAPL}, {Odd}}
MCOddDefinitions == {{Odd}}
=============================================================================
