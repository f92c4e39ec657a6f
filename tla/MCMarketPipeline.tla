--------------------------- MODULE MCMarketPipeline ---------------------------
(***************************************************************************)
(* A small instance of MarketPipeline: quotes of three seconds, the first  *)
(* two stored in either order, and a bar of another symbol, which uses up  *)
(* a sequence number.  No strategies: what is derived from an event does   *)
(* not reach the ledger.  Clients share nothing but the ledger, so one is  *)
(* enough.                                                                 *)
(***************************************************************************)
EXTENDS MarketPipeline, TLC

CONSTANTS quote, later, fresh, bar, client

MCEvents == {quote, later, fresh, bar}
MCSymbolOf == [e \in MCEvents |-> IF e = bar THEN "MSFT" ELSE "AAPL"]
MCKindOf == [e \in MCEvents |-> IF e = bar THEN "bar" ELSE "quote"]
MCTsOf == quote :> 1 @@ later :> 2 @@ bar :> 0 @@ fresh :> 6
MCArrivesAt == quote :> 3 @@ later :> 3 @@ bar :> 4 @@ fresh :> 6
MCWants == client :> {"AAPL"}
NoStrategy == <<>>
=============================================================================
