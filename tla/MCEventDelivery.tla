--------------------------- MODULE MCEventDelivery ---------------------------
(***************************************************************************)
(* A small instance of EventDelivery: quotes taken at 2 and 3 in the       *)
(* minute that starts at 1; the bar of that minute, stored when it is over *)
(* but carrying its start; and a quote of a symbol the client did not ask  *)
(* for, which uses up a sequence number.  Clients share nothing but the    *)
(* ledger, so one is enough.                                               *)
(***************************************************************************)
EXTENDS EventDelivery, TLC

CONSTANTS quote, later, bar, other, client

MCEvents == {quote, later, bar, other}
MCSymbolOf == quote :> "AAPL" @@ later :> "AAPL" @@ bar :> "AAPL" @@ other :> "MSFT"
MCTsOf == quote :> 2 @@ later :> 3 @@ bar :> 1 @@ other :> 2
MCWants == client :> {"AAPL"}
=============================================================================
