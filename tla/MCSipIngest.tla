----------------------------- MODULE MCSipIngest -----------------------------
(***************************************************************************)
(* A small instance of SipIngest: minutes of 4 ticks, seconds of 2.  In    *)
(* the first minute come two quotes of one second, in either order, and    *)
(* one of another symbol; then the minute's bar; in the second minute one  *)
(* more quote, then its bar.                                               *)
(***************************************************************************)
EXTENDS SipIngest, TLC

CONSTANTS bar, next, quote, again, fresh, other, momentum, revised

MCEvents == {bar, next, quote, again, fresh, other}
MCSymbolOf == [e \in MCEvents |-> IF e = other THEN "MSFT" ELSE "AAPL"]
MCKindOf == [e \in MCEvents |-> IF e \in {bar, next} THEN "bar" ELSE "quote"]
MCTsOf == quote :> 2 @@ again :> 3 @@ other :> 2 @@ bar :> 0 @@ fresh :> 6 @@ next :> 4
MCArrivesAt == quote :> 3 @@ again :> 3 @@ other :> 3 @@ bar :> 4 @@ fresh :> 6 @@ next :> 8
MCStrategyOf == [v \in {momentum, revised} |-> "alpha"]
MCSymbolsOf == [v \in {momentum, revised} |-> {"AAPL"}]
MCNeedsOf == momentum :> {"minute_return", "volume"} @@ revised :> {"nbbo_midpoint"}
=============================================================================
