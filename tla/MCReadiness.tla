----------------------------- MODULE MCReadiness -----------------------------
(* A small instance of Readiness: two symbols, one strategy, one principal.  *)
EXTENDS Readiness, TLC

CONSTANTS AAPL, MSFT

MCSymbols == {AAPL, MSFT}
MCDefinitions == {{AAPL}}

\* The histories moved and blindFor are read by no action and by none of the
\* properties of the run that uses this view.
MCView == <<registryVars, pc, symbols, seen, beat, timer, connectedAt, sock,
            authAt, deadline, crashes, asked, carried, req, deadFor>>
=============================================================================
