------------------------------ MODULE Readiness ------------------------------
(***************************************************************************)
(* GET /ready of the API process (api.py, _readiness and _runtime_is_ready) *)
(* composed with the SIP owner: three reads at three moments (the clock    *)
(* with the strategies, the leases, the runtime row) between which the     *)
(* owner, other requests and the clock move on.                            *)
(***************************************************************************)
EXTENDS SipOwner

VARIABLES
  req,      \* [at, symbols, elapsed]: the request being answered
  deadFor,  \* history: ticks since an owner process last lived
  blindFor  \* history: ticks since a stream was last subscribed and connected

readyVars == <<sipVars, req, deadFor, blindFor>>

\* leases, row: before that read.  ready, not_ready: between two requests,
\* after the answer of the last one.
Resting == {"ready", "not_ready"}
ReqStages == {"leases", "row"} \cup Resting

Answered(answer) == [at |-> answer, symbols |-> {}, elapsed |-> 0]

ReadyTypeOK ==
  /\ SipTypeOK
  /\ req \in [at : ReqStages, symbols : SUBSET Symbols, elapsed : 0..MaxDelay]
  /\ deadFor \in 0..MaxAge
  /\ blindFor \in 0..MaxAge

ReadyInit ==
  /\ SipInit
  /\ req = Answered("not_ready")
  /\ deadFor = 0
  /\ blindFor = 0

\* The two histories are reset by whatever makes them false.
Witnessed ==
  /\ deadFor' = IF pc' # "down" THEN 0 ELSE deadFor
  /\ blindFor' = IF sock' = "open" THEN 0 ELSE blindFor

-----------------------------------------------------------------------------
\* self.clock(), then the first read of active_market_symbols.
ReadyStrategies ==
  /\ req.at \in Resting
  /\ req' = [at |-> "leases", symbols |-> StrategySymbols, elapsed |-> 0]
  /\ UNCHANGED <<sipVars, deadFor, blindFor>>

ReadyLeases ==
  /\ req.at = "leases"
  /\ req' = [req EXCEPT !.at = "row", !.symbols = @ \cup LeasedSymbols(req.elapsed)]
  /\ UNCHANGED <<sipVars, deadFor, blindFor>>

ReadyAnswer ==
  /\ req.at = "row"
  /\ req' = Answered(IF RuntimeIsReady(req.symbols, req.elapsed)
                     THEN "ready" ELSE "not_ready")
  /\ UNCHANGED <<sipVars, deadFor, blindFor>>

Older(n) == IF n < MaxAge THEN n + 1 ELSE n

\* One tick for everybody: a request in progress is at most MaxDelay old.
Tick ==
  /\ OwnerTick
  /\ req.at \notin Resting => req.elapsed < MaxDelay
  /\ req' = IF req.at \in Resting THEN req ELSE [req EXCEPT !.elapsed = @ + 1]
  /\ deadFor' = IF pc = "down" THEN Older(deadFor) ELSE 0
  /\ blindFor' = IF sock = "open" THEN 0 ELSE Older(blindFor)

OwnerMoves == SipStep /\ Witnessed /\ UNCHANGED req

ReadyNext == OwnerMoves \/ ReadyStrategies \/ ReadyLeases \/ ReadyAnswer
             \/ Tick

ReadySpec == ReadyInit /\ [][ReadyNext]_readyVars

-----------------------------------------------------------------------------
AnswersReady == req.at = "row" /\ req'.at = "ready"

\* A 200 of /ready is given only for a symbol set, all of it and nothing else,
\* that this owner has asked the provider for and has an answer about, and while
\* its connection carries no other symbol: never on the strength of a connection
\* attempt, or of the subscription before a change of leases or strategies.  That
\* the answer granted them is not said: the owner does not look at it.
\* (api.py:131-164, run_sip_owner.py:82-130, market_data.py:155-161)
ReadyOnlyWhenAnswered ==
  [][AnswersReady => /\ req.symbols # {}
                     /\ req.symbols = asked
                     /\ carried \subseteq req.symbols]_readyVars

\* A dead owner is not reported ready for longer than the 90 s window: at the
\* moment the request read its clock, a process had lived within ReadyTicks.
DeadOwnerIsNoticed ==
  [][AnswersReady => deadFor - req.elapsed <= ReadyTicks]_readyVars

\* README.md: "/ready proves that ... the single SIP owner are currently
\* ready".  An owner whose socket has been gone for longer than the window in
\* which a heartbeat counts receives nothing and cannot be ready.
BlindOwnerIsNoticed ==
  [][AnswersReady => blindFor - req.elapsed <= ReadyTicks]_readyVars
=============================================================================
