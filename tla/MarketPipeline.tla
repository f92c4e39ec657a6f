---------------------------- MODULE MarketPipeline ----------------------------
(***************************************************************************)
(* The two processes that share the event ledger: the SIP owner of         *)
(* SipIngest, which stores an event in the first of the steps it processes *)
(* it in, and the API of EventDelivery, whose threads read the table       *)
(* between any two of them.  Nothing else is shared: an owner that fails   *)
(* or is killed leaves every connection as it is.                          *)
(***************************************************************************)
EXTENDS SipIngest, EventDelivery

ownerVars == <<coming, frame, sampled, pc, jobVars, features, signals, active, breaks, since>>
pipelineVars == <<ledger, ownerVars, clientVars>>

PipelineInit == IngestInit /\ DeliveryInit

PipelineNext ==
  \/ IngestNext /\ UNCHANGED clientVars
  \/ ClientStep /\ UNCHANGED ownerVars

PipelineSpec == PipelineInit /\ [][PipelineNext]_pipelineVars /\ DeliveryFairness

-----------------------------------------------------------------------------
\* README.md:91, from the provider to the clients: whenever a client processes a
\* quote for the first time, all quotes of that symbol it has processed are of
\* earlier seconds, through restarts of the owner, replays and lost connections.
\* (run_sip_owner.py:30-42, api.py:597-646)
QuotesReachInOrder ==
  [][\A c \in Clients : \A i \in got'[c] \ got[c] : \A j \in got[c] :
       LET new == ledger[i]
           old == ledger[j]
       IN  KindOf[new] = "quote" /\ KindOf[old] = "quote" /\ SymbolOf[new] = SymbolOf[old]
           => SecondOf(old) < SecondOf(new)]_pipelineVars
=============================================================================
