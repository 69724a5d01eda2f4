-------------------------- MODULE MCChainLifecycle --------------------------
(* Instances of ChainLifecycle.                                            *)
EXTENDS ChainLifecycle, TLC

CONSTANTS c1, c2, u1, u2

(* The node at u2 is one of another chain.                                 *)
MCReports == u1 :> c1 @@ u2 :> c2

MCEpochs == 1..2

(* A request that registers a chain, or brings it back, as active; patches *)
(* and deletes make the other rows.                                        *)
MCBodies == [url : Urls, paused : {FALSE}, deleted : {FALSE}]
=============================================================================
