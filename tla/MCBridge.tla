------------------------------ MODULE MCBridge ------------------------------
(* Instances of BridgeLifecycle for TLC: callers are interchangeable, which the *)
(* runs without a liveness property use.                                        *)
EXTENDS BridgeLifecycle, TLC

CallerSymmetry == Permutations(Callers)
==============================================================================
