--------------------------- MODULE MCChainWatcher ---------------------------
(* Instances of ChainWatcher for TLC.                                        *)
EXTENDS ChainWatcher
=============================================================================
