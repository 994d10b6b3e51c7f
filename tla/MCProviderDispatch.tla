------------------------- MODULE MCProviderDispatch -------------------------
(***************************************************************************)
(* Instances of ProviderDispatch for TLC.  Dispatchers are interchangeable.*)
(***************************************************************************)
EXTENDS ProviderDispatch, TLC

DispatcherSymmetry == Permutations(Dispatchers)
=============================================================================
