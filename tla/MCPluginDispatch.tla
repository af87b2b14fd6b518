-------------------------- MODULE MCPluginDispatch --------------------------
(* PluginDispatch for TLC; request threads are interchangeable.             *)
EXTENDS PluginDispatch, TLC

Symmetry == Permutations(Threads)
=============================================================================
