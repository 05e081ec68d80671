------------------------------- MODULE MCAdapters -------------------------------
(***************************************************************************)
(* An instance of Adapters for TLC.                                        *)
(***************************************************************************)
EXTENDS Adapters, MCArchilFs, MCWorkspace

Interchangeable == Permutations(Prewarms) \cup Permutations(Creates) \cup Permutations(Seeds)
=============================================================================
