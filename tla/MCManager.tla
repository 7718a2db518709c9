----------------------------- MODULE MCManager -----------------------------
(***************************************************************************)
(* Small instances of Manager for TLC.                                     *)
(***************************************************************************)
EXTENDS Manager, TLC

\* Queue ids, workers, Start calls and Shutdown calls are interchangeable.
MCSymmetry ==
    Permutations(Calls) \union Permutations(Workers)
        \union Permutations(Starts) \union Permutations(Shutdowns)
=============================================================================
