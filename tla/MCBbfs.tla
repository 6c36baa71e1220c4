------------------------------- MODULE MCBbfs -------------------------------
(***************************************************************************)
(* Values for the constants of Bbfs.                                       *)
(***************************************************************************)
EXTENDS Bbfs, TLC

MCHabits == {{"open", "data"}, {"open", "links"}, {"open", "nodes", "fifos"}, {"open", "attrs"},
             {"xattrs"}}
\* Directories are listed while others make and remove them.
MCListers == {{"listing", "nodes"}}

\* Nothing tells threads, or open files, apart.
Symmetry == Permutations(Threads) \cup Permutations(Handles)
=============================================================================
