-------------------------- MODULE MCScpfsNamespace --------------------------
(***************************************************************************)
(* Values for the constants of ScpfsNamespace.                             *)
(***************************************************************************)
EXTENDS ScpfsNamespace, TLC

\* Each kind of use alone or with those it meets badly.
MCHabits == {{"sharing"}, {"sharing", "hardlinks", "nodes"}, {"sharing", "chmod"},
             {"sharing", "symlinks"}, {"sharing", "subdirs"},
             {"hardlinks", "subdirs"}, {"crash", "subdirs"}, {"crash", "symlinks"}}

\* Open files are interchangeable; names are not, the tree is made of them.
HandleSymmetry == Permutations(Handles)
=============================================================================
