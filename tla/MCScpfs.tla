------------------------------ MODULE MCScpfs ------------------------------
(***************************************************************************)
(* Values for the constants of Scpfs.                                      *)
(***************************************************************************)
EXTENDS ScpfsClaims, TLC

CONSTANTS pa, pb, a1

\* Clients of pa write one block value, those of pb zeros; the server starts
\* with a file at pa only.
MCBlocksOf == [p \in Paths |-> IF p = pa THEN {a1} ELSE {Zero}]
MCRemoteInit == [p \in Paths |-> IF p = pa THEN {<<a1>>} ELSE {None}]

\* Zeros only, where the contents do not matter; a server that may or may not
\* have each file.
MCZeroBlocks == [p \in Paths |-> {Zero}]
MCMaybeRemote == [p \in Paths |-> {None} \cup {[k \in 1..MaxLen |-> x] : x \in BlocksOf[p]}]

\* Handles are interchangeable in every safety property.
HandleSymmetry == Permutations(Handles)
=============================================================================
