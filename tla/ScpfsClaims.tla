---------------------------- MODULE ScpfsClaims ----------------------------
(***************************************************************************)
(* What comments of ulfs/scpfs.cpp and the programs under testing/ say of  *)
(* the data path, where the code does something else.                      *)
(***************************************************************************)
EXTENDS Scpfs

\* scpfs.cpp:360 "Upload the file to remote": when the upload loop of a release
\* has ended, the remote file is what the handle that is released wrote.
UploadsWhatWasWritten ==
  [][\A h \in Handles : At(h, "copyOut") /\ At(h, "closeStream")' =>
       remote[PathOf(h)] = Seen(h)]_vars

\* testing/fileopen.cpp:17 "Check if the file is opened successfully": in a loop
\* that opens for writing, writes and closes, every open succeeds.
ReopenSucceeds ==
  [][\A h \in Handles : handle[h].pc \in {"toOpen", "openLocal", "copyIn", "toTrunc"} =>
       handle'[h].pc \notin {"idle", "queued"}]_vars
=============================================================================
