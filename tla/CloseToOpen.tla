---------------------------- MODULE CloseToOpen ----------------------------
(***************************************************************************)
(* What a mount promises to clients that open a file one at a time:        *)
(* opening a file gives the client a private copy of what the store holds, *)
(* and closing it publishes the copy, at once and in one step.             *)
(***************************************************************************)
EXTENDS Content

CONSTANTS Paths, Handles, None,
          MaxLen  \* bound: blocks in a file

VARIABLES store,  \* path -> contents, None when there is no such file
          copy,   \* handle -> its private copy, None when it is closed
          on      \* handle -> the path it has open

Init == /\ store \in [Paths -> Seq(Block) \cup {None}]
        /\ copy = [h \in Handles |-> None]
        /\ on = [h \in Handles |-> None]

Private(p) == \A g \in Handles : on[g] # p

Open(h, p) ==
  /\ copy[h] = None /\ Private(p) /\ store[p] # None
  /\ copy' = [copy EXCEPT ![h] = store[p]]
  /\ on' = [on EXCEPT ![h] = p]
  /\ UNCHANGED store

Create(h, p) ==
  /\ copy[h] = None /\ Private(p) /\ store[p] = None
  /\ copy' = [copy EXCEPT ![h] = <<>>]
  /\ on' = [on EXCEPT ![h] = p]
  /\ UNCHANGED store

Modify(h, c) ==
  /\ copy[h] # None
  /\ copy' = [copy EXCEPT ![h] = c]
  /\ UNCHANGED <<store, on>>
Write(h) == \E k \in 0..MaxLen - 1, b \in Block : Modify(h, WriteAt(copy[h], k, b))
SetSize(h) == \E n \in 0..MaxLen : Modify(h, Resize(copy[h], n))

Close(h) ==
  /\ copy[h] # None
  /\ store' = [store EXCEPT ![on[h]] = copy[h]]
  /\ copy' = [copy EXCEPT ![h] = None]
  /\ on' = [on EXCEPT ![h] = None]

Next == \E h \in Handles :
  (\E p \in Paths : Open(h, p) \/ Create(h, p)) \/ Write(h) \/ SetSize(h) \/ Close(h)

Spec == Init /\ [][Next]_<<store, copy, on>>
=============================================================================
