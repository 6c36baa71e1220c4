---------------------------- MODULE ScpfsProofs ----------------------------
(***************************************************************************)
(* Proofs about Scpfs for every number of paths, handles, descriptors and  *)
(* threads and every combination of faults.                                *)
(***************************************************************************)
EXTENDS Scpfs, TLAPS

-----------------------------------------------------------------------------
(* The operators on contents.                                              *)

\* A pwrite of a block into a file leaves a file.
LEMMA WriteAtType ==
  ASSUME NEW c \in Seq(Block), NEW k \in Nat, NEW b \in Block
  PROVE  WriteAt(c, k, b) \in Seq(Block)
<1> DEFINE n == IF k < Len(c) THEN Len(c) ELSE k + 1
<1>1. n \in Nat
  OBVIOUS
<1>2. \A i \in 1..n : (IF i = k + 1 THEN b ELSE IF i <= Len(c) THEN c[i] ELSE Zero) \in Block
  BY ZeroIsBlock
<1>3. WriteAt(c, k, b) \in [1..n -> Block]
  BY <1>2 DEF WriteAt
<1> QED
  BY <1>1, <1>3

\* Truncating or extending a file leaves a file.
LEMMA ResizeType ==
  ASSUME NEW c \in Seq(Block), NEW n \in Nat
  PROVE  Resize(c, n) \in Seq(Block)
<1>1. \A i \in 1..n : (IF i <= Len(c) THEN c[i] ELSE Zero) \in Block
  BY ZeroIsBlock
<1> QED
  BY <1>1 DEF Resize

-----------------------------------------------------------------------------
(* Type correctness.  It needs two facts about the control of the model:   *)
(* what the kernel queues are exactly the handles that wait for their      *)
(* release, and a transfer is only under way where there is a remote file. *)

QueueOK ==
  /\ \A i \in 1..Len(queue) : handle[queue[i]].pc = "queued"
  /\ \A i, j \in 1..Len(queue) : queue[i] = queue[j] => i = j

TransferPC == {"openLocal", "copyIn", "openStream", "copyOut", "closeStream", "closeFh",
               "remove"}
HasRemote ==
  \A h \in Handles : handle[h].pc \in TransferPC => remote[PathOf(h)] # None

TInv == TypeOK /\ QueueOK /\ HasRemote

\* A request that has not been made yet has a record too.
LEMMA IdleType == Idle \in HandleType /\ Idle.pc = "idle"
<1>1. <<>> \in Seq(Block)
  OBVIOUS
<1> QED
  BY <1>1 DEF Idle, HandleType, Labels

\* What is left of a handle when fi->fh is closed.
LEMMA RemovingType ==
  ASSUME NEW p \in Paths
  PROVE  LET r == [Idle EXCEPT !.pc = "remove", !.path = p] IN
           r \in HandleType /\ r.pc = "remove" /\ r.path = p
BY IdleType DEF HandleType, Labels, HandlerPC, ReleasePC

\* Nothing is asked yet.
LEMMA TInvInit == Init => TInv
<1> SUFFICES ASSUME Init PROVE TInv
  OBVIOUS
<1>1. remote \in [Paths -> Seq(Block) \cup {None}]
  BY ScpfsAssumption DEF Init
<1>2. handle \in [Handles -> HandleType]
  BY IdleType DEF Init
<1>3. local \in [Paths -> Inodes \cup {None}] /\ data \in [Inodes -> Seq(Block)]
  BY DEF Init
<1>5. fdt \in [Fds -> Inodes \cup {Stdin, None}] /\ session \in {"up", "freed"}
  BY DEF Init
<1>6. queue \in Seq(Handles)
  BY DEF Init
<1>7. \A h \in Handles : handle[h].pc = "idle"
  BY DEF Init, Idle
<1>8. TypeOK
  BY <1>1, <1>2, <1>3, <1>5, <1>6, <1>7 DEF TypeOK, HoldsFh, FhPC
<1>4. QueueOK /\ HasRemote
  BY ScpfsAssumption DEF Init, QueueOK, HasRemote, TransferPC, Idle
<1> QED
  BY <1>8, <1>4 DEF TInv

\* What a step that moves handle h, and no other, has to show.
HandleOK(r) ==
  /\ r \in HandleType
  /\ r.pc # "idle" => r.path \in Paths
  /\ r.pc \in FhPC => r.fh \in Fds
Moved(h) ==
  \E r : /\ HandleOK(r)
         /\ r.pc \in TransferPC => remote'[r.path] # None
         /\ handle' = [handle EXCEPT ![h] = r]
FilesTyped ==
  /\ local \in [Paths -> Inodes \cup {None}]
  /\ data \in [Inodes -> Seq(Block)]
  /\ fdt \in [Fds -> Inodes \cup {Stdin, None}]
RemoteGrows ==
  /\ remote' \in [Paths -> Seq(Block) \cup {None}]
  /\ \A p \in Paths : remote[p] # None => remote'[p] # None

\* Moving one handle that is not queued keeps the invariant.
LEMMA MovedKeeps ==
  ASSUME TInv, NEW h \in Handles, Moved(h), handle[h].pc # "queued",
         queue' = queue, FilesTyped', RemoteGrows, session' \in {"up", "freed"}
  PROVE  TInv'
<1>1. PICK r : /\ HandleOK(r)
               /\ r.pc \in TransferPC => remote'[r.path] # None
               /\ handle' = [handle EXCEPT ![h] = r]
  BY DEF Moved
<1>2. \A g \in Handles : handle'[g] = IF g = h THEN r ELSE handle[g]
  BY <1>1 DEF TInv, TypeOK
<1>3. handle' \in [Handles -> HandleType]
  BY <1>1 DEF TInv, TypeOK, HandleOK
<1>4. TypeOK'
  BY <1>1, <1>2, <1>3 DEF TInv, TypeOK, HandleOK, FilesTyped, RemoteGrows, HoldsFh
<1>5. QueueOK'
  <2>1. \A i \in 1..Len(queue) : queue[i] \in Handles /\ queue[i] # h
    BY DEF TInv, TypeOK, QueueOK
  <2>2. \A i \in 1..Len(queue) : handle'[queue[i]].pc = "queued"
    BY <1>2, <2>1 DEF TInv, QueueOK
  <2> QED
    BY <2>2 DEF TInv, QueueOK
<1>6. HasRemote'
  <2> SUFFICES ASSUME NEW g \in Handles, handle'[g].pc \in TransferPC
               PROVE  remote'[handle'[g].path] # None
    BY DEF HasRemote, PathOf
  <2>1. CASE g = h
    BY <2>1, <1>1, <1>2
  <2>2. CASE g # h
    <3>1. handle[g].pc \in TransferPC /\ handle'[g] = handle[g]
      BY <2>2, <1>2
    <3>2. handle[g].path \in Paths
      BY <3>1 DEF TInv, TypeOK, TransferPC
    <3> QED
      BY <3>1, <3>2 DEF TInv, HasRemote, PathOf, RemoteGrows
  <2> QED
    BY <2>1, <2>2
<1> QED
  BY <1>4, <1>5, <1>6 DEF TInv

\* The two ways most steps move a handle.
LEMMA GotoMoves ==
  ASSUME TypeOK, NEW h \in Handles, NEW l \in Labels, Goto(h, l), handle[h].pc # "idle",
         l \in FhPC => handle[h].fh \in Fds,
         l \in TransferPC => remote'[PathOf(h)] # None
  PROVE  Moved(h)
<1> DEFINE r == [handle[h] EXCEPT !.pc = l]
<1>1. handle[h] \in HandleType /\ handle[h].path \in Paths
  BY DEF TypeOK
<1>2. r \in HandleType /\ r.pc = l /\ r.path = handle[h].path /\ r.fh = handle[h].fh
  BY <1>1 DEF HandleType
<1>3. handle' = [handle EXCEPT ![h] = r]
  BY DEF Goto
<1> QED
  BY <1>1, <1>2, <1>3 DEF Moved, HandleOK, PathOf

\* A request that is answered leaves an idle record.
LEMMA FinishMoves ==
  ASSUME NEW h \in Handles, Finish(h)
  PROVE  Moved(h)
<1>1. HandleOK(Idle) /\ Idle.pc \notin TransferPC
  BY IdleType DEF HandleOK, FhPC, TransferPC
<1> QED
  BY <1>1 DEF Moved, Finish

\* A request whose file was opened goes on with its descriptor.
LEMMA OpenedMoves ==
  ASSUME TypeOK, NEW h \in Handles, NEW f \in Fds, Opened(h, f), handle[h].pc # "idle"
  PROVE  Moved(h)
<1> DEFINE l == IF "trunc" \in handle[h].flags THEN "toTrunc" ELSE "open"
           r == [Idle EXCEPT !.pc = l, !.path = PathOf(h), !.fh = f]
<1>1. handle[h] \in HandleType /\ PathOf(h) \in Paths
  BY DEF TypeOK, PathOf
<1>2. l \in Labels /\ l \notin TransferPC
  BY DEF Labels, WaitingPC, TransferPC
<1>3. r \in HandleType /\ r.pc = l /\ r.path = PathOf(h) /\ r.fh = f
  <2> HIDE DEF l
  <2> QED
    BY <1>1, <1>2, IdleType DEF HandleType
<1>4. handle' = [handle EXCEPT ![h] = r]
  BY DEF Opened
<1> QED
  BY <1>1, <1>2, <1>3, <1>4 DEF Moved, HandleOK

\* The system calls on local files keep their types.
LEMMA OpenFileType ==
  ASSUME TypeOK, NEW p \in Paths, NEW f \in Fds, NEW i \in Inodes, OpenFile(p, f, i)
  PROVE  FilesTyped'
BY DEF TypeOK, OpenFile, FilesTyped

\* A write changes the contents of one inode.
LEMMA WriteFdType ==
  ASSUME TypeOK, NEW f \in Fds, NEW k \in Nat, NEW b \in Block, WriteFd(f, k, b),
         UNCHANGED <<local, fdt>>
  PROVE  FilesTyped'
<1>1. CASE fdt[f] \in Inodes
  <2>1. data[fdt[f]] \in Seq(Block)
    BY <1>1 DEF TypeOK
  <2>2. WriteAt(data[fdt[f]], k, b) \in Seq(Block)
    BY <2>1, WriteAtType
  <2> QED
    BY <1>1, <2>2 DEF TypeOK, WriteFd, FilesTyped
<1>2. CASE fdt[f] \notin Inodes
  BY <1>2 DEF TypeOK, WriteFd, FilesTyped
<1> QED
  BY <1>1, <1>2

\* Inodes nobody names or has open are emptied.
LEMMA ReclaimedType ==
  ASSUME TypeOK, NEW l, NEW t
  PROVE  Reclaimed(l, t) \in [Inodes -> Seq(Block)]
BY DEF TypeOK, Reclaimed

\* Closing keeps the local files well-formed.
LEMMA CloseFdsType ==
  ASSUME TypeOK, NEW F, CloseFds(F), local' = local
  PROVE  FilesTyped'
BY ReclaimedType DEF TypeOK, CloseFds, FilesTyped

\* So does removing a local name.
LEMMA UnlinkType ==
  ASSUME TypeOK, NEW p \in Paths, Unlink(p), fdt' = fdt
  PROVE  FilesTyped'
BY ReclaimedType DEF TypeOK, Unlink, FilesTyped

\* A handler that goes on to its next step changes only its own label.
LEMMA GotoChanges ==
  ASSUME TypeOK, NEW h \in Handles, NEW l \in Labels, Goto(h, l)
  PROVE  /\ handle' \in [Handles -> HandleType]
         /\ \A g \in Handles \ {h} : handle'[g] = handle[g]
         /\ handle'[h].pc = l /\ handle'[h].fh = handle[h].fh
         /\ handle'[h].path = handle[h].path
<1> DEFINE r == [handle[h] EXCEPT !.pc = l]
<1>1. handle[h] \in HandleType
  BY DEF TypeOK
<1>2. r \in HandleType /\ r.pc = l /\ r.fh = handle[h].fh /\ r.path = handle[h].path
  BY <1>1 DEF HandleType
<1>3. handle' = [handle EXCEPT ![h] = r]
  BY DEF Goto
<1> QED
  BY <1>2, <1>3 DEF TypeOK

\* close(2), or an open(2) that fails late, appends its handle to the queue.
LEMMA QueuedKeeps ==
  ASSUME TInv, NEW h \in Handles, handle[h].pc \in {"open", "toTrunc"},
         Goto(h, "queued"), queue' = Append(queue, h), RemoteGrows,
         FilesTyped', session' = session
  PROVE  TInv'
<1>1. handle' \in [Handles -> HandleType] /\ \A g \in Handles \ {h} : handle'[g] = handle[g]
  BY GotoChanges DEF TInv, Labels, WaitingPC
<1>2. handle'[h].pc = "queued" /\ handle'[h].fh = handle[h].fh /\ handle'[h].path = handle[h].path
  BY GotoChanges DEF TInv, Labels, WaitingPC
<1>3. queue' \in Seq(Handles)
  BY DEF TInv, TypeOK
<1>4. TypeOK'
  BY <1>1, <1>2, <1>3 DEF TInv, TypeOK, FilesTyped, RemoteGrows, HoldsFh, FhPC
<1>5. /\ Len(queue') = Len(queue) + 1 /\ queue'[Len(queue) + 1] = h
      /\ \A i \in 1..Len(queue) : queue'[i] = queue[i] /\ queue[i] \in Handles
                                    /\ queue[i] # h
  BY DEF TInv, TypeOK, QueueOK
<1>6. QueueOK'
  BY <1>1, <1>2, <1>5 DEF TInv, TypeOK, QueueOK
<1>7. HasRemote'
  BY <1>1, <1>2 DEF TInv, TypeOK, HasRemote, PathOf, RemoteGrows, TransferPC
<1> QED
  BY <1>4, <1>6, <1>7 DEF TInv

\* A worker takes the oldest RELEASE off the queue.
LEMMA TakeReleaseKeeps ==
  ASSUME TInv, NEW h \in Handles, TakeRelease(h)
  PROVE  TInv'
<1>1. handle' \in [Handles -> HandleType] /\ \A g \in Handles \ {h} : handle'[g] = handle[g]
  BY GotoChanges DEF TInv, TakeRelease, Labels, HandlerPC, ReleasePC
<1>2. queue # <<>> /\ queue \in Seq(Handles) /\ queue[1] = h /\ queue' = Tail(queue)
  BY DEF TInv, TypeOK, TakeRelease
<1>3. handle[h].pc = "queued"
  BY <1>2 DEF TInv, QueueOK
<1>4. handle'[h].pc = "release" /\ handle'[h].fh = handle[h].fh /\ handle'[h].path = handle[h].path
  BY GotoChanges DEF TInv, TakeRelease, Labels, HandlerPC, ReleasePC
<1>a. queue' \in Seq(Handles)
  BY <1>2
<1>b. \A g \in Handles : /\ handle'[g].pc # "idle" => handle'[g].path \in Paths
                         /\ handle'[g].pc \in FhPC => handle'[g].fh \in Fds
  BY <1>1, <1>3, <1>4 DEF TInv, TypeOK, HoldsFh, FhPC
<1>5. TypeOK'
  BY <1>1, <1>a, <1>b DEF TInv, TypeOK, TakeRelease, HoldsFh
<1>6. /\ Len(queue') = Len(queue) - 1
      /\ \A i \in 1..Len(queue') : /\ queue'[i] = queue[i + 1] /\ i + 1 \in 1..Len(queue)
                                    /\ queue'[i] \in Handles /\ queue'[i] # h
  BY <1>2 DEF TInv, QueueOK
<1>7. QueueOK'
  <2>1. ASSUME NEW i \in 1..Len(queue') PROVE handle'[queue'[i]].pc = "queued"
    BY <1>1, <1>6 DEF TInv, QueueOK
  <2>2. ASSUME NEW i \in 1..Len(queue'), NEW j \in 1..Len(queue'), queue'[i] = queue'[j]
        PROVE  i = j
    <3>1. i + 1 = j + 1
      BY <1>6, <2>2 DEF TInv, QueueOK
    <3> QED
      BY <3>1
  <2> QED
    BY <2>1, <2>2 DEF QueueOK
<1>8. HasRemote'
  BY <1>1, <1>4 DEF TInv, TypeOK, HasRemote, PathOf, TakeRelease, TransferPC
<1> QED
  BY <1>5, <1>7, <1>8 DEF TInv

\* A step of a copy loop changes the offsets and the buffer of its handle only.
LEMMA BufferMoves ==
  ASSUME TypeOK, NEW h \in Handles, NEW r, handle' = [handle EXCEPT ![h] = r],
         r \in HandleType, r.pc = handle[h].pc, r.path = handle[h].path,
         r.fh = handle[h].fh, handle[h].pc # "idle",
         handle[h].pc \in FhPC => handle[h].fh \in Fds,
         handle[h].pc \in TransferPC => remote'[handle[h].path] # None
  PROVE  Moved(h)
BY DEF TypeOK, Moved, HandleOK

\* The records such a step leaves.
LEMMA BufferType ==
  ASSUME NEW r \in HandleType, NEW c \in Seq(Block)
  PROVE  LET s == [r EXCEPT !.buf = c] IN
           s \in HandleType /\ s.pc = r.pc /\ s.path = r.path /\ s.fh = r.fh
BY DEF HandleType

LEMMA PositionType ==
  ASSUME NEW r \in HandleType, NEW k \in Nat, NEW c \in Seq(Block)
  PROVE  LET s == [r EXCEPT !.pos = k, !.buf = c] IN
           s \in HandleType /\ s.pc = r.pc /\ s.path = r.path /\ s.fh = r.fh
BY DEF HandleType

LEMMA WritePositionType ==
  ASSUME NEW r \in HandleType, NEW k \in Nat, NEW c \in Seq(Block)
  PROVE  LET s == [r EXCEPT !.wpos = k, !.buf = c] IN
           s \in HandleType /\ s.pc = r.pc /\ s.path = r.path /\ s.fh = r.fh
BY DEF HandleType

\* A block sent to the server leaves a file where it is written.
LEMMA CopyOutGrows ==
  ASSUME TInv, NEW h \in Handles, CopyOut(h)
  PROVE  RemoteGrows /\ remote'[PathOf(h)] # None
<1> DEFINE b == Head(handle[h].buf)
           c == remote[PathOf(h)]
<1>1. handle[h].pc = "copyOut" /\ PathOf(h) \in Paths /\ c # None /\ c \in Seq(Block)
  BY DEF CopyOut, At, PathOf, TInv, TypeOK, HasRemote, TransferPC
<1>2. handle[h].wpos \in Nat /\ handle[h].buf \in Seq(Block)
  BY DEF TInv, TypeOK, HandleType
<1>3. b \in Block
  BY <1>2 DEF CopyOut
<1>4. WriteAt(c, handle[h].wpos, b) \in Seq(Block) /\ WriteAt(c, handle[h].wpos, b) # None
  <2>1. WriteAt(c, handle[h].wpos, b) \in Seq(Block)
    BY <1>1, <1>2, <1>3, WriteAtType
  <2> QED
    BY <2>1, ScpfsAssumption
<1>5. CASE UNCHANGED remote
  BY <1>1, <1>5 DEF TInv, TypeOK, RemoteGrows
<1>6. CASE remote' = [remote EXCEPT ![PathOf(h)] = WriteAt(c, handle[h].wpos, b)]
  BY <1>1, <1>4, <1>6 DEF TInv, TypeOK, RemoteGrows
<1> QED
  BY <1>5, <1>6 DEF CopyOut

\* Every action keeps the invariant.
LEMMA TInvNext == TInv /\ [Next]_vars => TInv'
<1> SUFFICES ASSUME TInv, [Next]_vars PROVE TInv'
  OBVIOUS
<1> USE DEF PathOf, At
<1>a. TypeOK
  BY DEF TInv
<1>b. \A h \in Handles : handle[h] \in HandleType
  BY DEF TInv, TypeOK
<1>c. \A h \in Handles : handle[h].pc # "idle" => handle[h].path \in Paths
  BY DEF TInv, TypeOK
<1>d. \A h \in Handles : handle[h].pc \in FhPC => handle[h].fh \in Fds
  BY DEF TInv, TypeOK, HoldsFh
<1>e. UNCHANGED remote => RemoteGrows
  BY DEF TInv, TypeOK, RemoteGrows
<1>f. UNCHANGED <<local, data, fdt>> => FilesTyped'
  BY DEF TInv, TypeOK, FilesTyped
<1>g. UNCHANGED session => session' \in {"up", "freed"}
  BY DEF TInv, TypeOK
<1>h. <<>> \in Seq(Block) /\ <<>> # None
  <2>1. <<>> \in Seq(Block)
    OBVIOUS
  <2> QED
    BY <2>1, ScpfsAssumption
<1> USE DEF Labels, HandlerPC, WaitingPC, ReleasePC, FhPC, TransferPC
<1>1. ASSUME NEW h \in Handles, NEW p \in Paths, NEW fl \in SUBSET {"creat", "trunc"},
             Getattr(h, p, fl)
      PROVE  TInv'
  <2>1. Moved(h)
    <3> DEFINE l == IF local[p] # None THEN "lstat" ELSE "rstat"
               r == [Idle EXCEPT !.pc = l, !.path = p, !.flags = fl]
    <3>3. l \in Labels /\ l \in {"lstat", "rstat"}
      OBVIOUS
    <3>1. r \in HandleType /\ r.pc \in {"lstat", "rstat"} /\ r.path = p
      <4> HIDE DEF l
      <4> QED
        BY <3>3, IdleType DEF HandleType
    <3>2. handle' = [handle EXCEPT ![h] = r]
      BY <1>1 DEF Getattr
    <3> QED
      BY <3>1, <3>2 DEF Moved, HandleOK
  <2> QED
    BY <1>1, <2>1, <1>e, <1>f, <1>g, MovedKeeps DEF Getattr
<1>2. ASSUME NEW h \in Handles, GetattrLocal(h) PROVE TInv'
  <2>1. Moved(h)
    BY <1>2, <1>a, GotoMoves, FinishMoves DEF GetattrLocal, Found, NotFound
  <2> QED
    BY <1>2, <2>1, <1>e, <1>f, <1>g, MovedKeeps DEF GetattrLocal
<1>3. ASSUME NEW h \in Handles, GetattrRemote(h) PROVE TInv'
  <2>1. Moved(h)
    BY <1>3, <1>a, GotoMoves, FinishMoves DEF GetattrRemote, Found, NotFound
  <2> QED
    BY <1>3, <2>1, <1>e, <1>f, <1>g, MovedKeeps DEF GetattrRemote
<1>4. ASSUME NEW h \in Handles, OpenRemote(h) PROVE TInv'
  <2>1. Moved(h)
    BY <1>4, <1>a, GotoMoves, FinishMoves, OpenedMoves, ScpfsAssumption DEF OpenRemote
  <2> QED
    BY <1>4, <2>1, <1>e, <1>f, <1>g, MovedKeeps DEF OpenRemote
<1>5. ASSUME NEW h \in Handles, OpenLocal(h) PROVE TInv'
  <2>1. PICK f \in Fds, i \in Inodes :
          /\ OpenFile(handle[h].path, f, i)
          /\ handle' = [handle EXCEPT ![h].pc = "copyIn", ![h].fh = f]
    BY <1>5 DEF OpenLocal
  <2>2. Moved(h)
    <3> DEFINE r == [handle[h] EXCEPT !.pc = "copyIn", !.fh = f]
    <3>1. r \in HandleType /\ r.pc = "copyIn" /\ r.path = handle[h].path /\ r.fh = f
      BY <1>b DEF HandleType
    <3>2. handle' = [handle EXCEPT ![h] = r]
      BY <2>1
    <3>3. remote'[r.path] # None
      BY <1>5, <3>1 DEF OpenLocal, TInv, HasRemote
    <3> QED
      BY <1>5, <1>c, <3>1, <3>2, <3>3 DEF Moved, HandleOK, OpenLocal
  <2>3. FilesTyped'
    BY <1>5, <1>a, <1>c, <2>1, OpenFileType DEF OpenLocal
  <2> QED
    BY <1>5, <2>2, <2>3, <1>e, <1>g, MovedKeeps DEF OpenLocal
<1>6. ASSUME NEW h \in Handles, OpenLocalFails(h) PROVE TInv'
  <2>1. Moved(h)
    BY <1>6, <1>a, GotoMoves DEF OpenLocalFails
  <2> QED
    BY <1>6, <2>1, <1>e, <1>f, <1>g, MovedKeeps DEF OpenLocalFails
<1>25. ASSUME NEW h \in Handles, ReadIn(h) PROVE TInv'
  <2> DEFINE c == remote[handle[h].path]
             k == handle[h].pos
  <2>1. c \in Seq(Block) /\ c # None /\ k \in Nat /\ k < Len(c)
    BY <1>25, <1>b, <1>c DEF ReadIn, TInv, TypeOK, HasRemote, HandleType
  <2>2. <<c[k + 1]>> \in Seq(Block)
    <3>1. c[k + 1] \in Block
      BY <2>1
    <3> QED
      BY <3>1
  <2>3. Moved(h)
    <3> DEFINE r == [handle[h] EXCEPT !.buf = <<c[k + 1]>>]
    <3>1. r \in HandleType /\ r.pc = handle[h].pc /\ r.path = handle[h].path
            /\ r.fh = handle[h].fh
      BY <1>b, <2>1, <2>2, BufferType
    <3>2. handle' = [handle EXCEPT ![h] = r]
      BY <1>25 DEF ReadIn
    <3>3. remote' = remote /\ handle[h].pc = "copyIn"
      BY <1>25 DEF ReadIn
    <3> HIDE DEF r
    <3> QED
      BY <1>a, <1>d, <2>1, <3>1, <3>2, <3>3, BufferMoves
  <2> QED
    BY <1>25, <2>3, <1>e, <1>f, <1>g, MovedKeeps DEF ReadIn
<1>7. ASSUME NEW h \in Handles, CopyIn(h) PROVE TInv'
  <2> DEFINE k == handle[h].pos
  <2>1. k \in Nat /\ Head(handle[h].buf) \in Block
    BY <1>7, <1>b DEF CopyIn, HandleType
  <2>2. FilesTyped'
    BY <1>7, <1>a, <1>d, <2>1, WriteFdType DEF CopyIn
  <2>3. Moved(h)
    <3> DEFINE r == [handle[h] EXCEPT !.pos = k + 1, !.buf = <<>>]
    <3>1. r \in HandleType /\ r.pc = handle[h].pc /\ r.path = handle[h].path
            /\ r.fh = handle[h].fh
      <4>1. handle[h] \in HandleType /\ k + 1 \in Nat
        BY <1>b, <2>1
      <4> QED
        BY <4>1, <1>h, PositionType
    <3>2. handle' = [handle EXCEPT ![h] = r]
      BY <1>7 DEF CopyIn
    <3>3. remote'[handle[h].path] # None /\ handle[h].pc = "copyIn"
      BY <1>7 DEF CopyIn, TInv, HasRemote
    <3> HIDE DEF r
    <3> QED
      BY <1>a, <1>d, <3>1, <3>2, <3>3, BufferMoves
  <2> QED
    BY <1>7, <2>2, <2>3, <1>e, <1>g, MovedKeeps DEF CopyIn
<1>8. ASSUME NEW h \in Handles, CopyInFails(h) PROVE TInv'
  <2>1. handle[h].pos \in Nat /\ Head(handle[h].buf) \in Block
    BY <1>8, <1>b DEF CopyInFails, HandleType
  <2>2. FilesTyped'
    BY <1>8, <1>a, <1>d, <1>f, <2>1, WriteFdType DEF CopyInFails
  <2>3. Moved(h)
    BY <1>8, <1>a, <1>d, GotoMoves DEF CopyInFails
  <2> QED
    BY <1>8, <2>2, <2>3, <1>e, <1>g, MovedKeeps DEF CopyInFails
<1>26. ASSUME NEW h \in Handles, CloseLocal(h) PROVE TInv'
  <2>1. FilesTyped'
    BY <1>26, <1>a, CloseFdsType DEF CloseLocal
  <2>2. Moved(h)
    BY <1>26, <1>a, GotoMoves DEF CloseLocal
  <2> QED
    BY <1>26, <2>1, <2>2, <1>e, <1>g, MovedKeeps DEF CloseLocal
<1>27. ASSUME NEW h \in Handles, FreeSession(h) PROVE TInv'
  <2>1. Moved(h)
    BY <1>27, <1>a, FinishMoves, OpenedMoves, ScpfsAssumption DEF FreeSession
  <2> QED
    BY <1>27, <2>1, <1>e, <1>f, MovedKeeps DEF FreeSession
<1>9. ASSUME NEW h \in Handles, CopiedIn(h) PROVE TInv'
  <2>1. Moved(h)
    BY <1>9, <1>a, <1>d, OpenedMoves DEF CopiedIn
  <2> QED
    BY <1>9, <2>1, <1>e, <1>f, <1>g, MovedKeeps DEF CopiedIn
<1>10. ASSUME NEW h \in Handles, Create(h) PROVE TInv'
  <2>1. CASE Finish(h) /\ UNCHANGED <<local, data, fdt>>
    BY <1>10, <2>1, FinishMoves, <1>e, <1>f, <1>g, MovedKeeps DEF Create
  <2>2. CASE \E f \in Fds, i \in Inodes :
               /\ OpenFile(handle[h].path, f, i)
               /\ handle' = [handle EXCEPT ![h] =
                    [Idle EXCEPT !.pc = "open", !.path = handle[h].path, !.fh = f]]
    <3>1. PICK f \in Fds, i \in Inodes :
            /\ OpenFile(handle[h].path, f, i)
            /\ handle' = [handle EXCEPT ![h] =
                 [Idle EXCEPT !.pc = "open", !.path = handle[h].path, !.fh = f]]
      BY <2>2
    <3>2. handle[h].path \in Paths
      BY <1>10, <1>c DEF Create
    <3>3. FilesTyped'
      BY <1>a, <3>1, <3>2, OpenFileType
    <3>4. Moved(h)
      <4> DEFINE r == [Idle EXCEPT !.pc = "open", !.path = handle[h].path, !.fh = f]
      <4>1. r \in HandleType /\ r.pc = "open" /\ r.path = handle[h].path /\ r.fh = f
        BY <3>2, IdleType DEF HandleType
      <4>2. handle' = [handle EXCEPT ![h] = r]
        BY <3>1
      <4> QED
        BY <3>2, <4>1, <4>2 DEF Moved, HandleOK
    <3> QED
      BY <1>10, <3>3, <3>4, <1>e, <1>g, MovedKeeps DEF Create
  <2> QED
    BY <1>10, <2>1, <2>2 DEF Create
<1>11. ASSUME NEW h \in Handles, Truncate(h) PROVE TInv'
  <2>1. handle[h].path \in Paths /\ handle[h].fh \in Fds
    BY <1>11, <1>c, <1>d DEF Truncate
  <2>2. CASE local[handle[h].path] # None
    <3>1. FilesTyped'
      BY <1>11, <1>h, <2>1, <2>2 DEF Truncate, TInv, TypeOK, FilesTyped
    <3>2. Moved(h)
      BY <1>11, <1>a, <2>1, <2>2, GotoMoves DEF Truncate
    <3> QED
      BY <1>11, <2>2, <3>1, <3>2, <1>e, <1>g, MovedKeeps DEF Truncate
  <2>3. CASE local[handle[h].path] = None
    BY <1>11, <2>3, <1>e, <1>f, QueuedKeeps DEF Truncate
  <2> QED
    BY <2>2, <2>3
<1>12. ASSUME NEW h \in Handles, NEW k \in Nat, NEW b \in Block, Write(h, k, b) PROVE TInv'
  <2>1. FilesTyped'
    BY <1>12, <1>a, <1>d, WriteFdType DEF Write
  <2> QED
    BY <1>12, <2>1 DEF Write, TInv, TypeOK, FilesTyped, QueueOK, HasRemote, HoldsFh
<1>13. ASSUME NEW h \in Handles, NEW n \in Nat, Ftruncate(h, n) PROVE TInv'
  <2>1. data' \in [Inodes -> Seq(Block)]
    BY <1>13, ResizeType DEF Ftruncate, TInv, TypeOK
  <2> QED
    BY <1>13, <2>1 DEF Ftruncate, TInv, TypeOK, QueueOK, HasRemote, HoldsFh
<1>14. ASSUME NEW p \in Paths, NEW n \in Nat, TruncatePath(p, n) PROVE TInv'
  <2>1. data' \in [Inodes -> Seq(Block)]
    BY <1>14, ResizeType DEF TruncatePath, TInv, TypeOK
  <2> QED
    BY <1>14, <2>1 DEF TruncatePath, TInv, TypeOK, QueueOK, HasRemote, HoldsFh
<1>15. ASSUME NEW h \in Handles, Close(h) PROVE TInv'
  BY <1>15, <1>e, <1>f, QueuedKeeps DEF Close
<1>16. ASSUME NEW h \in Handles, TakeRelease(h) PROVE TInv'
  BY <1>16, TakeReleaseKeeps
<1>17. ASSUME NEW h \in Handles, ReleaseOpen(h) PROVE TInv'
  <2>1. handle[h].path \in Paths /\ handle[h].fh \in Fds
    BY <1>17, <1>c, <1>d DEF ReleaseOpen
  <2>2. RemoteGrows /\ remote'[handle[h].path] # None
    BY <1>17, <1>h, <2>1 DEF ReleaseOpen, TInv, TypeOK, RemoteGrows
  <2>3. Moved(h)
    BY <1>17, <1>a, <2>1, <2>2, GotoMoves DEF ReleaseOpen
  <2> QED
    BY <1>17, <2>2, <2>3, <1>f, <1>g, MovedKeeps DEF ReleaseOpen
<1>18. ASSUME NEW h \in Handles, ReleaseOpenFails(h) PROVE TInv'
  BY <1>18, FinishMoves, <1>e, <1>f, <1>g, MovedKeeps DEF ReleaseOpenFails
<1>19. ASSUME NEW h \in Handles, OpenStream(h) PROVE TInv'
  <2>1. handle[h].path \in Paths /\ handle[h].fh \in Fds /\ remote[handle[h].path] # None
    BY <1>19, <1>c, <1>d DEF OpenStream, TInv, HasRemote
  <2>2. CASE Goto(h, "copyOut") /\ UNCHANGED fdt
    <3>1. Moved(h)
      BY <1>19, <1>a, <2>1, <2>2, GotoMoves DEF OpenStream
    <3> QED
      BY <1>19, <2>2, <3>1, <1>e, <1>f, <1>g, MovedKeeps DEF OpenStream
  <2>3. CASE /\ local[handle[h].path] # None
             /\ \E f \in Fds : /\ LowestFd(f)
                               /\ fdt' = [fdt EXCEPT ![f] = local[handle[h].path]]
                               /\ handle' = [handle EXCEPT ![h].pc = "copyOut", ![h].rd = f]
    <3>1. PICK f \in Fds : /\ fdt' = [fdt EXCEPT ![f] = local[handle[h].path]]
                           /\ handle' = [handle EXCEPT ![h].pc = "copyOut", ![h].rd = f]
      BY <2>3
    <3>2. FilesTyped'
      BY <1>19, <2>1, <2>3, <3>1 DEF OpenStream, TInv, TypeOK, FilesTyped
    <3>3. Moved(h)
      <4> DEFINE r == [handle[h] EXCEPT !.pc = "copyOut", !.rd = f]
      <4>1. r \in HandleType /\ r.pc = "copyOut" /\ r.path = handle[h].path
              /\ r.fh = handle[h].fh
        BY <1>b DEF HandleType
      <4>2. handle' = [handle EXCEPT ![h] = r]
        BY <3>1
      <4> QED
        BY <1>19, <2>1, <4>1, <4>2 DEF Moved, HandleOK, OpenStream
    <3> QED
      BY <1>19, <3>2, <3>3, <1>e, <1>g, MovedKeeps DEF OpenStream
  <2> QED
    BY <1>19, <2>2, <2>3 DEF OpenStream
<1>28. ASSUME NEW h \in Handles, ReadOut(h) PROVE TInv'
  <2> DEFINE c == data[fdt[handle[h].rd]]
             k == handle[h].pos
  <2>1. c \in Seq(Block) /\ k \in Nat
    BY <1>28, <1>a, <1>b DEF ReadOut, Unread, TypeOK, HandleType
  <2>2. PICK n \in k + 1..Len(c) :
          handle' = [handle EXCEPT ![h].pos = n, ![h].buf = SubSeq(c, k + 1, n)]
    BY <1>28 DEF ReadOut
  <2>3. n \in Nat /\ SubSeq(c, k + 1, n) \in Seq(Block)
    BY <2>1
  <2>4. Moved(h)
    <3> DEFINE r == [handle[h] EXCEPT !.pos = n, !.buf = SubSeq(c, k + 1, n)]
    <3>1. r \in HandleType /\ r.pc = handle[h].pc /\ r.path = handle[h].path
            /\ r.fh = handle[h].fh
      BY <1>b, <2>3, PositionType
    <3>2. handle' = [handle EXCEPT ![h] = r]
      BY <2>2
    <3>3. remote'[handle[h].path] # None /\ handle[h].pc = "copyOut"
      BY <1>28 DEF ReadOut, TInv, HasRemote
    <3> HIDE DEF r
    <3> QED
      BY <1>a, <1>d, <3>1, <3>2, <3>3, BufferMoves
  <2> QED
    BY <1>28, <2>4, <1>e, <1>f, <1>g, MovedKeeps DEF ReadOut
<1>20. ASSUME NEW h \in Handles, CopyOut(h) PROVE TInv'
  <2>1. handle[h].pc = "copyOut"
    BY <1>20 DEF CopyOut
  <2>2. handle[h].wpos + 1 \in Nat /\ Tail(handle[h].buf) \in Seq(Block)
    BY <1>20, <1>b DEF HandleType, CopyOut
  <2>3. RemoteGrows /\ remote'[handle[h].path] # None
    BY <1>20, CopyOutGrows
  <2>4. Moved(h)
    <3> DEFINE r == [handle[h] EXCEPT !.buf = Tail(handle[h].buf)]
               rw == [handle[h] EXCEPT !.wpos = handle[h].wpos + 1,
                                       !.buf = Tail(handle[h].buf)]
    <3>1. /\ r \in HandleType /\ r.pc = handle[h].pc
          /\ r.path = handle[h].path /\ r.fh = handle[h].fh
      BY <1>b, <2>2, BufferType
    <3>2. /\ rw \in HandleType /\ rw.pc = handle[h].pc
          /\ rw.path = handle[h].path /\ rw.fh = handle[h].fh
      BY <1>b, <2>2, WritePositionType
    <3>3. handle' = [handle EXCEPT ![h] = r] \/ handle' = [handle EXCEPT ![h] = rw]
      BY <1>20 DEF CopyOut
    <3> HIDE DEF r, rw
    <3> QED
      BY <1>a, <1>d, <2>1, <2>3, <3>1, <3>2, <3>3, BufferMoves
  <2> QED
    BY <1>20, <2>3, <2>4, <1>f, <1>g, MovedKeeps DEF CopyOut
<1>21. ASSUME NEW h \in Handles, CopiedOut(h) PROVE TInv'
  <2>1. Moved(h)
    BY <1>21, <1>a, <1>d, GotoMoves DEF CopiedOut, TInv, HasRemote
  <2> QED
    BY <1>21, <2>1, <1>e, <1>f, <1>g, MovedKeeps DEF CopiedOut
<1>29. ASSUME NEW h \in Handles, CloseStream(h) PROVE TInv'
  <2>1. FilesTyped'
    BY <1>29, <1>a, CloseFdsType DEF CloseStream
  <2>2. Moved(h)
    <3> DEFINE r == [handle[h] EXCEPT !.pc = "closeFh", !.rd = None]
    <3>1. r \in HandleType /\ r.pc = "closeFh" /\ r.path = handle[h].path
            /\ r.fh = handle[h].fh
      BY <1>b DEF HandleType
    <3>2. handle' = [handle EXCEPT ![h] = r]
      BY <1>29 DEF CloseStream
    <3>3. remote'[handle[h].path] # None /\ handle[h].pc = "closeStream"
      BY <1>29 DEF CloseStream, TInv, HasRemote
    <3> QED
      BY <1>c, <1>d, <3>1, <3>2, <3>3 DEF Moved, HandleOK
  <2> QED
    BY <1>29, <2>1, <2>2, <1>e, <1>g, MovedKeeps DEF CloseStream
<1>30. ASSUME NEW h \in Handles, CloseFh(h) PROVE TInv'
  <2>1. handle[h].path \in Paths /\ remote[handle[h].path] # None
    BY <1>30, <1>c DEF CloseFh, TInv, HasRemote
  <2>2. FilesTyped'
    BY <1>30, <1>a, CloseFdsType DEF CloseFh
  <2>3. Moved(h)
    <3> DEFINE r == [Idle EXCEPT !.pc = "remove", !.path = handle[h].path]
    <3>1. r \in HandleType /\ r.pc = "remove" /\ r.path = handle[h].path
      BY <2>1, RemovingType
    <3>2. handle' = [handle EXCEPT ![h] = r]
      BY <1>30 DEF CloseFh
    <3> QED
      BY <1>30, <2>1, <3>1, <3>2 DEF Moved, HandleOK, CloseFh
  <2> QED
    BY <1>30, <2>2, <2>3, <1>e, <1>g, MovedKeeps DEF CloseFh
<1>22. ASSUME NEW h \in Handles, RemoveLocal(h) PROVE TInv'
  <2>1. FilesTyped'
    BY <1>22, <1>a, <1>c, UnlinkType DEF RemoveLocal
  <2> QED
    BY <1>22, <2>1, FinishMoves, <1>e, <1>g, MovedKeeps DEF RemoveLocal
<1>23. CASE Crash
  <2>1. FilesTyped'
    BY <1>23, ReclaimedType DEF Crash, TInv, TypeOK, FilesTyped
  <2>2. /\ handle' \in [Handles -> HandleType] /\ \A h \in Handles : handle'[h].pc = "idle"
        /\ queue' \in Seq(Handles) /\ Len(queue') = 0
    <3>1. handle' = [h \in Handles |-> Idle] /\ queue' = <<>>
      BY <1>23 DEF Crash
    <3> QED
      BY <3>1, IdleType
  <2>3. /\ remote' = remote /\ session' = "up" /\ UNCHANGED local
    BY <1>23 DEF Crash
  <2>4. TypeOK'
    BY <2>1, <2>2, <2>3, <1>a DEF TypeOK, FilesTyped, HoldsFh
  <2>5. QueueOK' /\ HasRemote'
    BY <2>2 DEF QueueOK, HasRemote
  <2> QED
    BY <2>4, <2>5 DEF TInv
<1>24. CASE UNCHANGED vars
  BY <1>24 DEF vars, TInv, TypeOK, QueueOK, HasRemote, HoldsFh
<1>31. ASSUME NEW h \in Handles, Client(h) PROVE TInv'
  BY <1>1, <1>12, <1>13, <1>15, <1>31, ScpfsAssumption DEF Client
<1>32. ASSUME NEW h \in Handles, Request(h) PROVE TInv'
  BY <1>4, <1>10, <1>11, <1>16, <1>32 DEF Request
<1>33. ASSUME NEW h \in Handles, Handler(h) PROVE TInv'
  BY <1>2, <1>3, <1>5, <1>6, <1>7, <1>8, <1>9, <1>17, <1>18, <1>19, <1>20, <1>21, <1>22,
     <1>25, <1>26, <1>27, <1>28, <1>29, <1>30, <1>33 DEF Handler
<1> QED
  BY <1>14, <1>23, <1>24, <1>31, <1>32, <1>33, ScpfsAssumption DEF Next

\* TypeOK holds in every reachable state: whatever faults, threads and clients
\* there are, every local file, descriptor and handle keeps its type, and a
\* handle with a request under way names a path and, where it needs one, a
\* descriptor.
THEOREM TypeCorrect == Spec => []TypeOK
<1>1. TInv => TypeOK
  BY DEF TInv
<1> QED
  BY <1>1, TInvInit, TInvNext, PTL DEF Spec

\* The steps that change what exists where.
LEMMA DirectoryChanges ==
  ASSUME [Next]_vars
  PROVE  \/ UNCHANGED <<remote, local>>
         \/ \E h \in Handles : \/ OpenLocal(h) \/ Create(h) \/ ReleaseOpen(h)
                               \/ CopyOut(h) \/ RemoveLocal(h)
BY DEF vars, Next, Client, Request, Handler, Getattr, GetattrLocal, GetattrRemote, OpenRemote,
       OpenLocalFails, ReadIn, CopyIn, CopyInFails, CopiedIn, CloseLocal, FreeSession, Truncate,
       Write, Ftruncate, TruncatePath, Close, TakeRelease, ReleaseOpenFails, OpenStream, ReadOut,
       CopiedOut, CloseStream, CloseFh, Crash

\* scpfs_release removes a local copy only where the remote file exists, so a
\* file that is at the server or in the local directory never vanishes from
\* both, in any interleaving and after any fault or crash.
THEOREM FilesKept == Spec => PresenceKept
<1>1. ASSUME TInv, [Next]_vars
      PROVE  \A p \in Paths : Present(p) => Present(p)'
  <2> SUFFICES ASSUME NEW p \in Paths, Present(p) PROVE Present(p)'
    OBVIOUS
  <2>1. CASE UNCHANGED <<remote, local>>
    BY <2>1 DEF Present
  <2>2. ASSUME NEW h \in Handles, OpenLocal(h) \/ Create(h) PROVE Present(p)'
    <3>1. remote' = remote
      BY <2>2 DEF OpenLocal, Create
    <3>2. \/ local' = local
          \/ \E i \in Inodes : local' = [local EXCEPT ![PathOf(h)] = i]
      BY <2>2 DEF OpenLocal, Create, OpenFile
    <3> QED
      BY <1>1, <3>1, <3>2, ScpfsAssumption DEF Present, TInv, TypeOK
  <2>3. ASSUME NEW h \in Handles, ReleaseOpen(h) PROVE Present(p)'
    <3>1. <<>> \in Seq(Block)
      OBVIOUS
    <3> QED
      BY <1>1, <2>3, <3>1, ScpfsAssumption DEF ReleaseOpen, Present, TInv, TypeOK
  <2>4. ASSUME NEW h \in Handles, CopyOut(h) PROVE Present(p)'
    BY <1>1, <2>4, CopyOutGrows DEF CopyOut, Present, RemoteGrows
  <2>5. ASSUME NEW h \in Handles, RemoveLocal(h) PROVE Present(p)'
    <3>1. remote' = remote /\ local' = [local EXCEPT ![PathOf(h)] = None]
      BY <2>5 DEF RemoveLocal, Unlink
    <3>2. remote[PathOf(h)] # None
      BY <1>1, <2>5 DEF RemoveLocal, At, TInv, HasRemote, TransferPC
    <3> QED
      BY <1>1, <3>1, <3>2 DEF Present, TInv, TypeOK
  <2> QED
    BY <1>1, <2>1, <2>2, <2>3, <2>4, <2>5, DirectoryChanges
<1> QED
  BY <1>1, TInvInit, TInvNext, PTL DEF Spec, PresenceKept
=============================================================================
