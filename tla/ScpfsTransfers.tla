--------------------------- MODULE ScpfsTransfers ---------------------------
(***************************************************************************)
(* Without faults, and with one thread or clients that wait for a release  *)
(* before they open a file again, every transfer moves a whole file; and   *)
(* where no file is opened twice at a time the data path implements        *)
(* CloseToOpen.                                                            *)
(***************************************************************************)
EXTENDS ScpfsOwnership, FiniteSetTheorems

-----------------------------------------------------------------------------
(* The invariant.                                                          *)

\* Who opens a file is the only one to have it: because clients wait for the
\* release, or because the one thread gets to their open only behind it.
OneOpener == Sharing = "patient" \/ (Sharing = "exclusive" /\ Workers = 1)

\* Who waits for a release is in the queue, one handler runs at a time, and one
\* handle has each file.
Waits ==
  \A h \in Handles : handle[h].pc = "queued" => \E i \in 1..Len(queue) : queue[i] = h
OneHandler ==
  \A g, h \in Handles : handle[g].pc \in HandlerPC /\ handle[h].pc \in HandlerPC => g = h
OwnPaths == \A g, h \in Handles : PathOf(g) = PathOf(h) => g = h \/ PathOf(g) = None
Apart == Waits /\ (Workers = 1 => OneHandler) /\ (OneOpener => OwnPaths)

\* The first k blocks of a file have been copied, and nothing else.
SoFar(to, from, k) ==
  Len(to) = k /\ k <= Len(from) /\ \A j \in 1..k : to[j] = from[j]

\* The blocks of a file from the w-th to the k-th are buffered.
Buffered(buf, from, w, k) ==
  w + Len(buf) = k /\ k <= Len(from) /\ \A j \in 1..Len(buf) : buf[j] = from[w + j]

\* Nothing has been transferred yet.
Fresh(r) == r.pos = 0 /\ r.wpos = 0 /\ r.buf = <<>>
LoopPC == {"copyIn", "copyOut", "closeStream", "closeFh"}

\* How far the transfers of a handle have come.
Progress(h) ==
  /\ handle[h].pc \notin LoopPC => Fresh(handle[h])
  /\ At(h, "copyIn") =>
       /\ SoFar(data[fdt[handle[h].fh]], remote[PathOf(h)], handle[h].pos)
       /\ handle[h].buf # <<>> => /\ handle[h].pos < Len(remote[PathOf(h)])
                                 /\ Head(handle[h].buf) = remote[PathOf(h)][handle[h].pos + 1]
  /\ At(h, "openStream") => remote[PathOf(h)] = <<>>
  /\ At(h, "copyOut") /\ handle[h].rd # None =>
       /\ SoFar(remote[PathOf(h)], data[fdt[handle[h].rd]], handle[h].wpos)
       /\ Buffered(handle[h].buf, data[fdt[handle[h].rd]], handle[h].wpos, handle[h].pos)

\* The local name of a file that is open leads to what its descriptor is open on,
\* a release reads just that, and who is to create a file has seen none.
Linked(h) ==
  /\ HoldsFh(h) => local[PathOf(h)] = fdt[handle[h].fh]
  /\ ~At(h, "lstat")
  /\ At(h, "toCreate") => remote[PathOf(h)] = None
  /\ At(h, "copyOut") => handle[h].rd # None /\ fdt[handle[h].rd] = fdt[handle[h].fh]

Calm == TInv /\ Own /\ Tidy /\ Apart /\ \A h \in Handles : Progress(h)
AllLinked == \A h \in Handles : Linked(h)

\* A step that a client, the kernel or a thread makes for handle h.
Step(h) == Client(h) \/ Request(h) \/ Handler(h)

\* What a handle sees of the files stays as it is.
KeptFiles(g) ==
  /\ remote'[PathOf(g)] = remote[PathOf(g)] /\ local'[PathOf(g)] = local[PathOf(g)]
  /\ \A f \in Held(g) : fdt'[f] = fdt[f] /\ data'[fdt[f]] = data[fdt[f]]
Kept(g) == handle'[g] = handle[g] /\ KeptFiles(g)

-----------------------------------------------------------------------------
(* Copying.                                                                *)

\* The next block is copied.
LEMMA SoFarNext ==
  ASSUME NEW to \in Seq(Block), NEW from \in Seq(Block), NEW k \in Nat,
         SoFar(to, from, k), k < Len(from)
  PROVE  SoFar(WriteAt(to, k, from[k + 1]), from, k + 1)
<1> DEFINE w == [i \in 1..k + 1 |-> IF i = k + 1 THEN from[k + 1]
                                   ELSE IF i <= Len(to) THEN to[i] ELSE Zero]
<1>1. WriteAt(to, k, from[k + 1]) = w
  BY DEF WriteAt, SoFar
<1>2. Len(w) = k + 1
  OBVIOUS
<1>3. ASSUME NEW j \in 1..k + 1 PROVE w[j] = from[j]
  BY DEF SoFar
<1> QED
  BY <1>1, <1>2, <1>3 DEF SoFar

\* All blocks are copied.
LEMMA SoFarAll ==
  ASSUME NEW to \in Seq(Block), NEW from \in Seq(Block), NEW k \in Nat,
         SoFar(to, from, k), k >= Len(from)
  PROVE  to = from
<1>1. Len(to) = Len(from) /\ \A j \in 1..Len(to) : to[j] = from[j]
  BY DEF SoFar
<1> QED
  BY <1>1

-----------------------------------------------------------------------------
(* A step for one handle, seen from another one with another path.         *)

\* What a handle holds leads to its path.
LEMMA HeldNames ==
  ASSUME TInv, Own, NEW g \in Handles, handle[g].pc # "idle", NEW f \in Held(g)
  PROVE  /\ PathOf(g) \in Paths /\ f \in Fds /\ fdt[f] \in Inodes
         /\ PathOf(g) \in Names(fdt[f])
BY DEF TInv, TypeOK, Own, HeldAreFiles, Held, Names, PathOf

\* Contents change.
LEMMA DataFrame ==
  ASSUME TInv, Own, NEW g \in Handles, handle[g].pc # "idle",
         UNCHANGED <<remote, local, fdt>>, NEW i \in Inodes, NEW c,
         data' = [data EXCEPT ![i] = c], \E p \in Names(i) : p # PathOf(g)
  PROVE  KeptFiles(g)
<1>1. ASSUME NEW f \in Held(g) PROVE fdt[f] # i /\ fdt[f] \in Inodes
  BY <1>1, HeldNames DEF Own, OnePath
<1>2. \A j \in Inodes \ {i} : data'[j] = data[j]
  BY DEF TInv, TypeOK
<1> QED
  BY <1>1, <1>2 DEF KeptFiles

\* A local file is opened.
LEMMA OpenFrame ==
  ASSUME TInv, Own, NEW g \in Handles, handle[g].pc # "idle", UNCHANGED remote,
         NEW p \in Paths, NEW f \in Fds, NEW i \in Inodes, OpenFile(p, f, i), p # PathOf(g)
  PROVE  KeptFiles(g)
<1>1. /\ PathOf(g) \in Paths /\ f \in FreeFds /\ (local[p] = i \/ i \in FreeInodes)
      /\ \A q \in Paths \ {p} : local'[q] = local[q]
      /\ \A e \in Fds \ {f} : fdt'[e] = fdt[e]
      /\ \A j \in Inodes \ {i} : data'[j] = data[j]
  BY DEF OpenFile, LowestFd, TInv, TypeOK, PathOf
<1>2. ASSUME NEW e \in Held(g) PROVE e # f /\ e \in Fds /\ fdt[e] # i /\ fdt[e] \in Inodes
  <2>1. e \in Fds /\ fdt[e] \in Inodes /\ PathOf(g) \in Names(fdt[e])
    BY HeldNames
  <2>2. e # f
    BY <1>1, <2>1, ScpfsAssumption DEF FreeFds
  <2>3. local[p] = i => p \in Names(i)
    BY DEF Names
  <2>4. fdt[e] # i
    BY <1>1, <2>1, <2>3 DEF Own, OnePath, FreeInodes
  <2> QED
    BY <2>1, <2>2, <2>4
<1> QED
  BY <1>1, <1>2 DEF KeptFiles

\* A remote file changes.
LEMMA RemoteFrame ==
  ASSUME TInv, NEW g \in Handles, handle[g].pc # "idle", UNCHANGED <<local, data, fdt>>,
         NEW p, NEW c, remote' = [remote EXCEPT ![p] = c], p # PathOf(g)
  PROVE  KeptFiles(g)
<1>1. remote'[PathOf(g)] = remote[PathOf(g)]
  BY DEF TInv, TypeOK, PathOf
<1> QED
  BY <1>1 DEF KeptFiles

\* A stream is opened.
LEMMA StreamFrame ==
  ASSUME TInv, Own, NEW g \in Handles, handle[g].pc # "idle",
         UNCHANGED <<remote, local, data>>, NEW f \in FreeFds, NEW i,
         fdt' = [fdt EXCEPT ![f] = i]
  PROVE  KeptFiles(g)
<1>1. ASSUME NEW e \in Held(g) PROVE e # f /\ e \in Fds
  BY HeldNames, ScpfsAssumption DEF FreeFds
<1>2. \A e \in Fds \ {f} : fdt'[e] = fdt[e]
  BY DEF TInv, TypeOK
<1> QED
  BY <1>1, <1>2 DEF KeptFiles

\* Descriptors are closed.
LEMMA CloseFrame ==
  ASSUME TInv, Own, NEW g \in Handles, handle[g].pc # "idle", NEW h \in Handles \ {g},
         UNCHANGED <<remote, local>>, NEW F, F \cap Fds \subseteq Held(h), CloseFds(F)
  PROVE  KeptFiles(g)
<1>1. ASSUME NEW e \in Held(g) PROVE e \in Fds /\ e \notin F /\ fdt[e] \in Inodes
  BY HeldNames DEF Own, NotShared
<1>2. \A e \in Fds \ F : fdt'[e] = fdt[e]
  BY DEF CloseFds
<1>3. ASSUME NEW e \in Held(g) PROVE data'[fdt[e]] = data[fdt[e]]
  <2>1. e \in Fds /\ e \notin F /\ fdt[e] \in Inodes
    BY <1>1
  <2> QED
    BY <2>1 DEF CloseFds, Reclaimed
<1> QED
  BY <1>1, <1>2, <1>3 DEF KeptFiles

\* A local name goes.
LEMMA UnlinkFrame ==
  ASSUME TInv, Own, NEW g \in Handles, handle[g].pc # "idle",
         UNCHANGED <<remote, fdt>>, NEW p, p # PathOf(g), Unlink(p)
  PROVE  KeptFiles(g)
<1>1. local'[PathOf(g)] = local[PathOf(g)]
  BY DEF Unlink, TInv, TypeOK, PathOf
<1>2. ASSUME NEW e \in Held(g) PROVE data'[fdt[e]] = data[fdt[e]]
  BY HeldNames DEF Unlink, Reclaimed
<1> QED
  BY <1>1, <1>2 DEF KeptFiles

\* In a copy loop only the offsets and the buffer change.
LEMMA LoopRecord ==
  ASSUME TypeOK, NEW h \in Handles, ReadIn(h) \/ CopyIn(h) \/ ReadOut(h) \/ CopyOut(h)
  PROVE  /\ handle'[h].pc = handle[h].pc /\ handle[h].pc \in {"copyIn", "copyOut"}
         /\ handle'[h].path = handle[h].path /\ handle'[h].fh = handle[h].fh
         /\ handle'[h].rd = handle[h].rd
<1> USE DEF TypeOK, HandleType, At
<1>1. CASE ReadIn(h)
  BY <1>1 DEF ReadIn
<1>2. CASE CopyIn(h)
  BY <1>2 DEF CopyIn
<1>3. CASE ReadOut(h)
  <2>1. PICK n, b : handle' = [handle EXCEPT ![h].pos = n, ![h].buf = b]
    BY <1>3 DEF ReadOut
  <2>2. handle[h].pc = "copyOut"
    BY <1>3 DEF ReadOut
  <2> QED
    BY <2>1, <2>2
<1>4. CASE CopyOut(h)
  BY <1>4 DEF CopyOut
<1> QED
  BY <1>1, <1>2, <1>3, <1>4

\* A step for h moves no other handle.
LEMMA OthersStay ==
  ASSUME TypeOK, NEW h \in Handles, Step(h), NEW g \in Handles \ {h}
  PROVE  handle'[g] = handle[g]
<1>1. \A l : Goto(h, l) => handle'[g] = handle[g]
  BY DEF Goto, TypeOK
<1>2. Finish(h) => handle'[g] = handle[g]
  BY DEF Finish, TypeOK
<1>3. \A f : Opened(h, f) => handle'[g] = handle[g]
  BY DEF Opened, TypeOK
<1>4. CASE Client(h)
  BY <1>1, <1>4 DEF Client, Getattr, Write, Ftruncate, Close, TypeOK
<1>5. CASE Request(h)
  BY <1>1, <1>2, <1>3, <1>5 DEF Request, OpenRemote, Create, Truncate, TakeRelease, TypeOK
<1>6. CASE Handler(h)
  <2>1. CASE GetattrLocal(h) \/ GetattrRemote(h)
    BY <1>1, <1>2, <2>1 DEF GetattrLocal, GetattrRemote, Found, NotFound
  <2>2. CASE OpenLocal(h) \/ OpenLocalFails(h) \/ ReadIn(h) \/ CopyIn(h) \/ CopyInFails(h)
    BY <1>1, <2>2 DEF OpenLocal, OpenLocalFails, ReadIn, CopyIn, CopyInFails, TypeOK
  <2>5. CASE CopiedIn(h) \/ CloseLocal(h) \/ FreeSession(h)
    BY <1>1, <1>2, <1>3, <2>5 DEF CopiedIn, CloseLocal, FreeSession
  <2>3. CASE ReleaseOpen(h) \/ ReleaseOpenFails(h) \/ OpenStream(h)
    BY <1>1, <1>2, <2>3 DEF ReleaseOpen, ReleaseOpenFails, OpenStream, TypeOK
  <2>4. CASE ReadOut(h) \/ CopyOut(h) \/ CopiedOut(h)
    BY <1>1, <2>4 DEF ReadOut, CopyOut, CopiedOut, TypeOK
  <2>6. CASE CloseStream(h) \/ CloseFh(h) \/ RemoveLocal(h)
    BY <1>2, <2>6 DEF CloseStream, CloseFh, RemoveLocal, TypeOK
  <2> QED
    BY <1>6, <2>1, <2>2, <2>3, <2>4, <2>5, <2>6 DEF Handler
<1> QED
  BY <1>4, <1>5, <1>6 DEF Step

\* What a handle has open leads to its path and is a local file.
LEMMA FhNames ==
  ASSUME TInv, Own, NEW h \in Handles, handle[h].pc \in FhPC
  PROVE  /\ handle[h].fh \in Held(h) /\ handle[h].fh \in Fds /\ PathOf(h) \in Paths
         /\ fdt[handle[h].fh] \in Inodes /\ PathOf(h) \in Names(fdt[handle[h].fh])
<1>1. handle[h].fh \in Held(h) /\ handle[h].pc # "idle"
  BY DEF TInv, TypeOK, HoldsFh, Held, FhPC
<1> QED
  BY <1>1, HeldNames

\* A step for h leaves what a handle with another path sees.
LEMMA Frame ==
  ASSUME Faults = {}, TInv, Own, Tidy, NEW h \in Handles, Step(h),
         NEW g \in Handles \ {h}, handle[g].pc # "idle", PathOf(g) # PathOf(h)
  PROVE  Kept(g)
<1> USE DEF At, FhPC
<1>a. TypeOK
  BY DEF TInv
<1>1. ASSUME UNCHANGED <<remote, local, data, fdt>> PROVE KeptFiles(g)
  BY <1>1 DEF KeptFiles
<1>2. ASSUME NEW i \in Inodes, PathOf(h) \in Names(i), NEW c, data' = [data EXCEPT ![i] = c],
             UNCHANGED <<remote, local, fdt>>
      PROVE  KeptFiles(g)
  BY <1>2, DataFrame
<1>3. ASSUME OpenLocal(h) \/ Create(h) PROVE KeptFiles(g)
  <2>1. CASE \E f \in Fds, i \in Inodes : OpenFile(PathOf(h), f, i)
    <3>1. PathOf(h) \in Paths
      BY <1>3, <1>a DEF OpenLocal, Create, TypeOK, PathOf
    <3> QED
      BY <1>3, <2>1, <3>1, OpenFrame DEF OpenLocal, Create
  <2> QED
    BY <1>1, <1>3, <2>1 DEF OpenLocal, Create
<1>4. ASSUME CopyIn(h) \/ \E k \in Nat, b \in Block : Write(h, k, b) PROVE KeptFiles(g)
  <2>1. \E k, b : WriteFd(handle[h].fh, k, b)
    BY <1>4 DEF CopyIn, Write
  <2>2. handle[h].pc \in FhPC
    BY <1>4 DEF CopyIn, Write
  <2>3. \E c : data' = [data EXCEPT ![fdt[handle[h].fh]] = c]
    BY <2>1, <2>2, FhNames DEF WriteFd
  <2> QED
    BY <1>2, <1>4, <2>2, <2>3, FhNames DEF CopyIn, Write
<1>5. ASSUME NEW n, Ftruncate(h, n) PROVE KeptFiles(g)
  <2>1. handle[h].pc \in FhPC
    BY <1>5 DEF Ftruncate
  <2> QED
    BY <1>2, <1>5, <2>1, FhNames DEF Ftruncate
<1>6. ASSUME Truncate(h) PROVE KeptFiles(g)
  <2>1. CASE local[PathOf(h)] = None
    BY <1>1, <1>6, <2>1 DEF Truncate
  <2>2. CASE local[PathOf(h)] # None
    <3>1. local[PathOf(h)] \in Inodes /\ PathOf(h) \in Names(local[PathOf(h)])
      BY <1>6, <1>a, <2>2 DEF Truncate, TypeOK, PathOf, Names
    <3>2. data' = [data EXCEPT ![local[PathOf(h)]] = <<>>]
      BY <1>6, <2>2 DEF Truncate
    <3> QED
      BY <1>2, <1>6, <3>1, <3>2 DEF Truncate
  <2> QED
    BY <2>1, <2>2
<1>7. ASSUME ReleaseOpen(h) \/ CopyOut(h) PROVE KeptFiles(g)
  BY <1>1, <1>7, RemoteFrame DEF ReleaseOpen, CopyOut
<1>8. ASSUME OpenStream(h) PROVE KeptFiles(g)
  BY <1>1, <1>8, StreamFrame DEF OpenStream, LowestFd
<1>9. ASSUME CloseStream(h) \/ CloseFh(h) PROVE KeptFiles(g)
  <2>1. CASE CloseStream(h)
    <3>1. {handle[h].rd} \cap Fds \subseteq Held(h)
      BY <2>1 DEF CloseStream, Held, StreamPC
    <3> QED
      BY <2>1, <3>1, CloseFrame DEF CloseStream
  <2>2. CASE CloseFh(h)
    <3>1. {handle[h].fh} \cap Fds \subseteq Held(h)
      BY <2>2 DEF CloseFh, Held, HoldsFh
    <3> QED
      BY <2>2, <3>1, CloseFrame DEF CloseFh
  <2> QED
    BY <1>9, <2>1, <2>2
<1>10. ASSUME RemoveLocal(h) PROVE KeptFiles(g)
  BY <1>10, UnlinkFrame DEF RemoveLocal
<1>11. ASSUME \/ \E p \in Paths, fl \in SUBSET {"creat", "trunc"} : Getattr(h, p, fl)
              \/ Close(h) \/ OpenRemote(h) \/ TakeRelease(h)
              \/ GetattrLocal(h) \/ GetattrRemote(h) \/ ReadIn(h) \/ CopiedIn(h)
              \/ ReadOut(h) \/ CopiedOut(h)
       PROVE  KeptFiles(g)
  BY <1>1, <1>11 DEF Getattr, Close, OpenRemote, TakeRelease, GetattrLocal, GetattrRemote, ReadIn,
                     CopiedIn, ReadOut, CopiedOut
<1>12. KeptFiles(g)
  <2>1. CASE Client(h)
    BY <1>4, <1>5, <1>11, <2>1, ScpfsAssumption DEF Client
  <2>2. CASE Request(h)
    BY <1>3, <1>6, <1>11, <2>2 DEF Request
  <2>3. CASE Handler(h)
    BY <1>3, <1>4, <1>7, <1>8, <1>9, <1>10, <1>11, <2>3, NoFailure DEF Handler
  <2> QED
    BY <2>1, <2>2, <2>3 DEF Step
<1> QED
  BY <1>a, <1>12, OthersStay DEF Kept

-----------------------------------------------------------------------------
(* Handles keep apart.                                                     *)

\* The only thread is free when nothing is served.
LEMMA NobodyServed ==
  ASSUME Workers = 1, OneHandler, WorkerFree, NEW g \in Handles
  PROVE  handle[g].pc \notin HandlerPC
<1> SUFFICES ASSUME handle[g].pc \in HandlerPC PROVE FALSE
  OBVIOUS
<1>1. {h \in Handles : handle[h].pc \in HandlerPC} = {g}
  BY DEF OneHandler
<1>2. Cardinality({g}) = 1
  BY FS_Singleton
<1> QED
  BY <1>1, <1>2 DEF WorkerFree

\* Only a request that a thread takes is served.
LEMMA TakesWorker ==
  ASSUME TypeOK, NEW h \in Handles, Step(h), ~Close(h)
  PROVE  WorkerFree \/ handle[h].pc \in HandlerPC
<1> USE DEF At, HandlerPC, ReleasePC, Ready
<1>1. CASE Client(h)
  BY <1>1 DEF Client, Getattr, Write, Ftruncate
<1>2. CASE Request(h)
  BY <1>2 DEF Request, OpenRemote, Create, Truncate, TakeRelease
<1>3. CASE Handler(h)
  <2>1. CASE \/ GetattrLocal(h) \/ GetattrRemote(h) \/ OpenLocal(h) \/ OpenLocalFails(h)
             \/ ReadIn(h) \/ CopyIn(h) \/ CopyInFails(h) \/ CopiedIn(h) \/ CloseLocal(h)
             \/ FreeSession(h)
    BY <2>1 DEF GetattrLocal, GetattrRemote, OpenLocal, OpenLocalFails, ReadIn, CopyIn,
                CopyInFails, CopiedIn, CloseLocal, FreeSession
  <2>2. CASE \/ ReleaseOpen(h) \/ ReleaseOpenFails(h) \/ OpenStream(h) \/ ReadOut(h)
             \/ CopyOut(h) \/ CopiedOut(h) \/ CloseStream(h) \/ CloseFh(h) \/ RemoveLocal(h)
    BY <2>2 DEF ReleaseOpen, ReleaseOpenFails, OpenStream, ReadOut, CopyOut, CopiedOut,
                CloseStream, CloseFh, RemoveLocal
  <2> QED
    BY <1>3, <2>1, <2>2 DEF Handler
<1> QED
  BY <1>1, <1>2, <1>3 DEF Step

\* A step leaves the handle with its path or none, unless it opens another one.
LEMMA PathStays ==
  ASSUME TypeOK, NEW h \in Handles, Step(h)
  PROVE  \/ PathOf(h)' \in {PathOf(h), None}
         \/ \E p \in Paths : PathOf(h)' = p /\ MayOpen(p) /\ Ready
<1> USE DEF PathOf
<1>a. handle[h] \in HandleType /\ handle \in [Handles -> HandleType]
  BY DEF TypeOK
<1>b. \A r : handle' = [handle EXCEPT ![h] = r] => handle'[h] = r
  BY <1>a
<1>1. \A l : Goto(h, l) => handle'[h].path = handle[h].path
  BY <1>a DEF Goto, HandleType
<1>2. Finish(h) => handle'[h].path = None
  BY <1>a DEF Finish, Idle
<1>3. \A f : Opened(h, f) => handle'[h].path = handle[h].path
  BY <1>a, <1>b DEF Opened, Idle
<1>4. CASE Client(h)
  <2>1. ASSUME NEW p \in Paths, NEW fl, Getattr(h, p, fl)
        PROVE  \E q \in Paths : handle'[h].path = q /\ MayOpen(q) /\ Ready
    BY <1>a, <2>1 DEF Getattr, Idle
  <2> QED
    BY <1>1, <1>4, <2>1 DEF Client, Write, Ftruncate, Close
<1>5. CASE Request(h)
  <2>1. ASSUME Create(h) PROVE handle'[h].path \in {handle[h].path, None}
    BY <1>a, <1>b, <1>2, <2>1 DEF Create, Idle
  <2> QED
    BY <1>1, <1>2, <1>3, <1>5, <2>1 DEF Request, OpenRemote, Truncate, TakeRelease
<1>6. CASE Handler(h)
  <2>1. CASE GetattrLocal(h) \/ GetattrRemote(h)
    BY <1>1, <1>2, <2>1 DEF GetattrLocal, GetattrRemote, Found, NotFound
  <2>2. CASE OpenLocal(h) \/ OpenLocalFails(h) \/ CopyInFails(h)
    BY <1>a, <1>1, <2>2 DEF OpenLocal, OpenLocalFails, CopyInFails, HandleType
  <2>6. CASE CopiedIn(h) \/ CloseLocal(h) \/ FreeSession(h)
    BY <1>1, <1>2, <1>3, <2>6 DEF CopiedIn, CloseLocal, FreeSession
  <2>3. CASE ReleaseOpen(h) \/ ReleaseOpenFails(h) \/ OpenStream(h)
    BY <1>a, <1>1, <1>2, <2>3 DEF ReleaseOpen, ReleaseOpenFails, OpenStream, HandleType
  <2>4. CASE CopiedOut(h) \/ CloseStream(h)
    BY <1>a, <1>1, <2>4 DEF CopiedOut, CloseStream, HandleType
  <2>7. CASE ReadIn(h) \/ CopyIn(h) \/ ReadOut(h) \/ CopyOut(h)
    BY <2>7, LoopRecord
  <2>5. CASE CloseFh(h) \/ RemoveLocal(h)
    BY <1>a, <1>2, <2>5 DEF CloseFh, RemoveLocal, Idle
  <2> QED
    BY <1>6, <2>1, <2>2, <2>3, <2>4, <2>5, <2>6, <2>7 DEF Handler
<1> QED
  BY <1>4, <1>5, <1>6 DEF Step

\* A path that may be opened now has no handle.
LEMMA NobodyHas ==
  ASSUME Apart, OneOpener, Ready, NEW p, MayOpen(p), NEW g \in Handles
  PROVE  PathOf(g) # p
<1> SUFFICES ASSUME PathOf(g) = p PROVE FALSE
  OBVIOUS
<1>1. Sharing = "exclusive" /\ Workers = 1 /\ handle[g].pc \in ReleasePC \cup {"queued"}
  BY DEF OneOpener, MayOpen, PathOf
<1>2. handle[g].pc \notin HandlerPC
  BY <1>1, NobodyServed DEF Apart, Ready
<1>3. handle[g].pc = "queued"
  BY <1>1, <1>2 DEF HandlerPC
<1> QED
  BY <1>3 DEF Apart, Waits, Ready

\* Nobody drops out of the queue but to be served.
LEMMA WaitsStays ==
  ASSUME TypeOK, Waits, NEW h \in Handles, Step(h)
  PROVE  Waits'
<1>a. \A r : handle' = [handle EXCEPT ![h] = r] => handle'[h] = r
  BY DEF TypeOK
<1>b. queue \in Seq(Handles)
  BY DEF TypeOK
<1>1. ASSUME queue' = queue, handle'[h].pc = "queued" => handle[h].pc = "queued"
      PROVE  Waits'
  BY <1>1, OthersStay DEF Waits
<1>2. ASSUME NEW l, l # "queued", Goto(h, l), queue' = queue PROVE Waits'
  <2>1. handle'[h].pc = l
    BY <1>2 DEF Goto, TypeOK, HandleType
  <2> QED
    BY <1>1, <1>2, <2>1
<1>3. ASSUME Finish(h), queue' = queue PROVE Waits'
  <2>1. handle'[h] = Idle
    BY <1>a, <1>3 DEF Finish
  <2> QED
    BY <1>1, <1>3, <2>1 DEF Idle
<1>4. ASSUME NEW f, Opened(h, f), queue' = queue PROVE Waits'
  <2>1. PICK l \in {"toTrunc", "open"} :
          handle'[h] = [Idle EXCEPT !.pc = l, !.path = PathOf(h), !.fh = f]
    BY <1>a, <1>4 DEF Opened
  <2> QED
    BY <1>1, <1>4, <2>1 DEF Idle
<1>5. ASSUME queue' = Append(queue, h) PROVE Waits'
  <2>1. Len(queue') = Len(queue) + 1 /\ queue'[Len(queue) + 1] = h
    BY <1>b, <1>5
  <2>2. \A i \in 1..Len(queue) : queue'[i] = queue[i]
    BY <1>b, <1>5
  <2>3. Len(queue) \in Nat
    BY <1>b
  <2>4. ASSUME NEW g \in Handles \ {h}, handle'[g].pc = "queued"
        PROVE  \E i \in 1..Len(queue') : queue'[i] = g
    BY <2>1, <2>2, <2>3, <2>4, OthersStay DEF Waits
  <2>5. \E i \in 1..Len(queue') : queue'[i] = h
    BY <2>1, <2>3
  <2> QED
    BY <2>4, <2>5 DEF Waits
<1>6. ASSUME TakeRelease(h) PROVE Waits'
  <2>1. handle'[h].pc = "release"
    BY <1>6 DEF TakeRelease, Goto, TypeOK, HandleType
  <2>2. queue # <<>> /\ queue[1] = h /\ queue' = Tail(queue)
    BY <1>b, <1>6 DEF TakeRelease
  <2>3. ASSUME NEW g \in Handles, handle'[g].pc = "queued"
        PROVE  \E i \in 1..Len(queue') : queue'[i] = g
    <3>1. PICK i \in 1..Len(queue) : queue[i] = g
      BY <2>1, <2>3, OthersStay DEF Waits
    <3>2. i # 1
      BY <2>1, <2>2, <2>3, <3>1
    <3>3. i - 1 \in 1..Len(queue') /\ queue'[i - 1] = g
      BY <1>b, <2>2, <3>1, <3>2
    <3> QED
      BY <3>3
  <2> QED
    BY <2>3 DEF Waits
<1>7. CASE Client(h)
  <2>1. ASSUME NEW p \in Paths, NEW fl, Getattr(h, p, fl) PROVE Waits'
    <3>1. PICK l \in {"lstat", "rstat"} :
            handle'[h] = [Idle EXCEPT !.pc = l, !.path = p, !.flags = fl]
      BY <1>a, <2>1 DEF Getattr
    <3> QED
      BY <1>1, <2>1, <3>1 DEF Getattr, Idle
  <2>2. ASSUME handle' = handle, queue' = queue PROVE Waits'
    BY <1>1, <2>2
  <2> QED
    BY <1>5, <1>7, <2>1, <2>2 DEF Client, Write, Ftruncate, Close
<1>8. CASE Request(h)
  <2>1. ASSUME Create(h) PROVE Waits'
    <3>1. \/ Finish(h)
          \/ \E f \in Fds : handle' = [handle EXCEPT ![h] =
                              [Idle EXCEPT !.pc = "open", !.path = PathOf(h), !.fh = f]]
      BY <2>1 DEF Create
    <3>2. ASSUME NEW f \in Fds, handle' = [handle EXCEPT ![h] =
                                   [Idle EXCEPT !.pc = "open", !.path = PathOf(h), !.fh = f]]
          PROVE  handle'[h].pc = "open"
      <4>1. handle'[h] = [Idle EXCEPT !.pc = "open", !.path = PathOf(h), !.fh = f]
        BY <1>a, <3>2
      <4> QED
        BY <4>1 DEF Idle
    <3> QED
      BY <1>1, <1>3, <2>1, <3>1, <3>2 DEF Create
  <2> QED
    BY <1>2, <1>3, <1>4, <1>5, <1>6, <1>8, <2>1 DEF Request, OpenRemote, Truncate
<1>9. CASE Handler(h)
  <2>1. CASE GetattrLocal(h) \/ GetattrRemote(h)
    BY <1>2, <1>3, <2>1 DEF GetattrLocal, GetattrRemote, Found, NotFound
  <2>2. CASE CopiedIn(h) \/ CloseLocal(h) \/ FreeSession(h) \/ RemoveLocal(h)
    BY <1>2, <1>3, <1>4, <2>2 DEF CopiedIn, CloseLocal, FreeSession, RemoveLocal
  <2>3. CASE \/ OpenLocalFails(h) \/ CopyInFails(h) \/ ReleaseOpen(h) \/ ReleaseOpenFails(h)
             \/ CopiedOut(h)
    BY <1>2, <1>3, <2>3 DEF OpenLocalFails, CopyInFails, ReleaseOpen, ReleaseOpenFails, CopiedOut
  <2>4. CASE \/ OpenLocal(h) \/ ReadIn(h) \/ CopyIn(h) \/ OpenStream(h) \/ ReadOut(h)
             \/ CopyOut(h) \/ CloseStream(h)
    <3>1. queue' = queue
      BY <2>4 DEF OpenLocal, ReadIn, CopyIn, OpenStream, ReadOut, CopyOut, CloseStream
    <3>2. handle'[h].pc \in LoopPC
      <4>1. OpenLocal(h) \/ OpenStream(h) \/ CloseStream(h) => handle'[h].pc \in LoopPC
        BY DEF OpenLocal, OpenStream, CloseStream, LoopPC, Goto, At, TypeOK, HandleType
      <4> QED
        BY <2>4, <4>1, LoopRecord DEF LoopPC
    <3> QED
      BY <1>1, <3>1, <3>2 DEF LoopPC
  <2>5. CASE CloseFh(h)
    <3>1. handle'[h] = [Idle EXCEPT !.pc = "remove", !.path = PathOf(h)]
      BY <1>a, <2>5 DEF CloseFh
    <3> QED
      BY <1>1, <2>5, <3>1 DEF CloseFh, Idle
  <2> QED
    BY <1>9, <2>1, <2>2, <2>3, <2>4, <2>5 DEF Handler
<1> QED
  BY <1>7, <1>8, <1>9 DEF Step

\* A step for one handle keeps them apart.
LEMMA ApartStays ==
  ASSUME TypeOK, Apart, NEW h \in Handles, Step(h)
  PROVE  Apart'
<1>1. ASSUME Workers = 1 PROVE OneHandler'
  <2>1. OneHandler
    BY <1>1 DEF Apart
  <2>2. ASSUME Close(h) PROVE handle'[h].pc = "queued"
    BY <2>2 DEF Close, Goto, TypeOK, HandleType
  <2>3. ASSUME handle'[h].pc \in HandlerPC, NEW g \in Handles \ {h} PROVE handle[g].pc \notin HandlerPC
    <3>1. ~Close(h)
      BY <2>2, <2>3 DEF HandlerPC, ReleasePC
    <3> QED
      BY <1>1, <2>1, <3>1, NobodyServed, TakesWorker DEF OneHandler
  <2> QED
    BY <2>1, <2>3, OthersStay DEF OneHandler
<1>2. ASSUME OneOpener PROVE OwnPaths'
  <2>1. ASSUME NEW p, MayOpen(p), Ready, NEW g \in Handles PROVE PathOf(g) # p
    BY <1>2, <2>1, NobodyHas
  <2>2. \A g \in Handles \ {h} : PathOf(g)' = PathOf(g)
    BY OthersStay DEF PathOf
  <2>3. \A g \in Handles \ {h} : PathOf(g)' = PathOf(h)' => PathOf(g)' = None
    BY <1>2, <2>1, <2>2, PathStays DEF Apart, OwnPaths
  <2> QED
    BY <1>2, <2>2, <2>3 DEF Apart, OwnPaths
<1> QED
  BY <1>1, <1>2, WaitsStays DEF Apart, OneOpener

\* A handle whose transfer is under way.
CopyPC == {"copyIn", "openStream", "copyOut"}

\* Nobody else disturbs it, and where paths are not shared, no handle at all.
LEMMA Undisturbed ==
  ASSUME Faults = {}, Workers = 1 \/ Sharing = "patient", TInv, Own, Tidy, Apart,
         NEW h \in Handles, Step(h), NEW g \in Handles \ {h},
         \/ handle[g].pc \in CopyPC
         \/ OneOpener /\ handle[g].pc # "idle"
  PROVE  Kept(g)
<1>1. TypeOK /\ handle[g].pc # "idle" /\ PathOf(g) # None
  BY ScpfsAssumption DEF TInv, TypeOK, PathOf, CopyPC
<1>2. CASE OneOpener
  BY <1>1, <1>2, Frame DEF Apart, OwnPaths
<1>3. CASE Workers = 1 /\ ~OneOpener
  <2>1. handle[g].pc \in HandlerPC /\ OneHandler
    BY <1>3 DEF CopyPC, HandlerPC, ReleasePC, Apart
  <2>2. Close(h)
    BY <1>1, <1>3, <2>1, NobodyServed, TakesWorker DEF OneHandler
  <2> QED
    BY <1>1, <2>2, OthersStay DEF Close, Kept, KeptFiles
<1> QED
  BY <1>2, <1>3 DEF OneOpener

\* truncate(2) by name does not either.
LEMMA NotTruncated ==
  ASSUME Workers = 1 \/ Sharing = "patient", TInv, Own, Apart,
         NEW p \in Paths, NEW n, TruncatePath(p, n), NEW g \in Handles,
         \/ handle[g].pc \in CopyPC
         \/ OneOpener /\ handle[g].pc # "idle"
  PROVE  Kept(g)
<1>1. handle[g].pc # "idle"
  BY DEF CopyPC
<1>2. CASE OneOpener
  <2>1. PathOf(g) # p
    BY <1>2, NobodyHas DEF TruncatePath
  <2>2. local[p] \in Inodes /\ p \in Names(local[p])
    BY DEF TruncatePath, TInv, TypeOK, Names
  <2> QED
    BY <1>1, <2>1, <2>2, DataFrame DEF TruncatePath, Kept
<1>3. CASE Workers = 1 /\ ~OneOpener
  BY <1>3, NobodyServed DEF TruncatePath, Ready, CopyPC, HandlerPC, ReleasePC, Apart
<1> QED
  BY <1>2, <1>3 DEF OneOpener

-----------------------------------------------------------------------------
(* Transfers.                                                              *)

\* An undisturbed transfer stays as far as it is.
LEMMA KeptProgress ==
  ASSUME TInv, Own, NEW g \in Handles, Progress(g), handle'[g] = handle[g],
         handle[g].pc \in CopyPC => Kept(g)
  PROVE  Progress(g)'
<1> USE DEF At, PathOf, LoopPC
<1>1. CASE handle[g].pc \notin CopyPC
  BY <1>1 DEF Progress, CopyPC
<1>2. CASE handle[g].pc = "copyIn"
  <2>1. handle[g].fh \in Held(g)
    BY <1>2, FhNames DEF FhPC
  <2> QED
    BY <1>2, <2>1 DEF Progress, CopyPC, Kept, KeptFiles
<1>3. CASE handle[g].pc = "openStream"
  BY <1>3 DEF Progress, CopyPC, Kept, KeptFiles
<1>4. CASE handle[g].pc = "copyOut"
  <2>1. handle[g].rd # None => handle[g].rd \in Held(g)
    BY <1>4 DEF TInv, TypeOK, HandleType, Held, StreamPC
  <2> QED
    BY <1>4, <2>1 DEF Progress, CopyPC, Kept, KeptFiles
<1> QED
  BY <1>1, <1>2, <1>3, <1>4 DEF CopyPC

\* A download begins with an empty copy.
LEMMA OpenLocalProgress ==
  ASSUME TInv, NEW h \in Handles, Progress(h), OpenLocal(h)
  PROVE  Progress(h)'
<1>1. PICK f \in Fds, i \in Inodes :
        /\ OpenFile(PathOf(h), f, i)
        /\ handle' = [handle EXCEPT ![h].pc = "copyIn", ![h].fh = f]
  BY DEF OpenLocal
<1>2. /\ handle[h].pc = "openLocal" /\ handle[h].pos = 0 /\ handle[h].buf = <<>>
      /\ remote' = remote
  BY DEF OpenLocal, At, Progress, LoopPC, Fresh
<1>3. /\ handle'[h].pc = "copyIn" /\ handle'[h].fh = f /\ handle'[h].pos = 0
      /\ handle'[h].buf = <<>> /\ PathOf(h)' = PathOf(h)
  BY <1>1, <1>2 DEF TInv, TypeOK, HandleType, PathOf
<1>4. fdt'[f] = i /\ data'[i] = <<>>
  BY <1>1 DEF OpenFile, TInv, TypeOK
<1>5. remote[PathOf(h)] \in Seq(Block)
  BY <1>2 DEF TInv, TypeOK, HasRemote, TransferPC, PathOf
<1>6. SoFar(<<>>, remote[PathOf(h)], 0)
  BY <1>5 DEF SoFar
<1> QED
  BY <1>2, <1>3, <1>4, <1>6 DEF Progress, At, LoopPC

\* A block is read.
LEMMA ReadInProgress ==
  ASSUME TInv, NEW h \in Handles, Progress(h), ReadIn(h)
  PROVE  Progress(h)'
<1> DEFINE c == remote[PathOf(h)]
           k == handle[h].pos
<1>1. /\ handle[h].pc = "copyIn" /\ k < Len(c) /\ UNCHANGED <<remote, data, fdt>>
      /\ handle' = [handle EXCEPT ![h].buf = <<c[k + 1]>>]
  BY DEF ReadIn, At
<1>2. /\ handle'[h].pc = "copyIn" /\ handle'[h].pos = k /\ handle'[h].fh = handle[h].fh
      /\ PathOf(h)' = PathOf(h) /\ handle'[h].buf = <<c[k + 1]>>
  BY <1>1 DEF TInv, TypeOK, HandleType, PathOf
<1>3. Head(handle'[h].buf) = c[k + 1]
  BY <1>2
<1>4. SoFar(data[fdt[handle[h].fh]], c, k)
  BY <1>1 DEF Progress, At
<1> QED
  BY <1>1, <1>2, <1>3, <1>4 DEF Progress, At, LoopPC

\* A block is downloaded.
LEMMA CopyInProgress ==
  ASSUME TInv, Own, NEW h \in Handles, Progress(h), CopyIn(h)
  PROVE  Progress(h)'
<1> DEFINE p == PathOf(h)
           k == handle[h].pos
           i == fdt[handle[h].fh]
<1>1. /\ handle[h].pc = "copyIn" /\ handle[h].buf # <<>> /\ i \in Inodes
      /\ WriteFd(handle[h].fh, k, Head(handle[h].buf)) /\ UNCHANGED <<remote, fdt>>
      /\ handle' = [handle EXCEPT ![h].pos = k + 1, ![h].buf = <<>>]
  BY DEF CopyIn, At
<1>2. /\ handle'[h].pc = "copyIn" /\ handle'[h].pos = k + 1 /\ handle'[h].fh = handle[h].fh
      /\ PathOf(h)' = p /\ handle'[h].buf = <<>>
  BY <1>1 DEF TInv, TypeOK, HandleType, PathOf
<1>3. k < Len(remote[p]) /\ Head(handle[h].buf) = remote[p][k + 1]
  BY <1>1 DEF Progress, At
<1>4. data'[i] = WriteAt(data[i], k, remote[p][k + 1])
  BY <1>1, <1>3 DEF WriteFd, TInv, TypeOK
<1>5. /\ remote[p] \in Seq(Block) /\ data[i] \in Seq(Block) /\ k \in Nat
      /\ SoFar(data[i], remote[p], k)
  BY <1>1 DEF TInv, TypeOK, HasRemote, TransferPC, PathOf, HandleType, Progress, At
<1>6. SoFar(WriteAt(data[i], k, remote[p][k + 1]), remote[p], k + 1)
  BY <1>3, <1>5, SoFarNext
<1> QED
  BY <1>1, <1>2, <1>4, <1>6 DEF Progress, At, LoopPC

\* An upload begins with an empty remote file.
LEMMA ReleaseOpenProgress ==
  ASSUME TInv, NEW h \in Handles, Progress(h), ReleaseOpen(h)
  PROVE  Progress(h)'
<1>1. /\ handle[h].pc = "release" /\ remote' = [remote EXCEPT ![PathOf(h)] = <<>>]
      /\ handle' = [handle EXCEPT ![h].pc = "openStream"]
  BY DEF ReleaseOpen, At, Goto
<1>2. PathOf(h) \in Paths /\ Fresh(handle[h])
  BY <1>1 DEF TInv, TypeOK, PathOf, Progress, LoopPC
<1>3. handle'[h].pc = "openStream" /\ PathOf(h)' = PathOf(h) /\ Fresh(handle'[h])
  BY <1>1, <1>2 DEF TInv, TypeOK, HandleType, PathOf, Fresh
<1>4. remote'[PathOf(h)] = <<>>
  BY <1>1, <1>2 DEF TInv, TypeOK
<1> QED
  BY <1>3, <1>4 DEF Progress, At

\* Nothing is read of the stream yet.
LEMMA OpenStreamProgress ==
  ASSUME TInv, Own, NEW h \in Handles, Progress(h), OpenStream(h)
  PROVE  Progress(h)'
<1>1. /\ handle[h].pc = "openStream" /\ PathOf(h) \in Paths /\ UNCHANGED <<remote, data>>
      /\ Fresh(handle[h]) /\ handle[h].rd = None /\ remote[PathOf(h)] = <<>>
  BY DEF OpenStream, At, TInv, TypeOK, PathOf, Progress, LoopPC, Own, RecordsOK, RecordOK, StreamPC
<1>2. CASE Goto(h, "copyOut")
  <2>1. handle'[h].pc = "copyOut" /\ handle'[h].rd = None
    BY <1>1, <1>2 DEF Goto, TInv, TypeOK, HandleType
  <2> QED
    BY <2>1 DEF Progress, At, LoopPC
<1>3. CASE local[PathOf(h)] # None /\ ~Goto(h, "copyOut")
  <2>1. PICK f \in Fds : /\ fdt' = [fdt EXCEPT ![f] = local[PathOf(h)]]
                         /\ handle' = [handle EXCEPT ![h].pc = "copyOut", ![h].rd = f]
    BY <1>3 DEF OpenStream
  <2>2. /\ handle'[h].pc = "copyOut" /\ handle'[h].rd = f /\ PathOf(h)' = PathOf(h)
        /\ handle'[h].pos = 0 /\ handle'[h].wpos = 0 /\ handle'[h].buf = <<>>
    BY <1>1, <2>1 DEF TInv, TypeOK, HandleType, PathOf, Fresh
  <2>3. fdt'[f] = local[PathOf(h)] /\ data[local[PathOf(h)]] \in Seq(Block)
    BY <1>1, <1>3, <2>1 DEF TInv, TypeOK
  <2>4. SoFar(<<>>, data[local[PathOf(h)]], 0) /\ Buffered(<<>>, data[local[PathOf(h)]], 0, 0)
    BY <2>3 DEF SoFar, Buffered
  <2> QED
    BY <1>1, <2>2, <2>3, <2>4 DEF Progress, At, LoopPC
<1> QED
  BY <1>2, <1>3 DEF OpenStream

\* The stream is read on.
LEMMA ReadOutProgress ==
  ASSUME TInv, NEW h \in Handles, Progress(h), ReadOut(h)
  PROVE  Progress(h)'
<1> DEFINE c == data[fdt[handle[h].rd]]
           k == handle[h].pos
<1>1. /\ handle[h].pc = "copyOut" /\ handle[h].rd # None /\ handle[h].buf = <<>>
      /\ fdt[handle[h].rd] \in Inodes /\ UNCHANGED <<remote, data, fdt>>
  BY DEF ReadOut, Unread, At
<1>2. PICK n \in k + 1..Len(c) :
        handle' = [handle EXCEPT ![h].pos = n, ![h].buf = SubSeq(c, k + 1, n)]
  BY DEF ReadOut
<1>3. /\ handle'[h].pc = "copyOut" /\ handle'[h].rd = handle[h].rd /\ PathOf(h)' = PathOf(h)
      /\ handle'[h].pos = n /\ handle'[h].wpos = handle[h].wpos
      /\ handle'[h].buf = SubSeq(c, k + 1, n)
  BY <1>1, <1>2 DEF TInv, TypeOK, HandleType, PathOf
<1>4. c \in Seq(Block) /\ k \in Nat /\ handle[h].wpos \in Nat
  BY <1>1 DEF TInv, TypeOK, HandleType
<1>5. SoFar(remote[PathOf(h)], c, handle[h].wpos) /\ handle[h].wpos = k
  BY <1>1, <1>4 DEF Progress, At, Buffered
<1>6. Buffered(SubSeq(c, k + 1, n), c, k, n)
  <2> HIDE DEF c, k
  <2>1. Len(SubSeq(c, k + 1, n)) = n - k /\ n \in Nat /\ n <= Len(c)
    BY <1>4
  <2>2. \A j \in 1..(n - k) : SubSeq(c, k + 1, n)[j] = c[k + j] /\ k + j \in 1..Len(c)
    BY <1>4
  <2> QED
    BY <1>4, <2>1, <2>2 DEF Buffered
<1> QED
  BY <1>1, <1>3, <1>5, <1>6 DEF Progress, At, LoopPC

\* What is left of the buffer when its first block is taken out.
LEMMA BufferedTail ==
  ASSUME NEW buf \in Seq(Block), NEW from \in Seq(Block), NEW w \in Nat, NEW k \in Nat,
         Buffered(buf, from, w, k), buf # <<>>
  PROVE  w < Len(from) /\ Head(buf) = from[w + 1] /\ Buffered(Tail(buf), from, w + 1, k)
<1>1. Len(buf) \in Nat /\ Len(buf) >= 1 /\ Head(buf) = buf[1] /\ Len(from) \in Nat
  OBVIOUS
<1>2. Len(Tail(buf)) = Len(buf) - 1 /\ \A j \in 1..Len(buf) - 1 : Tail(buf)[j] = buf[j + 1]
  BY <1>1
<1>3. \A j \in 1..Len(buf) - 1 : buf[j + 1] = from[w + 1 + j]
  BY <1>1 DEF Buffered
<1> QED
  BY <1>1, <1>2, <1>3 DEF Buffered

\* A block is uploaded; no write fails.
LEMMA CopyOutProgress ==
  ASSUME Faults = {}, TInv, Own, Tidy, NEW h \in Handles, Progress(h), CopyOut(h)
  PROVE  Progress(h)'
<1> DEFINE p == PathOf(h)
           w == handle[h].wpos
           c == data[fdt[handle[h].rd]]
           b == handle[h].buf
<1>1. handle[h].pc = "copyOut" /\ b # <<>> /\ UNCHANGED <<data, fdt>>
  BY DEF CopyOut, At
<1>2. /\ remote' = [remote EXCEPT ![p] = WriteAt(@, w, Head(b))]
      /\ handle' = [handle EXCEPT ![h].wpos = w + 1, ![h].buf = Tail(@)]
  <2>1. ~SftpFault(h, "write")
    BY DEF SftpFault, Raced, Tidy
  <2> QED
    BY <2>1 DEF CopyOut
<1>3. /\ handle'[h].pc = "copyOut" /\ handle'[h].rd = handle[h].rd /\ PathOf(h)' = p
      /\ handle'[h].pos = handle[h].pos /\ handle'[h].wpos = w + 1 /\ handle'[h].buf = Tail(b)
  BY <1>1, <1>2 DEF TInv, TypeOK, HandleType, PathOf
<1>4. CASE handle[h].rd = None
  BY <1>3, <1>4 DEF Progress, At, LoopPC
<1>5. CASE handle[h].rd # None
  <2>1. SoFar(remote[p], c, w) /\ Buffered(b, c, w, handle[h].pos)
    BY <1>1, <1>5 DEF Progress, At
  <2>2. handle[h].rd \in Held(h) /\ handle[h].pc # "idle"
    BY <1>1, <1>5 DEF Held, StreamPC, TInv, TypeOK, HandleType
  <2>3. fdt[handle[h].rd] \in Inodes
    BY <2>2, HeldNames
  <2>4. /\ remote[p] \in Seq(Block) /\ c \in Seq(Block) /\ p \in Paths
        /\ w \in Nat /\ handle[h].pos \in Nat /\ b \in Seq(Block)
    BY <1>1, <2>3 DEF TInv, TypeOK, HasRemote, TransferPC, PathOf, HandleType
  <2>5. w < Len(c) /\ Head(b) = c[w + 1] /\ Buffered(Tail(b), c, w + 1, handle[h].pos)
    BY <1>1, <2>1, <2>4, BufferedTail
  <2>6. remote'[p] = WriteAt(remote[p], w, c[w + 1])
    BY <1>2, <2>4, <2>5 DEF TInv, TypeOK
  <2>7. SoFar(WriteAt(remote[p], w, c[w + 1]), c, w + 1)
    BY <2>1, <2>4, <2>5, SoFarNext
  <2> QED
    BY <1>1, <1>3, <2>5, <2>6, <2>7 DEF Progress, At, LoopPC
<1> QED
  BY <1>4, <1>5

\* A step for h takes its transfer on.
LEMMA ActorProgress ==
  ASSUME Faults = {}, TInv, Own, Tidy, NEW h \in Handles, Progress(h), Step(h)
  PROVE  Progress(h)'
<1> USE DEF At
<1>a. handle[h] \in HandleType /\ handle \in [Handles -> HandleType]
  BY DEF TInv, TypeOK
<1>b. \A r : handle' = [handle EXCEPT ![h] = r] => handle'[h] = r
  BY <1>a
<1>1. ASSUME handle'[h].pc \notin CopyPC, handle'[h].pc \in LoopPC \/ Fresh(handle'[h])
      PROVE  Progress(h)'
  BY <1>1 DEF Progress, CopyPC
<1>2. ASSUME handle[h].pc \notin LoopPC, NEW l, l \notin CopyPC, Goto(h, l)
      PROVE  Progress(h)'
  <2>1. handle'[h].pc = l /\ Fresh(handle'[h])
    BY <1>a, <1>2 DEF Goto, HandleType, Progress, Fresh
  <2> QED
    BY <1>1, <1>2, <2>1
<1>3. ASSUME Finish(h) PROVE Progress(h)'
  <2>1. handle'[h] = Idle
    BY <1>3, <1>b DEF Finish
  <2> QED
    BY <1>1, <2>1 DEF Idle, CopyPC, Fresh
<1>4. ASSUME NEW f, Opened(h, f) PROVE Progress(h)'
  <2> DEFINE l == IF "trunc" \in handle[h].flags THEN "toTrunc" ELSE "open"
  <2>1. handle'[h] = [Idle EXCEPT !.pc = l, !.path = PathOf(h), !.fh = f]
    BY <1>4, <1>b DEF Opened
  <2> QED
    BY <1>1, <2>1 DEF Idle, CopyPC, Fresh
<1>5. ASSUME handle' = handle, handle[h].pc = "open" PROVE Progress(h)'
  BY <1>1, <1>5 DEF Progress, CopyPC, LoopPC
<1>6. CASE Client(h)
  <2>1. ASSUME NEW p \in Paths, NEW fl, Getattr(h, p, fl) PROVE Progress(h)'
    <3>1. PICK l \in {"lstat", "rstat"} :
            handle'[h] = [Idle EXCEPT !.pc = l, !.path = p, !.flags = fl]
      BY <1>b, <2>1 DEF Getattr
    <3> QED
      BY <1>1, <3>1 DEF Idle, CopyPC, Fresh
  <2>2. ASSUME Close(h) PROVE Progress(h)'
    BY <1>2, <2>2 DEF Close, CopyPC, LoopPC
  <2> QED
    BY <1>5, <1>6, <2>1, <2>2 DEF Client, Write, Ftruncate
<1>7. CASE Request(h)
  <2>1. ASSUME Create(h) PROVE Progress(h)'
    <3>1. \/ Finish(h)
          \/ \E f \in Fds : handle' = [handle EXCEPT ![h] =
                              [Idle EXCEPT !.pc = "open", !.path = PathOf(h), !.fh = f]]
      BY <2>1 DEF Create
    <3>2. ASSUME NEW f \in Fds, handle' = [handle EXCEPT ![h] =
                                   [Idle EXCEPT !.pc = "open", !.path = PathOf(h), !.fh = f]]
          PROVE  Progress(h)'
      <4>1. handle'[h] = [Idle EXCEPT !.pc = "open", !.path = PathOf(h), !.fh = f]
        BY <1>b, <3>2
      <4> QED
        BY <1>1, <4>1 DEF Idle, CopyPC, Fresh
    <3> QED
      BY <1>3, <3>1, <3>2
  <2>2. ASSUME OpenRemote(h) PROVE Progress(h)'
    BY <1>2, <1>3, <1>4, <2>2 DEF OpenRemote, CopyPC, LoopPC
  <2>3. ASSUME Truncate(h) PROVE Progress(h)'
    BY <1>2, <2>3 DEF Truncate, CopyPC, LoopPC
  <2>4. ASSUME TakeRelease(h) PROVE Progress(h)'
    <3>1. handle[h].pc = "queued"
      BY <2>4 DEF TakeRelease, TInv, TypeOK, QueueOK
    <3> QED
      BY <1>2, <2>4, <3>1 DEF TakeRelease, CopyPC, LoopPC
  <2> QED
    BY <1>7, <2>1, <2>2, <2>3, <2>4 DEF Request
<1>8. CASE Handler(h)
  <2>1. ASSUME GetattrLocal(h) \/ GetattrRemote(h) PROVE Progress(h)'
    BY <1>2, <1>3, <2>1 DEF GetattrLocal, GetattrRemote, Found, NotFound, CopyPC, LoopPC
  <2>2. ASSUME CopiedIn(h) PROVE Progress(h)'
    BY <1>4, <2>2 DEF CopiedIn
  <2>3. ASSUME CopiedOut(h) \/ CloseStream(h) PROVE Progress(h)'
    <3>1. handle'[h].pc \in {"closeStream", "closeFh"}
      BY <1>a, <2>3 DEF CopiedOut, CloseStream, Goto, HandleType
    <3> QED
      BY <1>1, <3>1 DEF CopyPC, LoopPC
  <2>5. ASSUME CloseFh(h) PROVE Progress(h)'
    <3>1. handle'[h] = [Idle EXCEPT !.pc = "remove", !.path = PathOf(h)]
      BY <1>b, <2>5 DEF CloseFh
    <3> QED
      BY <1>1, <3>1 DEF Idle, CopyPC, Fresh
  <2>4. ASSUME RemoveLocal(h) PROVE Progress(h)'
    BY <1>3, <2>4 DEF RemoveLocal
  <2> QED
    BY <1>8, <2>1, <2>2, <2>3, <2>4, <2>5, NoFailure, OpenLocalProgress, ReadInProgress,
       CopyInProgress, ReleaseOpenProgress, OpenStreamProgress, ReadOutProgress, CopyOutProgress
       DEF Handler
<1> QED
  BY <1>6, <1>7, <1>8 DEF Step

\* The condition under which transfers are undisturbed.
Quiet == Faults = {} /\ (Workers = 1 \/ Sharing = "patient")

\* It holds at first, when nothing is open.
LEMMA CalmInit == Quiet /\ Init => Calm
<1> SUFFICES ASSUME Quiet, Init PROVE Calm
  OBVIOUS
<1>1. \A h \in Handles : handle[h] = Idle
  BY DEF Init
<1>2. Apart /\ \A h \in Handles : Progress(h)
  BY <1>1 DEF Apart, Waits, OneHandler, OwnPaths, Idle, HandlerPC, ReleasePC, PathOf, Progress,
              Fresh, At
<1>3. Tidy
  BY <1>1, ScpfsAssumption DEF Init, Idle, Tidy, NoErrors, ErrorPC, AllHeld, AllTended
<1> QED
  BY <1>2, <1>3, TInvInit, OwnInit DEF Calm

\* Every step keeps it.
LEMMA CalmNext == Quiet /\ Calm /\ [Next]_vars => Calm'
<1> SUFFICES ASSUME Quiet, Calm, [Next]_vars PROVE Calm'
  OBVIOUS
<1> USE DEF Quiet, Calm
<1>1. (TInv /\ Own /\ Tidy)'
  BY TInvNext, OwnNext, TidyNext DEF ErrnoClear
<1>2. ASSUME NEW h \in Handles, Step(h) PROVE Apart' /\ \A g \in Handles : Progress(g)'
  <2>1. Apart' /\ Progress(h)'
    BY <1>2, ApartStays, ActorProgress DEF TInv
  <2>2. ASSUME NEW g \in Handles \ {h} PROVE Progress(g)'
    BY <1>2, Undisturbed, KeptProgress, OthersStay DEF TInv
  <2> QED
    BY <2>1, <2>2
<1>3. ASSUME NEW p \in Paths, NEW n, TruncatePath(p, n)
      PROVE  Apart' /\ \A g \in Handles : Progress(g)'
  <2>1. handle' = handle /\ queue' = queue
    BY <1>3 DEF TruncatePath
  <2>2. Apart'
    BY <2>1 DEF Apart, Waits, OneHandler, OwnPaths, OneOpener, PathOf
  <2>3. ASSUME NEW g \in Handles PROVE Progress(g)'
    BY <1>3, <2>1, NotTruncated, KeptProgress
  <2> QED
    BY <2>2, <2>3
<1>4. ASSUME UNCHANGED vars PROVE Apart' /\ \A g \in Handles : Progress(g)'
  BY <1>4 DEF vars, Apart, Waits, OneHandler, OwnPaths, OneOpener, PathOf, Progress, Fresh, At
<1>5. Apart' /\ \A g \in Handles : Progress(g)'
  BY <1>2, <1>3, <1>4, NoFailure DEF Next, Step
<1> QED
  BY <1>1, <1>5

\* A download ends with the local copy equal to the remote file, and an upload
\* that found the local copy ends with the remote file equal to it, for any
\* number of openers with one thread, and for any number of threads when nobody
\* opens a file before its last release was answered.
THEOREM TransfersAreWhole == Quiet => (Spec => TransfersWhole)
<1> SUFFICES ASSUME Quiet PROVE Spec => TransfersWhole
  OBVIOUS
<1>1. Calm /\ [Next]_vars =>
        [\A h \in Handles :
           /\ At(h, "copyIn") /\ ~At(h, "copyIn")' =>
                data'[fdt[handle[h].fh]] = remote[PathOf(h)]
           /\ At(h, "copyOut") /\ At(h, "closeStream")' /\ handle[h].rd # None =>
                remote[PathOf(h)] = data[fdt[handle[h].rd]]]_vars
  <2> DEFINE In(h) == At(h, "copyIn") /\ ~At(h, "copyIn")' =>
                        data'[fdt[handle[h].fh]] = remote[PathOf(h)]
             Out(h) == At(h, "copyOut") /\ At(h, "closeStream")' /\ handle[h].rd # None =>
                         remote[PathOf(h)] = data[fdt[handle[h].rd]]
  <2> SUFFICES ASSUME Calm, Next, NEW h \in Handles PROVE In(h) /\ Out(h)
    OBVIOUS
  <2>1. ASSUME handle[h].pc \in {"copyIn", "copyOut"}, handle'[h].pc # handle[h].pc
        PROVE  CopiedIn(h) \/ CopiedOut(h)
    <3>1. ASSUME NEW g \in Handles, Step(g) PROVE g = h
      BY <2>1, <3>1, OthersStay DEF Calm, TInv
    <3>2. ASSUME NEW p \in Paths, NEW n, TruncatePath(p, n) PROVE FALSE
      BY <2>1, <3>2 DEF TruncatePath
    <3>3. Step(h)
      BY <3>1, <3>2, NoFailure DEF Next, Step, Calm, Quiet
    <3>4. ~Client(h) /\ ~Request(h)
      <4>1. TakeRelease(h) => handle[h].pc = "queued"
        BY DEF TakeRelease, Calm, TInv, TypeOK, QueueOK
      <4> QED
        BY <2>1, <4>1 DEF Client, Getattr, Write, Ftruncate, Close, Request, OpenRemote, Create,
                          Truncate, At
    <3>5. ASSUME ReadIn(h) \/ CopyIn(h) \/ ReadOut(h) \/ CopyOut(h) PROVE FALSE
      <4>1. handle'[h].pc = handle[h].pc
        BY <3>5, LoopRecord DEF Calm, TInv
      <4> QED
        BY <2>1, <4>1
    <3>6. Handler(h)
      BY <3>3, <3>4 DEF Step
    <3> QED
      BY <2>1, <3>5, <3>6, NoFailure
         DEF Handler, GetattrLocal, GetattrRemote, OpenLocal, ReleaseOpen, OpenStream,
             CloseStream, CloseFh, RemoveLocal, At, Calm, Quiet
  <2>2. In(h)
    <3> SUFFICES ASSUME handle[h].pc = "copyIn", handle'[h].pc # "copyIn"
                 PROVE  data'[fdt[handle[h].fh]] = remote[PathOf(h)]
      BY DEF At
    <3>1. CopiedIn(h)
      BY <2>1 DEF CopiedOut, At
    <3>2. handle[h].pos >= Len(remote[PathOf(h)]) /\ data' = data
      BY <3>1 DEF CopiedIn, SftpFault, Raced, Quiet, Calm, Tidy
    <3>3. /\ remote[PathOf(h)] \in Seq(Block) /\ data[fdt[handle[h].fh]] \in Seq(Block)
          /\ handle[h].pos \in Nat
      BY FhNames DEF Calm, TInv, TypeOK, HasRemote, TransferPC, PathOf, HandleType, FhPC
    <3>4. SoFar(data[fdt[handle[h].fh]], remote[PathOf(h)], handle[h].pos)
      BY DEF Calm, Progress, At
    <3> QED
      BY <3>2, <3>3, <3>4, SoFarAll
  <2>3. Out(h)
    <3> SUFFICES ASSUME handle[h].pc = "copyOut", handle'[h].pc = "closeStream", handle[h].rd # None
                 PROVE  remote[PathOf(h)] = data[fdt[handle[h].rd]]
      BY DEF At
    <3>1. CopiedOut(h)
      BY <2>1 DEF CopiedIn, At
    <3>2. fdt[handle[h].rd] \in Inodes
      <4>1. handle[h].rd \in Held(h)
        BY DEF Held, StreamPC, At, Calm, TInv, TypeOK, HandleType
      <4> QED
        BY <4>1, HeldNames DEF Calm
    <3>3. handle[h].pos >= Len(data[fdt[handle[h].rd]])
      <4>1. handle[h].pos \in Nat /\ Len(data[fdt[handle[h].rd]]) \in Nat
        BY <3>2 DEF Calm, TInv, TypeOK, HandleType
      <4> QED
        BY <3>1, <3>2, <4>1 DEF CopiedOut, Unread
    <3>4. /\ remote[PathOf(h)] \in Seq(Block) /\ data[fdt[handle[h].rd]] \in Seq(Block)
          /\ handle[h].pos \in Nat
      BY <3>2 DEF Calm, TInv, TypeOK, HasRemote, TransferPC, PathOf, HandleType
    <3>5. SoFar(remote[PathOf(h)], data[fdt[handle[h].rd]], handle[h].pos)
      <4>1. handle[h].buf = <<>> /\ handle[h].wpos \in Nat
        BY <3>1 DEF CopiedOut, Calm, TInv, TypeOK, HandleType
      <4> QED
        BY <3>4, <4>1 DEF Calm, Progress, Buffered, At
    <3> QED
      BY <3>3, <3>4, <3>5, SoFarAll
  <2> QED
    BY <2>2, <2>3
<1>2. (Init => Calm) /\ (Calm /\ [Next]_vars => Calm')
  BY CalmInit, CalmNext
<1> QED
  BY <1>1, <1>2, PTL DEF Spec, TransfersWhole

-----------------------------------------------------------------------------
(* One opener for each file: what it holds and what its path names agree.  *)

\* Nothing fails, and nobody's open is served before the file's last release.
OneByOne == Faults = {} /\ OneOpener

\* Nothing fails, so no call does.
LEMMA NoFault == ASSUME Faults = {}, Tidy PROVE \A h, k : ~SftpFault(h, k)
BY DEF SftpFault, Raced, Tidy

\* A path that clients may open has no handle, and no local copy.
LEMMA NobodyThere ==
  ASSUME OneByOne, Apart, Tidy, Ready, NEW p, MayOpen(p)
  PROVE  (\A g \in Handles : PathOf(g) # p) /\ (p \in Paths => local[p] = None)
<1>1. \A g \in Handles : PathOf(g) # p
  BY NobodyHas DEF OneByOne
<1> QED
  BY <1>1 DEF Tidy, AllTended

\* The next record of h is r.
LEMMA NextRecord ==
  ASSUME TypeOK, NEW h \in Handles, NEW r, handle' = [handle EXCEPT ![h] = r]
  PROVE  handle'[h] = r
BY DEF TypeOK

\* The next record of h, when only its label changes.
LEMMA NextLabel ==
  ASSUME TypeOK, NEW h \in Handles, NEW l, Goto(h, l)
  PROVE  /\ handle'[h].pc = l /\ PathOf(h)' = PathOf(h)
         /\ handle'[h].fh = handle[h].fh /\ handle'[h].rd = handle[h].rd
BY DEF Goto, TypeOK, HandleType, PathOf

\* An opened file is what its descriptor and its name lead to.
LEMMA OpenedFile ==
  ASSUME TypeOK, NEW p \in Paths, NEW f \in Fds, NEW i \in Inodes, OpenFile(p, f, i)
  PROVE  local'[p] = i /\ fdt'[f] = i /\ data'[i] = <<>>
BY DEF OpenFile, TypeOK

\* An upload reads what its handle has open.
LEMMA OpenStreamLinked ==
  ASSUME OneByOne, TInv, Own, Tidy, NEW h \in Handles, Linked(h), OpenStream(h)
  PROVE  Linked(h)'
<1>1. /\ handle[h].pc = "openStream" /\ UNCHANGED local
      /\ local[PathOf(h)] = fdt[handle[h].fh]
  BY DEF OpenStream, At, Linked, HoldsFh, FhPC
<1>2. handle[h].fh \in Fds /\ fdt[handle[h].fh] \in Inodes /\ fdt[handle[h].fh] # None
  BY <1>1, FhNames, ScpfsAssumption DEF FhPC
<1>3. PICK f \in Fds : /\ f \in FreeFds /\ fdt' = [fdt EXCEPT ![f] = local[PathOf(h)]]
                       /\ handle' = [handle EXCEPT ![h].pc = "copyOut", ![h].rd = f]
  BY <1>1, <1>2 DEF OpenStream, NoFd, LowestFd, OneByOne
<1>4. /\ handle'[h].pc = "copyOut" /\ handle'[h].rd = f /\ PathOf(h)' = PathOf(h)
      /\ handle'[h].fh = handle[h].fh
  BY <1>3 DEF TInv, TypeOK, HandleType, PathOf
<1>5. handle[h].fh # f /\ f # None
  BY <1>2, <1>3, ScpfsAssumption DEF FreeFds
<1>6. fdt'[f] = local[PathOf(h)] /\ fdt'[handle[h].fh] = fdt[handle[h].fh]
  BY <1>2, <1>3, <1>5 DEF TInv, TypeOK
<1> QED
  BY <1>1, <1>4, <1>5, <1>6 DEF Linked, At

\* The stream is closed, and not what the handle has open.
LEMMA CloseStreamLinked ==
  ASSUME TInv, Own, NEW h \in Handles, Linked(h), CloseStream(h)
  PROVE  Linked(h)'
<1>1. /\ handle[h].pc = "closeStream" /\ UNCHANGED local
      /\ local[PathOf(h)] = fdt[handle[h].fh]
  BY DEF CloseStream, At, Linked, HoldsFh, FhPC
<1>2. handle[h].fh \in Fds /\ handle[h].rd # handle[h].fh
  BY <1>1, FhNames DEF FhPC, Own, RecordsOK, RecordOK, StreamPC
<1>3. handle'[h].pc = "closeFh" /\ PathOf(h)' = PathOf(h) /\ handle'[h].fh = handle[h].fh
  BY DEF CloseStream, TInv, TypeOK, HandleType, PathOf
<1>4. fdt'[handle[h].fh] = fdt[handle[h].fh]
  BY <1>2 DEF CloseStream, CloseFds
<1> QED
  BY <1>1, <1>3, <1>4 DEF Linked, HoldsFh, At, FhPC

\* A step for h keeps what it has open and what its path names together.
LEMMA ActorLinked ==
  ASSUME OneByOne, TInv, Own, Tidy, Apart, NEW h \in Handles, Linked(h), Step(h)
  PROVE  Linked(h)'
<1>a. TypeOK /\ Faults = {}
  BY DEF TInv, OneByOne
<1>1. ASSUME handle'[h].pc \notin FhPC \cup {"lstat", "toCreate"} PROVE Linked(h)'
  BY <1>1 DEF Linked, HoldsFh, At, FhPC
<1>2. ASSUME Finish(h) PROVE Linked(h)'
  <2>1. handle'[h] = Idle
    BY <1>2, <1>a, NextRecord DEF Finish
  <2> QED
    BY <1>1, <2>1 DEF Idle, FhPC
<1>3. ASSUME NEW l \in FhPC \ {"copyOut"}, Goto(h, l), HoldsFh(h),
             UNCHANGED <<local, fdt>>
      PROVE  Linked(h)'
  BY <1>3, <1>a, NextLabel DEF Linked, HoldsFh, At, FhPC
<1> USE DEF HoldsFh
<1>4. ASSUME NEW l \in {"toOpen", "openLocal"}, Goto(h, l) PROVE Linked(h)'
  BY <1>1, <1>4, <1>a, NextLabel DEF FhPC
<1>5. CASE Client(h)
  <2>1. ASSUME NEW p \in Paths, NEW fl, Getattr(h, p, fl) PROVE Linked(h)'
    <3>1. handle'[h] = [Idle EXCEPT !.pc = "rstat", !.path = p, !.flags = fl]
      BY <1>a, <2>1, NobodyThere, NextRecord DEF Getattr
    <3> QED
      BY <1>1, <3>1 DEF Idle, FhPC
  <2>2. ASSUME \/ \E k \in Nat, b \in Block : Write(h, k, b)
               \/ \E n \in Nat : Ftruncate(h, n)
        PROVE  Linked(h)'
    BY <2>2 DEF Write, Ftruncate, Linked, HoldsFh, At, FhPC, PathOf
  <2>3. ASSUME Close(h) PROVE Linked(h)'
    BY <1>3, <2>3 DEF Close, At, FhPC
  <2> QED
    BY <1>5, <2>1, <2>2, <2>3, ScpfsAssumption DEF Client
<1>6. CASE Request(h)
  <2>1. ASSUME OpenRemote(h) PROVE Linked(h)'
    BY <1>2, <1>4, <1>a, <2>1 DEF OpenRemote, ErrnoClear
  <2>2. ASSUME Create(h) PROVE Linked(h)'
    <3>1. ~NoRoom(PathOf(h)) /\ PathOf(h) \in Paths
      BY <1>a, <2>2 DEF NoRoom, NoFd, Create, At, TypeOK, PathOf
    <3>2. PICK f \in Fds, i \in Inodes :
            /\ OpenFile(PathOf(h), f, i)
            /\ handle' = [handle EXCEPT ![h] =
                            [Idle EXCEPT !.pc = "open", !.path = PathOf(h), !.fh = f]]
      BY <1>a, <2>2, <3>1 DEF Create
    <3>3. handle'[h] = [Idle EXCEPT !.pc = "open", !.path = PathOf(h), !.fh = f]
      BY <1>a, <3>2, NextRecord
    <3>4. handle'[h].pc = "open" /\ PathOf(h)' = PathOf(h) /\ handle'[h].fh = f
      BY <3>3 DEF Idle, PathOf
    <3> QED
      BY <1>a, <3>1, <3>2, <3>4, OpenedFile DEF Linked, At
  <2>3. ASSUME Truncate(h) PROVE Linked(h)'
    BY <1>3, <2>3 DEF Truncate, At, FhPC
  <2>4. ASSUME TakeRelease(h) PROVE Linked(h)'
    <3>1. handle[h].pc = "queued"
      BY <2>4 DEF TakeRelease, TInv, TypeOK, QueueOK
    <3> QED
      BY <1>3, <2>4, <3>1 DEF TakeRelease, FhPC
  <2> QED
    BY <1>6, <2>1, <2>2, <2>3, <2>4 DEF Request
<1>7. CASE Handler(h)
  <2>1. ASSUME GetattrLocal(h) PROVE FALSE
    BY <2>1 DEF GetattrLocal, Linked
  <2>2. ASSUME GetattrRemote(h) PROVE Linked(h)'
    <3>1. Finish(h) \/ Goto(h, "toOpen") \/ (Goto(h, "toCreate") /\ remote[PathOf(h)] = None)
      BY <1>a, <2>2, NoFault DEF GetattrRemote, Found, NotFound
    <3>2. ASSUME Goto(h, "toCreate"), remote[PathOf(h)] = None PROVE Linked(h)'
      BY <1>a, <2>2, <3>2, NextLabel DEF GetattrRemote, Linked, HoldsFh, FhPC, At
    <3> QED
      BY <1>2, <1>4, <3>1, <3>2
  <2>3. ASSUME OpenLocal(h) PROVE Linked(h)'
    <3>1. PICK f \in Fds, i \in Inodes :
            /\ OpenFile(PathOf(h), f, i)
            /\ handle' = [handle EXCEPT ![h].pc = "copyIn", ![h].fh = f]
      BY <2>3 DEF OpenLocal
    <3>2. handle'[h].pc = "copyIn" /\ PathOf(h)' = PathOf(h) /\ handle'[h].fh = f
      BY <1>a, <3>1 DEF TypeOK, HandleType, PathOf
    <3>3. PathOf(h) \in Paths
      BY <1>a, <2>3 DEF OpenLocal, At, TypeOK, PathOf
    <3> QED
      BY <1>a, <3>1, <3>2, <3>3, OpenedFile DEF Linked, At
  <2>4. ASSUME ReadIn(h) \/ CopyIn(h) \/ ReadOut(h) \/ CopyOut(h) PROVE Linked(h)'
    <3>1. /\ handle'[h].pc = handle[h].pc /\ handle'[h].fh = handle[h].fh
          /\ handle'[h].rd = handle[h].rd /\ PathOf(h)' = PathOf(h)
          /\ handle[h].pc \in {"copyIn", "copyOut"}
      BY <1>a, <2>4, LoopRecord DEF PathOf
    <3>2. UNCHANGED <<local, fdt>>
      BY <2>4 DEF ReadIn, CopyIn, ReadOut, CopyOut
    <3> QED
      BY <3>1, <3>2 DEF Linked, FhPC, At
  <2>5. ASSUME CopiedIn(h) PROVE Linked(h)'
    <3> DEFINE l == IF "trunc" \in handle[h].flags THEN "toTrunc" ELSE "open"
    <3>1. handle'[h] = [Idle EXCEPT !.pc = l, !.path = PathOf(h), !.fh = handle[h].fh]
      BY <1>a, <2>5, NextRecord DEF CopiedIn, Opened
    <3>2. handle'[h].pc \in {"toTrunc", "open"} /\ PathOf(h)' = PathOf(h) /\ handle'[h].fh = handle[h].fh
      BY <3>1 DEF Idle, PathOf
    <3> QED
      BY <2>5, <3>2 DEF CopiedIn, Linked, HoldsFh, FhPC, At
  <2>6. ASSUME ReleaseOpen(h) PROVE Linked(h)'
    BY <1>3, <2>6 DEF ReleaseOpen, At, FhPC
  <2>7. ASSUME CopiedOut(h) PROVE Linked(h)'
    BY <1>3, <2>7 DEF CopiedOut, At, FhPC
  <2>9. ASSUME CloseStream(h) PROVE Linked(h)'
    BY <1>a, <2>9, CloseStreamLinked
  <2>10. ASSUME CloseFh(h) PROVE Linked(h)'
    <3>1. handle'[h] = [Idle EXCEPT !.pc = "remove", !.path = PathOf(h)]
      BY <1>a, <2>10, NextRecord DEF CloseFh
    <3> QED
      BY <1>1, <3>1 DEF Idle, FhPC
  <2>8. ASSUME RemoveLocal(h) PROVE Linked(h)'
    BY <1>2, <2>8 DEF RemoveLocal
  <2> QED
    BY <1>7, <1>a, <2>1, <2>2, <2>3, <2>4, <2>5, <2>6, <2>7, <2>8, <2>9, <2>10, NoFailure,
       OpenStreamLinked DEF Handler
<1> QED
  BY <1>5, <1>6, <1>7 DEF Step

\* A step for another handle does too.
LEMMA KeptLinked ==
  ASSUME TInv, NEW g \in Handles, Linked(g), handle'[g] = handle[g],
         handle[g].pc = "idle" \/ Kept(g)
  PROVE  Linked(g)'
<1>1. CASE handle[g].pc = "idle"
  BY <1>1 DEF Linked, HoldsFh, At, FhPC
<1>2. CASE Kept(g)
  <2>1. HoldsFh(g) => handle[g].fh \in Held(g)
    BY DEF TInv, TypeOK, Held
  <2>2. At(g, "copyOut") /\ handle[g].rd # None => handle[g].rd \in Held(g)
    BY DEF TInv, TypeOK, HandleType, Held, StreamPC, At
  <2> QED
    BY <1>2, <2>1, <2>2 DEF Kept, KeptFiles, Linked, HoldsFh, At, FhPC, PathOf
<1> QED
  BY <1>1, <1>2

\* So the links stay, whoever moves.
LEMMA LinkedNext == OneByOne /\ Calm /\ AllLinked /\ [Next]_vars => AllLinked'
<1> SUFFICES ASSUME OneByOne, Calm, AllLinked, [Next]_vars, NEW g \in Handles PROVE Linked(g)'
  BY DEF AllLinked
<1> USE DEF Calm, AllLinked
<1>1. ASSUME NEW h \in Handles, Step(h) PROVE Linked(g)'
  <2>1. CASE g = h
    BY <1>1, <2>1, ActorLinked
  <2>2. CASE g # h
    BY <1>1, <2>2, Undisturbed, KeptLinked, OthersStay DEF TInv, OneByOne, OneOpener
  <2> QED
    BY <2>1, <2>2
<1>2. ASSUME NEW p \in Paths, NEW n, TruncatePath(p, n) PROVE Linked(g)'
  BY <1>2 DEF TruncatePath, Linked, HoldsFh, FhPC, At, PathOf
<1>3. ASSUME UNCHANGED vars PROVE Linked(g)'
  BY <1>3 DEF vars, Linked, HoldsFh, FhPC, At, PathOf
<1> QED
  BY <1>1, <1>2, <1>3, NoFailure DEF Next, Step, OneByOne

-----------------------------------------------------------------------------
(* One opener at a time gets what CloseToOpen promises.                    *)

\* What handle h, where no other has path p, shows of it.
Alone(h, p) == \A g \in Handles \ {h} : PathOf(g) # p
Shown(h, p) == IF Publishing(h) /\ PathOf(h) = p THEN Seen(h) ELSE remote[p]

\* Publishing and open handles have a descriptor.
LEMMA ShownHolds ==
  \A h \in Handles : Publishing(h) \/ IsOpen(h) => handle[h].pc \in FhPC /\ ~(Publishing(h) /\ IsOpen(h))
BY DEF Publishing, IsOpen, FhPC

\* The store at a path that only h has.
LEMMA StoreOfOne ==
  ASSUME NEW h \in Handles, NEW p \in Paths, Alone(h, p)
  PROVE  Store[p] = Shown(h, p)
<1> DEFINE Pub(g) == Publishing(g) /\ PathOf(g) = p
<1>1. \A g \in Handles : Pub(g) => g = h
  BY DEF Alone
<1>2. Store[p] = IF \E g \in Handles : Pub(g) THEN Seen(CHOOSE g \in Handles : Pub(g))
                 ELSE remote[p]
  BY DEF Store
<1>3. CASE Pub(h)
  <2>1. (CHOOSE g \in Handles : Pub(g)) = h
    BY <1>1, <1>3
  <2> QED
    BY <1>2, <1>3, <2>1 DEF Shown
<1>4. CASE ~Pub(h)
  BY <1>1, <1>2, <1>4 DEF Shown
<1> QED
  BY <1>3, <1>4

\* The store at a path that nobody has.
LEMMA StoreOfNone ==
  ASSUME NEW p \in Paths, \A g \in Handles : PathOf(g) # p
  PROVE  Store[p] = remote[p]
BY DEF Store

\* And after a step.
LEMMA StoreOfOneNext ==
  ASSUME NEW h \in Handles, NEW p \in Paths
  PROVE  Alone(h, p)' => (Store[p] = Shown(h, p))'
<1>1. Alone(h, p) => Store[p] = Shown(h, p)
  BY StoreOfOne
<1> QED
  BY <1>1, PTL

\* What a kept handle has open is as before.
LEMMA KeptSeen ==
  ASSUME TInv, NEW g \in Handles, handle[g].pc \in FhPC, Kept(g)
  PROVE  Seen(g)' = Seen(g)
<1>1. handle[g].fh \in Held(g)
  BY DEF TInv, TypeOK, Held, HoldsFh
<1> QED
  BY <1>1 DEF Kept, KeptFiles, Seen

\* A step for h changes no remote file but its own.
LEMMA RemoteElsewhere ==
  ASSUME Faults = {}, TInv, Own, Tidy, NEW h \in Handles, Step(h), NEW p \in Paths \ {PathOf(h)}
  PROVE  remote'[p] = remote[p]
<1>1. ASSUME ReleaseOpen(h) \/ CopyOut(h) PROVE remote'[p] = remote[p]
  BY <1>1 DEF ReleaseOpen, CopyOut, TInv, TypeOK
<1>2. CASE Client(h)
  BY <1>2 DEF Client, Getattr, Write, Ftruncate, Close
<1>3. CASE Request(h)
  BY <1>3 DEF Request, OpenRemote, Create, Truncate, TakeRelease
<1>4. CASE Handler(h)
  BY <1>1, <1>4, NoFailure
     DEF Handler, GetattrLocal, GetattrRemote, OpenLocal, ReadIn, CopyIn, CopiedIn, OpenStream,
         ReadOut, CopiedOut, CloseStream, CloseFh, RemoveLocal
<1> QED
  BY <1>2, <1>3, <1>4 DEF Step

\* The steps of the refinement.
Good == OneByOne /\ Calm /\ Calm' /\ AllLinked

\* A handle that a step does not move is kept, unless it is idle.
LEMMA OthersKept ==
  ASSUME Good, NEW h \in Handles, Step(h), NEW g \in Handles \ {h}
  PROVE  handle'[g] = handle[g] /\ (handle[g].pc # "idle" => Kept(g))
BY OthersStay, Undisturbed DEF Good, OneByOne, OneOpener, Calm, TInv

\* A step for h has its paths to itself.
LEMMA HereAlone ==
  ASSUME Good, NEW h \in Handles, Step(h), NEW p \in Paths \cap {PathOf(h), PathOf(h)'}
  PROVE  Alone(h, p) /\ Alone(h, p)'
<1>1. \A g \in Handles \ {h} : PathOf(g)' = PathOf(g)
  BY OthersKept DEF PathOf
<1>2. OwnPaths /\ OwnPaths' /\ p # None
  BY ScpfsAssumption DEF Good, OneByOne, Calm, Apart
<1> QED
  BY <1>1, <1>2 DEF OwnPaths, Alone

\* At other paths the store stays.
LEMMA StoreElsewhere ==
  ASSUME Good, NEW h \in Handles, Step(h), NEW p \in Paths \ {PathOf(h), PathOf(h)'}
  PROVE  Store'[p] = Store[p]
<1>1. remote'[p] = remote[p]
  BY RemoteElsewhere DEF Good, OneByOne, Calm
<1>2. \A g \in Handles \ {h} : PathOf(g)' = PathOf(g)
  BY OthersKept DEF PathOf
<1>3. ASSUME NEW g \in Handles \ {h}, PathOf(g) = p PROVE Store'[p] = Store[p]
  <2>1. Alone(g, p)
    BY <1>3, ScpfsAssumption DEF Good, OneByOne, Calm, Apart, OwnPaths, Alone
  <2>2. Alone(g, p)'
    BY <1>2, <2>1 DEF Alone
  <2>3. Store[p] = Shown(g, p) /\ Store'[p] = Shown(g, p)'
    BY <2>1, <2>2, StoreOfOne, StoreOfOneNext
  <2>4. handle'[g] = handle[g] /\ (handle[g].pc # "idle" => Kept(g))
    BY <1>3, OthersKept
  <2>5. Publishing(g) => Seen(g)' = Seen(g)
    BY <2>4, ShownHolds, KeptSeen DEF Good, Calm, FhPC
  <2> QED
    BY <1>1, <2>3, <2>4, <2>5 DEF Shown, Publishing, PathOf
<1>4. CASE \A g \in Handles \ {h} : PathOf(g) # p
  <2>1. Alone(h, p) /\ Alone(h, p)'
    BY <1>2, <1>4 DEF Alone
  <2>2. Store[p] = Shown(h, p) /\ Store'[p] = Shown(h, p)'
    BY <2>1, StoreOfOne, StoreOfOneNext
  <2> QED
    BY <1>1, <2>2 DEF Shown
<1> QED
  BY <1>3, <1>4

\* Of the private copies only that of h may change.
LEMMA CopiesElsewhere ==
  ASSUME Good, NEW h \in Handles, Step(h)
  PROVE  Copy' = [Copy EXCEPT ![h] = Copy'[h]] /\ On' = [On EXCEPT ![h] = On'[h]]
<1>1. ASSUME NEW g \in Handles \ {h} PROVE Copy'[g] = Copy[g] /\ On'[g] = On[g]
  <2>1. handle'[g] = handle[g] /\ (handle[g].pc # "idle" => Kept(g))
    BY OthersKept
  <2>2. IsOpen(g)' = IsOpen(g) /\ PathOf(g)' = PathOf(g)
    BY <2>1 DEF IsOpen, PathOf
  <2>3. IsOpen(g) => Seen(g)' = Seen(g)
    BY <2>1, ShownHolds, KeptSeen DEF Good, Calm, FhPC
  <2> QED
    BY <2>2, <2>3 DEF Copy, On
<1>2. /\ Copy = [g \in Handles |-> Copy[g]] /\ Copy' = [g \in Handles |-> Copy'[g]]
      /\ On = [g \in Handles |-> On[g]] /\ On' = [g \in Handles |-> On'[g]]
  BY DEF Copy, On
<1> HIDE DEF Copy, On
<1> QED
  BY <1>1, <1>2

\* The store as a whole stays when it stays where h is.
LEMMA StoreStays ==
  ASSUME Good, NEW h \in Handles, Step(h),
         \A p \in Paths \cap {PathOf(h), PathOf(h)'} : Shown(h, p)' = Shown(h, p)
  PROVE  Store' = Store
<1>1. ASSUME NEW p \in Paths PROVE Store'[p] = Store[p]
  <2>1. CASE p \in {PathOf(h), PathOf(h)'}
    BY <2>1, HereAlone, StoreOfOne, StoreOfOneNext
  <2>2. CASE p \notin {PathOf(h), PathOf(h)'}
    BY <2>2, StoreElsewhere
  <2> QED
    BY <2>1, <2>2
<1>2. Store = [p \in Paths |-> Store[p]] /\ Store' = [p \in Paths |-> Store'[p]]
  BY DEF Store
<1> QED
  BY <1>1, <1>2

\* A step that h makes while it has nothing to show changes nothing.
LEMMA BehindStutters ==
  ASSUME Good, NEW h \in Handles, Step(h), remote' = remote,
         ~Publishing(h), ~IsOpen(h), ~Publishing(h)', ~IsOpen(h)'
  PROVE  UNCHANGED <<Store, Copy, On>>
<1>1. Store' = Store
  BY StoreStays DEF Shown
<1>2. Copy'[h] = Copy[h] /\ On'[h] = On[h]
  BY DEF Copy, On
<1>3. Copy = [Copy EXCEPT ![h] = Copy[h]] /\ On = [On EXCEPT ![h] = On[h]]
  BY DEF Copy, On
<1> QED
  BY <1>1, <1>2, <1>3, CopiesElsewhere

\* A step of a release that goes on changes nothing.
LEMMA ReleaseStutters ==
  ASSUME Good, NEW h \in Handles, Step(h), PathOf(h)' = PathOf(h), Seen(h)' = Seen(h),
         Publishing(h), Publishing(h)'
  PROVE  UNCHANGED <<Store, Copy, On>>
<1>1. Store' = Store
  BY StoreStays DEF Shown
<1>2. Copy'[h] = Copy[h] /\ On'[h] = On[h]
  BY DEF Copy, On, Publishing, IsOpen
<1>3. Copy = [Copy EXCEPT ![h] = Copy[h]] /\ On = [On EXCEPT ![h] = On[h]]
  BY DEF Copy, On
<1> QED
  BY <1>1, <1>2, <1>3, CopiesElsewhere

\* The promise speaks of the same contents.
LEMMA SameContent ==
  /\ \A c, k, b : Promise!WriteAt(c, k, b) = WriteAt(c, k, b)
  /\ \A c, n : Promise!Resize(c, n) = Resize(c, n)
BY DEF Promise!WriteAt, WriteAt, Promise!Resize, Resize

\* A path that h has to itself is private until h has opened it.
LEMMA NotYetOpen ==
  ASSUME Good, NEW h \in Handles, Step(h), ~IsOpen(h), ~Publishing(h), PathOf(h) \in Paths
  PROVE  /\ Promise!Private(PathOf(h)) /\ Copy[h] = None
         /\ Store[PathOf(h)] = remote[PathOf(h)]
<1>1. Alone(h, PathOf(h)) /\ PathOf(h) # None
  BY HereAlone, ScpfsAssumption
<1>2. Store[PathOf(h)] = remote[PathOf(h)]
  BY <1>1, StoreOfOne DEF Shown
<1>3. \A g \in Handles : On[g] # PathOf(h)
  BY <1>1 DEF On, Alone
<1> QED
  BY <1>2, <1>3 DEF Promise!Private, Copy

\* What h has open is contents, and what its path names.
LEMMA SeenFile ==
  ASSUME Good, NEW h \in Handles, handle[h].pc \in FhPC
  PROVE  /\ Seen(h) \in Seq(Block) /\ Seen(h) # None /\ fdt[handle[h].fh] \in Inodes
         /\ local[PathOf(h)] = fdt[handle[h].fh] /\ PathOf(h) \in Paths
<1>1. TInv /\ Own /\ Linked(h)
  BY DEF Good, Calm, AllLinked
<1>2. fdt[handle[h].fh] \in Inodes /\ PathOf(h) \in Paths
  BY <1>1, FhNames
<1>3. Seen(h) \in Seq(Block)
  BY <1>1, <1>2 DEF Seen, TInv, TypeOK
<1> QED
  BY <1>1, <1>2, <1>3, ScpfsAssumption DEF Linked, HoldsFh

\* The end of a download is the open: the client has what the store holds.
LEMMA CopiedInOpens ==
  ASSUME Good, NEW h \in Handles, CopiedIn(h)
  PROVE  Promise!Open(h, PathOf(h))
<1> DEFINE p == PathOf(h)
<1>1. Step(h) /\ handle[h].pc = "copyIn" /\ ~IsOpen(h) /\ ~Publishing(h)
  BY DEF CopiedIn, Step, Handler, At, IsOpen, Publishing
<1>2. p \in Paths /\ fdt[handle[h].fh] \in Inodes
  BY <1>1, SeenFile DEF FhPC
<1>3. PICK l \in {"toTrunc", "open"} :
        handle'[h] = [Idle EXCEPT !.pc = l, !.path = p, !.fh = handle[h].fh]
  BY NextRecord DEF CopiedIn, Opened, Good, Calm, TInv
<1>4. IsOpen(h)' /\ ~Publishing(h)' /\ PathOf(h)' = p /\ handle'[h].fh = handle[h].fh
  BY <1>3 DEF Idle, IsOpen, Publishing, PathOf
<1>5. Seen(h) = remote[p] /\ remote[p] # None
  <2>1. handle[h].pos >= Len(remote[p])
    BY NoFault DEF CopiedIn, Good, OneByOne, Calm
  <2>2. /\ remote[p] \in Seq(Block) /\ remote[p] # None /\ handle[h].pos \in Nat
        /\ SoFar(Seen(h), remote[p], handle[h].pos)
    BY <1>1, <1>2 DEF Good, Calm, TInv, TypeOK, HasRemote, TransferPC, PathOf, HandleType,
                      Progress, At, Seen
  <2>3. Seen(h) \in Seq(Block)
    BY <1>1, SeenFile DEF FhPC
  <2> QED
    BY <2>1, <2>2, <2>3, SoFarAll
<1>6. Seen(h)' = Seen(h)
  BY <1>4 DEF CopiedIn, Seen
<1>7. Store' = Store
  BY <1>1, <1>4, StoreStays DEF Shown, CopiedIn
<1>8. Promise!Private(p) /\ Copy[h] = None /\ Store[p] = remote[p]
  BY <1>1, <1>2, NotYetOpen
<1>9. Copy'[h] = Store[p] /\ On'[h] = p
  BY <1>4, <1>5, <1>6, <1>8 DEF Copy, On
<1>10. Copy' = [Copy EXCEPT ![h] = Store[p]] /\ On' = [On EXCEPT ![h] = p]
  BY <1>1, <1>9, CopiesElsewhere
<1> QED
  BY <1>5, <1>7, <1>8, <1>10 DEF Promise!Open

\* A new file is created empty where the store has none.
LEMMA CreateCreates ==
  ASSUME Good, NEW h \in Handles, Create(h)
  PROVE  Promise!Create(h, PathOf(h))
<1> DEFINE p == PathOf(h)
<1>1. Step(h) /\ handle[h].pc = "toCreate" /\ ~IsOpen(h) /\ ~Publishing(h)
  BY DEF Create, Step, Request, At, IsOpen, Publishing
<1>2. p \in Paths /\ remote[p] = None /\ TypeOK
  BY <1>1 DEF Good, Calm, TInv, TypeOK, PathOf, AllLinked, Linked, At
<1>3. PICK f \in Fds, i \in Inodes :
        /\ OpenFile(p, f, i)
        /\ handle' = [handle EXCEPT ![h] = [Idle EXCEPT !.pc = "open", !.path = p, !.fh = f]]
  BY DEF Create, NoRoom, NoFd, Good, OneByOne
<1>4. handle'[h] = [Idle EXCEPT !.pc = "open", !.path = p, !.fh = f]
  BY <1>2, <1>3, NextRecord
<1>5. IsOpen(h)' /\ ~Publishing(h)' /\ PathOf(h)' = p /\ handle'[h].fh = f
  BY <1>4 DEF Idle, IsOpen, Publishing, PathOf
<1>6. Seen(h)' = <<>>
  BY <1>2, <1>3, <1>5, OpenedFile DEF Seen
<1>7. Store' = Store
  BY <1>1, <1>5, StoreStays DEF Shown, Create
<1>8. Promise!Private(p) /\ Copy[h] = None /\ Store[p] = None
  BY <1>1, <1>2, NotYetOpen
<1>9. Copy'[h] = <<>> /\ On'[h] = p
  BY <1>5, <1>6 DEF Copy, On
<1>10. Copy' = [Copy EXCEPT ![h] = <<>>] /\ On' = [On EXCEPT ![h] = p]
  BY <1>1, <1>9, CopiesElsewhere
<1> QED
  BY <1>7, <1>8, <1>10 DEF Promise!Create

\* A step of an open file that stays open changes only its private copy.
LEMMA ModifyStep ==
  ASSUME Good, NEW h \in Handles, Step(h), IsOpen(h), IsOpen(h)', PathOf(h)' = PathOf(h),
         remote' = remote
  PROVE  Promise!Modify(h, Seen(h)')
<1>1. ~Publishing(h) /\ ~Publishing(h)'
  BY DEF IsOpen, Publishing
<1>2. Store' = Store
  BY <1>1, StoreStays DEF Shown
<1>3. Copy'[h] = Seen(h)' /\ On'[h] = On[h] /\ Copy[h] # None
  BY SeenFile, ShownHolds DEF Copy, On
<1>4. On = [On EXCEPT ![h] = On[h]]
  BY DEF On
<1>5. Copy' = [Copy EXCEPT ![h] = Seen(h)'] /\ On' = On
  BY <1>3, <1>4, CopiesElsewhere
<1> QED
  BY <1>2, <1>3, <1>5 DEF Promise!Modify

\* A write reaches the private copy.
LEMMA WriteWrites ==
  ASSUME Good, NEW h \in Handles, NEW k \in 0..MaxLen - 1, NEW b \in Block, Write(h, k, b)
  PROVE  Promise!Write(h)
<1>1. Step(h) /\ IsOpen(h) /\ IsOpen(h)' /\ PathOf(h)' = PathOf(h) /\ UNCHANGED <<remote, fdt, handle>>
  BY DEF Write, Step, Client, At, IsOpen, PathOf
<1>2. fdt[handle[h].fh] \in Inodes
  BY <1>1, ShownHolds, SeenFile
<1>3. Seen(h)' = WriteAt(Seen(h), k, b)
  BY <1>1, <1>2 DEF Write, WriteFd, Seen, Good, Calm, TInv, TypeOK
<1>4. Seen(h) = Copy[h]
  BY <1>1 DEF Copy
<1>5. Promise!Modify(h, Promise!WriteAt(Copy[h], k, b))
  BY <1>1, <1>3, <1>4, ModifyStep, SameContent
<1> QED
  BY <1>5 DEF Promise!Write

\* So does ftruncate.
LEMMA FtruncateSetsSize ==
  ASSUME Good, NEW h \in Handles, NEW n \in 0..MaxLen, Ftruncate(h, n)
  PROVE  Promise!SetSize(h)
<1>1. Step(h) /\ IsOpen(h) /\ IsOpen(h)' /\ PathOf(h)' = PathOf(h) /\ UNCHANGED <<remote, fdt, handle>>
  BY DEF Ftruncate, Step, Client, At, IsOpen, PathOf
<1>2. Seen(h)' = Resize(Seen(h), n)
  BY <1>1 DEF Ftruncate, Seen, Good, Calm, TInv, TypeOK
<1>3. Seen(h) = Copy[h]
  BY <1>1 DEF Copy
<1>4. Promise!Modify(h, Promise!Resize(Copy[h], n))
  BY <1>1, <1>2, <1>3, ModifyStep, SameContent
<1> QED
  BY <1>4 DEF Promise!SetSize

\* The truncation of open(O_TRUNC) finds the copy it is meant for.
LEMMA TruncateSetsSize ==
  ASSUME Good, NEW h \in Handles, Truncate(h)
  PROVE  Promise!SetSize(h)
<1>1. Step(h) /\ handle[h].pc = "toTrunc" /\ IsOpen(h) /\ UNCHANGED <<remote, fdt>>
  BY DEF Truncate, Step, Request, At, IsOpen
<1>2. /\ local[PathOf(h)] = fdt[handle[h].fh] /\ local[PathOf(h)] \in Inodes
      /\ local[PathOf(h)] # None
  BY <1>1, ShownHolds, SeenFile, ScpfsAssumption
<1>3. data' = [data EXCEPT ![fdt[handle[h].fh]] = <<>>] /\ Goto(h, "open")
  BY <1>2 DEF Truncate
<1>4. handle'[h].pc = "open" /\ PathOf(h)' = PathOf(h) /\ handle'[h].fh = handle[h].fh
  BY <1>3, NextLabel DEF Good, Calm, TInv
<1>5. Seen(h)' = <<>>
  BY <1>1, <1>2, <1>3, <1>4 DEF Seen, Good, Calm, TInv, TypeOK
<1>6. Resize(Copy[h], 0) = <<>>
  BY DEF Resize
<1>7. Promise!Modify(h, Promise!Resize(Copy[h], 0))
  BY <1>1, <1>4, <1>5, <1>6, ModifyStep, SameContent DEF IsOpen
<1>8. 0 \in 0..MaxLen
  BY ScpfsAssumption
<1> QED
  BY <1>7, <1>8 DEF Promise!SetSize

\* close publishes, before anything of its release has been done.
LEMMA CloseCloses ==
  ASSUME Good, NEW h \in Handles, Close(h)
  PROVE  Promise!Close(h)
<1>1. Step(h) /\ handle[h].pc = "open" /\ IsOpen(h) /\ UNCHANGED <<remote, data, fdt>>
  BY DEF Close, Step, Client, At, IsOpen
<1>a. PICK p \in Paths : p = PathOf(h)
  BY <1>1, SeenFile DEF FhPC
<1>2. handle'[h].pc = "queued" /\ PathOf(h)' = p /\ handle'[h].fh = handle[h].fh
  BY <1>a, NextLabel DEF Close, Good, Calm, TInv
<1>3. Publishing(h)' /\ ~IsOpen(h)' /\ Seen(h)' = Seen(h)
  BY <1>1, <1>2 DEF Publishing, IsOpen, Seen
<1>4. p # None /\ Seen(h) # None
  BY <1>1, SeenFile, ScpfsAssumption DEF FhPC
<1>5. Copy[h] = Seen(h) /\ On[h] = p /\ Copy'[h] = None /\ On'[h] = None
  BY <1>a, <1>1, <1>3 DEF Copy, On
<1>6. Store'[p] = Seen(h)
  <2>1. Alone(h, p)'
    BY <1>a, <1>1, HereAlone
  <2>2. Store'[p] = Shown(h, p)'
    BY <2>1, StoreOfOneNext
  <2> QED
    BY <1>2, <1>3, <2>2 DEF Shown
<1>7. \A q \in Paths \ {p} : Store'[q] = Store[q]
  BY <1>a, <1>1, <1>2, StoreElsewhere
<1>8. Store = [q \in Paths |-> Store[q]] /\ Store' = [q \in Paths |-> Store'[q]]
  BY DEF Store
<1>9. Store' = [Store EXCEPT ![On[h]] = Copy[h]]
  BY <1>5, <1>6, <1>7, <1>8
<1>10. Copy' = [Copy EXCEPT ![h] = None] /\ On' = [On EXCEPT ![h] = None]
  BY <1>1, <1>5, CopiesElsewhere
<1> QED
  BY <1>4, <1>5, <1>9, <1>10 DEF Promise!Close

\* The end of an upload: what was shown as published is now at the server.
LEMMA CopiedOutStutters ==
  ASSUME Good, NEW h \in Handles, CopiedOut(h)
  PROVE  UNCHANGED <<Store, Copy, On>>
<1>1. /\ Step(h) /\ handle[h].pc = "copyOut" /\ Publishing(h) /\ ~IsOpen(h)
      /\ remote' = remote /\ TInv /\ Own
  BY DEF CopiedOut, Step, Handler, At, IsOpen, Publishing, Good, Calm
<1>2. handle'[h].pc = "closeStream" /\ PathOf(h)' = PathOf(h)
  BY <1>1, NextLabel DEF CopiedOut, TInv
<1>3. ~Publishing(h)' /\ ~IsOpen(h)' /\ PathOf(h)' = PathOf(h)
  BY <1>2 DEF IsOpen, Publishing
<1>4. handle[h].rd # None /\ fdt[handle[h].rd] = fdt[handle[h].fh]
  BY <1>1 DEF Good, AllLinked, Linked, At
<1>5. Seen(h) \in Seq(Block) /\ fdt[handle[h].fh] \in Inodes /\ PathOf(h) \in Paths
  BY <1>1, SeenFile DEF FhPC
<1>6. handle[h].pos \in Nat /\ remote[PathOf(h)] \in Seq(Block)
  BY <1>1, <1>5 DEF TInv, TypeOK, HandleType, HasRemote, TransferPC, PathOf
<1>7. handle[h].pos >= Len(Seen(h))
  <2>1. ~(handle[h].pos < Len(Seen(h)))
    BY <1>4, <1>5 DEF CopiedOut, Unread, Seen
  <2> QED
    BY <1>5, <1>6, <2>1
<1>8. SoFar(remote[PathOf(h)], Seen(h), handle[h].pos)
  <2>1. handle[h].buf = <<>> /\ handle[h].wpos \in Nat
    BY <1>1 DEF CopiedOut, TInv, TypeOK, HandleType
  <2> QED
    BY <1>1, <1>4, <1>6, <2>1 DEF Good, Calm, Progress, Buffered, At, Seen
<1>9. remote[PathOf(h)] = Seen(h)
  BY <1>5, <1>6, <1>7, <1>8, SoFarAll
<1>10. Store' = Store
  BY <1>1, <1>3, <1>9, StoreStays DEF Shown
<1>11. Copy'[h] = Copy[h] /\ On'[h] = On[h]
  BY <1>1, <1>3 DEF Copy, On
<1>12. Copy = [Copy EXCEPT ![h] = Copy[h]] /\ On = [On EXCEPT ![h] = On[h]]
  BY DEF Copy, On
<1> QED
  BY <1>1, <1>10, <1>11, <1>12, CopiesElsewhere

\* The other steps of a release change nothing that is seen.
LEMMA ReleaseHidden ==
  ASSUME Good, NEW h \in Handles,
         TakeRelease(h) \/ ReleaseOpen(h) \/ OpenStream(h) \/ ReadOut(h) \/ CopyOut(h)
  PROVE  UNCHANGED <<Store, Copy, On>>
<1>a. TInv /\ TypeOK /\ Own /\ Faults = {}
  BY DEF Good, Calm, TInv, OneByOne
<1>1. Step(h) /\ data' = data
  BY DEF Step, Request, Handler, TakeRelease, ReleaseOpen, OpenStream, ReadOut, CopyOut
<1>2. handle[h].pc \in {"queued", "release", "openStream", "copyOut"}
  <2>1. TakeRelease(h) => handle[h].pc = "queued"
    BY <1>a DEF TakeRelease, TInv, TypeOK, QueueOK
  <2> QED
    BY <2>1 DEF ReleaseOpen, OpenStream, ReadOut, CopyOut, At
<1>3. /\ handle'[h].pc \in {"queued", "release", "openStream", "copyOut"}
      /\ PathOf(h)' = PathOf(h) /\ handle'[h].fh = handle[h].fh
  <2>1. CASE TakeRelease(h) \/ ReleaseOpen(h)
    BY <1>a, <2>1, NextLabel DEF TakeRelease, ReleaseOpen
  <2>2. CASE OpenStream(h)
    <3>1. Goto(h, "copyOut") \/ \E f \in Fds : handle' = [handle EXCEPT ![h].pc = "copyOut", ![h].rd = f]
      BY <2>2 DEF OpenStream
    <3>2. ASSUME NEW f \in Fds, handle' = [handle EXCEPT ![h].pc = "copyOut", ![h].rd = f]
          PROVE  handle'[h].pc = "copyOut" /\ PathOf(h)' = PathOf(h) /\ handle'[h].fh = handle[h].fh
      BY <1>a, <3>2 DEF TypeOK, HandleType, PathOf
    <3> QED
      BY <1>a, <3>1, <3>2, NextLabel
  <2>3. CASE ReadOut(h) \/ CopyOut(h)
    BY <1>a, <1>2, <2>3, LoopRecord DEF PathOf
  <2> QED
    BY <2>1, <2>2, <2>3
<1>4. fdt'[handle[h].fh] = fdt[handle[h].fh]
  <2>1. CASE OpenStream(h)
    <3>1. handle[h].fh \in Fds /\ handle[h].fh \notin FreeFds
      BY <1>2, SeenFile, ScpfsAssumption, FhNames, <1>a DEF FhPC, FreeFds
    <3> QED
      BY <1>a, <2>1, <3>1 DEF OpenStream, LowestFd, TypeOK
  <2>2. CASE ~OpenStream(h)
    BY <2>2 DEF TakeRelease, ReleaseOpen, ReadOut, CopyOut
  <2> QED
    BY <2>1, <2>2
<1>5. Publishing(h) /\ Publishing(h)' /\ Seen(h)' = Seen(h)
  BY <1>1, <1>2, <1>3, <1>4 DEF Publishing, Seen
<1> QED
  BY <1>1, <1>3, <1>5, ReleaseStutters

\* Looking a file up, downloading it, and closing and removing its copy change
\* nothing that is seen either.
LEMMA LookupHidden ==
  ASSUME Good, NEW h \in Handles,
         \/ \E p \in Paths, fl \in SUBSET {"creat", "trunc"} : Getattr(h, p, fl)
         \/ OpenRemote(h) \/ GetattrRemote(h) \/ OpenLocal(h) \/ ReadIn(h)
         \/ CopyIn(h) \/ CloseStream(h) \/ CloseFh(h) \/ RemoveLocal(h)
  PROVE  UNCHANGED <<Store, Copy, On>>
<1> DEFINE Behind == {"idle", "lstat", "rstat", "toOpen", "toCreate", "openLocal", "copyIn",
                     "closeStream", "closeFh", "remove"}
<1>a. TypeOK /\ Faults = {}
  BY DEF Good, Calm, TInv, OneByOne
<1>b. \A l \in Behind : Goto(h, l) => handle'[h].pc \in Behind
  BY <1>a, NextLabel
<1>c. Finish(h) => handle'[h].pc \in Behind
  <2>1. Finish(h) => handle'[h] = Idle
    BY <1>a, NextRecord DEF Finish
  <2> QED
    BY <2>1 DEF Idle
<1>1. Step(h) /\ remote' = remote
  BY DEF Step, Client, Request, Handler, Getattr, OpenRemote, GetattrRemote, OpenLocal, ReadIn,
         CopyIn, CloseStream, CloseFh, RemoveLocal
<1>2. handle[h].pc \in Behind
  BY DEF Getattr, OpenRemote, GetattrRemote, OpenLocal, ReadIn, CopyIn, CloseStream, CloseFh,
         RemoveLocal, At
<1>3. handle'[h].pc \in Behind
  <2>1. ASSUME NEW p \in Paths, NEW fl \in SUBSET {"creat", "trunc"}, Getattr(h, p, fl)
        PROVE  handle'[h].pc \in Behind
    <3>1. PICK l \in {"lstat", "rstat"} : handle'[h] = [Idle EXCEPT !.pc = l, !.path = p, !.flags = fl]
      BY <1>a, <2>1, NextRecord DEF Getattr
    <3> QED
      BY <3>1 DEF Idle
  <2>2. CASE OpenRemote(h)
    BY <1>a, <1>b, <1>c, <2>2 DEF OpenRemote, ErrnoClear
  <2>3. CASE GetattrRemote(h)
    BY <1>b, <1>c, <2>3 DEF GetattrRemote, Found, NotFound
  <2>4. CASE OpenLocal(h) \/ CloseStream(h)
    BY <1>a, <2>4 DEF OpenLocal, CloseStream, At, TypeOK, HandleType
  <2>6. CASE ReadIn(h) \/ CopyIn(h)
    BY <1>a, <1>2, <2>6, LoopRecord
  <2>7. CASE CloseFh(h)
    <3>1. handle'[h] = [Idle EXCEPT !.pc = "remove", !.path = PathOf(h)]
      BY <1>a, <2>7, NextRecord DEF CloseFh
    <3> QED
      BY <3>1 DEF Idle
  <2>5. CASE RemoveLocal(h)
    BY <1>c, <2>5 DEF RemoveLocal
  <2> QED
    BY <2>1, <2>2, <2>3, <2>4, <2>5, <2>6, <2>7
<1>4. ~Publishing(h) /\ ~IsOpen(h) /\ ~Publishing(h)' /\ ~IsOpen(h)'
  BY <1>2, <1>3 DEF Publishing, IsOpen
<1> QED
  BY <1>1, <1>4, BehindStutters

\* At first the store is what the server has, and nothing is open.
LEMMA InitKeepsPromise == Init => Promise!Init
<1> SUFFICES ASSUME Init PROVE Promise!Init
  OBVIOUS
<1>1. \A h \in Handles : ~IsOpen(h) /\ ~Publishing(h)
  BY DEF Init, Idle, IsOpen, Publishing
<1>2. Copy = [h \in Handles |-> None] /\ On = [h \in Handles |-> None]
  BY <1>1 DEF Copy, On
<1>3. Store = [p \in Paths |-> remote[p]]
  BY <1>1 DEF Store
<1>4. \A p \in Paths : remote[p] \in Seq(Block) \cup {None}
  BY TInvInit DEF TInv, TypeOK
<1> QED
  BY <1>2, <1>3, <1>4 DEF Promise!Init

\* Every step is a step of CloseToOpen or changes nothing of it.
LEMMA StepKeepsPromise ==
  Good /\ [Next]_vars => [Promise!Next]_<<Store, Copy, On>>
<1> SUFFICES ASSUME Good, [Next]_vars
             PROVE  Promise!Next \/ UNCHANGED <<Store, Copy, On>>
  OBVIOUS
<1>1. ASSUME NEW h \in Handles, CopiedIn(h) \/ Create(h)
      PROVE  Promise!Next
  <2>1. handle[h].pc # "idle"
    BY <1>1 DEF CopiedIn, Create, At
  <2>2. PathOf(h) \in Paths
    BY <2>1 DEF Good, Calm, TInv, TypeOK, PathOf
  <2> QED
    BY <1>1, <2>2, CopiedInOpens, CreateCreates DEF Promise!Next
<1>2. ASSUME NEW h \in Handles, Client(h) PROVE Promise!Next \/ UNCHANGED <<Store, Copy, On>>
  BY <1>2, LookupHidden, WriteWrites, FtruncateSetsSize, CloseCloses DEF Client, Promise!Next
<1>3. ASSUME NEW h \in Handles, Request(h) PROVE Promise!Next \/ UNCHANGED <<Store, Copy, On>>
  BY <1>1, <1>3, LookupHidden, ReleaseHidden, TruncateSetsSize DEF Request, Promise!Next
<1>4. ASSUME NEW h \in Handles, Handler(h) PROVE Promise!Next \/ UNCHANGED <<Store, Copy, On>>
  <2>1. ~GetattrLocal(h)
    BY DEF GetattrLocal, Good, AllLinked, Linked
  <2> QED
    BY <1>1, <1>4, <2>1, LookupHidden, ReleaseHidden, CopiedOutStutters, NoFailure
       DEF Handler, Good, Calm, OneByOne
<1>5. ASSUME NEW p \in Paths, NEW n, TruncatePath(p, n) PROVE FALSE
  BY <1>5, NobodyThere DEF TruncatePath, Good, Calm
<1>6. ASSUME UNCHANGED vars PROVE UNCHANGED <<Store, Copy, On>>
  BY <1>6 DEF vars, Store, Copy, On, Publishing, IsOpen, PathOf, Seen
<1> QED
  BY <1>2, <1>3, <1>4, <1>5, <1>6, NoFailure DEF Next, Good, Calm, OneByOne

\* Clients that open a file one at a time get what CloseToOpen promises, for any
\* number of files, clients and blocks, if there is one thread or they wait for
\* the answer of the last release: an open gives the file as it was last closed,
\* and a close publishes it at once; download, asynchronous upload and removal of
\* the copy are invisible.
THEOREM OneOpenerIsPromised ==
  Faults = {} /\ OneOpener => (Spec => ImplementsCloseToOpen)
<1> SUFFICES ASSUME OneByOne PROVE Spec => ImplementsCloseToOpen
  BY DEF OneByOne
<1>1. (Init => Calm /\ AllLinked) /\ (Calm /\ AllLinked /\ [Next]_vars => (Calm /\ AllLinked)')
  <2>1. Init => AllLinked
    BY DEF Init, Idle, AllLinked, Linked, HoldsFh, FhPC, At
  <2> QED
    BY <2>1, CalmInit, CalmNext, LinkedNext DEF OneByOne, OneOpener, Quiet
<1>2. Calm /\ Calm' /\ AllLinked /\ [Next]_vars => [Promise!Next]_<<Store, Copy, On>>
  BY StepKeepsPromise DEF Good
<1>3. Spec => Promise!Init /\ [][Promise!Next]_<<Store, Copy, On>>
  BY <1>1, <1>2, InitKeepsPromise, PTL DEF Spec
<1> QED
  BY <1>3 DEF ImplementsCloseToOpen, Promise!Spec
=============================================================================
