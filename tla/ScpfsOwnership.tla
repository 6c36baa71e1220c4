-------------------------- MODULE ScpfsOwnership --------------------------
(***************************************************************************)
(* Who owns a descriptor and who may name an inode: the invariant behind   *)
(* HeldAreFiles and Isolation, and its proof.  It fails where errno may be *)
(* 0 in a failed open: a handle then gets descriptor 0, whoever has that.  *)
(***************************************************************************)
EXTENDS ScpfsProofs

\* The paths that lead to inode i, by name or through a descriptor in use.
Names(i) ==
  {p \in Paths : \/ local[p] = i
                 \/ \E h \in Handles : PathOf(h) = p /\ \E f \in Held(h) : fdt[f] = i}

NotShared == \A g, h \in Handles : Held(g) \cap Held(h) # {} => g = h

\* A handle has a stream only in its release and never as fi->fh too, and the
\* blocks it has read and not yet written are blocks of its path.
RecordOK(r) == /\ r.rd # None => r.pc \in StreamPC
               /\ r.pc \in StreamPC => r.rd # r.fh
               /\ Clean(r.path, r.buf)
RecordsOK == \A h \in Handles : RecordOK(handle[h])

OnePath == \A i \in Inodes : \A p, q \in Names(i) : p = q
RemoteClean == \A p \in Paths : remote[p] # None => Clean(p, remote[p])
CopiesClean == \A i \in Inodes : \A p \in Names(i) : Clean(p, data[i])

Own == /\ HeldAreFiles /\ NotShared /\ RecordsOK
       /\ OnePath /\ RemoteClean /\ CopiesClean

-----------------------------------------------------------------------------
(* Contents stay within the blocks of their path.                          *)

\* A block of the path written into its contents keeps them.
LEMMA WriteAtClean ==
  ASSUME NEW p \in Paths, NEW c \in Seq(Block), NEW k \in Nat,
         NEW b \in BlocksOf[p] \cup {Zero}, Clean(p, c)
  PROVE  Clean(p, WriteAt(c, k, b))
<1> DEFINE n == IF k < Len(c) THEN Len(c) ELSE k + 1
           w == [i \in 1..n |-> IF i = k + 1 THEN b ELSE IF i <= Len(c) THEN c[i] ELSE Zero]
<1>1. n \in Nat /\ WriteAt(c, k, b) = w
  BY DEF WriteAt
<1>2. Len(w) = n
  BY <1>1
<1> QED
  BY <1>1, <1>2 DEF Clean

\* Cutting them, or filling them up with zeros, does too.
LEMMA ResizeClean ==
  ASSUME NEW p \in Paths, NEW c \in Seq(Block), NEW n \in Nat, Clean(p, c)
  PROVE  Clean(p, Resize(c, n))
<1>1. Len(Resize(c, n)) = n
  BY DEF Resize
<1> QED
  BY <1>1 DEF Resize, Clean

\* An empty file has no other path's blocks.
LEMMA EmptyClean == \A p : Clean(p, <<>>)
BY DEF Clean

\* A part of a file, and what is left of it, have none either.
LEMMA PartClean ==
  ASSUME NEW p, NEW c \in Seq(Block), NEW k \in Nat, NEW n \in k + 1..Len(c), Clean(p, c)
  PROVE  Clean(p, SubSeq(c, k + 1, n)) /\ Clean(p, <<c[k + 1]>>)
<1>1. /\ Len(SubSeq(c, k + 1, n)) = n - k
      /\ \A j \in 1..(n - k) : SubSeq(c, k + 1, n)[j] = c[k + j] /\ k + j \in 1..Len(c)
  OBVIOUS
<1>2. k + 1 \in 1..Len(c) /\ Len(<<c[k + 1]>>) = 1 /\ <<c[k + 1]>>[1] = c[k + 1]
  OBVIOUS
<1>3. Clean(p, SubSeq(c, k + 1, n))
  BY <1>1 DEF Clean
<1>4. Clean(p, <<c[k + 1]>>)
  BY <1>2 DEF Clean
<1> QED
  BY <1>3, <1>4

LEMMA TailClean ==
  ASSUME NEW p, NEW c \in Seq(Block), c # <<>>, Clean(p, c)
  PROVE  Clean(p, Tail(c)) /\ Head(c) \in BlocksOf[p] \cup {Zero}
<1>1. Len(c) \in Nat \ {0} /\ Len(Tail(c)) = Len(c) - 1 /\ Head(c) = c[1]
      /\ \A j \in 1..Len(c) - 1 : Tail(c)[j] = c[j + 1] /\ j + 1 \in 1..Len(c)
  OBVIOUS
<1>2. Clean(p, Tail(c))
  BY <1>1 DEF Clean
<1> QED
  BY <1>1, <1>2 DEF Clean

-----------------------------------------------------------------------------
(* The two ways a step may change who holds what.                          *)

HeldBy(r) == {f \in Fds : \/ r.pc \in FhPC /\ f = r.fh
                          \/ r.pc \in StreamPC /\ f = r.rd}

\* What a handle holds is read off its record.
LEMMA HeldIsHeldBy == \A h \in Handles : Held(h) = HeldBy(handle[h])
BY DEF Held, HeldBy, HoldsFh, At

\* Contents change only within the blocks of the paths that lead to them, and
\* local names only go.
Tame ==
  /\ \A p \in Paths : local'[p] \in {local[p], None}
  /\ \A i \in Inodes : \A p \in Names(i) : Clean(p, data'[i])

\* Nobody gains a descriptor.
LEMMA ShrinkKeeps ==
  ASSUME TypeOK, Own, Tame, RemoteClean', RecordsOK',
         \A g \in Handles : Held(g)' \subseteq Held(g),
         \A g \in Handles : Held(g)' # {} => PathOf(g)' = PathOf(g),
         \A g \in Handles : \A f \in Held(g)' : fdt'[f] = fdt[f]
  PROVE  Own'
<1>1. \A i \in Inodes : Names(i)' \subseteq Names(i)
  <2> SUFFICES ASSUME NEW i \in Inodes, NEW p \in Names(i)' PROVE p \in Names(i)
    OBVIOUS
  <2>1. p \in Paths
    BY DEF Names
  <2>2. CASE local'[p] = i
    BY <2>1, <2>2, ScpfsAssumption DEF Names, Tame
  <2>3. CASE \E h \in Handles : PathOf(h)' = p /\ \E f \in Held(h)' : fdt'[f] = i
    BY <2>1, <2>3 DEF Names
  <2> QED
    BY <2>2, <2>3 DEF Names
<1>2. HeldAreFiles'
  BY DEF Own, HeldAreFiles
<1>3. NotShared'
  BY DEF Own, NotShared
<1>4. OnePath'
  BY <1>1 DEF Own, OnePath
<1>5. CopiesClean'
  BY <1>1 DEF Tame, CopiesClean
<1> QED
  BY <1>2, <1>3, <1>4, <1>5 DEF Own

\* Handle h, on path p, gains a free descriptor f for the inode p leads to, or
\* for one that nothing leads to.
LEMMA GainKeeps ==
  ASSUME TypeOK, Own, RemoteClean', RecordsOK',
         NEW h \in Handles, NEW p \in Paths, NEW f \in FreeFds, NEW i \in Inodes,
         local[p] = i \/ i \in FreeInodes,
         local' = [local EXCEPT ![p] = i], fdt' = [fdt EXCEPT ![f] = i],
         \A j \in Inodes : data'[j] = data[j] \/ data'[j] = <<>>,
         i \in FreeInodes => data'[i] = <<>>,
         PathOf(h)' = p, Held(h) # {} => PathOf(h) = p, Held(h)' \subseteq Held(h) \cup {f},
         \A g \in Handles \ {h} : Held(g)' = Held(g) /\ PathOf(g)' = PathOf(g)
  PROVE  Own'
<1>1. f \in Fds /\ fdt[f] = None /\ \A g \in Handles : f \notin Held(g)
  BY ScpfsAssumption DEF FreeFds, Own, HeldAreFiles
<1>2. fdt'[f] = i /\ \A g \in Fds \ {f} : fdt'[g] = fdt[g]
  BY <1>1 DEF TypeOK
<1>3. local'[p] = i /\ \A q \in Paths \ {p} : local'[q] = local[q]
  BY DEF TypeOK
<1>4. \A g \in Handles : Held(g) \subseteq Fds
  BY DEF Held
<1>5. HeldAreFiles'
  BY <1>1, <1>2, <1>4 DEF Own, HeldAreFiles
<1>6. NotShared'
  BY <1>1 DEF Own, NotShared
<1>7. ASSUME NEW j \in Inodes, NEW q \in Names(j)'
      PROVE  q \in Names(j) \/ (j = i /\ q = p)
  <2>1. q \in Paths
    BY <1>7 DEF Names
  <2>2. CASE local'[q] = j
    BY <1>3, <2>1, <2>2 DEF Names
  <2>3. ASSUME NEW g \in Handles, PathOf(g)' = q, NEW e \in Held(g)', fdt'[e] = j
        PROVE  q \in Names(j) \/ (j = i /\ q = p)
    <3>1. CASE e = f
      BY <1>1, <1>2, <2>3, <3>1
    <3>2. CASE e # f
      BY <1>2, <1>4, <2>1, <2>3, <3>2 DEF Names
    <3> QED
      BY <3>1, <3>2
  <2> QED
    BY <1>7, <2>2, <2>3 DEF Names
<1>8. Names(i) \subseteq {p}
  <2>1. CASE local[p] = i
    BY <2>1 DEF Own, OnePath, Names
  <2>2. CASE i \in FreeInodes
    BY <1>4, <2>2 DEF FreeInodes, Names
  <2> QED
    BY <2>1, <2>2
<1>9. OnePath'
  BY <1>7, <1>8 DEF Own, OnePath
<1>10. CopiesClean'
  <2> SUFFICES ASSUME NEW j \in Inodes, NEW q \in Names(j)' PROVE Clean(q, data'[j])
    BY DEF CopiesClean
  <2>1. CASE q \in Names(j)
    BY <2>1, EmptyClean DEF Own, CopiesClean
  <2>2. CASE j = i /\ q = p /\ q \notin Names(j)
    BY <2>2, EmptyClean DEF Names
  <2> QED
    BY <1>7, <2>1, <2>2
<1> QED
  BY <1>5, <1>6, <1>9, <1>10 DEF Own

-----------------------------------------------------------------------------
(* The steps.                                                              *)

\* The record r that a step leaves for handle h holds no more than before.
Lesser(h, r) ==
  /\ HeldBy(r) \subseteq Held(h)
  /\ HeldBy(r) # {} => r.path = PathOf(h)
  /\ RecordOK(r)

\* A step after which a handle holds no more keeps the invariant.
LEMMA LesserKeeps ==
  ASSUME TypeOK, Own, Tame, RemoteClean', NEW h \in Handles, NEW r, Lesser(h, r),
         handle' = [handle EXCEPT ![h] = r],
         \A g \in Handles : \A f \in Held(g)' : fdt'[f] = fdt[f]
  PROVE  Own'
<1>1. \A g \in Handles : handle'[g] = IF g = h THEN r ELSE handle[g]
  BY DEF TypeOK
<1>2. \A g \in Handles : Held(g)' = HeldBy(handle'[g])
  BY DEF Held, HeldBy, HoldsFh, At
<1>3. \A g \in Handles : Held(g)' \subseteq Held(g)
  BY <1>1, <1>2, HeldIsHeldBy DEF Lesser
<1>4. \A g \in Handles : Held(g)' # {} => PathOf(g)' = PathOf(g)
  BY <1>1, <1>2 DEF Lesser, PathOf
<1>5. RecordsOK'
  BY <1>1 DEF Own, RecordsOK, Lesser
<1> QED
  BY <1>3, <1>4, <1>5, ShrinkKeeps

\* A handle that only moves to another label, or is done.
LEMMA GotoLesser ==
  ASSUME TypeOK, Own, NEW h \in Handles, NEW l \in Labels, Goto(h, l),
         l \in FhPC => handle[h].pc \in FhPC,
         handle[h].pc \in StreamPC => l \in StreamPC
  PROVE  \E r : Lesser(h, r) /\ handle' = [handle EXCEPT ![h] = r]
<1> DEFINE r == [handle[h] EXCEPT !.pc = l]
<1>1. /\ handle[h] \in HandleType /\ RecordOK(handle[h])
      /\ handle[h].pc \in FhPC => handle[h].fh \in Fds
  BY DEF TypeOK, Own, RecordsOK, HoldsFh
<1>2. /\ r.pc = l /\ r.path = handle[h].path /\ r.fh = handle[h].fh
      /\ r.rd = handle[h].rd /\ r.buf = handle[h].buf
  BY <1>1 DEF HandleType
<1>3. HeldBy(r) \subseteq Held(h)
  BY <1>1, <1>2, ScpfsAssumption DEF HeldBy, Held, HoldsFh, RecordOK
<1>5. RecordOK(r)
  BY <1>1, <1>2, ScpfsAssumption DEF RecordOK, StreamPC, FhPC
<1>4. handle' = [handle EXCEPT ![h] = r]
  BY DEF Goto
<1> QED
  BY <1>2, <1>3, <1>4, <1>5 DEF Lesser, PathOf

\* An answered request holds nothing.
LEMMA FinishLesser ==
  ASSUME NEW h \in Handles, Finish(h)
  PROVE  \E r : Lesser(h, r) /\ handle' = [handle EXCEPT ![h] = r]
<1>1. Idle.pc = "idle" /\ Idle.rd = None /\ Idle.buf = <<>>
  BY DEF Idle
<1>2. HeldBy(Idle) = {} /\ RecordOK(Idle)
  BY <1>1, EmptyClean DEF HeldBy, RecordOK, FhPC, StreamPC
<1> QED
  BY <1>2 DEF Finish, Lesser

\* The steps that touch no local file.
LEMMA UntouchedKeeps ==
  ASSUME TypeOK, Own, UNCHANGED <<local, data, fdt>>, RemoteClean', NEW h \in Handles,
         \E r : Lesser(h, r) /\ handle' = [handle EXCEPT ![h] = r]
  PROVE  Own'
<1>1. Tame
  BY DEF Own, CopiesClean, Tame
<1> QED
  BY <1>1, LesserKeeps

\* Contents change in place, through a descriptor or by name.
LEMMA InPlaceKeeps ==
  ASSUME TypeOK, Own, UNCHANGED <<remote, local, fdt>>, NEW i \in Inodes,
         NEW p \in Names(i), NEW c, data' = [data EXCEPT ![i] = c], Clean(p, c)
  PROVE  Tame /\ RemoteClean'
<1>1. \A q \in Names(i) : q = p
  BY DEF Own, OnePath
<1>2. \A j \in Inodes : data'[j] = IF j = i THEN c ELSE data[j]
  BY DEF TypeOK
<1> QED
  BY <1>1, <1>2 DEF Own, CopiesClean, RemoteClean, Tame

\* close and unlink leave contents as they are, or drop them.
LEMMA ReclaimedTame ==
  ASSUME Own, NEW l, NEW t, data' = Reclaimed(l, t),
         \A p \in Paths : local'[p] \in {local[p], None}
  PROVE  Tame
BY EmptyClean DEF Reclaimed, Own, CopiesClean, Tame

\* A handle that closes some of what it holds.
LEMMA CloseKeeps ==
  ASSUME TypeOK, Own, NEW h \in Handles, NEW F, F \cap Fds \subseteq Held(h), CloseFds(F),
         UNCHANGED <<remote, local>>, NEW r, Lesser(h, r), HeldBy(r) \cap F = {},
         handle' = [handle EXCEPT ![h] = r]
  PROVE  Own'
<1>2. Tame
  BY ReclaimedTame DEF CloseFds
<1>3. \A g \in Handles : Held(g)' = IF g = h THEN HeldBy(r) ELSE Held(g)
  <2>1. \A g \in Handles : handle'[g] = IF g = h THEN r ELSE handle[g]
    BY DEF TypeOK
  <2>2. \A g \in Handles : Held(g)' = HeldBy(handle'[g])
    BY DEF Held, HeldBy, HoldsFh, At
  <2> QED
    BY <2>1, <2>2, HeldIsHeldBy
<1>4. ASSUME NEW g \in Handles, NEW f \in Held(g)' PROVE fdt'[f] = fdt[f]
  <2>1. f \in Fds
    BY <1>4 DEF Held
  <2>2. f \notin F
    BY <1>3, <1>4, <2>1 DEF Own, NotShared
  <2> QED
    BY <2>1, <2>2 DEF CloseFds
<1> QED
  BY <1>2, <1>4, LesserKeeps DEF Own, RemoteClean

\* Nothing is held at first.
LEMMA OwnInit == Init => Own
<1> SUFFICES ASSUME Init PROVE Own
  OBVIOUS
<1>4. \A h \in Handles : /\ handle[h].pc = "idle" /\ handle[h].rd = None
                         /\ handle[h].buf = <<>>
  BY DEF Init, Idle
<1>1. RecordsOK /\ \A h \in Handles : Held(h) = {}
  BY <1>4, EmptyClean DEF RecordsOK, RecordOK, Held, HoldsFh, FhPC, StreamPC
<1>2. \A i \in Inodes : Names(i) = {}
  BY <1>1, ScpfsAssumption DEF Init, Names
<1>3. RemoteClean
  <2> SUFFICES ASSUME NEW p \in Paths, remote[p] # None PROVE Clean(p, remote[p])
    BY DEF RemoteClean
  <2>1. remote[p] \in Seq(BlocksOf[p])
    BY ScpfsAssumption DEF Init
  <2> QED
    BY <2>1 DEF Clean
<1> QED
  BY <1>1, <1>2, <1>3
     DEF Own, HeldAreFiles, NotShared, RecordsOK, OnePath, CopiesClean

\* An open or create of h hands out a free descriptor on an empty file.
LEMMA OpenFileKeeps ==
  ASSUME TypeOK, Own, UNCHANGED remote, NEW h \in Handles, Held(h) = {},
         NEW p \in Paths, NEW f \in Fds, NEW i \in Inodes, OpenFile(p, f, i),
         NEW r, handle' = [handle EXCEPT ![h] = r], r.path = p, r.rd = None, r.fh = f,
         Clean(p, r.buf), r.pc \in FhPC
  PROVE  Own'
<1>1. f \in FreeFds /\ (local[p] = i \/ i \in FreeInodes)
  BY DEF OpenFile, LowestFd
<1>2. \A g \in Handles : handle'[g] = IF g = h THEN r ELSE handle[g]
  BY DEF TypeOK
<1>3. \A g \in Handles : Held(g)' = HeldBy(handle'[g])
  BY DEF Held, HeldBy, HoldsFh, At
<1>4. \A g \in Handles \ {h} : Held(g)' = Held(g) /\ PathOf(g)' = PathOf(g)
  BY <1>2, <1>3, HeldIsHeldBy DEF PathOf
<1>5. PathOf(h)' = p /\ Held(h)' \subseteq Held(h) \cup {f}
  BY <1>2, <1>3, ScpfsAssumption DEF PathOf, HeldBy
<1>6. RecordsOK'
  BY <1>2, ScpfsAssumption DEF Own, RecordsOK, RecordOK
<1>7. RemoteClean'
  BY DEF Own, RemoteClean
<1>8. /\ \A j \in Inodes : data'[j] = data[j] \/ data'[j] = <<>>
      /\ data'[i] = <<>>
  BY DEF OpenFile, TypeOK
<1>9. local' = [local EXCEPT ![p] = i] /\ fdt' = [fdt EXCEPT ![f] = i]
  BY DEF OpenFile
<1> QED
  BY <1>1, <1>4, <1>5, <1>6, <1>7, <1>8, <1>9, GainKeeps

\* The release of h opens a stream on the local file its path names.
LEMMA OpenStreamKeeps ==
  ASSUME TInv, Own, NEW h \in Handles, OpenStream(h)
  PROVE  Own'
<1>1. /\ handle[h].pc = "openStream" /\ handle[h] \in HandleType /\ PathOf(h) \in Paths
      /\ handle[h].fh \in Fds
  BY DEF OpenStream, At, TInv, TypeOK, PathOf, HoldsFh, FhPC
<1>2. RemoteClean'
  BY DEF OpenStream, Own, RemoteClean
<1>3. handle[h].rd = None /\ Clean(PathOf(h), handle[h].buf)
  BY <1>1 DEF Own, RecordsOK, RecordOK, StreamPC, PathOf
<1>4. CASE Goto(h, "copyOut") /\ UNCHANGED fdt
  <2>1. \E r : Lesser(h, r) /\ handle' = [handle EXCEPT ![h] = r]
    BY <1>1, <1>4, GotoLesser DEF TInv, Labels, HandlerPC, ReleasePC, FhPC, StreamPC
  <2> QED
    BY <1>2, <1>4, <2>1, UntouchedKeeps DEF OpenStream, TInv
<1>5. CASE /\ local[PathOf(h)] # None
           /\ \E f \in Fds : /\ LowestFd(f)
                             /\ fdt' = [fdt EXCEPT ![f] = local[PathOf(h)]]
                             /\ handle' = [handle EXCEPT ![h].pc = "copyOut", ![h].rd = f]
  <2>1. PICK f \in Fds : /\ LowestFd(f)
                         /\ fdt' = [fdt EXCEPT ![f] = local[PathOf(h)]]
                         /\ handle' = [handle EXCEPT ![h].pc = "copyOut", ![h].rd = f]
    BY <1>5
  <2> DEFINE p == PathOf(h)
             i == local[p]
             r == [handle[h] EXCEPT !.pc = "copyOut", !.rd = f]
  <2>2. i \in Inodes /\ f \in FreeFds
    BY <1>1, <1>5, <2>1 DEF TInv, TypeOK, LowestFd
  <2>3. /\ r.pc = "copyOut" /\ r.path = p /\ r.fh = handle[h].fh /\ r.rd = f
        /\ r.buf = handle[h].buf
    BY <1>1 DEF HandleType, PathOf
  <2>4. handle' = [handle EXCEPT ![h] = r]
    BY <2>1
  <2> HIDE DEF r
  <2>14. f # handle[h].fh
    <3>1. handle[h].fh \in Held(h)
      BY <1>1 DEF Held, HoldsFh, FhPC
    <3> QED
      BY <2>2, <3>1, ScpfsAssumption DEF Own, HeldAreFiles, FreeFds
  <2>5. \A g \in Handles : handle'[g] = IF g = h THEN r ELSE handle[g]
    BY <2>4 DEF TInv, TypeOK
  <2>6. \A g \in Handles : Held(g)' = HeldBy(handle'[g])
    BY DEF Held, HeldBy, HoldsFh, At
  <2>7. \A g \in Handles \ {h} : Held(g)' = Held(g) /\ PathOf(g)' = PathOf(g)
    BY <2>5, <2>6, HeldIsHeldBy DEF PathOf
  <2>8. PathOf(h)' = p
    BY <2>3, <2>5 DEF PathOf
  <2>9. Held(h)' \subseteq Held(h) \cup {f}
    BY <1>1, <2>3, <2>5, <2>6 DEF HeldBy, Held, HoldsFh, FhPC, StreamPC
  <2>10. RecordsOK'
    <3>1. RecordOK(r)
      BY <1>3, <2>3, <2>14 DEF RecordOK, StreamPC
    <3> QED
      BY <2>5, <3>1 DEF Own, RecordsOK
  <2>11. local' = [local EXCEPT ![p] = i]
    BY <1>1 DEF OpenStream, TInv, TypeOK
  <2>12. i \notin FreeInodes
    BY <1>1 DEF FreeInodes
  <2>13. \A j \in Inodes : data'[j] = data[j]
    BY DEF OpenStream
  <2> QED
    BY <1>1, <1>2, <2>1, <2>2, <2>7, <2>8, <2>9, <2>10, <2>11, <2>12, <2>13, GainKeeps DEF TInv
<1> QED
  BY <1>4, <1>5 DEF OpenStream

\* The upload loop sends a block that was read from the path's own copy.
LEMMA CopyOutClean ==
  ASSUME TInv, Own, NEW h \in Handles, CopyOut(h)
  PROVE  RemoteClean'
<1> DEFINE b == Head(handle[h].buf)
           p == PathOf(h)
<1>1. /\ handle[h].pc = "copyOut" /\ p \in Paths /\ remote[p] \in Seq(Block)
      /\ handle[h].wpos \in Nat /\ handle[h].buf \in Seq(Block) /\ handle[h].buf # <<>>
  BY DEF CopyOut, At, PathOf, TInv, TypeOK, HasRemote, TransferPC, HandleType
<1>5. b \in BlocksOf[p] \cup {Zero}
  BY <1>1, TailClean DEF Own, RecordsOK, RecordOK, PathOf
<1>6. CASE remote' = [remote EXCEPT ![p] = WriteAt(@, handle[h].wpos, b)]
  <2>1. Clean(p, remote[p])
    BY <1>1, ScpfsAssumption DEF Own, RemoteClean
  <2> HIDE DEF b, p
  <2>2. Clean(p, WriteAt(remote[p], handle[h].wpos, b))
    BY <1>1, <1>5, <2>1, WriteAtClean
  <2> QED
    BY <1>1, <1>6, <2>2 DEF Own, RemoteClean, TInv, TypeOK
<1>7. CASE UNCHANGED remote
  BY <1>7 DEF Own, RemoteClean
<1> QED
  BY <1>6, <1>7 DEF CopyOut

\* Every step keeps who owns what, unless a failed open may be answered with 0.
LEMMA OwnNext ==
  ASSUME ~ErrnoClear, TInv, Own, [Next]_vars
  PROVE  Own'
<1> USE DEF At
<1>a. TypeOK
  BY DEF TInv
<1>b. \A h \in Handles : /\ handle[h] \in HandleType
                         /\ handle[h].pc # "idle" => PathOf(h) \in Paths
                         /\ handle[h].pc \in FhPC => handle[h].fh \in Fds
  BY DEF TInv, TypeOK, HoldsFh, PathOf
<1>c. UNCHANGED remote => RemoteClean'
  BY DEF Own, RemoteClean
<1>d. \A h \in Handles : handle[h].pc \in FhPC =>
        /\ handle[h].fh \in Held(h) /\ fdt[handle[h].fh] \in Inodes
        /\ PathOf(h) \in Names(fdt[handle[h].fh])
  BY <1>b DEF Held, HoldsFh, Own, HeldAreFiles, Names, FhPC
<1>e. \A h \in Handles : handle[h].pc \notin FhPC => Held(h) = {}
  BY DEF Held, HoldsFh, FhPC, StreamPC
<1>f. \A p \in Paths : local[p] # None => local[p] \in Inodes /\ p \in Names(local[p])
  BY <1>a DEF TypeOK, Names
<1>g. \A h \in Handles : RecordOK(handle[h])
  BY DEF Own, RecordsOK
<1> USE DEF Labels, HandlerPC, WaitingPC, ReleasePC, FhPC, StreamPC
<1>1. ASSUME NEW h \in Handles, NEW p \in Paths, NEW fl \in SUBSET {"creat", "trunc"},
             Getattr(h, p, fl)
      PROVE  Own'
  <2> DEFINE r == [Idle EXCEPT !.pc = IF local[p] # None THEN "lstat" ELSE "rstat",
                               !.path = p, !.flags = fl]
  <2>2. handle' = [handle EXCEPT ![h] = r]
    BY <1>1 DEF Getattr
  <2>3. r.pc \in {"lstat", "rstat"} /\ r.rd = None /\ r.buf = <<>>
    BY DEF Idle
  <2> HIDE DEF r
  <2>1. Lesser(h, r)
    BY <2>3, EmptyClean DEF Lesser, HeldBy, RecordOK
  <2> QED
    BY <1>1, <1>a, <1>c, <2>1, <2>2, UntouchedKeeps DEF Getattr
<1>2. ASSUME NEW h \in Handles, GetattrLocal(h) PROVE Own'
  <2>1. \E r : Lesser(h, r) /\ handle' = [handle EXCEPT ![h] = r]
    BY <1>2, <1>a, GotoLesser, FinishLesser DEF GetattrLocal, Found, NotFound
  <2> QED
    BY <1>2, <1>a, <1>c, <2>1, UntouchedKeeps DEF GetattrLocal
<1>3. ASSUME NEW h \in Handles, GetattrRemote(h) PROVE Own'
  <2>1. \E r : Lesser(h, r) /\ handle' = [handle EXCEPT ![h] = r]
    BY <1>3, <1>a, GotoLesser, FinishLesser DEF GetattrRemote, Found, NotFound
  <2> QED
    BY <1>3, <1>a, <1>c, <2>1, UntouchedKeeps DEF GetattrRemote
<1>4. ASSUME NEW h \in Handles, OpenRemote(h) PROVE Own'
  <2>1. \E r : Lesser(h, r) /\ handle' = [handle EXCEPT ![h] = r]
    BY <1>4, <1>a, GotoLesser, FinishLesser DEF OpenRemote
  <2> QED
    BY <1>4, <1>a, <1>c, <2>1, UntouchedKeeps DEF OpenRemote
<1>5. ASSUME NEW h \in Handles, OpenLocal(h) PROVE Own'
  <2>1. PICK f \in Fds, i \in Inodes :
          /\ OpenFile(PathOf(h), f, i)
          /\ handle' = [handle EXCEPT ![h].pc = "copyIn", ![h].fh = f]
    BY <1>5 DEF OpenLocal
  <2> DEFINE r == [handle[h] EXCEPT !.pc = "copyIn", !.fh = f]
  <2>2. /\ handle[h].pc = "openLocal" /\ PathOf(h) \in Paths /\ handle[h].rd = None
        /\ Clean(PathOf(h), handle[h].buf)
    BY <1>5, <1>b, <1>g DEF OpenLocal, RecordOK, PathOf
  <2>3. /\ r.pc = "copyIn" /\ r.path = PathOf(h) /\ r.fh = f /\ r.rd = None
        /\ r.buf = handle[h].buf
    BY <1>b, <2>2 DEF HandleType, PathOf
  <2>4. handle' = [handle EXCEPT ![h] = r]
    BY <2>1
  <2> HIDE DEF r
  <2>5. UNCHANGED remote /\ Held(h) = {}
    BY <1>5, <1>e, <2>2 DEF OpenLocal
  <2>6. r.pc \in FhPC /\ OpenFile(PathOf(h), f, i)
    BY <2>1, <2>3
  <2> QED
    BY <1>a, <2>2, <2>3, <2>4, <2>5, <2>6, OpenFileKeeps
<1>6. ASSUME NEW h \in Handles, OpenLocalFails(h) PROVE Own'
  <2>1. \E r : Lesser(h, r) /\ handle' = [handle EXCEPT ![h] = r]
    BY <1>6, <1>a, GotoLesser DEF OpenLocalFails
  <2> QED
    BY <1>6, <1>a, <1>c, <2>1, UntouchedKeeps DEF OpenLocalFails
<1>26. ASSUME NEW h \in Handles, NEW r, handle' = [handle EXCEPT ![h] = r],
              r.pc = handle[h].pc, r.path = handle[h].path, r.fh = handle[h].fh,
              r.rd = handle[h].rd, Clean(PathOf(h), r.buf)
       PROVE  Lesser(h, r)
  BY <1>26, <1>g, HeldIsHeldBy DEF Lesser, HeldBy, RecordOK, PathOf
<1>27. ASSUME NEW h \in Handles, ReadIn(h) PROVE Own'
  <2> DEFINE p == PathOf(h)
             c == remote[p]
             k == handle[h].pos
             r == [handle[h] EXCEPT !.buf = <<c[k + 1]>>]
  <2>1. p \in Paths /\ k \in Nat /\ k < Len(c) /\ handle[h].pc = "copyIn"
    BY <1>27, <1>b DEF ReadIn, HandleType
  <2>2. c \in Seq(Block) /\ Clean(p, c)
    BY <2>1 DEF TInv, TypeOK, HasRemote, TransferPC, PathOf, Own, RemoteClean
  <2>3. Clean(p, <<c[k + 1]>>)
    <3>1. k + 1 \in k + 1..Len(c)
      BY <2>1, <2>2
    <3> QED
      BY <2>1, <2>2, <3>1, PartClean
  <2>4. /\ r.pc = handle[h].pc /\ r.path = handle[h].path /\ r.fh = handle[h].fh
        /\ r.rd = handle[h].rd /\ r.buf = <<c[k + 1]>>
    BY <1>b DEF HandleType
  <2>5. handle' = [handle EXCEPT ![h] = r]
    BY <1>27 DEF ReadIn
  <2> HIDE DEF r
  <2>6. Lesser(h, r)
    BY <1>26, <2>3, <2>4, <2>5
  <2> QED
    BY <1>27, <1>a, <1>c, <2>5, <2>6, UntouchedKeeps DEF ReadIn
<1>28. ASSUME NEW h \in Handles, NEW b, handle[h].pc = "copyIn", handle[h].buf # <<>>,
              b = Head(handle[h].buf), WriteFd(handle[h].fh, handle[h].pos, b),
              UNCHANGED <<remote, local, fdt>>
       PROVE  Tame /\ RemoteClean'
  <2> DEFINE i == fdt[handle[h].fh]
             k == handle[h].pos
             p == PathOf(h)
  <2>1. p \in Paths /\ k \in Nat /\ handle[h].buf \in Seq(Block)
    BY <1>28, <1>b DEF HandleType
  <2>2. i \in Inodes /\ p \in Names(i) /\ data[i] \in Seq(Block) /\ Clean(p, data[i])
    BY <1>28, <1>a, <1>d DEF TypeOK, Own, CopiesClean
  <2>4. b \in BlocksOf[p] \cup {Zero}
    BY <1>28, <1>g, <2>1, TailClean DEF RecordOK, PathOf
  <2>5. data' = [data EXCEPT ![i] = WriteAt(data[i], k, b)]
    BY <1>28, <2>2 DEF WriteFd
  <2>6. Clean(p, WriteAt(data[i], k, b))
    BY <2>1, <2>2, <2>4, WriteAtClean
  <2> QED
    BY <1>28, <1>a, <2>2, <2>5, <2>6, InPlaceKeeps
<1>7. ASSUME NEW h \in Handles, CopyIn(h) PROVE Own'
  <2> DEFINE r == [handle[h] EXCEPT !.pos = handle[h].pos + 1, !.buf = <<>>]
  <2>1. /\ r.pc = handle[h].pc /\ r.path = handle[h].path /\ r.fh = handle[h].fh
        /\ r.rd = handle[h].rd /\ r.buf = <<>>
    BY <1>b DEF HandleType
  <2>2. handle' = [handle EXCEPT ![h] = r]
    BY <1>7 DEF CopyIn
  <2> HIDE DEF r
  <2>3. Lesser(h, r)
    BY <1>26, <2>1, <2>2, EmptyClean
  <2>4. Tame /\ RemoteClean'
    BY <1>7, <1>28 DEF CopyIn
  <2> QED
    BY <1>7, <1>a, <2>2, <2>3, <2>4, LesserKeeps DEF CopyIn
<1>8. ASSUME NEW h \in Handles, CopyInFails(h) PROVE Own'
  <2>1. \E r : Lesser(h, r) /\ handle' = [handle EXCEPT ![h] = r]
    BY <1>8, <1>a, GotoLesser DEF CopyInFails
  <2>2. CASE WriteFd(handle[h].fh, handle[h].pos, Head(handle[h].buf))
    <3>1. Tame /\ RemoteClean'
      BY <1>8, <1>28, <2>2 DEF CopyInFails
    <3> QED
      BY <1>8, <1>a, <2>1, <3>1, LesserKeeps DEF CopyInFails
  <2>3. CASE UNCHANGED data
    BY <1>8, <1>a, <1>c, <2>1, <2>3, UntouchedKeeps DEF CopyInFails
  <2> QED
    BY <1>8, <2>2, <2>3 DEF CopyInFails
<1>29. ASSUME NEW h \in Handles, CloseLocal(h) PROVE Own'
  <2> DEFINE r == [handle[h] EXCEPT !.pc = "freeSession"]
  <2>1. handle[h].pc = "closeLocal" /\ handle[h].fh \in Held(h)
    BY <1>29, <1>d DEF CloseLocal
  <2>2. /\ r.pc = "freeSession" /\ r.path = handle[h].path /\ r.rd = handle[h].rd
        /\ r.buf = handle[h].buf
    BY <1>b DEF HandleType
  <2>3. handle' = [handle EXCEPT ![h] = r]
    BY <1>29 DEF CloseLocal, Goto
  <2> HIDE DEF r
  <2>4. Lesser(h, r) /\ HeldBy(r) = {}
    BY <1>g, <2>1, <2>2 DEF Lesser, HeldBy, RecordOK
  <2>5. {handle[h].fh} \cap Fds \subseteq Held(h)
    BY <2>1
  <2> QED
    BY <1>29, <1>a, <2>3, <2>4, <2>5, CloseKeeps DEF CloseLocal
<1>30. ASSUME NEW h \in Handles, FreeSession(h) PROVE Own'
  BY <1>30, <1>a, <1>c, FinishLesser, UntouchedKeeps DEF FreeSession
<1>9. ASSUME NEW h \in Handles, CopiedIn(h) PROVE Own'
  <2> DEFINE l == IF "trunc" \in handle[h].flags THEN "toTrunc" ELSE "open"
             r == [Idle EXCEPT !.pc = l, !.path = PathOf(h), !.fh = handle[h].fh]
  <2>1. handle[h].pc = "copyIn" /\ handle[h].fh \in Held(h)
    BY <1>9, <1>d DEF CopiedIn
  <2>2. /\ r.pc \in {"toTrunc", "open"} /\ r.path = PathOf(h) /\ r.fh = handle[h].fh
        /\ r.rd = None /\ r.buf = <<>>
    BY DEF Idle
  <2>3. handle' = [handle EXCEPT ![h] = r]
    BY <1>9 DEF CopiedIn, Opened
  <2> HIDE DEF r
  <2>4. Lesser(h, r)
    BY <2>1, <2>2, EmptyClean DEF Lesser, HeldBy, RecordOK
  <2> QED
    BY <1>9, <1>a, <1>c, <2>3, <2>4, UntouchedKeeps DEF CopiedIn
<1>10. ASSUME NEW h \in Handles, Create(h) PROVE Own'
  <2>1. CASE Finish(h) /\ UNCHANGED <<local, data, fdt>>
    BY <1>10, <2>1, <1>a, <1>c, FinishLesser, UntouchedKeeps DEF Create
  <2>2. CASE \E f \in Fds, i \in Inodes :
               /\ OpenFile(PathOf(h), f, i)
               /\ handle' = [handle EXCEPT ![h] =
                    [Idle EXCEPT !.pc = "open", !.path = PathOf(h), !.fh = f]]
    <3>1. PICK f \in Fds, i \in Inodes :
            /\ OpenFile(PathOf(h), f, i)
            /\ handle' = [handle EXCEPT ![h] =
                 [Idle EXCEPT !.pc = "open", !.path = PathOf(h), !.fh = f]]
      BY <2>2
    <3> DEFINE r == [Idle EXCEPT !.pc = "open", !.path = PathOf(h), !.fh = f]
    <3>2. r.pc = "open" /\ r.path = PathOf(h) /\ r.fh = f /\ r.rd = None /\ r.buf = <<>>
      BY DEF Idle
    <3>3. handle' = [handle EXCEPT ![h] = r]
      BY <3>1
    <3>4. PathOf(h) \in Paths /\ Held(h) = {}
      BY <1>10, <1>b, <1>e DEF Create
    <3> HIDE DEF r
    <3>5. /\ r.pc \in FhPC /\ Clean(PathOf(h), r.buf) /\ UNCHANGED remote
          /\ OpenFile(PathOf(h), f, i)
      BY <1>10, <3>1, <3>2, EmptyClean DEF Create
    <3> QED
      BY <1>a, <3>2, <3>3, <3>4, <3>5, OpenFileKeeps
  <2> QED
    BY <1>10, <2>1, <2>2 DEF Create
<1>11. ASSUME NEW h \in Handles, Truncate(h) PROVE Own'
  <2>1. handle[h].pc = "toTrunc" /\ PathOf(h) \in Paths
    BY <1>11, <1>b DEF Truncate
  <2>2. CASE local[PathOf(h)] # None
    <3>1. Tame /\ RemoteClean'
      BY <1>11, <1>a, <1>f, <2>1, <2>2, EmptyClean, InPlaceKeeps DEF Truncate
    <3>2. \E r : Lesser(h, r) /\ handle' = [handle EXCEPT ![h] = r]
      BY <1>11, <1>a, <2>1, <2>2, GotoLesser DEF Truncate
    <3> QED
      BY <1>11, <1>a, <3>1, <3>2, LesserKeeps DEF Truncate
  <2>3. CASE local[PathOf(h)] = None
    <3>1. \E r : Lesser(h, r) /\ handle' = [handle EXCEPT ![h] = r]
      BY <1>11, <1>a, <2>1, <2>3, GotoLesser DEF Truncate
    <3> QED
      BY <1>11, <1>a, <1>c, <2>3, <3>1, UntouchedKeeps DEF Truncate
  <2> QED
    BY <2>2, <2>3
<1>12. ASSUME Tame /\ RemoteClean', UNCHANGED <<fdt, handle>> PROVE Own'
  <2>1. \A g \in Handles : Held(g)' = Held(g) /\ PathOf(g)' = PathOf(g)
    BY <1>12 DEF Held, HoldsFh, PathOf
  <2>2. RecordsOK'
    BY <1>12 DEF Own, RecordsOK
  <2> QED
    BY <1>12, <1>a, <2>1, <2>2, ShrinkKeeps
<1>13. ASSUME NEW h \in Handles, NEW k \in Nat, NEW b \in Block, Write(h, k, b) PROVE Own'
  <2> DEFINE i == fdt[handle[h].fh]
             p == PathOf(h)
  <2>1. /\ p \in Paths /\ i \in Inodes /\ p \in Names(i)
        /\ data[i] \in Seq(Block) /\ Clean(p, data[i])
    BY <1>13, <1>a, <1>b, <1>d DEF Write, TypeOK, Own, CopiesClean
  <2>2. Clean(p, WriteAt(data[i], k, b))
    BY <1>13, <2>1, WriteAtClean DEF Write
  <2>3. data' = [data EXCEPT ![i] = WriteAt(data[i], k, b)]
    BY <1>13, <2>1 DEF Write, WriteFd
  <2> QED
    BY <1>12, <1>13, <1>a, <2>1, <2>2, <2>3, InPlaceKeeps DEF Write
<1>14. ASSUME NEW h \in Handles, NEW n \in Nat, Ftruncate(h, n) PROVE Own'
  <2> DEFINE i == fdt[handle[h].fh]
             p == PathOf(h)
  <2>1. /\ p \in Paths /\ i \in Inodes /\ p \in Names(i)
        /\ data[i] \in Seq(Block) /\ Clean(p, data[i])
    BY <1>14, <1>a, <1>b, <1>d DEF Ftruncate, TypeOK, Own, CopiesClean
  <2>2. Clean(p, Resize(data[i], n))
    BY <2>1, ResizeClean
  <2>3. data' = [data EXCEPT ![i] = Resize(data[i], n)]
    BY <1>14 DEF Ftruncate
  <2> QED
    BY <1>12, <1>14, <1>a, <2>1, <2>2, <2>3, InPlaceKeeps DEF Ftruncate
<1>15. ASSUME NEW p \in Paths, NEW n \in Nat, TruncatePath(p, n) PROVE Own'
  <2> DEFINE i == local[p]
  <2>1. /\ i \in Inodes /\ p \in Names(i) /\ data[i] \in Seq(Block) /\ Clean(p, data[i])
    BY <1>15, <1>a, <1>f DEF TruncatePath, TypeOK, Own, CopiesClean
  <2>2. Clean(p, Resize(data[i], n))
    BY <2>1, ResizeClean
  <2>3. data' = [data EXCEPT ![i] = Resize(data[i], n)]
    BY <1>15 DEF TruncatePath
  <2> QED
    BY <1>12, <1>15, <1>a, <2>1, <2>2, <2>3, InPlaceKeeps DEF TruncatePath
<1>16. ASSUME NEW h \in Handles, Close(h) PROVE Own'
  <2>1. \E r : Lesser(h, r) /\ handle' = [handle EXCEPT ![h] = r]
    BY <1>16, <1>a, GotoLesser DEF Close
  <2> QED
    BY <1>16, <1>a, <1>c, <2>1, UntouchedKeeps DEF Close
<1>17. ASSUME NEW h \in Handles, TakeRelease(h) PROVE Own'
  <2>1. handle[h].pc = "queued"
    BY <1>17 DEF TakeRelease, TInv, TypeOK, QueueOK
  <2>2. \E r : Lesser(h, r) /\ handle' = [handle EXCEPT ![h] = r]
    BY <1>17, <1>a, <2>1, GotoLesser DEF TakeRelease
  <2> QED
    BY <1>17, <1>a, <1>c, <2>2, UntouchedKeeps DEF TakeRelease
<1>18. ASSUME NEW h \in Handles, ReleaseOpen(h) PROVE Own'
  <2>1. \E r : Lesser(h, r) /\ handle' = [handle EXCEPT ![h] = r]
    BY <1>18, <1>a, GotoLesser DEF ReleaseOpen
  <2>2. RemoteClean'
    BY <1>18, <1>a, <1>b, EmptyClean DEF ReleaseOpen, TypeOK, Own, RemoteClean
  <2> QED
    BY <1>18, <1>a, <2>1, <2>2, UntouchedKeeps DEF ReleaseOpen
<1>19. ASSUME NEW h \in Handles, ReleaseOpenFails(h) PROVE Own'
  BY <1>19, <1>a, <1>c, FinishLesser, UntouchedKeeps DEF ReleaseOpenFails
<1>20. ASSUME NEW h \in Handles, OpenStream(h) PROVE Own'
  BY <1>20, OpenStreamKeeps
<1>31. ASSUME NEW h \in Handles, ReadOut(h) PROVE Own'
  <2> DEFINE p == PathOf(h)
             i == fdt[handle[h].rd]
             c == data[i]
             k == handle[h].pos
  <2>1. /\ p \in Paths /\ k \in Nat /\ handle[h].rd \in Fds /\ i \in Inodes
        /\ handle[h].pc = "copyOut"
    BY <1>31, <1>b DEF ReadOut, Unread, HandleType
  <2>2. c \in Seq(Block) /\ Clean(p, c)
    <3>1. p \in Names(i)
      BY <2>1 DEF Names, Held
    <3> QED
      BY <1>a, <2>1, <3>1 DEF TypeOK, Own, CopiesClean
  <2>3. PICK n \in k + 1..Len(c) :
          handle' = [handle EXCEPT ![h].pos = n, ![h].buf = SubSeq(c, k + 1, n)]
    BY <1>31 DEF ReadOut
  <2> DEFINE s == SubSeq(c, k + 1, n)
             r == [handle[h] EXCEPT !.pos = n, !.buf = s]
  <2>4. Clean(p, s)
    BY <2>1, <2>2, PartClean
  <2> HIDE DEF s
  <2>5. /\ r.pc = handle[h].pc /\ r.path = handle[h].path /\ r.fh = handle[h].fh
        /\ r.rd = handle[h].rd /\ r.buf = s
    BY <1>b DEF HandleType
  <2>6. handle' = [handle EXCEPT ![h] = r]
    BY <2>3 DEF s
  <2> HIDE DEF r
  <2>7. Lesser(h, r)
    BY <1>26, <2>4, <2>5, <2>6
  <2> QED
    BY <1>31, <1>a, <1>c, <2>6, <2>7, UntouchedKeeps DEF ReadOut
<1>21. ASSUME NEW h \in Handles, CopyOut(h) PROVE Own'
  <2> DEFINE w == handle[h].wpos + 1
             t == Tail(handle[h].buf)
             r == [handle[h] EXCEPT !.buf = t]
             rw == [handle[h] EXCEPT !.wpos = w, !.buf = t]
  <2>1. Clean(PathOf(h), t)
    BY <1>21, <1>b, <1>g, TailClean DEF CopyOut, HandleType, RecordOK, PathOf
  <2>2. handle' = [handle EXCEPT ![h] = r] \/ handle' = [handle EXCEPT ![h] = rw]
    BY <1>21 DEF CopyOut
  <2> HIDE DEF t
  <2>3. /\ r.pc = handle[h].pc /\ r.path = handle[h].path /\ r.fh = handle[h].fh
        /\ r.rd = handle[h].rd /\ r.buf = t
    BY <1>b DEF HandleType
  <2>4. /\ rw.pc = handle[h].pc /\ rw.path = handle[h].path /\ rw.fh = handle[h].fh
        /\ rw.rd = handle[h].rd /\ rw.buf = t
    BY <1>b DEF HandleType
  <2> HIDE DEF r, rw
  <2>5. \E s : Lesser(h, s) /\ handle' = [handle EXCEPT ![h] = s]
    BY <1>26, <2>1, <2>2, <2>3, <2>4
  <2>6. RemoteClean'
    BY <1>21, CopyOutClean
  <2> QED
    BY <1>21, <1>a, <2>5, <2>6, UntouchedKeeps DEF CopyOut
<1>32. ASSUME NEW h \in Handles, CopiedOut(h) PROVE Own'
  <2>1. \E r : Lesser(h, r) /\ handle' = [handle EXCEPT ![h] = r]
    BY <1>32, <1>a, GotoLesser DEF CopiedOut
  <2> QED
    BY <1>32, <1>a, <1>c, <2>1, UntouchedKeeps DEF CopiedOut
<1>33. ASSUME NEW h \in Handles, CloseStream(h) PROVE Own'
  <2> DEFINE r == [handle[h] EXCEPT !.pc = "closeFh", !.rd = None]
  <2>1. /\ r.pc = "closeFh" /\ r.path = handle[h].path /\ r.rd = None
        /\ r.buf = handle[h].buf /\ r.fh = handle[h].fh
    BY <1>b DEF HandleType
  <2>2. handle[h].pc = "closeStream" /\ handle' = [handle EXCEPT ![h] = r]
    BY <1>33 DEF CloseStream
  <2> HIDE DEF r
  <2>3. handle[h].fh \in Held(h) /\ handle[h].rd # handle[h].fh
    BY <1>d, <1>g, <2>2 DEF RecordOK
  <2>4. HeldBy(r) \subseteq {handle[h].fh}
    BY <2>1 DEF HeldBy
  <2>5. Lesser(h, r)
    BY <1>g, <2>1, <2>3, <2>4 DEF Lesser, RecordOK, PathOf
  <2>6. {handle[h].rd} \cap Fds \subseteq Held(h)
    BY <2>2 DEF Held
  <2>7. HeldBy(r) \cap {handle[h].rd} = {}
    BY <2>3, <2>4
  <2>8. CloseFds({handle[h].rd}) /\ UNCHANGED <<remote, local>>
    BY <1>33 DEF CloseStream
  <2> QED
    BY <1>a, <2>2, <2>5, <2>6, <2>7, <2>8, CloseKeeps
<1>22. ASSUME NEW h \in Handles, CloseFh(h) PROVE Own'
  <2> DEFINE r == [Idle EXCEPT !.pc = "remove", !.path = PathOf(h)]
  <2>1. r.pc = "remove" /\ r.rd = None /\ r.buf = <<>>
    BY DEF Idle
  <2>2. {handle[h].fh} \cap Fds \subseteq Held(h)
    BY <1>22 DEF CloseFh, Held, HoldsFh
  <2>3. handle' = [handle EXCEPT ![h] = r]
    BY <1>22 DEF CloseFh
  <2> HIDE DEF r
  <2>4. Lesser(h, r) /\ HeldBy(r) = {}
    BY <2>1, EmptyClean DEF Lesser, HeldBy, RecordOK
  <2> QED
    BY <1>22, <1>a, <2>2, <2>3, <2>4, CloseKeeps DEF CloseFh
<1>23. ASSUME NEW h \in Handles, RemoveLocal(h) PROVE Own'
  <2>1. \A p \in Paths : local'[p] \in {local[p], None}
    BY <1>23, <1>a DEF RemoveLocal, Unlink, TypeOK
  <2>2. Tame
    BY <1>23, <2>1, ReclaimedTame DEF RemoveLocal, Unlink
  <2> QED
    BY <1>23, <1>a, <1>c, <2>2, FinishLesser, LesserKeeps DEF RemoveLocal
<1>24. CASE Crash
  <2>1. Tame
    BY <1>24, ReclaimedTame DEF Crash
  <2>4. \A g \in Handles : /\ handle'[g].pc = "idle" /\ handle'[g].rd = None
                           /\ handle'[g].buf = <<>>
    BY <1>24 DEF Crash, Idle
  <2>2. \A g \in Handles : Held(g)' = {}
    BY <2>4 DEF Held, HoldsFh
  <2>3. RecordsOK'
    BY <2>4, EmptyClean DEF RecordsOK, RecordOK
  <2> QED
    BY <1>24, <1>a, <1>c, <2>1, <2>2, <2>3, ShrinkKeeps DEF Crash
<1>25. CASE UNCHANGED vars
  <2>1. Tame
    BY <1>25 DEF vars, Own, CopiesClean, Tame
  <2> QED
    BY <1>12, <1>25, <1>c, <2>1 DEF vars
<1> QED
  BY <1>1, <1>2, <1>3, <1>4, <1>5, <1>6, <1>7, <1>8, <1>9, <1>10, <1>11, <1>13, <1>14, <1>15,
     <1>16, <1>17, <1>18, <1>19, <1>20, <1>21, <1>22, <1>23, <1>24, <1>25, <1>27, <1>29, <1>30,
     <1>31, <1>32, <1>33, ScpfsAssumption
     DEF Next, Client, Request, Handler

-----------------------------------------------------------------------------
\* fi->fh and the stream of a release name local files, never stdin or a
\* descriptor already closed, whatever sftp calls, local calls and threads do,
\* as long as no failure is reported with errno 0; under -s none is.
THEOREM HandlesAreFiles == ~ErrnoClear => (Spec => []HeldAreFiles)
<1> SUFFICES ASSUME ~ErrnoClear PROVE Spec => []HeldAreFiles
  OBVIOUS
<1>1. TInv /\ Own /\ [Next]_vars => (TInv /\ Own)'
  BY TInvNext, OwnNext
<1>2. TInv /\ Own => HeldAreFiles
  BY DEF Own
<1> QED
  BY <1>1, <1>2, TInvInit, OwnInit, PTL DEF Spec

\* Blocks written to one path never reach another, under the same condition:
\* descriptors leak and are reused, inodes are freed and reallocated, sessions
\* are freed, and still no handle reads, writes or uploads a file not its own.
THEOREM PathsIsolated == ~ErrnoClear => (Spec => []Isolation)
<1> SUFFICES ASSUME ~ErrnoClear PROVE Spec => []Isolation
  OBVIOUS
<1>1. TInv /\ Own /\ [Next]_vars => (TInv /\ Own)'
  BY TInvNext, OwnNext
<1>2. ASSUME TInv, Own PROVE Isolation
  <2>1. \A p \in Paths : local[p] # None => Clean(p, data[local[p]])
    BY <1>2 DEF TInv, TypeOK, Own, CopiesClean, Names
  <2>2. ASSUME NEW h \in Handles, NEW f \in Held(h), fdt[f] \in Inodes
        PROVE  Clean(PathOf(h), data[fdt[f]])
    <3>1. PathOf(h) \in Paths
      BY <1>2, <2>2 DEF TInv, TypeOK, Held, HoldsFh, FhPC, StreamPC, PathOf
    <3> QED
      BY <1>2, <2>2, <3>1 DEF Own, CopiesClean, Names
  <2> QED
    BY <1>2, <2>1, <2>2 DEF Own, RemoteClean, Isolation
<1> QED
  BY <1>1, <1>2, TInvInit, OwnInit, PTL DEF Spec

-----------------------------------------------------------------------------
(* Without faults nothing is left behind.                                  *)

Tended(h) == handle[h].pc \in FhPC \cup {"remove"}
AllHeld == \A f \in Fds : fdt[f] \in Inodes => \E h \in Handles : f \in Held(h)
AllTended ==
  \A p \in Paths : local[p] # None => \E h \in Handles : PathOf(h) = p /\ Tended(h)
ErrorPC == {"closeLocal", "freeSession"}
NoErrors == \A h \in Handles : handle[h].pc \notin ErrorPC
Tidy == session = "up" /\ NoErrors /\ AllHeld /\ AllTended

\* The record r that a step leaves for h still answers for what h had.
Greater(h, r) ==
  /\ Held(h) \subseteq HeldBy(r) /\ r.pc \notin ErrorPC
  /\ Tended(h) => r.pc \in FhPC \cup {"remove"} /\ r.path = PathOf(h)

\* What the step adds to descriptors and names, r answers for.
Gains(r) ==
  /\ \A f \in Fds : fdt'[f] \in {fdt[f], None} \/ f \in HeldBy(r)
  /\ \A p \in Paths : \/ local'[p] \in {local[p], None}
                      \/ p = r.path /\ r.pc \in FhPC

\* A step after which a handle holds no less, and answers for what is new, keeps it.
LEMMA GreaterKeeps ==
  ASSUME TypeOK, Tidy, session' = "up", NEW h \in Handles, NEW r, Greater(h, r),
         handle' = [handle EXCEPT ![h] = r], Gains(r)
  PROVE  Tidy'
<1>1. \A g \in Handles : handle'[g] = IF g = h THEN r ELSE handle[g]
  BY DEF TypeOK
<1>2. \A g \in Handles : Held(g)' = HeldBy(handle'[g])
  BY DEF Held, HeldBy, HoldsFh, At
<1>3. Held(h)' = HeldBy(r) /\ \A g \in Handles : Held(g) \subseteq Held(g)'
  BY <1>1, <1>2, HeldIsHeldBy DEF Greater
<1>4. AllHeld'
  BY <1>3, ScpfsAssumption DEF Tidy, AllHeld, Gains
<1>5. \A g \in Handles : Tended(g) => Tended(g)' /\ PathOf(g)' = PathOf(g)
  BY <1>1 DEF Greater, Tended, PathOf
<1>6. r.pc \in FhPC => Tended(h)' /\ PathOf(h)' = r.path
  BY <1>1 DEF Tended, PathOf
<1>7. AllTended'
  BY <1>5, <1>6 DEF Tidy, AllTended, Gains
<1>8. NoErrors'
  BY <1>1 DEF Tidy, NoErrors, Greater
<1> QED
  BY <1>4, <1>7, <1>8 DEF Tidy

\* A handle that has nothing to answer for holds nothing it could lose.
LEMMA UntendedGreater ==
  ASSUME NEW h \in Handles, handle[h].pc \notin FhPC \cup {"remove"}, NEW r,
         r.pc \notin ErrorPC
  PROVE  Greater(h, r)
BY DEF Greater, Tended, Held, HoldsFh, FhPC, StreamPC

\* A handler that goes on keeps what it has open.
LEMMA GotoGreater ==
  ASSUME TypeOK, NEW h \in Handles, NEW l \in FhPC \ ErrorPC, Goto(h, l),
         handle[h].pc \in FhPC, handle[h].pc \in StreamPC => l \in StreamPC
  PROVE  \E r : Greater(h, r) /\ handle' = [handle EXCEPT ![h] = r]
<1> DEFINE r == [handle[h] EXCEPT !.pc = l]
<1>1. handle[h] \in HandleType
  BY DEF TypeOK
<1>2. /\ r.pc = l /\ r.path = handle[h].path /\ r.fh = handle[h].fh
      /\ r.rd = handle[h].rd
  BY <1>1 DEF HandleType
<1>3. Greater(h, r)
  BY <1>2 DEF Greater, HeldBy, Held, HoldsFh, PathOf
<1>4. handle' = [handle EXCEPT ![h] = r]
  BY DEF Goto
<1> QED
  BY <1>3, <1>4

\* The steps that leave names and descriptors alone.
LEMMA UntouchedTidy ==
  ASSUME TypeOK, Tidy, UNCHANGED <<session, local, fdt>>, NEW h \in Handles,
         \E r : Greater(h, r) /\ handle' = [handle EXCEPT ![h] = r]
  PROVE  Tidy'
<1>1. PICK r : Greater(h, r) /\ handle' = [handle EXCEPT ![h] = r]
  OBVIOUS
<1>2. session' = "up"
  BY DEF Tidy
<1>3. Gains(r)
  BY DEF Gains
<1> QED
  BY <1>1, <1>2, <1>3, GreaterKeeps

\* The handlers' error paths are not taken, and the daemon does not die.
LEMMA NoFailure ==
  ASSUME Faults = {}, TInv, Own, Tidy
  PROVE  /\ ~Crash
         /\ \A h \in Handles : /\ ~OpenLocalFails(h) /\ ~CopyInFails(h) /\ ~CloseLocal(h)
                              /\ ~FreeSession(h) /\ ~ReleaseOpenFails(h)
<1>1. \A h \in Handles : At(h, "copyIn") => fdt[handle[h].fh] \in Inodes
  BY DEF At, TInv, TypeOK, HoldsFh, FhPC, Held, Own, HeldAreFiles
<1>2. \A h \in Handles : ~At(h, "closeLocal") /\ ~At(h, "freeSession")
  BY DEF At, Tidy, NoErrors, ErrorPC
<1> QED
  BY <1>1, <1>2 DEF Tidy, Crash, Raced, OpenLocalFails, NoRoom, NoFd, CopyInFails, CloseLocal,
                    FreeSession, ReleaseOpenFails, SftpFault

\* Without faults every step keeps it.
LEMMA TidyNext ==
  ASSUME Faults = {}, TInv, Own, Tidy, [Next]_vars
  PROVE  Tidy'
<1> USE DEF At
<1>a. TypeOK
  BY DEF TInv
<1>b. \A h \in Handles : handle[h] \in HandleType
  BY <1>a DEF TypeOK
<1> USE DEF Labels, HandlerPC, WaitingPC, ReleasePC, FhPC, StreamPC, ErrorPC
<1>1. ASSUME NEW h \in Handles, NEW p \in Paths, NEW fl \in SUBSET {"creat", "trunc"},
             Getattr(h, p, fl)
      PROVE  Tidy'
  <2>1. \E r : handle' = [handle EXCEPT ![h] = r] /\ r.pc \in {"lstat", "rstat"}
    <3> DEFINE r == [Idle EXCEPT !.pc = IF local[p] # None THEN "lstat" ELSE "rstat",
                                 !.path = p, !.flags = fl]
    <3>1. handle' = [handle EXCEPT ![h] = r]
      BY <1>1 DEF Getattr
    <3>2. r.pc \in {"lstat", "rstat"}
      BY DEF Idle
    <3> QED
      BY <3>1, <3>2
  <2> QED
    BY <1>1, <1>a, <2>1, UntendedGreater, UntouchedTidy DEF Getattr
<1>2. ASSUME NEW h \in Handles, GetattrLocal(h) \/ GetattrRemote(h) \/ OpenRemote(h)
      PROVE  Tidy'
  <2>1. \E r : handle' = [handle EXCEPT ![h] = r] /\ r.pc \notin ErrorPC
    <3>1. ASSUME NEW l \in Labels \ ErrorPC, Goto(h, l)
          PROVE  \E r : handle' = [handle EXCEPT ![h] = r] /\ r.pc \notin ErrorPC
      <4>1. handle' = [handle EXCEPT ![h] = [handle[h] EXCEPT !.pc = l]]
        BY <3>1 DEF Goto
      <4>2. [handle[h] EXCEPT !.pc = l].pc = l
        BY <1>b DEF HandleType
      <4> QED
        BY <3>1, <4>1, <4>2
    <3>2. ASSUME Finish(h)
          PROVE  \E r : handle' = [handle EXCEPT ![h] = r] /\ r.pc \notin ErrorPC
      <4>1. Idle.pc \notin ErrorPC
        BY DEF Idle
      <4> QED
        BY <3>2, <4>1 DEF Finish
    <3> QED
      BY <1>2, <3>1, <3>2
         DEF GetattrLocal, GetattrRemote, OpenRemote, ErrnoClear, Found, NotFound
  <2> QED
    BY <1>2, <1>a, <2>1, UntendedGreater, UntouchedTidy
       DEF GetattrLocal, GetattrRemote, OpenRemote
<1>3. ASSUME NEW h \in Handles, NEW f \in Fds, NEW i \in Inodes, OpenFile(PathOf(h), f, i),
             NEW r, handle' = [handle EXCEPT ![h] = r], r.pc \in FhPC, r.path = PathOf(h),
             r.pc \notin ErrorPC, r.fh = f, handle[h].pc \in {"openLocal", "toCreate"}, session' = session
      PROVE  Tidy'
  <2>1. Greater(h, r)
    BY <1>3, UntendedGreater
  <2>2. f \in HeldBy(r)
    BY <1>3 DEF HeldBy
  <2>3. Gains(r)
    BY <1>3, <1>a, <2>2 DEF OpenFile, TypeOK, Gains
  <2>4. session' = "up"
    BY <1>3 DEF Tidy
  <2> QED
    BY <1>3, <1>a, <2>1, <2>3, <2>4, GreaterKeeps
<1>4. ASSUME NEW h \in Handles, OpenLocal(h) PROVE Tidy'
  <2>1. PICK f \in Fds, i \in Inodes :
          /\ OpenFile(PathOf(h), f, i)
          /\ handle' = [handle EXCEPT ![h].pc = "copyIn", ![h].fh = f]
    BY <1>4 DEF OpenLocal
  <2> DEFINE r == [handle[h] EXCEPT !.pc = "copyIn", !.fh = f]
  <2>2. handle' = [handle EXCEPT ![h] = r]
    BY <2>1
  <2>3. r.pc = "copyIn" /\ r.path = PathOf(h) /\ r.fh = f
    BY <1>a DEF TypeOK, HandleType, PathOf
  <2>4. handle[h].pc = "openLocal" /\ session' = session
    BY <1>4 DEF OpenLocal
  <2> HIDE DEF r
  <2> QED
    BY <1>3, <2>1, <2>2, <2>3, <2>4
<1>19. ASSUME NEW h \in Handles, NEW r, handle' = [handle EXCEPT ![h] = r],
              r.pc = handle[h].pc, r.path = handle[h].path, r.fh = handle[h].fh,
              r.rd = handle[h].rd, UNCHANGED <<session, local, fdt>>
       PROVE  Tidy'
  <2>1. Greater(h, r)
    BY <1>19, HeldIsHeldBy DEF Greater, HeldBy, PathOf, Tended, Tidy, NoErrors
  <2> QED
    BY <1>19, <1>a, <2>1, UntouchedTidy
<1>20. ASSUME NEW h \in Handles, ReadIn(h) PROVE Tidy'
  <2> DEFINE b == <<remote[PathOf(h)][handle[h].pos + 1]>>
             r == [handle[h] EXCEPT !.buf = b]
  <2>1. handle' = [handle EXCEPT ![h] = r]
    BY <1>20 DEF ReadIn
  <2> HIDE DEF b
  <2>2. /\ r.pc = handle[h].pc /\ r.path = handle[h].path /\ r.fh = handle[h].fh
        /\ r.rd = handle[h].rd
    BY <1>b DEF HandleType
  <2> HIDE DEF r
  <2> QED
    BY <1>19, <1>20, <2>1, <2>2 DEF ReadIn
<1>5. ASSUME NEW h \in Handles, CopyIn(h) PROVE Tidy'
  <2> DEFINE r == [handle[h] EXCEPT !.pos = handle[h].pos + 1, !.buf = <<>>]
  <2>1. handle' = [handle EXCEPT ![h] = r]
    BY <1>5 DEF CopyIn
  <2>2. /\ r.pc = handle[h].pc /\ r.path = handle[h].path /\ r.fh = handle[h].fh
        /\ r.rd = handle[h].rd
    BY <1>b DEF HandleType
  <2> HIDE DEF r
  <2> QED
    BY <1>5, <1>19, <2>1, <2>2 DEF CopyIn
<1>6. ASSUME NEW h \in Handles, CopiedIn(h) PROVE Tidy'
  <2> DEFINE l == IF "trunc" \in handle[h].flags THEN "toTrunc" ELSE "open"
             r == [Idle EXCEPT !.pc = l, !.path = PathOf(h), !.fh = handle[h].fh]
  <2>1. handle' = [handle EXCEPT ![h] = r]
    BY <1>6 DEF CopiedIn, Opened
  <2>2. r.pc \in {"toTrunc", "open"} /\ r.path = PathOf(h) /\ r.fh = handle[h].fh
    BY DEF Idle
  <2> HIDE DEF r
  <2>3. handle[h].pc = "copyIn"
    BY <1>6 DEF CopiedIn
  <2>4. Greater(h, r)
    BY <2>2, <2>3 DEF Greater, HeldBy, Held, HoldsFh
  <2> QED
    BY <1>6, <1>a, <2>1, <2>4, UntouchedTidy DEF CopiedIn
<1>7. ASSUME NEW h \in Handles, Create(h) PROVE Tidy'
  <2>1. PICK f \in Fds, i \in Inodes :
          /\ OpenFile(PathOf(h), f, i)
          /\ handle' = [handle EXCEPT ![h] =
               [Idle EXCEPT !.pc = "open", !.path = PathOf(h), !.fh = f]]
    BY <1>7 DEF Create, NoRoom, NoFd
  <2> DEFINE r == [Idle EXCEPT !.pc = "open", !.path = PathOf(h), !.fh = f]
  <2>2. handle' = [handle EXCEPT ![h] = r] /\ OpenFile(PathOf(h), f, i)
    BY <2>1
  <2>3. r.pc = "open" /\ r.path = PathOf(h) /\ r.fh = f
    BY DEF Idle
  <2>4. handle[h].pc = "toCreate" /\ session' = session
    BY <1>7 DEF Create
  <2> HIDE DEF r
  <2> QED
    BY <1>3, <2>2, <2>3, <2>4
<1>8. ASSUME NEW h \in Handles, NEW l \in FhPC \ ErrorPC, Goto(h, l), handle[h].pc \in FhPC,
             handle[h].pc \in StreamPC => l \in StreamPC, UNCHANGED <<session, local, fdt>>
      PROVE  Tidy'
  BY <1>8, <1>a, GotoGreater, UntouchedTidy
<1>9. ASSUME NEW h \in Handles,
             Truncate(h) \/ Close(h) \/ TakeRelease(h) \/ ReleaseOpen(h) \/ CopiedOut(h)
      PROVE  Tidy'
  <2>1. TakeRelease(h) => handle[h].pc = "queued"
    BY DEF TakeRelease, TInv, TypeOK, QueueOK
  <2> QED
    BY <1>8, <1>9, <2>1 DEF Truncate, Close, TakeRelease, ReleaseOpen, CopiedOut
<1>10. ASSUME UNCHANGED <<session, local, fdt, handle>> PROVE Tidy'
  BY <1>10 DEF Tidy, NoErrors, AllHeld, AllTended, Tended, Held, HoldsFh, PathOf
<1>11. ASSUME NEW h \in Handles, OpenStream(h) PROVE Tidy'
  <2>1. handle[h].pc = "openStream" /\ handle[h] \in HandleType
    BY <1>11, <1>a DEF OpenStream, TypeOK
  <2>2. CASE Goto(h, "copyOut") /\ UNCHANGED fdt
    BY <1>8, <1>11, <2>1, <2>2 DEF OpenStream
  <2>3. CASE \E f \in Fds : /\ fdt' = [fdt EXCEPT ![f] = local[PathOf(h)]]
                           /\ handle' = [handle EXCEPT ![h].pc = "copyOut", ![h].rd = f]
    <3>1. PICK f \in Fds : /\ fdt' = [fdt EXCEPT ![f] = local[PathOf(h)]]
                           /\ handle' = [handle EXCEPT ![h].pc = "copyOut", ![h].rd = f]
      BY <2>3
    <3> DEFINE r == [handle[h] EXCEPT !.pc = "copyOut", !.rd = f]
    <3>2. handle' = [handle EXCEPT ![h] = r]
      BY <3>1
    <3>3. r.pc = "copyOut" /\ r.path = PathOf(h) /\ r.fh = handle[h].fh /\ r.rd = f
      BY <2>1 DEF HandleType, PathOf
    <3> HIDE DEF r
    <3>4. Greater(h, r) /\ f \in HeldBy(r)
      BY <2>1, <3>3 DEF Greater, HeldBy, Held, HoldsFh
    <3>5. session' = "up" /\ local' = local
      BY <1>11 DEF OpenStream, Tidy
    <3>6. Gains(r)
      BY <1>a, <3>1, <3>4, <3>5 DEF TypeOK, Gains
    <3> QED
      BY <1>a, <3>2, <3>4, <3>5, <3>6, GreaterKeeps
  <2> QED
    BY <1>11, <2>2, <2>3 DEF OpenStream
<1>21. ASSUME NEW h \in Handles, ReadOut(h) PROVE Tidy'
  <2>1. PICK n, s : handle' = [handle EXCEPT ![h].pos = n, ![h].buf = s]
    BY <1>21 DEF ReadOut
  <2> DEFINE r == [handle[h] EXCEPT !.pos = n, !.buf = s]
  <2>2. handle' = [handle EXCEPT ![h] = r]
    BY <2>1
  <2>3. /\ r.pc = handle[h].pc /\ r.path = handle[h].path /\ r.fh = handle[h].fh
        /\ r.rd = handle[h].rd
    BY <1>b DEF HandleType
  <2> HIDE DEF r
  <2> QED
    BY <1>19, <1>21, <2>2, <2>3 DEF ReadOut
<1>12. ASSUME NEW h \in Handles, CopyOut(h) PROVE Tidy'
  <2> DEFINE w == handle[h].wpos + 1
             t == Tail(handle[h].buf)
             r == [handle[h] EXCEPT !.wpos = w, !.buf = t]
  <2>1. handle' = [handle EXCEPT ![h] = r]
    BY <1>12 DEF CopyOut, SftpFault, Raced, Tidy
  <2> HIDE DEF w, t
  <2>2. /\ r.pc = handle[h].pc /\ r.path = handle[h].path /\ r.fh = handle[h].fh
        /\ r.rd = handle[h].rd
    BY <1>b DEF HandleType
  <2> HIDE DEF r
  <2> QED
    BY <1>12, <1>19, <2>1, <2>2 DEF CopyOut
<1>13. ASSUME NEW h \in Handles, NEW F, NEW r, Held(h) \subseteq F \cup HeldBy(r),
              CloseFds(F), handle' = [handle EXCEPT ![h] = r],
              r.pc \in FhPC \cup {"remove"}, r.pc \notin ErrorPC, r.path = PathOf(h),
              UNCHANGED <<session, local>>
       PROVE  Tidy'
  <2>1. \A g \in Handles : handle'[g] = IF g = h THEN r ELSE handle[g]
    BY <1>13, <1>a DEF TypeOK
  <2>3. \A g \in Handles : Held(g)' = HeldBy(handle'[g])
    BY DEF Held, HeldBy, HoldsFh
  <2>4. \A g \in Handles \ {h} : Held(g)' = Held(g)
    BY <2>1, <2>3, HeldIsHeldBy
  <2>5. Held(h) \subseteq F \cup Held(h)'
    BY <1>13, <2>1, <2>3
  <2>6. \A f \in Fds : fdt'[f] = IF f \in F THEN None ELSE fdt[f]
    BY <1>13 DEF CloseFds
  <2>7. AllHeld'
    BY <2>4, <2>5, <2>6, ScpfsAssumption DEF Tidy, AllHeld
  <2>8. \A g \in Handles : Tended(g) => Tended(g)' /\ PathOf(g)' = PathOf(g)
    BY <1>13, <2>1 DEF Tended, PathOf
  <2>9. NoErrors'
    BY <1>13, <2>1 DEF Tidy, NoErrors
  <2> QED
    BY <1>13, <2>7, <2>8, <2>9 DEF Tidy, AllTended
<1>22. ASSUME NEW h \in Handles, CloseStream(h) PROVE Tidy'
  <2> DEFINE r == [handle[h] EXCEPT !.pc = "closeFh", !.rd = None]
  <2>1. r.pc = "closeFh" /\ r.path = PathOf(h) /\ r.fh = handle[h].fh
    BY <1>b DEF HandleType, PathOf
  <2>2. handle' = [handle EXCEPT ![h] = r]
    BY <1>22 DEF CloseStream
  <2> HIDE DEF r
  <2>3. Held(h) \subseteq {handle[h].rd} \cup HeldBy(r)
    BY <2>1 DEF Held, HeldBy, HoldsFh
  <2> QED
    BY <1>13, <1>22, <2>1, <2>2, <2>3 DEF CloseStream
<1>23. ASSUME NEW h \in Handles, CloseFh(h) PROVE Tidy'
  <2> DEFINE r == [Idle EXCEPT !.pc = "remove", !.path = PathOf(h)]
  <2>1. r.pc = "remove" /\ r.path = PathOf(h)
    BY DEF Idle
  <2>2. handle' = [handle EXCEPT ![h] = r]
    BY <1>23 DEF CloseFh
  <2> HIDE DEF r
  <2>3. Held(h) \subseteq {handle[h].fh} \cup HeldBy(r)
    BY <1>23 DEF CloseFh, Held, HoldsFh
  <2> QED
    BY <1>13, <1>23, <2>1, <2>2, <2>3 DEF CloseFh
<1>14. ASSUME NEW h \in Handles, RemoveLocal(h) PROVE Tidy'
  <2>1. \A g \in Handles : handle'[g] = IF g = h THEN Idle ELSE handle[g]
    BY <1>14, <1>a DEF RemoveLocal, Finish, TypeOK
  <2>2. /\ handle[h].pc = "remove" /\ session' = session /\ fdt' = fdt
        /\ \A p \in Paths : local'[p] = IF p = PathOf(h) THEN None ELSE local[p]
    BY <1>14, <1>a DEF RemoveLocal, Unlink, TypeOK
  <2>3. \A g \in Handles : Held(g) \subseteq Held(g)'
    <3>1. Held(h) = {}
      BY <2>2 DEF Held, HoldsFh
    <3>2. \A g \in Handles \ {h} : Held(g)' = Held(g)
      BY <2>1 DEF Held, HoldsFh
    <3> QED
      BY <3>1, <3>2
  <2>4. AllHeld'
    BY <2>2, <2>3 DEF Tidy, AllHeld
  <2>5. AllTended'
    BY <2>1, <2>2 DEF Tidy, AllTended, Tended, PathOf
  <2>6. NoErrors'
    BY <2>1 DEF Tidy, NoErrors, Idle
  <2> QED
    BY <2>2, <2>4, <2>5, <2>6 DEF Tidy
<1>15. ASSUME NEW h \in Handles, NEW k \in Nat, NEW b \in Block, Write(h, k, b) PROVE Tidy'
  BY <1>10, <1>15 DEF Write
<1>16. ASSUME NEW h \in Handles, NEW n \in Nat, Ftruncate(h, n) PROVE Tidy'
  BY <1>10, <1>16 DEF Ftruncate
<1>17. ASSUME NEW p \in Paths, NEW n \in Nat, TruncatePath(p, n) PROVE Tidy'
  BY <1>10, <1>17 DEF TruncatePath
<1>18. CASE UNCHANGED vars
  BY <1>10, <1>18 DEF vars
<1> QED
  BY <1>1, <1>2, <1>4, <1>5, <1>6, <1>7, <1>9, <1>11, <1>12, <1>13, <1>14, <1>15, <1>16,
     <1>17, <1>18, <1>20, <1>21, <1>22, <1>23, NoFailure, ScpfsAssumption DEF Next, Client, Request, Handler

\* Without faults every descriptor and every local name has its handle.
LEMMA TidyHolds == Faults = {} => (Spec => [](Own /\ Tidy))
<1> SUFFICES ASSUME Faults = {} PROVE Spec => [](Own /\ Tidy)
  OBVIOUS
<1>1. ~ErrnoClear
  BY DEF ErrnoClear
<1>2. Init => Tidy
  <2>1. Init => \A h \in Handles : handle[h].pc = "idle"
    BY DEF Init, Idle
  <2> QED
    BY <2>1, ScpfsAssumption DEF Init, Tidy, NoErrors, ErrorPC, AllHeld, AllTended
<1>3. TInv /\ Own /\ Tidy /\ [Next]_vars => (TInv /\ Own /\ Tidy)'
  BY <1>1, TInvNext, OwnNext, TidyNext
<1> QED
  BY <1>2, <1>3, TInvInit, OwnInit, PTL DEF Spec

\* Without faults, and however many threads and openers a file has, a local
\* copy is there only while some handle will still remove it.
THEOREM NoCopyLeft == Faults = {} => (Spec => []NoOrphan)
<1>1. Tidy => NoOrphan
  BY DEF Tidy, AllTended, Tended, NoOrphan, HoldsFh, At
<1> QED
  BY <1>1, TidyHolds, PTL

\* Under the same condition every descriptor the daemon has open on a local file
\* belongs to exactly one handle: none leaks, none is closed under its owner.
THEOREM DescriptorsBelong == Faults = {} => (Spec => []DescriptorsOwned)
<1>1. Own /\ Tidy => DescriptorsOwned
  BY DEF Tidy, AllHeld, Own, NotShared, DescriptorsOwned
<1> QED
  BY <1>1, TidyHolds, PTL
=============================================================================
