------------------------------ MODULE BbfsProofs ------------------------------
(***************************************************************************)
(* Proofs about Bbfs for every set of names, inodes, descriptors, threads, *)
(* open files and directories: the types, who holds which descriptor, and  *)
(* what a listing of a directory contains.                                 *)
(***************************************************************************)
EXTENDS Bbfs, HostFilesProofs

-----------------------------------------------------------------------------
(* The invariant.                                                          *)

Entry == Names \cup {"."}
DirType == [fd : Fds \cup {0}, of : Inodes \cup {0}, by : Threads \cup {NoThread},
            got : SUBSET Entry, listed : SUBSET Entry, due : SUBSET Entry, may : SUBSET Entry,
            fresh : BOOLEAN, cut : BOOLEAN]

Shapes ==
  /\ phase \in {"starting", "resolved", "serving", "exited", "crashed"}
  /\ rootdir \in {"unset", "resolved", "null"} /\ uses \in Habits
  /\ fdt \in [DOMAIN fdt -> Inodes \cup {0}] /\ DOMAIN fdt \subseteq Fds
  /\ fh \in [Handles -> Fds \cup {0}]
  /\ making \in [Threads -> [fd : Fds \cup {0}, name : Names \cup {Blank}]]
  /\ dir \in [Dirs -> DirType]
  /\ errno \in [Threads -> BOOLEAN]
  /\ reply.answer \in Answers \cup {"none"}

\* The inodes in use are those with a name or a descriptor.
Live ==
  /\ Agree(fs, fs, OpenInodes(fdt))
  /\ \A i \in Inodes : i \notin Linked(fs) \cup OpenInodes(fdt) => fs.ino[i] = Unused

\* Every descriptor has one holder, and leads to what that one is about.
Owners == ({"file"} \X Handles) \cup ({"dir"} \X Dirs) \cup ({"making"} \X Threads)
OwnFd(x) == IF x[1] = "file" THEN fh[x[2]]
            ELSE IF x[1] = "dir" THEN dir[x[2]].fd ELSE making[x[2]].fd
Held ==
  /\ \A x \in Owners : OwnFd(x) # 0 =>
       OwnFd(x) \in DOMAIN fdt /\ (fdt[OwnFd(x)] = 0 <=> x[1] = "dir")
  /\ \A x, y \in Owners : OwnFd(x) # 0 /\ OwnFd(x) = OwnFd(y) => x = y
  /\ \A e \in DOMAIN fdt : \E x \in Owners : OwnFd(x) = e
  /\ \A t \in Threads : making[t].fd = 0 => making[t] = NotMaking

\* A listing has what readdir has returned: all of that may be listed, and what
\* is due may be.  Only a directory that is open is being listed.
Listings ==
  \A d \in Dirs :
    /\ dir[d].listed = dir[d].got /\ dir[d].got \subseteq dir[d].may
    /\ dir[d].due \subseteq dir[d].may
    /\ dir[d].by # NoThread => dir[d].fresh
    /\ dir[d].fresh => dir[d].fd # 0

Inv == Shapes /\ Live /\ Held /\ Listings

-----------------------------------------------------------------------------
(* The parts of a step.                                                    *)

\* What a request is answered.
LEMMA AnswerTyped ==
  ASSUME Shapes, NEW t \in Threads, NEW op, NEW on, NEW a \in Answers,
         LogSyscall(t, op, on, a) \/ LogError(t, op, on, a)
  PROVE  errno' \in [Threads -> BOOLEAN] /\ reply'.answer \in Answers
<1>1. errno' \in [Threads -> BOOLEAN]
  <2>1. errno' = [errno EXCEPT ![t] = @ \/ (a \in Errors /\ Uses("listing"))]
    BY DEF LogSyscall, LogError, Fails
  <2> QED
    BY <2>1 DEF Shapes
<1>2. LogErrors \subseteq Answers
  BY BbfsAssumption DEF Answers
<1>3. reply'.answer \in {a} \cup LogErrors
  BY DEF LogSyscall, LogError, Reply
<1> QED
  BY <1>1, <1>2, <1>3

\* More or fewer inodes are open, but no unused ones.
LEMMA AgreeOpen ==
  ASSUME NEW f, NEW g, NEW open, Agree(f, g, open), NEW now,
         now \subseteq open \cup Linked(f) \cup {0}
  PROVE  Agree(f, g, now)
  BY ZeroIsNoInode DEF Agree

\* What is left when the unreachable inodes are gone.
LEMMA BecomesLive ==
  ASSUME NEW new, NEW table, Agree(new, new, OpenInodes(table)), Becomes(new, table)
  PROVE  Live' /\ Present(fs') \subseteq Names
<1>1. fdt' = table /\ fs' = Reaped(new, OpenInodes(table)) /\ OpenInodes(fdt') = OpenInodes(table)
  BY DEF Becomes, OpenInodes
<1>2. new \in FileSystems
  BY DEF Agree
<1>3. fs' \in FileSystems /\ Agree(new, fs', OpenInodes(table))
  BY <1>1, <1>2, ReapedAgrees
<1>4. Linked(fs') = Linked(new)
  BY <1>3, SameNames
<1>5. Agree(fs', fs', OpenInodes(table))
  BY <1>3, <1>4 DEF Agree
<1>6. \A i \in Inodes : i \notin Linked(new) \cup OpenInodes(table) => fs'.ino[i] = Unused
  BY <1>1 DEF Reaped
<1> QED
  BY <1>1, <1>4, <1>5, <1>6 DEF Live, Present

\* The listings when names have come or gone.
LEMMA WatchedListings ==
  ASSUME Shapes, Listings, Present(fs') \subseteq Names, dir' = Watched
  PROVE  /\ dir' \in [Dirs -> DirType] /\ Listings'
         /\ \A d \in Dirs : dir'[d].fd = dir[d].fd /\ dir'[d].fresh = dir[d].fresh
                            /\ dir'[d].by = dir[d].by
<1>1. ASSUME NEW d \in Dirs
      PROVE  /\ dir'[d] \in DirType
             /\ dir'[d].fd = dir[d].fd /\ dir'[d].fresh = dir[d].fresh
             /\ dir'[d].by = dir[d].by
             /\ dir'[d].got = dir[d].got /\ dir'[d].listed = dir[d].listed
             /\ dir[d].may \subseteq dir'[d].may /\ dir'[d].due \subseteq dir'[d].may
  <2>1. dir[d] \in DirType /\ dir[d].due \subseteq dir[d].may
    BY DEF Shapes, Listings
  <2>2. dir'[d] = IF ~dir[d].fresh THEN dir[d]
                  ELSE [dir[d] EXCEPT !.due = @ \cap EntriesOf(fs', dir[d].of),
                                      !.may = @ \cup EntriesOf(fs', dir[d].of)]
    BY DEF Watched
  <2>3. CASE ~dir[d].fresh
    BY <2>1, <2>2, <2>3
  <2>4. CASE dir[d].fresh
    <3> DEFINE now == EntriesOf(fs', dir[d].of)
    <3>1. dir'[d] = [dir[d] EXCEPT !.due = dir[d].due \cap now, !.may = dir[d].may \cup now]
      BY <2>2, <2>4
    <3>2. dir[d].due \cap now \subseteq Entry /\ dir[d].may \cup now \subseteq Entry
      BY <2>1 DEF DirType, EntriesOf, Entry
    <3> HIDE DEF now
    <3>3. dir'[d] \in DirType
      BY <2>1, <3>1, <3>2 DEF DirType
    <3> QED
      BY <2>1, <3>1, <3>3 DEF DirType
  <2> QED
    BY <2>3, <2>4
<1>2. dir' \in [Dirs -> DirType]
  BY <1>1 DEF Watched
<1>3. Listings'
  BY <1>1 DEF Listings
<1> QED
  BY <1>1, <1>2, <1>3

\* Who holds what when no descriptor changes hands.
LEMMA HeldStays ==
  ASSUME Held, UNCHANGED <<fdt, fh, making>>,
         \A d \in Dirs : dir'[d].fd = dir[d].fd
  PROVE  Held'
<1>1. \A x \in Owners : OwnFd(x)' = OwnFd(x)
  BY DEF OwnFd, Owners
<1> QED
  BY <1>1 DEF Held

-----------------------------------------------------------------------------
(* Requests that change no descriptor.                                     *)

\* The results of calls on the file system as it is.
Fit(result) == SameResult(result, result, OpenInodes(fdt))

\* A request on a name.
LEMMA NameCallInv ==
  ASSUME Inv, NEW t \in Threads, NEW op, NEW on, NEW result, Fit(result),
         NameCall(t, op, on, result)
  PROVE  Inv'
<1>1. result.answer \in Answers /\ Agree(result.fs, result.fs, OpenInodes(fdt))
  BY DEF Fit, SameResult
<1>2. Live' /\ Present(fs') \subseteq Names
  BY <1>1, BecomesLive DEF NameCall
<1>3. UNCHANGED <<fdt, fh, making, phase, rootdir, uses>> /\ dir' = Watched
  BY DEF NameCall, Becomes, main
<1>4. /\ dir' \in [Dirs -> DirType] /\ Listings'
      /\ \A d \in Dirs : dir'[d].fd = dir[d].fd
  BY <1>2, <1>3, WatchedListings DEF Inv
<1>5. errno' \in [Threads -> BOOLEAN] /\ reply'.answer \in Answers
  BY <1>1, AnswerTyped DEF Inv, NameCall
<1>6. Shapes'
  BY <1>3, <1>4, <1>5 DEF Inv, Shapes
<1>7. Held'
  BY <1>3, <1>4, HeldStays DEF Inv
<1> QED
  BY <1>2, <1>4, <1>6, <1>7 DEF Inv

\* A request on an open file that stays open.
LEMMA FileCallInv ==
  ASSUME Inv, NEW t \in Threads, NEW h \in Handles, NEW op, NEW result, Fit(result),
         FileCall(t, h, op, result)
  PROVE  Inv'
<1>1. result.answer \in Answers /\ Agree(result.fs, result.fs, OpenInodes(fdt))
  BY DEF Fit, SameResult
<1>2. Live'
  BY <1>1, BecomesLive DEF FileCall
<1>3. UNCHANGED <<fdt, fh, making, phase, rootdir, uses, dir>>
  BY DEF FileCall, Becomes, main
<1>4. errno' \in [Threads -> BOOLEAN] /\ reply'.answer \in Answers
  BY <1>1, AnswerTyped DEF Inv, FileCall
<1>5. Shapes' /\ Listings'
  BY <1>3, <1>4 DEF Inv, Shapes, Listings
<1>6. Held'
  BY <1>3, HeldStays DEF Inv
<1> QED
  BY <1>2, <1>5, <1>6 DEF Inv

\* Only an answer is given.
LEMMA AnswerInv ==
  ASSUME Inv, NEW t \in Threads, NEW op, NEW on, NEW a \in Answers,
         LogSyscall(t, op, on, a) \/ LogError(t, op, on, a),
         UNCHANGED <<fs, fdt, fh, making, dir, main>>
  PROVE  Inv'
<1>1. errno' \in [Threads -> BOOLEAN] /\ reply'.answer \in Answers
  BY AnswerTyped DEF Inv
<1>2. Shapes' /\ Listings'
  BY <1>1 DEF Inv, Shapes, Listings, main
<1>3. Live'
  BY DEF Inv, Live, OpenInodes, Linked, Present, Agree
<1>4. Held'
  BY HeldStays DEF Inv
<1> QED
  BY <1>2, <1>3, <1>4 DEF Inv

\* Every call on a name finds a file system, and leaves one.
LEMMA NameCallsFit ==
  ASSUME Inv, NEW n \in Names, NEW q \in Names
  PROVE  /\ Fit(Lstat(fs, n)) /\ Fit(Readlink(fs, n)) /\ Fit(Access(fs, n))
         /\ Fit(Llistxattr(fs, n)) /\ Fit(Lgetxattr(fs, n))
         /\ Fit(Unlink(fs, n)) /\ Fit(Rmdir(fs, n))
         /\ Fit(Rename(fs, n, q)) /\ Fit(Link(fs, n, q))
         /\ Fit(SetAttr(fs, n)) /\ Fit(Lsetxattr(fs, n)) /\ Fit(Lremovexattr(fs, n))
         /\ Fit(Truncate(fs, n))
<1>1. Agree(fs, fs, OpenInodes(fdt))
  BY DEF Inv, Live
<1>2. /\ Fit(Lstat(fs, n)) /\ Fit(Readlink(fs, n)) /\ Fit(Access(fs, n))
      /\ Fit(Llistxattr(fs, n)) /\ Fit(Lgetxattr(fs, n))
  BY <1>1, SameReport DEF Fit
<1>3. Fit(Unlink(fs, n)) /\ Fit(Rmdir(fs, n)) /\ Fit(Rename(fs, n, q)) /\ Fit(Link(fs, n, q))
  BY <1>1, SameNameCalls DEF Fit
<1>4. Fit(SetAttr(fs, n)) /\ Fit(Lsetxattr(fs, n)) /\ Fit(Lremovexattr(fs, n))
      /\ Fit(Truncate(fs, n))
  BY <1>1, SameAttrCalls DEF Fit
<1> QED
  BY <1>2, <1>3, <1>4

\* So do the calls that make a name,
LEMMA MakeFits ==
  ASSUME Inv, NEW n \in Names, NEW i \in Inodes, NEW kind \in Kinds,
         NEW text \in Contents \cup Names \cup {Blank}
  PROVE  Fit(Make(fs, n, i, kind, text))
<1>1. Agree(fs, fs, OpenInodes(fdt))
  BY DEF Inv, Live
<1> QED
  BY <1>1, SameMake DEF Fit

\* The inode of an open file, and calls on it.
LEMMA OpenedFile ==
  ASSUME Inv, NEW h \in Handles, fh[h] # 0
  PROVE  fh[h] \in DOMAIN fdt /\ File(h) \in Inodes /\ File(h) \in OpenInodes(fdt)
<1> DEFINE x == <<"file", h>>
<1>1. fh[h] \in DOMAIN fdt /\ fdt[fh[h]] # 0
  <2>1. x \in Owners /\ OwnFd(x) = fh[h] /\ x[1] # "dir"
    BY DEF Owners, OwnFd
  <2> QED
    BY <2>1 DEF Inv, Held
<1>2. fdt[fh[h]] \in Inodes
  BY <1>1 DEF Inv, Shapes
<1> QED
  BY <1>1, <1>2 DEF File, OpenInodes

\* and the calls on a descriptor of an open file.
LEMMA FileCallsFit ==
  ASSUME Inv, NEW h \in Handles, fh[h] # 0, NEW text \in Contents
  PROVE  /\ Fit(Pread(fs, File(h))) /\ Fit(Fstat(fs, File(h))) /\ Fit(Fsync(fs, File(h)))
         /\ Fit(Pwrite(fs, File(h), text)) /\ Fit(Result("ok", fs))
<1>1. Agree(fs, fs, OpenInodes(fdt)) /\ text \in Contents \cup {Blank}
  BY DEF Inv, Live
<1>2. File(h) \in Inodes /\ File(h) \in OpenInodes(fdt)
  BY OpenedFile
<1>3. Fit(Result("ok", fs))
  BY <1>1 DEF Fit, SameResult, Result, Answers
<1> QED
  BY <1>1, <1>2, <1>3, SameFileCalls DEF Fit

-----------------------------------------------------------------------------
(* Descriptors that come and go.                                           *)

\* A descriptor is taken: one owner that had none has it now.
LEMMA Takes ==
  ASSUME Inv, NEW e \in Fds, e \in FreeFds, NEW x \in Owners, OwnFd(x) = 0,
         DOMAIN fdt' = DOMAIN fdt \cup {e},
         \A f \in DOMAIN fdt : fdt'[f] = fdt[f],
         fdt'[e] = 0 <=> x[1] = "dir",
         OwnFd(x)' = e, \A y \in Owners : y # x => OwnFd(y)' = OwnFd(y),
         \A t \in Threads : making'[t].fd = 0 => making'[t] = NotMaking
  PROVE  Held'
<1>1. e # 0 /\ e \notin DOMAIN fdt
  BY BbfsAssumption DEF FreeFds
<1>2. \A y \in Owners : OwnFd(y) # e
  BY <1>1 DEF Inv, Held
<1>3. \A y \in Owners : OwnFd(y)' # 0 =>
        OwnFd(y)' \in DOMAIN fdt' /\ (fdt'[OwnFd(y)'] = 0 <=> y[1] = "dir")
  BY DEF Inv, Held
<1>4. \A y, z \in Owners : OwnFd(y)' # 0 /\ OwnFd(y)' = OwnFd(z)' => y = z
  BY <1>1, <1>2 DEF Inv, Held
<1>5. \A f \in DOMAIN fdt' : \E y \in Owners : OwnFd(y)' = f
  <2> SUFFICES ASSUME NEW f \in DOMAIN fdt, f # e PROVE \E y \in Owners : OwnFd(y)' = f
    OBVIOUS
  <2>1. PICK y \in Owners : OwnFd(y) = f
    BY DEF Inv, Held
  <2>2. f # 0
    BY BbfsAssumption DEF Inv, Shapes
  <2> QED
    BY <2>1, <2>2
<1> QED
  BY <1>3, <1>4, <1>5 DEF Held

\* A descriptor is closed by the owner that has it.
LEMMA Gives ==
  ASSUME Inv, NEW x \in Owners, OwnFd(x) # 0,
         DOMAIN fdt' = DOMAIN fdt \ {OwnFd(x)},
         \A f \in DOMAIN fdt \ {OwnFd(x)} : fdt'[f] = fdt[f],
         OwnFd(x)' = 0, \A y \in Owners : y # x => OwnFd(y)' = OwnFd(y),
         \A t \in Threads : making'[t].fd = 0 => making'[t] = NotMaking
  PROVE  Held'
<1>1. \A y \in Owners : y # x => OwnFd(y) # OwnFd(x)
  BY DEF Inv, Held
<1>2. \A y \in Owners : OwnFd(y)' # 0 =>
        OwnFd(y)' \in DOMAIN fdt' /\ (fdt'[OwnFd(y)'] = 0 <=> y[1] = "dir")
  BY <1>1 DEF Inv, Held
<1>3. \A y, z \in Owners : OwnFd(y)' # 0 /\ OwnFd(y)' = OwnFd(z)' => y = z
  BY <1>1 DEF Inv, Held
<1>4. \A f \in DOMAIN fdt' : \E y \in Owners : OwnFd(y)' = f
  <2> SUFFICES ASSUME NEW f \in DOMAIN fdt, f # OwnFd(x) PROVE \E y \in Owners : OwnFd(y)' = f
    OBVIOUS
  <2>1. PICK y \in Owners : OwnFd(y) = f
    BY DEF Inv, Held
  <2> QED
    BY <2>1
<1> QED
  BY <1>2, <1>3, <1>4 DEF Held

\* The file system changes and the descriptor table has one more, or one less.
LEMMA TakesFd ==
  ASSUME Inv, NEW e, e \in FreeFds, NEW i, i \in Inodes \cup {0}, NEW new,
         Agree(new, new, OpenInodes(fdt)), i \in Linked(new) \cup {0},
         Becomes(new, WithFd(e, i))
  PROVE  /\ fdt' \in [DOMAIN fdt' -> Inodes \cup {0}]
         /\ DOMAIN fdt' = DOMAIN fdt \cup {e} /\ DOMAIN fdt' \subseteq Fds
         /\ fdt'[e] = i /\ \A x \in DOMAIN fdt : fdt'[x] = fdt[x]
         /\ Live' /\ Present(fs') \subseteq Names
<1>1. fdt' = WithFd(e, i)
  BY DEF Becomes
<1>2. /\ DOMAIN fdt' = DOMAIN fdt \cup {e} /\ fdt' \in [DOMAIN fdt' -> Inodes \cup {0}]
      /\ fdt'[e] = i /\ \A x \in DOMAIN fdt : fdt'[x] = fdt[x]
      /\ DOMAIN fdt' \subseteq Fds
  BY <1>1 DEF WithFd, FreeFds, Inv, Shapes
<1>3. OpenInodes(fdt') \subseteq OpenInodes(fdt) \cup {i}
  BY <1>2 DEF OpenInodes
<1>4. Agree(new, new, OpenInodes(fdt'))
  BY <1>3, AgreeOpen
<1>5. Agree(new, new, OpenInodes(WithFd(e, i)))
  BY <1>1, <1>4
<1>6. Live' /\ Present(fs') \subseteq Names
  BY <1>5, BecomesLive
<1> QED
  BY <1>2, <1>6

\* The file system stays and a descriptor is closed.
LEMMA LosesFd ==
  ASSUME Inv, NEW e, Becomes(fs, WithoutFd(e))
  PROVE  /\ fdt' \in [DOMAIN fdt' -> Inodes \cup {0}]
         /\ DOMAIN fdt' = DOMAIN fdt \ {e} /\ DOMAIN fdt' \subseteq Fds
         /\ \A x \in DOMAIN fdt \ {e} : fdt'[x] = fdt[x]
         /\ Live' /\ Present(fs') \subseteq Names
<1>1. fdt' = WithoutFd(e)
  BY DEF Becomes
<1>2. /\ DOMAIN fdt' = DOMAIN fdt \ {e} /\ fdt' \in [DOMAIN fdt' -> Inodes \cup {0}]
      /\ \A x \in DOMAIN fdt \ {e} : fdt'[x] = fdt[x]
      /\ DOMAIN fdt' \subseteq Fds
  BY <1>1 DEF WithoutFd, Inv, Shapes
<1>3. OpenInodes(fdt') \subseteq OpenInodes(fdt)
  BY <1>2 DEF OpenInodes
<1>4. Agree(fs, fs, OpenInodes(fdt'))
  <2>1. Agree(fs, fs, OpenInodes(fdt))
    BY DEF Inv, Live
  <2> QED
    BY <1>3, <2>1, AgreeOpen
<1>5. Agree(fs, fs, OpenInodes(WithoutFd(e)))
  BY <1>1, <1>4
<1>6. Live' /\ Present(fs') \subseteq Names
  BY <1>5, BecomesLive
<1> QED
  BY <1>2, <1>6

\* bb_mknod: the file is made and opened.
LEMMA MknodOpensInv ==
  ASSUME Inv, NEW t \in Threads, NEW n \in Names, MakesNew(t, n)
  PROVE  Inv'
<1>1. PICK i \in Inodes : ~Has(fs, n) /\ MknodOpens(t, n, i, Make(fs, n, i, "file", Blank).fs)
  BY DEF MakesNew
<1> DEFINE new == Make(fs, n, i, "file", Blank).fs
<1>2. PICK e \in Fds : /\ e \in FreeFds /\ Becomes(new, WithFd(e, i))
                       /\ making' = [making EXCEPT ![t] = [fd |-> e, name |-> n]]
  BY <1>1 DEF MknodOpens, NewFd
<1>3. dir' = Watched /\ UNCHANGED <<fh, errno, reply, phase, rootdir, uses>>
      /\ making[t] = NotMaking
  BY <1>1 DEF MknodOpens, main, PathRequest, Idle
<1>5. Agree(new, new, OpenInodes(fdt)) /\ i \in Linked(new)
  <2>1. "file" \in Kinds /\ Blank \in Contents \cup Names \cup {Blank}
    BY DEF Kinds
  <2>2. Agree(new, new, OpenInodes(fdt))
    BY <2>1, MakeFits DEF Fit, SameResult
  <2>3. fs.at \in [Names -> Inodes \cup {0}]
    BY FileSystem DEF Inv, Live, Agree
  <2>4. new.at = [fs.at EXCEPT ![n] = i]
    BY <1>1 DEF Make, Unless, Result, Changed, Renamed
  <2>5. new.at[n] = i
    BY <2>3, <2>4
  <2> HIDE DEF new
  <2>6. i \in Linked(new)
    BY <2>5, ZeroIsNoInode DEF Linked, Present
  <2> QED
    BY <2>2, <2>6
<1> HIDE DEF new
<1>6. /\ fdt' \in [DOMAIN fdt' -> Inodes \cup {0}]
      /\ DOMAIN fdt' = DOMAIN fdt \cup {e} /\ DOMAIN fdt' \subseteq Fds
      /\ fdt'[e] = i /\ \A x \in DOMAIN fdt : fdt'[x] = fdt[x]
      /\ Live' /\ Present(fs') \subseteq Names
  <2>1. i \in Inodes \cup {0} /\ i \in Linked(new) \cup {0}
    BY <1>5
  <2>2. e \in FreeFds /\ Becomes(new, WithFd(e, i)) /\ Agree(new, new, OpenInodes(fdt))
    BY <1>2, <1>5
  <2> QED
    BY <2>1, <2>2, TakesFd
<1>7. /\ dir' \in [Dirs -> DirType] /\ Listings'
      /\ \A d \in Dirs : dir'[d].fd = dir[d].fd
  BY <1>3, <1>6, WatchedListings DEF Inv
<1>8. /\ making' \in [Threads -> [fd : Fds \cup {0}, name : Names \cup {Blank}]]
      /\ making'[t].fd = e /\ \A u \in Threads : u # t => making'[u] = making[u]
  BY <1>2 DEF Inv, Shapes
<1>9. Shapes'
  BY <1>3, <1>6, <1>7, <1>8 DEF Inv, Shapes
<1>10. Held'
  <2> DEFINE x == <<"making", t>>
  <2>1. x \in Owners /\ OwnFd(x) = 0 /\ OwnFd(x)' = e /\ x[1] # "dir"
    BY <1>3, <1>8 DEF Owners, OwnFd, NotMaking
  <2>2. \A y \in Owners : y # x => OwnFd(y)' = OwnFd(y)
    BY <1>3, <1>7, <1>8 DEF Owners, OwnFd
  <2>3. \A u \in Threads : making'[u].fd = 0 => making'[u] = NotMaking
    BY <1>2, <1>8, BbfsAssumption DEF Inv, Held
  <2> HIDE DEF x
  <2> QED
    BY <1>2, <1>6, ZeroIsNoInode, <2>1, <2>2, <2>3, Takes
<1> QED
  BY <1>6, <1>7, <1>9, <1>10 DEF Inv
\* bb_mknod: the descriptor is closed.
LEMMA MknodCloseInv ==
  ASSUME Inv, NEW t \in Threads, MknodClose(t)
  PROVE  Inv'
<1> DEFINE x == <<"making", t>>
<1>1. x \in Owners /\ OwnFd(x) = making[t].fd /\ making[t].fd # 0
  BY DEF MknodClose, Inv, Held, Owners, OwnFd
<1>2. /\ dir' = Watched /\ UNCHANGED <<fh, phase, rootdir, uses>>
      /\ making' = [making EXCEPT ![t] = NotMaking] /\ Becomes(fs, WithoutFd(making[t].fd))
  BY DEF MknodClose, main
<1>3. /\ fdt' \in [DOMAIN fdt' -> Inodes \cup {0}]
      /\ DOMAIN fdt' = DOMAIN fdt \ {making[t].fd} /\ DOMAIN fdt' \subseteq Fds
      /\ \A f \in DOMAIN fdt \ {making[t].fd} : fdt'[f] = fdt[f]
      /\ Live' /\ Present(fs') \subseteq Names
  BY <1>2, LosesFd
<1>4. /\ dir' \in [Dirs -> DirType] /\ Listings'
      /\ \A d \in Dirs : dir'[d].fd = dir[d].fd
  BY <1>2, <1>3, WatchedListings DEF Inv
<1>5. errno' \in [Threads -> BOOLEAN] /\ reply'.answer \in Answers
  <2>1. "ok" \in Answers
    BY DEF Answers
  <2> QED
    BY <2>1, AnswerTyped DEF MknodClose, Inv
<1>6. /\ making' \in [Threads -> [fd : Fds \cup {0}, name : Names \cup {Blank}]]
      /\ making'[t] = NotMaking /\ \A u \in Threads : u # t => making'[u] = making[u]
  BY <1>2 DEF Inv, Shapes, NotMaking
<1>7. Shapes'
  BY <1>2, <1>3, <1>4, <1>5, <1>6 DEF Inv, Shapes
<1>8. Held'
  <2>1. OwnFd(x)' = 0 /\ \A y \in Owners : y # x => OwnFd(y)' = OwnFd(y)
    BY <1>2, <1>4, <1>6 DEF Owners, OwnFd, NotMaking
  <2>2. \A u \in Threads : making'[u].fd = 0 => making'[u] = NotMaking
    BY <1>6 DEF Inv, Held
  <2> HIDE DEF x
  <2> QED
    BY <1>1, <1>3, <2>1, <2>2, Gives
<1> QED
  BY <1>3, <1>4, <1>7, <1>8 DEF Inv

\* A file is opened: its inode has a name, since the name that was followed is
\* that of a file.
LEMMA OpenInv ==
  ASSUME Inv, NEW t \in Threads, NEW n, NEW h \in Handles, Open(t, n, h)
  PROVE  Inv'
<1> DEFINE i == fs.at[Followed(fs, n)]
           x == <<"file", h>>
<1>1. PICK e \in FreeFds : /\ Becomes(fs, WithFd(e, i)) /\ dir' = Watched
                           /\ fh' = [fh EXCEPT ![h] = e]
  BY DEF Open, NewFd
<1>2. fh[h] = 0 /\ UNCHANGED <<making, phase, rootdir, uses>>
  BY DEF Open, main
<1>3. Agree(fs, fs, OpenInodes(fdt)) /\ i \in Inodes /\ i \in Linked(fs)
  <2>1. Has(fs, Followed(fs, n))
    BY DEF Open, Kind
  <2>2. Agree(fs, fs, OpenInodes(fdt)) /\ fs \in FileSystems
    BY DEF Inv, Live, Agree
  <2> QED
    BY <2>1, <2>2, HasInode
<1>4. i \in Inodes \cup {0} /\ i \in Linked(fs) \cup {0} /\ i # 0
  BY <1>3, ZeroIsNoInode
<1> HIDE DEF i
<1>5. /\ fdt' \in [DOMAIN fdt' -> Inodes \cup {0}]
      /\ DOMAIN fdt' = DOMAIN fdt \cup {e} /\ DOMAIN fdt' \subseteq Fds
      /\ fdt'[e] = i /\ \A f \in DOMAIN fdt : fdt'[f] = fdt[f]
      /\ Live' /\ Present(fs') \subseteq Names
  BY <1>1, <1>3, <1>4, TakesFd
<1>6. /\ dir' \in [Dirs -> DirType] /\ Listings'
      /\ \A d \in Dirs : dir'[d].fd = dir[d].fd
  BY <1>1, <1>5, WatchedListings DEF Inv
<1>7. errno' \in [Threads -> BOOLEAN] /\ reply'.answer \in Answers
  <2>1. "ok" \in Answers
    BY DEF Answers
  <2> QED
    BY <2>1, AnswerTyped DEF Open, Inv
<1>8. e \in Fds /\ e \in FreeFds
  BY DEF FreeFds
<1>9. /\ fh' \in [Handles -> Fds \cup {0}]
      /\ fh'[h] = e /\ \A g \in Handles : g # h => fh'[g] = fh[g]
  BY <1>1, <1>8 DEF Inv, Shapes
<1>10. Shapes'
  BY <1>2, <1>5, <1>6, <1>7, <1>9 DEF Inv, Shapes
<1>11. Held'
  <2>1. x \in Owners /\ OwnFd(x) = 0 /\ OwnFd(x)' = e /\ x[1] # "dir"
    BY <1>2, <1>9 DEF Owners, OwnFd
  <2>2. \A y \in Owners : y # x => OwnFd(y)' = OwnFd(y)
    BY <1>2, <1>6, <1>9 DEF Owners, OwnFd
  <2>3. \A u \in Threads : making'[u].fd = 0 => making'[u] = NotMaking
    BY <1>2 DEF Inv, Held
  <2> HIDE DEF x
  <2> QED
    BY <1>4, <1>5, <1>8, <2>1, <2>2, <2>3, Takes
<1> QED
  BY <1>5, <1>6, <1>10, <1>11 DEF Inv

\* A file is closed.
LEMMA ReleaseInv ==
  ASSUME Inv, NEW t \in Threads, NEW h \in Handles, Release(t, h)
  PROVE  Inv'
<1> DEFINE x == <<"file", h>>
<1>1. x \in Owners /\ OwnFd(x) = fh[h] /\ fh[h] # 0
  BY DEF Release, Owners, OwnFd
<1>2. /\ UNCHANGED <<making, dir, phase, rootdir, uses>>
      /\ fh' = [fh EXCEPT ![h] = 0] /\ Becomes(fs, WithoutFd(fh[h]))
  BY DEF Release, main
<1>3. /\ fdt' \in [DOMAIN fdt' -> Inodes \cup {0}]
      /\ DOMAIN fdt' = DOMAIN fdt \ {fh[h]} /\ DOMAIN fdt' \subseteq Fds
      /\ \A f \in DOMAIN fdt \ {fh[h]} : fdt'[f] = fdt[f]
      /\ Live'
  BY <1>2, LosesFd
<1>4. errno' \in [Threads -> BOOLEAN] /\ reply'.answer \in Answers
  <2>1. "ok" \in Answers
    BY DEF Answers
  <2> QED
    BY <2>1, AnswerTyped DEF Release, Inv
<1>5. /\ fh' \in [Handles -> Fds \cup {0}]
      /\ fh'[h] = 0 /\ \A g \in Handles : g # h => fh'[g] = fh[g]
  BY <1>2 DEF Inv, Shapes
<1>6. Shapes' /\ Listings'
  BY <1>2, <1>3, <1>4, <1>5 DEF Inv, Shapes, Listings
<1>7. Held'
  <2>1. OwnFd(x)' = 0 /\ \A y \in Owners : y # x => OwnFd(y)' = OwnFd(y)
    BY <1>2, <1>5 DEF Owners, OwnFd
  <2>2. \A u \in Threads : making'[u].fd = 0 => making'[u] = NotMaking
    BY <1>2 DEF Inv, Held
  <2> HIDE DEF x
  <2> QED
    BY <1>1, <1>3, <2>1, <2>2, Gives
<1> QED
  BY <1>3, <1>6, <1>7 DEF Inv

-----------------------------------------------------------------------------
(* Directories.                                                            *)

\* The listing of one directory goes on; no descriptor changes.
LEMMA DirInv ==
  ASSUME Inv, NEW d \in Dirs, NEW v \in DirType, dir' = [dir EXCEPT ![d] = v],
         v.fd = dir[d].fd, v.listed = v.got, v.got \subseteq v.may,
         v.due \subseteq v.may, v.by # NoThread => v.fresh, v.fresh => v.fd # 0,
         UNCHANGED <<fs, fdt, fh, making, phase, rootdir, uses>>,
         errno' \in [Threads -> BOOLEAN], reply'.answer \in Answers \cup {"none"}
  PROVE  Inv'
<1>1. dir \in [Dirs -> DirType]
  BY DEF Inv, Shapes
<1>2. dir' \in [Dirs -> DirType] /\ dir'[d] = v /\ \A c \in Dirs : c # d => dir'[c] = dir[c]
  BY <1>1
<1>3. Shapes'
  BY <1>2 DEF Inv, Shapes
<1>4. Live'
  BY DEF Inv, Live, OpenInodes, Linked, Present, Agree
<1>5. Held'
  BY <1>2, HeldStays DEF Inv
<1>6. Listings'
  BY <1>2 DEF Inv, Listings
<1> QED
  BY <1>3, <1>4, <1>5, <1>6 DEF Inv

\* An entry is taken from the directory.
LEMMA EntryInv ==
  ASSUME Inv, NEW t \in Threads, NEW d \in Dirs,
         Readdir(t, d) \/ ReaddirNext(t, d) \/ ReaddirCut(t, d)
  PROVE  Inv'
<1> DEFINE w == dir[d]
<1>1. w \in DirType /\ w.listed = w.got /\ w.got \subseteq w.may
      /\ w.due \subseteq w.may /\ (w.by # NoThread => w.fresh) /\ (w.fresh => w.fd # 0)
      /\ dir \in [Dirs -> DirType]
  BY DEF Inv, Shapes, Listings
<1>2. /\ UNCHANGED <<fs, fdt, fh, making, phase, rootdir, uses>>
      /\ errno' \in [Threads -> BOOLEAN] /\ reply'.answer \in Answers \cup {"none"}
  BY DEF Readdir, ReaddirNext, ReaddirCut, Fails, main, Inv, Shapes
<1>3. ASSUME Readdir(t, d)
      PROVE  Inv'
  <2>1. PICK e \in Entries(d) :
          dir' = [dir EXCEPT ![d].by = t, ![d].got = {e}, ![d].listed = {e}]
    BY <1>3 DEF Readdir
  <2> DEFINE v == [w EXCEPT !.by = t, !.got = {e}, !.listed = {e}]
  <2>2. e \in w.may /\ e \in Entry
    BY <1>1 DEF Entries, DirType
  <2>3. v \in DirType /\ v.fd = w.fd /\ v.got = {e} /\ v.listed = {e} /\ v.may = w.may
        /\ v.due = w.due /\ v.fresh = w.fresh
    BY <1>1, <2>2 DEF DirType
  <2>4. dir' = [dir EXCEPT ![d] = v]
    BY <1>1, <2>1
  <2>5. w.fresh
    BY <1>3 DEF Readdir, Starts
  <2> HIDE DEF v
  <2> QED
    BY <1>1, <1>2, <2>2, <2>3, <2>4, <2>5, DirInv
<1>4. ASSUME ReaddirNext(t, d)
      PROVE  Inv'
  <2>1. PICK e \in Entries(d) :
          dir' = [dir EXCEPT ![d].got = @ \cup {e}, ![d].listed = @ \cup {e}]
    BY <1>4 DEF ReaddirNext
  <2> DEFINE v == [w EXCEPT !.got = w.got \cup {e}, !.listed = w.listed \cup {e}]
  <2>2. e \in w.may /\ e \in Entry
    BY <1>1 DEF Entries, DirType
  <2>3. v \in DirType /\ v.fd = w.fd /\ v.got = w.got \cup {e} /\ v.listed = w.got \cup {e}
        /\ v.may = w.may /\ v.due = w.due /\ v.fresh = w.fresh /\ v.by = w.by
    BY <1>1, <2>2 DEF DirType
  <2>4. dir' = [dir EXCEPT ![d] = v]
    BY <1>1, <2>1
  <2> HIDE DEF v
  <2> QED
    BY <1>1, <1>2, <2>2, <2>3, <2>4, DirInv
<1>5. ASSUME ReaddirCut(t, d)
      PROVE  Inv'
  <2> DEFINE v == [w EXCEPT !.cut = TRUE]
  <2>1. dir' = [dir EXCEPT ![d] = v]
    BY <1>1, <1>5 DEF ReaddirCut
  <2>2. v \in DirType /\ v.fd = w.fd /\ v.got = w.got /\ v.listed = w.got /\ v.may = w.may
        /\ v.due = w.due /\ v.fresh = w.fresh /\ v.by = w.by
    BY <1>1 DEF DirType
  <2> HIDE DEF v
  <2> QED
    BY <1>1, <1>2, <2>1, <2>2, DirInv
<1> QED
  BY <1>3, <1>4, <1>5

\* The listing ends; the directory counts as read.
LEMMA ReadInv ==
  ASSUME Inv, NEW t \in Threads, NEW d \in Dirs,
         ReaddirFails(t, d) \/ ReaddirEnds(t, d) \/ ReaddirFull(t, d)
  PROVE  Inv'
<1> DEFINE v == WasRead(dir[d].fd)
<1>1. dir' = [dir EXCEPT ![d] = v] /\ UNCHANGED <<fs, fdt, fh, making, phase, rootdir, uses>>
  BY DEF ReaddirFails, ReaddirEnds, ReaddirFull, main
<1>2. PICK a \in {"ok", "ENOMEM", "EIO", "ENOENT"} \cup LogErrors :
        LogError(t, "readdir", <<>>, a)
  BY DEF ReaddirFails, OldErrors, ReaddirEnds, ReaddirFull
<1>3. errno' \in [Threads -> BOOLEAN] /\ reply'.answer \in Answers
  <2>1. a \in Answers
    BY BbfsAssumption DEF Answers, Errors
  <2> QED
    BY <1>2, <2>1, AnswerTyped DEF Inv
<1>4. v \in DirType /\ v.fd = dir[d].fd /\ v.got = {} /\ v.listed = {} /\ v.due = {}
      /\ v.by = NoThread /\ v.fresh = FALSE
  <2>1. dir[d].fd \in Fds \cup {0}
    BY DEF Inv, Shapes, DirType
  <2> QED
    BY <2>1 DEF WasRead, NoDir, DirType
<1> HIDE DEF v
<1> QED
  BY <1>1, <1>3, <1>4, DirInv

\* opendir: what is there is due.
LEMMA OpendirInv ==
  ASSUME Inv, NEW t \in Threads, NEW d \in Dirs, NEW on, NEW i \in Inodes \cup {0},
         OpendirAt(t, d, on, i)
  PROVE  Inv'
<1> DEFINE x == <<"dir", d>>
<1>1. PICK e \in FreeFds :
        /\ Becomes(fs, WithFd(e, 0))
        /\ dir' = [dir EXCEPT ![d] =
                     [NoDir EXCEPT !.fd = e, !.of = i, !.due = EntriesOf(fs, i),
                                   !.may = EntriesOf(fs, i), !.fresh = TRUE]]
  BY DEF OpendirAt, NewFd
<1>2. dir[d].fd = 0 /\ UNCHANGED <<fh, making, phase, rootdir, uses>>
  BY DEF OpendirAt, main
<1>3. Agree(fs, fs, OpenInodes(fdt)) /\ 0 \in Inodes \cup {0} /\ 0 \in Linked(fs) \cup {0}
  BY DEF Inv, Live
<1>4. /\ fdt' \in [DOMAIN fdt' -> Inodes \cup {0}]
      /\ DOMAIN fdt' = DOMAIN fdt \cup {e} /\ DOMAIN fdt' \subseteq Fds
      /\ fdt'[e] = 0 /\ \A f \in DOMAIN fdt : fdt'[f] = fdt[f]
      /\ Live'
  BY <1>1, <1>3, TakesFd
<1>5. errno' \in [Threads -> BOOLEAN] /\ reply'.answer \in Answers
  <2>1. "ok" \in Answers
    BY DEF Answers
  <2> QED
    BY <2>1, AnswerTyped DEF OpendirAt, Inv
<1>6. e \in Fds /\ e \in FreeFds /\ e # 0
  BY BbfsAssumption DEF FreeFds
<1> DEFINE now == EntriesOf(fs, i)
           v == [NoDir EXCEPT !.fd = e, !.of = i, !.due = now, !.may = now, !.fresh = TRUE]
<1>7. v \in DirType /\ v.fd = e /\ v.got = {} /\ v.listed = {} /\ v.due = now
      /\ v.may = now /\ v.by = NoThread
  <2>1. now \subseteq Entry
    BY DEF EntriesOf, Present, Entry
  <2> HIDE DEF now
  <2> QED
    BY <1>6, <2>1 DEF NoDir, DirType
<1>8. dir' = [dir EXCEPT ![d] = v]
  BY <1>1
<1> HIDE DEF v
<1>9. dir' \in [Dirs -> DirType] /\ dir'[d] = v /\ \A c \in Dirs : c # d => dir'[c] = dir[c]
  BY <1>7, <1>8 DEF Inv, Shapes
<1>10. Shapes'
  BY <1>2, <1>4, <1>5, <1>9 DEF Inv, Shapes
<1>11. Listings'
  BY <1>6, <1>7, <1>9 DEF Inv, Listings
<1>12. Held'
  <2>1. x \in Owners /\ OwnFd(x) = 0 /\ OwnFd(x)' = e /\ x[1] = "dir"
    BY <1>2, <1>7, <1>9 DEF Owners, OwnFd
  <2>2. \A y \in Owners : y # x => OwnFd(y)' = OwnFd(y)
    BY <1>2, <1>9 DEF Owners, OwnFd
  <2>3. \A u \in Threads : making'[u].fd = 0 => making'[u] = NotMaking
    BY <1>2 DEF Inv, Held
  <2> HIDE DEF x
  <2> QED
    BY <1>4, <1>6, <2>1, <2>2, <2>3, Takes
<1> QED
  BY <1>4, <1>10, <1>11, <1>12 DEF Inv

\* A directory is closed.
LEMMA ReleasedirInv ==
  ASSUME Inv, NEW t \in Threads, NEW d \in Dirs, Releasedir(t, d)
  PROVE  Inv'
<1> DEFINE x == <<"dir", d>>
<1>1. x \in Owners /\ OwnFd(x) = dir[d].fd /\ dir[d].fd # 0
  BY DEF Releasedir, Owners, OwnFd
<1>2. /\ UNCHANGED <<making, fh, phase, rootdir, uses>>
      /\ dir' = [dir EXCEPT ![d] = NoDir] /\ Becomes(fs, WithoutFd(dir[d].fd))
  BY DEF Releasedir, main
<1>3. /\ fdt' \in [DOMAIN fdt' -> Inodes \cup {0}]
      /\ DOMAIN fdt' = DOMAIN fdt \ {dir[d].fd} /\ DOMAIN fdt' \subseteq Fds
      /\ \A f \in DOMAIN fdt \ {dir[d].fd} : fdt'[f] = fdt[f]
      /\ Live'
  BY <1>2, LosesFd
<1>4. errno' \in [Threads -> BOOLEAN] /\ reply'.answer \in Answers
  <2>1. "ok" \in Answers
    BY DEF Answers
  <2> QED
    BY <2>1, AnswerTyped DEF Releasedir, Inv
<1>5. NoDir \in DirType /\ NoDir.got = {} /\ NoDir.listed = {} /\ NoDir.due = {}
      /\ NoDir.by = NoThread /\ NoDir.fresh = FALSE
  BY DEF NoDir, DirType
<1>6. dir' \in [Dirs -> DirType] /\ dir'[d] = NoDir /\ \A c \in Dirs : c # d => dir'[c] = dir[c]
  BY <1>2, <1>5 DEF Inv, Shapes
<1>7. Shapes'
  BY <1>2, <1>3, <1>4, <1>6 DEF Inv, Shapes
<1>8. Listings'
  BY <1>5, <1>6 DEF Inv, Listings
<1>9. Held'
  <2>1. OwnFd(x)' = 0 /\ \A y \in Owners : y # x => OwnFd(y)' = OwnFd(y)
    BY <1>2, <1>6 DEF Owners, OwnFd, NoDir
  <2>2. \A u \in Threads : making'[u].fd = 0 => making'[u] = NotMaking
    BY <1>2 DEF Inv, Held
  <2> HIDE DEF x
  <2> QED
    BY <1>1, <1>3, <2>1, <2>2, Gives
<1> QED
  BY <1>3, <1>7, <1>8, <1>9 DEF Inv

\* Requests that only answer.
LEMMA FailureInv ==
  ASSUME Inv, NEW t \in Threads
  PROVE  /\ \A n \in Names : AccessOf(t, n) \/ OpenFails(t, n) \/ OpendirFails(t, n) => Inv'
         /\ \A n \in Names, e \in {"EMFILE", "EEXIST"} : MknodFails(t, n, e) => Inv'
         /\ OpendirRootFails(t) => Inv'
         /\ \A d \in Dirs : ReaddirAgain(t, d) \/ Fsyncdir(t, d) => Inv'
<1>1. /\ Errors \subseteq Answers /\ LogErrors \subseteq Answers
      /\ {"EMFILE", "EEXIST", "ENOTDIR", "ok", "ENOMEM", "ENOENT", "EISDIR", "ELOOP", "EIO"}
         \subseteq Answers
  BY BbfsAssumption DEF Answers, Errors
<1>2. ASSUME NEW n \in Names, AccessOf(t, n) PROVE Inv'
  <2>1. Access(fs, n).answer \in Answers
    BY <1>1, MissingAnswer DEF Access, Result
  <2> QED
    BY <1>2, <2>1, AnswerInv DEF AccessOf
<1>3. ASSUME NEW n \in Names, OpenFails(t, n) PROVE Inv'
  <2> DEFINE a == IF FreeFds = {} THEN "EMFILE" ELSE Openable(fs, n)
  <2>1. a \in Answers
    BY <1>1, MissingAnswer DEF Openable
  <2>2. LogSyscall(t, "open", <<n>>, a) /\ UNCHANGED <<fs, fdt, fh, making, dir, main>>
    BY <1>3 DEF OpenFails
  <2> QED
    BY <2>1, <2>2, AnswerInv
<1>4. ASSUME NEW on, NEW e \in Answers, CannotList(t, on, e) PROVE Inv'
  <2> DEFINE a == IF FreeFds = {} THEN "EMFILE" ELSE e
  <2>1. a \in Answers
    BY <1>1
  <2>2. LogSyscall(t, "opendir", on, a) /\ UNCHANGED <<fs, fdt, fh, making, dir, main>>
    BY <1>4 DEF CannotList
  <2> QED
    BY <2>1, <2>2, AnswerInv
<1>8. ASSUME NEW n \in Names, OpendirFails(t, n) PROVE Inv'
  <2>1. Listable(fs, n) \in Answers
    BY <1>1, MissingAnswer DEF Listable
  <2> QED
    BY <1>4, <1>8, <2>1 DEF OpendirFails
<1>9. ASSUME OpendirRootFails(t) PROVE Inv'
  BY <1>1, <1>4, <1>9 DEF OpendirRootFails
<1>5. ASSUME NEW n \in Names, NEW e \in {"EMFILE", "EEXIST"}, MknodFails(t, n, e) PROVE Inv'
  <2>1. e \in Answers
    BY <1>1
  <2> QED
    BY <1>5, <2>1, AnswerInv DEF MknodFails
<1>6. ASSUME NEW d \in Dirs, ReaddirAgain(t, d) PROVE Inv'
  <2>1. PICK e \in {"ok", "ENOMEM", "EIO", "ENOENT"} \cup LogErrors :
          LogError(t, "readdir", <<>>, e)
    BY <1>6 DEF ReaddirAgain, OldErrors
  <2>2. e \in Answers
    BY <1>1
  <2> QED
    BY <1>6, <2>1, <2>2, AnswerInv DEF ReaddirAgain
<1>7. ASSUME NEW d \in Dirs, Fsyncdir(t, d) PROVE Inv'
  BY <1>1, <1>7, AnswerInv DEF Fsyncdir
<1> QED
  BY <1>2, <1>3, <1>5, <1>6, <1>7, <1>8, <1>9

-----------------------------------------------------------------------------
(* The invariant holds.                                                    *)

\* main() holds no descriptor that others use.
LEMMA MainInv ==
  ASSUME Inv, Start \/ LogOpen \/ Crash \/ Unmount
  PROVE  Inv'
<1>1. UNCHANGED <<fs, fdt, fh, making, dir, errno, reply, uses>>
  BY DEF Start, LogOpen, Crash, Unmount
<1>2. /\ phase' \in {"starting", "resolved", "serving", "exited", "crashed"}
      /\ rootdir' \in {"unset", "resolved", "null"}
  BY DEF Start, LogOpen, Crash, Unmount, Inv, Shapes
<1>3. Shapes' /\ Listings'
  BY <1>1, <1>2 DEF Inv, Shapes, Listings
<1>4. Live'
  BY <1>1 DEF Inv, Live, OpenInodes, Linked, Present, Agree
<1>5. Held'
  BY <1>1, HeldStays DEF Inv
<1> QED
  BY <1>3, <1>4, <1>5 DEF Inv

\* All requests on names,
LEMMA OnNameInv ==
  ASSUME Inv, NEW t \in Threads, NEW n \in Names, OnName(t, n)
  PROVE  Inv'
<1>1. CASE \/ Getattr(t, n) \/ ReadlinkOf(t, n) \/ Statfs(t, n)
           \/ UnlinkOf(t, n) \/ RmdirOf(t, n) \/ TruncateOf(t, n) \/ Setattr(t, n) \/ Utime(t, n)
           \/ Setxattr(t, n) \/ Getxattr(t, n) \/ Listxattr(t, n) \/ Removexattr(t, n)
  <2>1. PICK op, result : Fit(result) /\ NameCall(t, op, <<n>>, result)
    BY <1>1, NameCallsFit
       DEF Getattr, ReadlinkOf, Statfs, UnlinkOf, RmdirOf, TruncateOf, Setattr, Utime,
           Setxattr, Getxattr, Listxattr, Removexattr
  <2> QED
    BY <2>1, NameCallInv
<1>2. CASE MknodFifo(t, n) \/ Mkdir(t, n)
  <2>1. PICK op \in {"mkfifo", "mkdir"}, kind \in Kinds : MakeCall(t, op, <<n>>, n, kind, Blank)
    BY <1>2 DEF MknodFifo, Mkdir, Kinds
  <2>2. PICK i \in Inodes : NameCall(t, op, <<n>>, Make(fs, n, i, kind, Blank))
    BY <2>1 DEF MakeCall
  <2>3. Fit(Make(fs, n, i, kind, Blank))
    BY MakeFits
  <2> QED
    BY <2>2, <2>3, NameCallInv
<1>3. ASSUME NEW q \in Names, RenameOf(t, n, q) \/ LinkOf(t, n, q) PROVE Inv'
  <2>1. PICK op, result : Fit(result) /\ NameCall(t, op, <<n, q>>, result)
    BY <1>3, NameCallsFit DEF RenameOf, LinkOf
  <2> QED
    BY <2>1, NameCallInv
<1>4. ASSUME NEW q \in Names, Symlink(t, n, q) PROVE Inv'
  <2>1. PICK i \in Inodes : NameCall(t, "symlink", <<n, q>>, Make(fs, q, i, "link", n))
    BY <1>4 DEF Symlink, MakeCall
  <2>2. "link" \in Kinds /\ n \in Contents \cup Names \cup {Blank}
    BY DEF Kinds
  <2>3. Fit(Make(fs, q, i, "link", n))
    BY <2>2, MakeFits
  <2> QED
    BY <2>1, <2>3, NameCallInv
<1>5. CASE Mknod(t, n)
  BY <1>5, MknodOpensInv DEF Mknod
<1>6. ASSUME NEW h \in Handles, Open(t, n, h) PROVE Inv'
  BY <1>6, OpenInv
<1>7. CASE AccessOf(t, n) \/ OpenFails(t, n) \/ OpendirFails(t, n)
  BY <1>7, FailureInv
<1>8. ASSUME NEW e \in {"EMFILE", "EEXIST"}, MknodFails(t, n, e) PROVE Inv'
  BY <1>8, FailureInv
<1>9. ASSUME NEW d \in Dirs, Opendir(t, n, d) PROVE Inv'
  <2> DEFINE i == fs.at[Followed(fs, n)]
  <2>1. i \in Inodes
    <3>1. Has(fs, Followed(fs, n))
      BY <1>9 DEF Opendir, Listable, Unreached, Missing, Kind
    <3>2. fs \in FileSystems
      BY DEF Inv, Live, Agree
    <3> QED
      BY <3>1, <3>2, HasInode
  <2>2. OpendirAt(t, d, <<n>>, i)
    BY <1>9 DEF Opendir
  <2> HIDE DEF i
  <2> QED
    BY <2>1, <2>2, OpendirInv
<1> QED
  BY <1>1, <1>2, <1>3, <1>4, <1>5, <1>6, <1>7, <1>8, <1>9 DEF OnName

\* on open files,
LEMMA OnFileInv ==
  ASSUME Inv, NEW t \in Threads, NEW h \in Handles, OnFile(t, h)
  PROVE  Inv'
<1>1. Blank \in Contents
  BY HostAssumption
<1>2. CASE \/ Read(t, h) \/ Flush(t, h) \/ FsyncOf(t, h) \/ Ftruncate(t, h) \/ Fgetattr(t, h)
  <2>1. fh[h] # 0
    BY <1>2 DEF Read, Flush, FsyncOf, Ftruncate, Fgetattr, FileCall
  <2>2. PICK op, result : Fit(result) /\ FileCall(t, h, op, result)
    BY <1>1, <1>2, <2>1, FileCallsFit DEF Read, Flush, FsyncOf, Ftruncate, Fgetattr
  <2> QED
    BY <2>2, FileCallInv
<1>3. ASSUME NEW text \in Contents, Write(t, h, text) PROVE Inv'
  <2>1. fh[h] # 0 /\ FileCall(t, h, "write", Pwrite(fs, File(h), text))
    BY <1>3 DEF Write, FileCall
  <2>2. Fit(Pwrite(fs, File(h), text))
    BY <2>1, FileCallsFit
  <2> QED
    BY <2>1, <2>2, FileCallInv
<1>4. CASE Release(t, h)
  BY <1>4, ReleaseInv
<1> QED
  BY <1>2, <1>3, <1>4 DEF OnFile

\* and on open directories.
LEMMA OnDirectoryInv ==
  ASSUME Inv, NEW t \in Threads, NEW d \in Dirs, OnDirectory(t, d)
  PROVE  Inv'
<1>1. CASE OpendirRoot(t, d)
  BY <1>1, OpendirInv DEF OpendirRoot
<1>2. CASE Readdir(t, d) \/ ReaddirNext(t, d) \/ ReaddirCut(t, d)
  BY <1>2, EntryInv
<1>3. CASE ReaddirFails(t, d) \/ ReaddirEnds(t, d) \/ ReaddirFull(t, d)
  BY <1>3, ReadInv
<1>4. CASE ReaddirAgain(t, d) \/ Fsyncdir(t, d)
  BY <1>4, FailureInv
<1>5. CASE Releasedir(t, d)
  BY <1>5, ReleasedirInv
<1> QED
  BY <1>1, <1>2, <1>3, <1>4, <1>5 DEF OnDirectory

\* At first no name and no descriptor is there.
LEMMA InvInit == Init => Inv
<1> SUFFICES ASSUME Init PROVE Inv
  OBVIOUS
<1>1. fs \in FileSystems /\ Linked(fs) = {} /\ OpenInodes(fdt) = {}
  BY DEF Init, FileSystems, Linked, Present, OpenInodes, Unused, Inode
<1>2. Live
  BY <1>1 DEF Init, Live, Agree
<1>3. NoDir \in DirType /\ NotMaking \in [fd : Fds \cup {0}, name : Names \cup {Blank}]
  BY DEF NoDir, DirType, NotMaking
<1>4. Shapes
  BY <1>3 DEF Init, Shapes, NoReply, Reply
<1>5. \A x \in Owners : OwnFd(x) = 0
  BY DEF Init, Owners, OwnFd, NoDir, NotMaking
<1>6. Held
  BY <1>5 DEF Init, Held
<1>7. Listings
  BY DEF Init, Listings, NoDir
<1> QED
  BY <1>2, <1>4, <1>6, <1>7 DEF Inv

\* Every step keeps the invariant.
LEMMA InvStays == Inv /\ [Next]_vars => Inv'
<1> SUFFICES ASSUME Inv, [Next]_vars PROVE Inv'
  OBVIOUS
<1>1. CASE Start \/ LogOpen \/ Crash \/ Unmount
  BY <1>1, MainInv
<1>2. ASSUME NEW t \in Threads, MknodClose(t) \/ OpendirRootFails(t) PROVE Inv'
  BY <1>2, MknodCloseInv, FailureInv
<1>3. ASSUME NEW t \in Threads, NEW n \in Names, OnName(t, n) PROVE Inv'
  BY <1>3, OnNameInv
<1>4. ASSUME NEW t \in Threads, NEW h \in Handles, OnFile(t, h) PROVE Inv'
  BY <1>4, OnFileInv
<1>5. ASSUME NEW t \in Threads, NEW d \in Dirs, OnDirectory(t, d) PROVE Inv'
  BY <1>5, OnDirectoryInv
<1>6. CASE UNCHANGED vars
  <2>1. UNCHANGED <<phase, rootdir, fs, fdt, fh, making, dir, errno, reply, uses>>
    BY <1>6 DEF vars
  <2>2. Live'
    BY <2>1 DEF Inv, Live, OpenInodes, Linked, Present, Agree
  <2>3. Held'
    BY <2>1, HeldStays DEF Inv
  <2>4. Shapes' /\ Listings'
    BY <2>1 DEF Inv, Shapes, Listings
  <2> QED
    BY <2>2, <2>3, <2>4 DEF Inv
<1> QED
  BY <1>1, <1>2, <1>3, <1>4, <1>5, <1>6 DEF Next

\* The invariant holds in every reachable state.
LEMMA Invariance == Spec => []Inv
  BY InvInit, InvStays, PTL DEF Spec

-----------------------------------------------------------------------------
(* What follows from it.                                                   *)

\* The types, who uses which inode included: an inode is unused exactly if it
\* has no name and no descriptor.
THEOREM BbfsTyped == Spec => []TypeOK
<1>1. Inv => TypeOK
  <2> SUFFICES ASSUME Inv PROVE TypeOK
    OBVIOUS
  <2>1. /\ phase \in {"starting", "resolved", "serving", "exited", "crashed"}
        /\ rootdir \in {"unset", "resolved", "null"} /\ uses \in Habits
        /\ DOMAIN fdt \subseteq Fds /\ (\A d \in DOMAIN fdt : fdt[d] \in Inodes \cup {0})
        /\ fh \in [Handles -> Fds \cup {0}]
        /\ making \in [Threads -> [fd : Fds \cup {0}, name : Names \cup {Blank}]]
        /\ errno \in [Threads -> BOOLEAN]
        /\ reply.answer \in Errors \cup Kinds \cup Contents \cup Names \cup {"ok", "none"}
    BY DEF Inv, Shapes, Answers
  <2>2. fs \in FileSystems
    BY DEF Inv, Live, Agree
  <2>3. ASSUME NEW i \in Inodes
        PROVE  fs.ino[i] = Unused <=> i \notin Linked(fs) \cup OpenInodes(fdt)
    <3>1. Unused.kind \notin Kinds
      BY DEF Unused, Inode, Kinds
    <3> QED
      BY <3>1 DEF Inv, Live, Agree
  <2>4. ASSUME NEW d \in Dirs
        PROVE  /\ dir[d].fd \in Fds \cup {0} /\ dir[d].by \in Threads \cup {NoThread}
               /\ dir[d].listed \subseteq dir[d].got /\ dir[d].due \subseteq dir[d].may
               /\ dir[d].may \subseteq Names \cup {"."} /\ dir[d].of \in Inodes \cup {0}
    <3>1. dir[d] \in DirType
      BY DEF Inv, Shapes
    <3> QED
      BY <3>1 DEF DirType, Entry, Inv, Listings
  <2> QED
    BY <2>1, <2>2, <2>3, <2>4 DEF TypeOK
<1> QED
  BY <1>1, Invariance, PTL

\* No descriptor is leaked, shared or closed twice: each belongs to one open
\* file, open directory or file being made, and is open on the right thing.
THEOREM BbfsDescriptors == Spec => []DescriptorsOwned
<1>1. Inv => DescriptorsOwned
  <2> SUFFICES ASSUME Inv PROVE DescriptorsOwned
    OBVIOUS
  <2> DEFINE owner(x) == IF "file" \in DOMAIN x THEN <<"file", x.file>>
                         ELSE IF "dir" \in DOMAIN x THEN <<"dir", x.dir>>
                         ELSE <<"making", x.making>>
  <2>1. ASSUME NEW x \in Holders
        PROVE  /\ owner(x) \in Owners /\ OwnFd(owner(x)) = FdOf(x) /\ FdOf(x) # 0
               /\ "dir" \in DOMAIN x <=> owner(x)[1] = "dir"
    <3>1. CASE x \in [file : {h \in Handles : fh[h] # 0}]
      BY <3>1 DEF Owners, OwnFd, FdOf
    <3>2. CASE x \in [dir : {d \in Dirs : dir[d].fd # 0}]
      BY <3>2 DEF Owners, OwnFd, FdOf
    <3>3. CASE x \in [making : {t \in Threads : making[t] # NotMaking}]
      BY <3>3 DEF Owners, OwnFd, FdOf, Inv, Held
    <3> QED
      BY <3>1, <3>2, <3>3 DEF Holders
  <2>2. ASSUME NEW x \in Holders, NEW y \in Holders, owner(x) = owner(y)
        PROVE  x = y
    BY <2>2 DEF Holders
  <2>3. ASSUME NEW y \in Owners, OwnFd(y) # 0
        PROVE  \E x \in Holders : FdOf(x) = OwnFd(y)
    <3>1. CASE y[1] = "file"
      <4> DEFINE x == [file |-> y[2]]
      <4>1. x \in Holders /\ FdOf(x) = OwnFd(y)
        BY <2>3, <3>1 DEF Owners, OwnFd, FdOf, Holders
      <4> QED
        BY <4>1
    <3>2. CASE y[1] = "dir"
      <4> DEFINE x == [dir |-> y[2]]
      <4>1. x \in Holders /\ FdOf(x) = OwnFd(y)
        BY <2>3, <3>2 DEF Owners, OwnFd, FdOf, Holders
      <4> QED
        BY <4>1
    <3>3. CASE y[1] = "making"
      <4> DEFINE x == [making |-> y[2]]
      <4>1. x \in Holders /\ FdOf(x) = OwnFd(y)
        BY <2>3, <3>3 DEF Owners, OwnFd, FdOf, Holders, NotMaking
      <4> QED
        BY <4>1
    <3> QED
      BY <3>1, <3>2, <3>3 DEF Owners
  <2> HIDE DEF owner
  <2>4. 0 \notin DOMAIN fdt
    BY BbfsAssumption DEF Inv, Shapes
  <2>5. {FdOf(x) : x \in Holders} = DOMAIN fdt
    <3>1. ASSUME NEW x \in Holders PROVE FdOf(x) \in DOMAIN fdt
      BY <2>1 DEF Inv, Held
    <3>2. ASSUME NEW e \in DOMAIN fdt PROVE \E x \in Holders : FdOf(x) = e
      BY <2>3, <2>4 DEF Inv, Held
    <3> QED
      BY <3>1, <3>2
  <2>6. ASSUME NEW x \in Holders, NEW y \in Holders, FdOf(x) = FdOf(y)
        PROVE  x = y
    BY <2>1, <2>2, <2>6 DEF Inv, Held
  <2>7. ASSUME NEW x \in Holders
        PROVE  fdt[FdOf(x)] = 0 <=> "dir" \in DOMAIN x
    BY <2>1 DEF Inv, Held
  <2> QED
    BY <2>5, <2>6, <2>7 DEF DescriptorsOwned
<1> QED
  BY <1>1, Invariance, PTL

\* In every step that ends the first listing of a directory with success, what
\* was due has been listed, unless readdir(3) failed on the way, and nothing else
\* than what may be.
THEOREM BbfsListings == Spec => ListingComplete
<1> DEFINE Complete(d) == /\ dir[d].cut \/ dir[d].due \subseteq dir[d].listed
                          /\ dir[d].listed \subseteq dir[d].may
<1>1. Inv /\ [Next]_vars => [\A d \in Dirs : Listed(d) => Complete(d)]_vars
  <2> SUFFICES ASSUME Inv, Next, NEW d \in Dirs, Listed(d)
               PROVE  Complete(d)
    OBVIOUS
  <2>0. dir[d].fresh /\ ~dir'[d].fresh /\ dir'[d].fd # 0 /\ reply'.answer = "ok"
    BY DEF Listed
  <2>1. dir \in [Dirs -> DirType]
    BY DEF Inv, Shapes
  <2>2. ASSUME NEW t \in Threads, ReaddirEnds(t, d) \/ ReaddirFails(t, d) PROVE Complete(d)
    <3>1. dir[d].cut \/ dir[d].due \subseteq dir[d].got
      <4>1. CASE ReaddirEnds(t, d)
        BY <4>1 DEF ReaddirEnds, AtEnd
      <4>2. CASE ReaddirFails(t, d)
        <5>1. PICK e \in {"EIO"} \cup LogErrors
                        \cup IF AtEnd(d) THEN {"ok"} \cup OldErrors(t) ELSE {} :
                reply'.answer = e
          BY <4>2 DEF ReaddirFails, LogError, Reply
        <5>2. "ok" \notin LogErrors
          BY BbfsAssumption DEF Errors
        <5>3. AtEnd(d)
          BY <2>0, <5>1, <5>2
        <5> QED
          BY <5>3 DEF AtEnd
      <4> QED
        BY <2>2, <4>1, <4>2
    <3> QED
      BY <3>1 DEF Inv, Listings
  <2>3. dir' = Watched => FALSE
    <3>1. dir' = Watched => dir'[d].fresh = dir[d].fresh
      BY <2>1 DEF Watched, DirType
    <3> QED
      BY <2>0, <3>1
  <2>4. dir' = dir => FALSE
    BY <2>0
  <2>5. ASSUME NEW c \in Dirs, c # d, NEW v, dir' = [dir EXCEPT ![c] = v] PROVE FALSE
    BY <2>0, <2>1, <2>5
  <2>6. ASSUME Start \/ LogOpen \/ Crash \/ Unmount PROVE FALSE
    BY <2>4, <2>6 DEF Start, LogOpen, Crash, Unmount
  <2>7. ASSUME NEW t \in Threads, MknodClose(t) \/ OpendirRootFails(t) PROVE FALSE
    BY <2>3, <2>4, <2>7 DEF MknodClose, OpendirRootFails, CannotList
  <2>11. ASSUME NEW t, NEW c \in Dirs, NEW on, NEW i, OpendirAt(t, c, on, i) PROVE FALSE
    <3>1. dir'[d].fresh = TRUE \/ dir'[d] = dir[d]
      BY <2>1, <2>11 DEF OpendirAt, NoDir
    <3> QED
      BY <2>0, <3>1
  <2>8. ASSUME NEW t \in Threads, NEW n \in Names, OnName(t, n) PROVE FALSE
    <3>1. dir' = Watched \/ dir' = dir \/ \E c \in Dirs : Opendir(t, n, c)
      BY <2>8 DEF OnName, Getattr, ReadlinkOf, Statfs, UnlinkOf, RmdirOf, TruncateOf, Setattr,
         Utime, Setxattr, Getxattr, Listxattr, Removexattr, NameCall, AccessOf, Mknod, MakesNew,
         MknodOpens, MknodFifo, Mkdir, MakeCall, MknodFails, RenameOf, LinkOf, Symlink,
         OpenFails, OpendirFails, CannotList, Open
    <3> QED
      BY <2>3, <2>4, <2>11, <3>1 DEF Opendir
  <2>9. ASSUME NEW t \in Threads, NEW h \in Handles, OnFile(t, h) PROVE FALSE
    BY <2>4, <2>9 DEF OnFile, Read, Flush, FsyncOf, Ftruncate, Fgetattr, Release, Write, FileCall
  <2>10. ASSUME NEW t \in Threads, NEW c \in Dirs, OnDirectory(t, c),
                ~ReaddirEnds(t, d), ~ReaddirFails(t, d)
         PROVE FALSE
    <3>1. ASSUME Readdir(t, c) \/ ReaddirNext(t, c) \/ ReaddirCut(t, c) PROVE FALSE
      <4>1. PICK v : dir' = [dir EXCEPT ![c] = v] /\ v.fresh = dir[c].fresh
        <5>1. dir[c] \in DirType
          BY <2>1
        <5>2. ASSUME Readdir(t, c)
              PROVE  \E v : dir' = [dir EXCEPT ![c] = v] /\ v.fresh = dir[c].fresh
          <6>1. PICK e : dir' = [dir EXCEPT ![c].by = t, ![c].got = {e}, ![c].listed = {e}]
            BY <5>2 DEF Readdir
          <6> DEFINE v == [dir[c] EXCEPT !.by = t, !.got = {e}, !.listed = {e}]
          <6>2. dir' = [dir EXCEPT ![c] = v] /\ v.fresh = dir[c].fresh
            BY <2>1, <5>1, <6>1 DEF DirType
          <6> QED
            BY <6>2
        <5>3. ASSUME ReaddirNext(t, c)
              PROVE  \E v : dir' = [dir EXCEPT ![c] = v] /\ v.fresh = dir[c].fresh
          <6>1. PICK e : dir' = [dir EXCEPT ![c].got = @ \cup {e}, ![c].listed = @ \cup {e}]
            BY <5>3 DEF ReaddirNext
          <6> DEFINE v == [dir[c] EXCEPT !.got = dir[c].got \cup {e},
                                         !.listed = dir[c].listed \cup {e}]
          <6>2. dir' = [dir EXCEPT ![c] = v] /\ v.fresh = dir[c].fresh
            BY <2>1, <5>1, <6>1 DEF DirType
          <6> QED
            BY <6>2
        <5>4. ASSUME ReaddirCut(t, c)
              PROVE  \E v : dir' = [dir EXCEPT ![c] = v] /\ v.fresh = dir[c].fresh
          <6> DEFINE v == [dir[c] EXCEPT !.cut = TRUE]
          <6>1. dir' = [dir EXCEPT ![c] = v] /\ v.fresh = dir[c].fresh
            BY <2>1, <5>1, <5>4 DEF ReaddirCut, DirType
          <6> QED
            BY <6>1
        <5> QED
          BY <3>1, <5>2, <5>3, <5>4
      <4>2. dir'[d].fresh = dir[d].fresh
        BY <2>1, <4>1
      <4> QED
        BY <2>0, <4>2
    <3>2. ASSUME OpendirRoot(t, c) PROVE FALSE
      BY <2>11, <3>2 DEF OpendirRoot
    <3>3. ASSUME ReaddirEnds(t, c) \/ ReaddirFails(t, c) PROVE FALSE
      <4>1. c # d
        BY <2>10, <3>3
      <4> QED
        BY <2>5, <3>3, <4>1 DEF ReaddirEnds, ReaddirFails
    <3>4. ASSUME ReaddirFull(t, c) PROVE FALSE
      <4>1. reply'.answer = "ENOMEM"
        BY <3>4 DEF ReaddirFull, LogError, Reply
      <4> QED
        BY <2>0, <4>1
    <3>5. ASSUME Releasedir(t, c) PROVE FALSE
      <4>1. dir'[d] = NoDir \/ dir'[d] = dir[d]
        BY <2>1, <3>5 DEF Releasedir
      <4> QED
        BY <2>0, <4>1 DEF NoDir
    <3>6. ASSUME ReaddirAgain(t, c) \/ Fsyncdir(t, c) PROVE FALSE
      BY <2>4, <3>6 DEF ReaddirAgain, Fsyncdir
    <3> QED
      BY <2>10, <3>1, <3>2, <3>3, <3>4, <3>5, <3>6 DEF OnDirectory
  <2> QED
    BY <2>2, <2>6, <2>7, <2>8, <2>9, <2>10 DEF Next
<1>2. Spec => [][\A d \in Dirs : Listed(d) => Complete(d)]_vars
  BY <1>1, Invariance, PTL DEF Spec
<1> QED
  BY <1>2 DEF ListingComplete

=============================================================================
