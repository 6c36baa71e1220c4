---------------------------- MODULE BbfsRefinement ----------------------------
(***************************************************************************)
(* Bbfs implements PassThrough for every set of names, inodes, threads,    *)
(* open files, directories and descriptors: each step of bbfs is a request *)
(* of PassThrough on the file system that can be reached by a name or an   *)
(* open file, or changes nothing of it.                                    *)
(***************************************************************************)
EXTENDS BbfsProofs

-----------------------------------------------------------------------------
(* The calls of PassThrough are those of HostFiles.                        *)

\* Reading names.
LEMMA SameReading ==
  ASSUME NEW f, NEW n
  PROVE  /\ Abstract!Blank = Blank /\ Abstract!Unused = Unused
         /\ Abstract!Has(f, n) <=> Has(f, n)
         /\ Abstract!Kind(f, n) = Kind(f, n)
         /\ Abstract!Missing(f, n) = Missing(f, n)
         /\ Abstract!Followed(f, n) = Followed(f, n)
         /\ Abstract!Unreached(f, n) = Unreached(f, n)
         /\ Abstract!Openable(f, n) = Openable(f, n)
         /\ Abstract!Listable(f, n) = Listable(f, n)
<1>1. Abstract!Blank = Blank /\ Abstract!Unused = Unused
  BY DEF Abstract!Blank, Blank, Abstract!Unused, Unused, Abstract!Inode, Inode
<1>2. \A m : (Abstract!Has(f, m) <=> Has(f, m)) /\ Abstract!Kind(f, m) = Kind(f, m)
  BY DEF Abstract!Has, Abstract!Present, Abstract!Kind, Has, Present, Kind
<1>3. \A m : Abstract!Missing(f, m) = Missing(f, m)
  BY <1>2 DEF Abstract!Missing, Missing
<1>4. Abstract!Hops(f) = Hops(f)
  BY <1>2 DEF Abstract!Hops, Hops
<1>5. \A h, m : Abstract!Chase(h, m) = Chase(h, m)
  <2>1. Abstract!Cardinality(Names) = Cardinality(Names)
    BY DEF Abstract!Cardinality, Cardinality
  <2> QED
    BY <2>1 DEF Abstract!Chase, Chase
<1>6. Abstract!Followed(f, n) = Followed(f, n)
  BY <1>4, <1>5 DEF Abstract!Followed, Followed
<1>7. Abstract!Unreached(f, n) = Unreached(f, n)
  BY <1>2, <1>3, <1>6 DEF Abstract!Unreached, Unreached
<1>8. Abstract!Openable(f, n) = Openable(f, n)
  BY <1>2, <1>6, <1>7 DEF Abstract!Openable, Openable
<1>9. Abstract!Listable(f, n) = Listable(f, n)
  BY <1>2, <1>6, <1>7 DEF Abstract!Listable, Listable
<1> QED
  BY <1>1, <1>2, <1>3, <1>6, <1>7, <1>8, <1>9

\* The calls.
LEMMA SameCalls ==
  ASSUME NEW f, NEW n, NEW q, NEW i, NEW kind, NEW text
  PROVE  /\ Abstract!Lstat(f, n) = Lstat(f, n) /\ Abstract!Readlink(f, n) = Readlink(f, n)
         /\ Abstract!Access(f, n) = Access(f, n)
         /\ Abstract!Llistxattr(f, n) = Llistxattr(f, n)
         /\ Abstract!Lgetxattr(f, n) = Lgetxattr(f, n)
         /\ Abstract!Unlink(f, n) = Unlink(f, n) /\ Abstract!Rmdir(f, n) = Rmdir(f, n)
         /\ Abstract!Rename(f, n, q) = Rename(f, n, q) /\ Abstract!Link(f, n, q) = Link(f, n, q)
         /\ Abstract!Make(f, n, i, kind, text) = Make(f, n, i, kind, text)
         /\ Abstract!SetAttr(f, n) = SetAttr(f, n) /\ Abstract!Truncate(f, n) = Truncate(f, n)
         /\ Abstract!Lsetxattr(f, n) = Lsetxattr(f, n)
         /\ Abstract!Lremovexattr(f, n) = Lremovexattr(f, n)
<1>1. /\ Abstract!Blank = Blank /\ (Abstract!Has(f, n) <=> Has(f, n))
      /\ Abstract!Has(f, q) <=> Has(f, q)
      /\ Abstract!Kind(f, n) = Kind(f, n) /\ Abstract!Kind(f, q) = Kind(f, q)
      /\ Abstract!Missing(f, n) = Missing(f, n) /\ Abstract!Followed(f, n) = Followed(f, n)
      /\ Abstract!Unreached(f, n) = Unreached(f, n)
      /\ Abstract!Kind(f, Followed(f, n)) = Kind(f, Followed(f, n))
  BY SameReading
<1>2. \A a, g : Abstract!Result(a, g) = Result(a, g)
  BY DEF Abstract!Result, Result
<1>3. \A e, g : Abstract!Unless(e, f, g) = Unless(e, f, g)
  BY <1>2 DEF Abstract!Unless, Unless
<1>4. /\ \A at : Abstract!Renamed(f, at) = Renamed(f, at)
      /\ \A g, j, v : Abstract!Changed(g, j, v) = Changed(g, j, v)
  BY DEF Abstract!Renamed, Renamed, Abstract!Changed, Changed
<1>5. /\ \A j, attrs : Abstract!WithAttrs(f, j, attrs) = WithAttrs(f, j, attrs)
      /\ \A j, t : Abstract!WithText(f, j, t) = WithText(f, j, t)
      /\ Abstract!Inode(kind, text) = Inode(kind, text)
  BY DEF Abstract!WithAttrs, WithAttrs, Abstract!WithText, WithText, Abstract!Inode, Inode,
         Abstract!Changed, Changed
<1>6. /\ Abstract!Lstat(f, n) = Lstat(f, n) /\ Abstract!Readlink(f, n) = Readlink(f, n)
      /\ Abstract!Access(f, n) = Access(f, n)
      /\ Abstract!Llistxattr(f, n) = Llistxattr(f, n)
  BY <1>1, <1>2 DEF Abstract!Lstat, Lstat, Abstract!Readlink, Readlink, Abstract!Access, Access,
         Abstract!Llistxattr, Llistxattr
<1>7. Abstract!Lgetxattr(f, n) = Lgetxattr(f, n)
  BY <1>1, <1>2 DEF Abstract!Lgetxattr, Lgetxattr
<1>8. Abstract!Unlink(f, n) = Unlink(f, n) /\ Abstract!Rmdir(f, n) = Rmdir(f, n)
  BY <1>1, <1>3, <1>4 DEF Abstract!Unlink, Unlink, Abstract!Rmdir, Rmdir
<1>9. Abstract!Rename(f, n, q) = Rename(f, n, q)
  BY <1>1, <1>3, <1>4 DEF Abstract!Rename, Rename
<1>10. Abstract!Link(f, n, q) = Link(f, n, q)
  BY <1>1, <1>3, <1>4 DEF Abstract!Link, Link
<1>11. Abstract!Make(f, n, i, kind, text) = Make(f, n, i, kind, text)
  BY <1>1, <1>3, <1>4, <1>5 DEF Abstract!Make, Make
<1>12. Abstract!SetAttr(f, n) = SetAttr(f, n)
  BY <1>1, <1>3, <1>5 DEF Abstract!SetAttr, SetAttr
<1>13. Abstract!Truncate(f, n) = Truncate(f, n)
  BY <1>1, <1>3, <1>5 DEF Abstract!Truncate, Truncate
<1>14. Abstract!Lsetxattr(f, n) = Lsetxattr(f, n)
  BY <1>1, <1>3, <1>5 DEF Abstract!Lsetxattr, Lsetxattr
<1>15. Abstract!Lremovexattr(f, n) = Lremovexattr(f, n)
  BY <1>1, <1>3, <1>5, <1>7 DEF Abstract!Lremovexattr, Lremovexattr
<1> QED
  BY <1>6, <1>7, <1>8, <1>9, <1>10, <1>11, <1>12, <1>13, <1>14, <1>15

\* Calls on open files, and what is told of an answer.
LEMMA SameFileOperators ==
  ASSUME NEW f, NEW i, NEW text, NEW a, NEW open
  PROVE  /\ Abstract!Pread(f, i) = Pread(f, i) /\ Abstract!Fstat(f, i) = Fstat(f, i)
         /\ Abstract!Fsync(f, i) = Fsync(f, i)
         /\ Abstract!Pwrite(f, i, text) = Pwrite(f, i, text)
         /\ Abstract!Result(a, f) = Result(a, f)
         /\ Abstract!Reaped(f, open) = Reaped(f, open)
         /\ Abstract!NoReply = NoReply
         /\ a \in Errors \cup {"ok"} => a \in Abstract!Errors \cup {"ok"}
         /\ Abstract!Told(a) = IF a \in Errors THEN {a} \cup LogErrors ELSE {a}
<1>1. \A b : Abstract!Result(b, f) = Result(b, f)
  BY DEF Abstract!Result, Result
<1>2. Abstract!WithText(f, i, text) = WithText(f, i, text)
  BY DEF Abstract!WithText, WithText, Abstract!Changed, Changed
<1>3. /\ Abstract!Pread(f, i) = Pread(f, i) /\ Abstract!Fstat(f, i) = Fstat(f, i)
      /\ Abstract!Fsync(f, i) = Fsync(f, i)
  BY <1>1 DEF Abstract!Pread, Pread, Abstract!Fstat, Fstat, Abstract!Fsync, Fsync
<1>4. Abstract!Pwrite(f, i, text) = Pwrite(f, i, text)
  BY <1>2 DEF Abstract!Pwrite, Pwrite, Abstract!Result, Result
<1>5. Abstract!Linked(f) = Linked(f) /\ Abstract!Unused = Unused
  BY SameReading DEF Abstract!Linked, Linked, Abstract!Present, Present
<1>6. Abstract!Reaped(f, open) = Reaped(f, open)
  BY <1>5 DEF Abstract!Reaped, Reaped
<1>7. Abstract!Errors = Errors
  BY DEF Abstract!Errors, Errors
<1>8. Abstract!NoReply = NoReply
  BY DEF Abstract!NoReply, NoReply, Abstract!Reply, Reply
<1>9. Abstract!Told(a) = IF a \in Errors THEN {a} \cup LogErrors ELSE {a}
  BY <1>7 DEF Abstract!Told
<1> QED
  BY <1>1, <1>3, <1>4, <1>6, <1>7, <1>8, <1>9

-----------------------------------------------------------------------------
(* What can be reached.                                                    *)

\* The inodes of open files, and 0 if a file is closed.
Files == {Opened[h] : h \in Handles}

\* They are open; what bbfs and PassThrough say of all that can be reached is
\* the same.
LEMMA FilesOpen ==
  ASSUME Inv
  PROVE  /\ Files \subseteq OpenInodes(fdt) \cup {0}
         /\ \A h \in Handles : fh[h] # 0 => Opened[h] \in Inodes
         /\ \A h \in Handles : Opened[h] # 0 <=> fh[h] # 0
<1>1. ASSUME NEW h \in Handles
      PROVE  /\ Opened[h] \in OpenInodes(fdt) \cup {0}
             /\ fh[h] # 0 => Opened[h] \in Inodes
             /\ Opened[h] # 0 <=> fh[h] # 0
  <2>1. CASE fh[h] = 0
    BY <2>1 DEF Opened
  <2>2. CASE fh[h] # 0
    BY <2>2, OpenedFile, ZeroIsNoInode DEF Opened, File
  <2> QED
    BY <2>1, <2>2
<1> QED
  BY <1>1 DEF Files

\* The same, to be said of the state after a step.
LEMMA FilesStayOpen == Inv => (Files \subseteq OpenInodes(fdt) \cup {0})
  BY FilesOpen

\* PassThrough shows what bbfs reaches.
LEMMA ShownAgrees ==
  ASSUME Inv
  PROVE  Agree(fs, Shown, Files) /\ Shown = Reaped(fs, Files)
<1>1. Agree(fs, fs, OpenInodes(fdt)) /\ fs \in FileSystems
  BY DEF Inv, Live, Agree
<1>2. Files \subseteq OpenInodes(fdt) \cup Linked(fs) \cup {0}
  BY FilesOpen
<1>3. Agree(fs, fs, Files)
  BY <1>1, <1>2, AgreeOpen
<1>4. Agree(fs, Reaped(fs, Files), Files)
  BY <1>1, <1>3, ReapedAgrees
<1>5. Shown = Reaped(fs, Files)
  BY DEF Shown, Files
<1> QED
  BY <1>4, <1>5

\* Nothing is left to reap between steps.
LEMMA NothingToReap ==
  ASSUME Inv
  PROVE  Reaped(fs, OpenInodes(fdt)) = fs /\ Reaped(Shown, Files) = Shown
<1>1. fs = [at |-> fs.at, ino |-> fs.ino] /\ fs.ino \in [Inodes -> InodeType]
      /\ fs \in FileSystems
  BY FileSystem DEF Inv, Live, Agree
<1>2. Reaped(fs, OpenInodes(fdt)).ino = fs.ino
  BY <1>1 DEF Reaped, Inv, Live
<1>3. Reaped(fs, OpenInodes(fdt)) = fs
  BY <1>1, <1>2 DEF Reaped
<1>4. Reaped(Reaped(fs, Files), Files) = Reaped(fs, Files)
  <2>1. Files \subseteq Files \cup {0}
    OBVIOUS
  <2> QED
    BY <1>1, <2>1, ReapedTwice
<1> QED
  BY <1>3, <1>4, ShownAgrees

\* If a step does the same to the file system of bbfs and to what PassThrough
\* shows, then that is what is shown after it.
LEMMA Carries ==
  ASSUME NEW new, NEW seen, Agree(new, seen, Files'),
         Files' \subseteq OpenInodes(fdt') \cup {0}, fs' = Reaped(new, OpenInodes(fdt'))
  PROVE  Shown' = Reaped(seen, Files')
<1>1. Shown' = Reaped(fs', Files')
  BY DEF Shown, Files
<1>2. new \in FileSystems
  BY DEF Agree
<1>3. Shown' = Reaped(new, Files')
  BY <1>1, <1>2, ReapedTwice
<1>4. Reaped(new, Files') = Reaped(seen, Files')
  BY AgreeReaped
<1> QED
  BY <1>3, <1>4

\* A request that is answered at once.
LEMMA Serves ==
  ASSUME Inv', NEW op, NEW on, NEW r, NEW s, SameResult(r, s, Files'),
         fs' = Reaped(r.fs, OpenInodes(fdt')), UNCHANGED making,
         NEW t, LogSyscall(t, op, on, r.answer) \/ LogError(t, op, on, r.answer)
  PROVE  Abstract!Serve(op, on, s, Opened') /\ reply'.op = op
<1>1. /\ r.answer = s.answer /\ Agree(r.fs, s.fs, Files')
  BY DEF SameResult
<1>2. Files' \subseteq OpenInodes(fdt') \cup {0}
  <2>1. Inv' => (Files \subseteq OpenInodes(fdt) \cup {0})'
    BY FilesStayOpen, PTL
  <2> QED
    BY <2>1
<1>3. Shown' = Reaped(s.fs, Files')
  BY <1>1, <1>2, Carries
<1>4. reply'.op = op /\ reply'.on = on /\ reply'.answer \in Abstract!Told(s.answer)
  <2>1. Abstract!Told(s.answer) =
          IF r.answer \in Errors THEN {r.answer} \cup LogErrors ELSE {r.answer}
    BY <1>1, SameFileOperators
  <2>2. \E a \in IF r.answer \in Errors THEN {r.answer} \cup LogErrors ELSE {r.answer} :
          reply' = Reply(op, on, a)
    BY DEF LogSyscall, LogError
  <2> QED
    BY <2>1, <2>2 DEF Reply
<1>5. Owed' = Owed
  BY DEF Owed
<1>6. Shown' = Abstract!Reaped(s.fs, {Opened'[h] : h \in Handles})
  BY <1>3, SameFileOperators DEF Files
<1> QED
  BY <1>4, <1>5, <1>6 DEF Abstract!Serve, Abstract!Effect

\* A request that opens and closes nothing.
LEMMA Passes ==
  ASSUME Inv', NEW op, NEW on, NEW r, NEW s, SameResult(r, s, Files),
         fs' = Reaped(r.fs, OpenInodes(fdt')), UNCHANGED making, Opened' = Opened,
         NEW t, LogSyscall(t, op, on, r.answer) \/ LogError(t, op, on, r.answer)
  PROVE  Abstract!Pass(op, on, s) /\ reply'.op = op
<1>1. SameResult(r, s, Files')
  BY DEF Files
<1>2. Abstract!Serve(op, on, s, Opened') /\ reply'.op = op
  BY <1>1, Serves
<1> QED
  BY <1>2 DEF Abstract!Pass

-----------------------------------------------------------------------------
(* Each step of bbfs.                                                      *)

\* A call on a name.
LEMMA NamePasses ==
  ASSUME Inv', NEW t, NEW op, NEW on, NEW r, NEW s, SameResult(r, s, Files),
         NameCall(t, op, on, r)
  PROVE  Abstract!Pass(op, on, s) /\ reply'.op = op
<1>1. /\ fs' = Reaped(r.fs, OpenInodes(fdt')) /\ UNCHANGED making /\ Opened' = Opened
      /\ LogSyscall(t, op, on, r.answer)
  BY DEF NameCall, Becomes, Opened
<1> QED
  BY <1>1, Passes

\* Calls on one name.
LEMMA NameSteps ==
  ASSUME Inv, Inv', NEW t \in Threads, NEW n \in Names,
         \/ Getattr(t, n) \/ ReadlinkOf(t, n) \/ Statfs(t, n)
         \/ UnlinkOf(t, n) \/ RmdirOf(t, n) \/ TruncateOf(t, n) \/ Setattr(t, n) \/ Utime(t, n)
         \/ Setxattr(t, n) \/ Getxattr(t, n) \/ Listxattr(t, n) \/ Removexattr(t, n)
  PROVE  Abstract!OnName(n)
<1>1. Agree(fs, Shown, Files)
  BY ShownAgrees
<1>2. /\ SameResult(Lstat(fs, n), Lstat(Shown, n), Files)
      /\ SameResult(Readlink(fs, n), Readlink(Shown, n), Files)
      /\ SameResult(Access(fs, n), Access(Shown, n), Files)
      /\ SameResult(Llistxattr(fs, n), Llistxattr(Shown, n), Files)
      /\ SameResult(Lgetxattr(fs, n), Lgetxattr(Shown, n), Files)
  BY <1>1, SameReport
<1>3. /\ SameResult(Unlink(fs, n), Unlink(Shown, n), Files)
      /\ SameResult(Rmdir(fs, n), Rmdir(Shown, n), Files)
  BY <1>1, SameNameCalls
<1>4. /\ SameResult(SetAttr(fs, n), SetAttr(Shown, n), Files)
      /\ SameResult(Lsetxattr(fs, n), Lsetxattr(Shown, n), Files)
      /\ SameResult(Lremovexattr(fs, n), Lremovexattr(Shown, n), Files)
      /\ SameResult(Truncate(fs, n), Truncate(Shown, n), Files)
  BY <1>1, SameAttrCalls
<1>5. CASE Getattr(t, n)
  BY <1>2, <1>5, NamePasses, SameCalls DEF Getattr, Abstract!OnName
<1>6. CASE ReadlinkOf(t, n)
  BY <1>2, <1>6, NamePasses, SameCalls DEF ReadlinkOf, Abstract!OnName
<1>7. CASE Statfs(t, n)
  BY <1>2, <1>7, NamePasses, SameCalls DEF Statfs, Abstract!OnName
<1>8. CASE UnlinkOf(t, n)
  BY <1>3, <1>8, NamePasses, SameCalls DEF UnlinkOf, Abstract!OnName
<1>9. CASE RmdirOf(t, n)
  BY <1>3, <1>9, NamePasses, SameCalls DEF RmdirOf, Abstract!OnName
<1>10. CASE TruncateOf(t, n)
  BY <1>4, <1>10, NamePasses, SameCalls DEF TruncateOf, Abstract!OnName
<1>11. CASE Setattr(t, n)
  BY <1>4, <1>11, NamePasses, SameCalls DEF Setattr, Abstract!OnName
<1>12. CASE Utime(t, n)
  BY <1>4, <1>12, NamePasses, SameCalls DEF Utime, Abstract!OnName
<1>13. CASE Setxattr(t, n)
  BY <1>4, <1>13, NamePasses, SameCalls DEF Setxattr, Abstract!OnName
<1>14. CASE Getxattr(t, n)
  BY <1>2, <1>14, NamePasses, SameCalls DEF Getxattr, Abstract!OnName
<1>15. CASE Listxattr(t, n)
  BY <1>2, <1>15, NamePasses, SameCalls DEF Listxattr, Abstract!OnName
<1>16. CASE Removexattr(t, n)
  BY <1>4, <1>16, NamePasses, SameCalls DEF Removexattr, Abstract!OnName
<1> QED
  BY <1>5, <1>6, <1>7, <1>8, <1>9, <1>10, <1>11, <1>12, <1>13, <1>14, <1>15, <1>16

\* Calls on two names.
LEMMA TwoNamesSteps ==
  ASSUME Inv, Inv', NEW t \in Threads, NEW n \in Names, NEW q \in Names,
         RenameOf(t, n, q) \/ LinkOf(t, n, q)
  PROVE  Abstract!OnTwoNames(n, q)
<1>1. Agree(fs, Shown, Files)
  BY ShownAgrees
<1>2. /\ SameResult(Rename(fs, n, q), Rename(Shown, n, q), Files)
      /\ SameResult(Link(fs, n, q), Link(Shown, n, q), Files)
  BY <1>1, SameNameCalls
<1>3. CASE RenameOf(t, n, q)
  BY <1>2, <1>3, NamePasses, SameCalls DEF RenameOf, Abstract!OnTwoNames
<1>4. CASE LinkOf(t, n, q)
  BY <1>2, <1>4, NamePasses, SameCalls DEF LinkOf, Abstract!OnTwoNames
<1> QED
  BY <1>3, <1>4

\* access(2) changes nothing.
LEMMA AccessStep ==
  ASSUME Inv, Inv', NEW t \in Threads, NEW n \in Names, AccessOf(t, n)
  PROVE  Abstract!OnName(n)
<1>1. SameResult(Access(fs, n), Access(Shown, n), Files)
  BY ShownAgrees, SameReport
<1>2. /\ fs' = Reaped(Access(fs, n).fs, OpenInodes(fdt')) /\ UNCHANGED making /\ Opened' = Opened
      /\ LogError(t, "access", <<n>>, Access(fs, n).answer)
  BY NothingToReap DEF AccessOf, Access, Result, Opened
<1>3. Abstract!Pass("access", <<n>>, Access(Shown, n))
  BY <1>1, <1>2, Passes
<1> QED
  BY <1>3, SameCalls DEF Abstract!OnName

\* A name is made: its inode is unused, so nothing that is shown uses it.
LEMMA MakeSteps ==
  ASSUME Inv, Inv', NEW t \in Threads, NEW op, NEW on, NEW n \in Names, NEW kind \in Kinds,
         NEW text \in Contents \cup Names \cup {Blank}, MakeCall(t, op, on, n, kind, text)
  PROVE  Abstract!PassMake(op, on, n, kind, text)
<1>1. PICK i \in Inodes : NewInode(fs, i) /\ NameCall(t, op, on, Make(fs, n, i, kind, text))
  BY DEF MakeCall
<1>2. SameResult(Make(fs, n, i, kind, text), Make(Shown, n, i, kind, text), Files)
  BY ShownAgrees, SameMake
<1>3. Abstract!Pass(op, on, Make(Shown, n, i, kind, text)) /\ reply'.op = op
  BY <1>1, <1>2, NamePasses
<1>4. Shown.ino[i] = Unused
  BY <1>1, ShownAgrees DEF NewInode, Reaped
<1>5. Abstract!Unused = Unused
  BY SameReading
<1>6. Abstract!Make(Shown, n, i, kind, text) = Make(Shown, n, i, kind, text)
  BY SameCalls
<1> QED
  BY <1>3, <1>4, <1>5, <1>6 DEF Abstract!PassMake

\* Only an error is answered.
LEMMA ErrorPasses ==
  ASSUME Inv, Inv', NEW op, NEW on, NEW a \in Errors, NEW t, LogSyscall(t, op, on, a),
         UNCHANGED <<fs, fdt, fh, making>>
  PROVE  Abstract!Pass(op, on, Result(a, Shown)) /\ reply'.op = op
<1>1. SameResult(Result(a, fs), Result(a, Shown), Files)
  BY ShownAgrees DEF SameResult, Result, Answers
<1>2. /\ fs' = Reaped(Result(a, fs).fs, OpenInodes(fdt')) /\ UNCHANGED making
      /\ Opened' = Opened /\ Result(a, fs).answer = a
  BY NothingToReap DEF Result, Opened
<1> QED
  BY <1>1, <1>2, Passes

\* bb_mknod fails: there is no descriptor, or the name is there, as it would be
\* for the call that makes it.
LEMMA MknodFailsStep ==
  ASSUME Inv, Inv', NEW t \in Threads, NEW n \in Names, NEW e \in {"EMFILE", "EEXIST"},
         MknodFails(t, n, e)
  PROVE  Abstract!Exhausted(n) \/ Abstract!Making(n)
<1>1. Abstract!Pass("mknod", <<n>>, Result(e, Shown)) /\ reply'.op = "mknod"
  <2>1. e \in Errors
    BY DEF Errors
  <2>2. LogSyscall(t, "mknod", <<n>>, e) /\ UNCHANGED <<fs, fdt, fh, making>>
    BY DEF MknodFails
  <2> QED
    BY <2>1, <2>2, ErrorPasses
<1>2. CASE e = "EMFILE"
  <2>1. Abstract!Result("EMFILE", Shown) = Result("EMFILE", Shown)
    BY SameFileOperators
  <2> QED
    BY <1>1, <1>2, <2>1 DEF Abstract!Exhausted
<1>3. CASE e = "EEXIST"
  <2>1. Has(fs, n)
    BY <1>3 DEF MknodFails
  <2>2. Has(Shown, n)
    BY <2>1, ShownAgrees, SameNames
  <2>3. PICK i \in Inodes : TRUE
    BY <2>1, HasInode DEF Inv, Live, Agree
  <2>4. Make(Shown, n, i, "file", Blank) = Result(e, Shown)
    BY <1>3, <2>2 DEF Make, Unless
  <2>5. /\ Abstract!Make(Shown, n, i, "file", Blank) = Make(Shown, n, i, "file", Blank)
        /\ Abstract!Has(Shown, n) /\ Abstract!Blank = Blank
    BY <2>2, SameCalls, SameReading
  <2>6. Abstract!PassMake("mknod", <<n>>, n, "file", Blank)
    BY <1>1, <2>4, <2>5 DEF Abstract!PassMake
  <2> QED
    BY <2>5, <2>6 DEF Abstract!Making
<1> QED
  BY <1>2, <1>3

\* bb_mknod makes the file: it will be answered later.
LEMMA MakesNewStep ==
  ASSUME Inv, Inv', NEW t \in Threads, NEW n \in Names, MakesNew(t, n)
  PROVE  Abstract!MakeFile(t, n)
<1>1. PICK i \in Inodes : /\ ~Has(fs, n) /\ NewInode(fs, i)
                          /\ MknodOpens(t, n, i, Make(fs, n, i, "file", Blank).fs)
  BY DEF MakesNew
<1> DEFINE new == Make(fs, n, i, "file", Blank).fs
           seen == Make(Shown, n, i, "file", Blank).fs
<1>2. PICK e \in FreeFds : /\ fs' = Reaped(new, OpenInodes(fdt')) /\ fdt' = WithFd(e, i)
                           /\ making' = [making EXCEPT ![t] = [fd |-> e, name |-> n]]
  BY <1>1 DEF MknodOpens, NewFd, Becomes
<1>3. UNCHANGED <<fh, reply>> /\ making[t] = NotMaking
  BY <1>1 DEF MknodOpens, PathRequest, Idle
<1>4. Opened' = Opened
  <2>1. ASSUME NEW h \in Handles, fh[h] # 0 PROVE fdt'[fh[h]] = fdt[fh[h]]
    BY <1>2, <2>1, OpenedFile DEF WithFd, FreeFds
  <2> QED
    BY <1>3, <2>1 DEF Opened
<1>5. Shown' = Reaped(seen, Files)
  <2>1. "file" \in Kinds /\ Blank \in Contents \cup Names \cup {Blank}
    BY DEF Kinds
  <2>2. SameResult(Make(fs, n, i, "file", Blank), Make(Shown, n, i, "file", Blank), Files)
    BY <2>1, ShownAgrees, SameMake
  <2>3. Agree(new, seen, Files') /\ Files' = Files
    BY <1>4, <2>2 DEF SameResult, Files
  <2>4. Files' \subseteq OpenInodes(fdt') \cup {0}
    <3>1. Inv' => (Files \subseteq OpenInodes(fdt) \cup {0})'
      BY FilesStayOpen, PTL
    <3> QED
      BY <3>1
  <2> QED
    BY <1>2, <2>3, <2>4, Carries
<1>6. ~Has(Shown, n) /\ Shown.ino[i] = Unused
  <2>1. ~Has(Shown, n)
    BY <1>1, ShownAgrees, SameNames
  <2> QED
    BY <1>1, <2>1, ShownAgrees DEF NewInode, Reaped
<1>7. Owed[t] = NoReply /\ Owed' = [Owed EXCEPT ![t] = Reply("mknod", <<n>>, "ok")]
  <2>1. making' \in [Threads -> [fd : Fds \cup {0}, name : Names \cup {Blank}]]
        /\ making \in [Threads -> [fd : Fds \cup {0}, name : Names \cup {Blank}]]
    BY DEF Inv, Shapes
  <2>2. making'[t] # NotMaking /\ making'[t].name = n
    BY <1>2, <2>1, BbfsAssumption DEF FreeFds, NotMaking
  <2> QED
    BY <1>2, <1>3, <2>1, <2>2 DEF Owed
<1>8. /\ Abstract!Make(Shown, n, i, "file", Blank) = Make(Shown, n, i, "file", Blank)
      /\ ~Abstract!Has(Shown, n) /\ Abstract!Unused = Unused /\ Abstract!Blank = Blank
      /\ Abstract!NoReply = NoReply
      /\ Abstract!Reply("mknod", <<n>>, "ok") = Reply("mknod", <<n>>, "ok")
      /\ Abstract!Reaped(seen, {Opened[h] : h \in Handles}) = Reaped(seen, Files)
  <2>1. Abstract!Make(Shown, n, i, "file", Blank) = Make(Shown, n, i, "file", Blank)
    BY SameCalls
  <2>2. ~Abstract!Has(Shown, n) /\ Abstract!Unused = Unused /\ Abstract!Blank = Blank
    BY <1>6, SameReading
  <2>3. Abstract!NoReply = NoReply /\ Abstract!Reaped(seen, Files) = Reaped(seen, Files)
    BY SameFileOperators
  <2>4. Abstract!Reply("mknod", <<n>>, "ok") = Reply("mknod", <<n>>, "ok")
    BY DEF Abstract!Reply, Reply
  <2> HIDE DEF seen
  <2> QED
    BY <2>1, <2>2, <2>3, <2>4 DEF Files
<1>9. Abstract!Effect(Abstract!Make(Shown, n, i, "file", Abstract!Blank), Opened)
  BY <1>4, <1>5, <1>8 DEF Abstract!Effect
<1> QED
  BY <1>3, <1>6, <1>7, <1>8, <1>9 DEF Abstract!MakeFile

\* bb_mknod answers.
LEMMA MknodCloseStep ==
  ASSUME Inv, Inv', NEW t \in Threads, MknodClose(t)
  PROVE  Abstract!Answer(t)
<1> DEFINE e == making[t].fd
<1>1. /\ making[t] # NotMaking /\ UNCHANGED fh
      /\ fs' = Reaped(fs, OpenInodes(fdt')) /\ fdt' = WithoutFd(e)
      /\ making' = [making EXCEPT ![t] = NotMaking]
      /\ LogSyscall(t, "mknod", <<making[t].name>>, "ok")
  BY DEF MknodClose, Becomes
<1>2. Opened' = Opened
  <2>1. ASSUME NEW h \in Handles, fh[h] # 0 PROVE fdt'[fh[h]] = fdt[fh[h]]
    <3> DEFINE x == <<"file", h>>
               y == <<"making", t>>
    <3>1. x \in Owners /\ y \in Owners /\ OwnFd(x) = fh[h] /\ OwnFd(y) = e /\ x # y
      BY DEF Owners, OwnFd
    <3>2. fh[h] # e /\ fh[h] \in DOMAIN fdt
      BY <2>1, <3>1, OpenedFile DEF Inv, Held
    <3> QED
      BY <1>1, <3>2 DEF WithoutFd
  <2> QED
    BY <1>1, <2>1 DEF Opened
<1>3. Shown' = Shown
  <2>1. Agree(fs, Shown, Files') /\ Files' = Files
    BY <1>2, ShownAgrees DEF Files
  <2>2. Files' \subseteq OpenInodes(fdt') \cup {0}
    <3>1. Inv' => (Files \subseteq OpenInodes(fdt) \cup {0})'
      BY FilesStayOpen, PTL
    <3> QED
      BY <3>1
  <2>3. Shown' = Reaped(Shown, Files)
    BY <1>1, <2>1, <2>2, Carries
  <2> QED
    BY <2>3, NothingToReap
<1>4. reply' = Reply("mknod", <<making[t].name>>, "ok")
  BY <1>1 DEF LogSyscall, Errors
<1>5. Owed[t] = Reply("mknod", <<making[t].name>>, "ok") /\ Owed[t] # NoReply
      /\ Owed' = [Owed EXCEPT ![t] = NoReply]
  <2>1. making \in [Threads -> [fd : Fds \cup {0}, name : Names \cup {Blank}]]
    BY DEF Inv, Shapes
  <2> QED
    BY <1>1, <2>1 DEF Owed, NoReply, Reply
<1>6. Abstract!NoReply = NoReply
  BY SameFileOperators
<1> QED
  BY <1>2, <1>3, <1>4, <1>5, <1>6 DEF Abstract!Answer

\* open(2) fails.
LEMMA OpenFailsStep ==
  ASSUME Inv, Inv', NEW t \in Threads, NEW n \in Names, OpenFails(t, n)
  PROVE  Abstract!Exhausted(n) \/ Abstract!OpenFails(n)
<1> DEFINE a == IF FreeFds = {} THEN "EMFILE" ELSE Openable(fs, n)
<1>1. a \in Errors
  BY MissingAnswer DEF OpenFails, Openable, Errors
<1>2. Abstract!Pass("open", <<n>>, Result(a, Shown))
  <2>1. LogSyscall(t, "open", <<n>>, a) /\ UNCHANGED <<fs, fdt, fh, making>>
    BY DEF OpenFails
  <2> HIDE DEF a
  <2> QED
    BY <1>1, <2>1, ErrorPasses
<1>3. Abstract!Result(a, Shown) = Result(a, Shown)
  BY SameFileOperators
<1>4. CASE FreeFds = {}
  BY <1>2, <1>3, <1>4 DEF Abstract!Exhausted
<1>5. CASE FreeFds # {}
  <2>1. Openable(Shown, n) = a /\ a # "ok"
    BY <1>5, ShownAgrees, SameReport DEF OpenFails
  <2>2. Abstract!Openable(Shown, n) = a
    BY <2>1, SameReading
  <2> QED
    BY <1>2, <1>3, <2>1, <2>2 DEF Abstract!OpenFails
<1> QED
  BY <1>4, <1>5

\* A file is opened: the inode its name leads to at that step.
LEMMA OpenStep ==
  ASSUME Inv, Inv', NEW t \in Threads, NEW n \in Names, NEW h \in Handles, Open(t, n, h)
  PROVE  Abstract!Open(n, h)
<1> DEFINE m == Followed(fs, n)
           i == fs.at[m]
<1>1. PICK e \in FreeFds : /\ fs' = Reaped(fs, OpenInodes(fdt')) /\ fdt' = WithFd(e, i)
                           /\ fh' = [fh EXCEPT ![h] = e]
  BY DEF Open, NewFd, Becomes
<1>2. fh[h] = 0 /\ UNCHANGED making /\ Kind(fs, m) = "file"
      /\ LogSyscall(t, "open", <<n>>, "ok")
  BY DEF Open
<1>3. Has(fs, m) /\ i \in Linked(fs)
  BY <1>2, HasInode DEF Kind, Inv, Live, Agree
<1>4. /\ Opened' = [Opened EXCEPT ![h] = i]
      /\ \A g \in Handles : Opened'[g] = Opened[g] \/ Opened'[g] = i
  <2>1. ASSUME NEW g \in Handles, g # h PROVE Opened'[g] = Opened[g]
    <3>1. fh'[g] = fh[g]
      BY <1>1, <2>1 DEF Inv, Shapes
    <3>2. fh[g] # 0 => fdt'[fh[g]] = fdt[fh[g]]
      BY <1>1, OpenedFile DEF WithFd, FreeFds
    <3> QED
      BY <3>1, <3>2 DEF Opened
  <2>2. Opened'[h] = i
    <3>1. fh'[h] = e /\ e # 0
      BY <1>1, BbfsAssumption DEF Inv, Shapes, FreeFds
    <3>2. fdt'[e] = i
      BY <1>1 DEF WithFd
    <3> QED
      BY <3>1, <3>2 DEF Opened
  <2>3. Opened' = [Opened EXCEPT ![h] = i]
    BY <2>1, <2>2 DEF Opened
  <2> QED
    BY <2>1, <2>2, <2>3
<1>5. Agree(fs, Shown, Files')
  <2>1. Files' \subseteq Files \cup Linked(fs) \cup {0}
    BY <1>3, <1>4 DEF Files
  <2> QED
    BY <2>1, ShownAgrees, AgreeOpen
<1>6. SameResult(Result("ok", fs), Result("ok", Shown), Files')
  BY <1>5 DEF SameResult, Result, Answers
<1>7. Abstract!Serve("open", <<n>>, Result("ok", Shown), Opened')
  <2>1. /\ fs' = Reaped(Result("ok", fs).fs, OpenInodes(fdt'))
        /\ LogSyscall(t, "open", <<n>>, Result("ok", fs).answer)
    BY <1>1, <1>2 DEF Result
  <2> QED
    BY <1>2, <1>6, <2>1, Serves
<1>8. Followed(Shown, n) = m /\ Shown.at[m] = i /\ Openable(Shown, n) = "ok"
  <2>1. Followed(Shown, n) = m /\ Openable(Shown, n) = Openable(fs, n) /\ Shown.at = fs.at
    BY ShownAgrees, SameFollowed, SameReport DEF Agree
  <2>2. Openable(fs, n) = "ok"
    BY <1>2, <1>3 DEF Openable, Unreached, Missing
  <2> QED
    BY <2>1, <2>2
<1>9. /\ Abstract!Followed(Shown, n) = m /\ Abstract!Openable(Shown, n) = "ok"
      /\ Abstract!Result("ok", Shown) = Result("ok", Shown)
  BY <1>8, SameReading, SameFileOperators
<1>10. Opened[h] = 0
  BY <1>2 DEF Opened
<1> HIDE DEF m
<1> QED
  BY <1>4, <1>7, <1>8, <1>9, <1>10 DEF Abstract!Open

\* Requests on an open file.
LEMMA FileSteps ==
  ASSUME Inv, Inv', NEW t \in Threads, NEW h \in Handles, OnFile(t, h), ~Release(t, h)
  PROVE  Abstract!OnFile(h)
<1>1. fh[h] # 0
  BY DEF OnFile, Read, Flush, FsyncOf, Ftruncate, Fgetattr, Write, FileCall
<1>2. File(h) = Opened[h] /\ Opened[h] \in Files /\ Opened[h] \in Inodes /\ Opened[h] # 0
  BY <1>1, FilesOpen DEF File, Opened, Files
<1> DEFINE i == Opened[h]
<1>3. ASSUME NEW op, NEW r, NEW s, SameResult(r, s, Files), FileCall(t, h, op, r)
      PROVE  Abstract!Pass(op, <<h>>, s)
  <2>1. /\ fs' = Reaped(r.fs, OpenInodes(fdt')) /\ UNCHANGED making /\ Opened' = Opened
        /\ LogSyscall(t, op, <<h>>, r.answer)
    BY <1>3 DEF FileCall, Becomes, Opened
  <2> QED
    BY <1>3, <2>1, Passes
<1>4. Agree(fs, Shown, Files) /\ Blank \in Contents \cup {Blank}
  BY ShownAgrees
<1> HIDE DEF i
<1>5. i \in Files /\ i \in Inodes /\ File(h) = i
  BY <1>2 DEF i
<1>6. /\ SameResult(Pread(fs, i), Pread(Shown, i), Files)
      /\ SameResult(Fstat(fs, i), Fstat(Shown, i), Files)
      /\ SameResult(Fsync(fs, i), Fsync(Shown, i), Files)
      /\ SameResult(Pwrite(fs, i, Blank), Pwrite(Shown, i, Blank), Files)
  BY <1>4, <1>5, SameFileCalls
<1>7. /\ Abstract!Pread(Shown, i) = Pread(Shown, i) /\ Abstract!Fstat(Shown, i) = Fstat(Shown, i)
      /\ Abstract!Fsync(Shown, i) = Fsync(Shown, i) /\ Abstract!Blank = Blank
      /\ \A text : Abstract!Pwrite(Shown, i, text) = Pwrite(Shown, i, text)
      /\ Abstract!Result("ok", Shown) = Result("ok", Shown)
  BY SameFileOperators, SameReading
<1>8. CASE Read(t, h)
  BY <1>2, <1>3, <1>5, <1>6, <1>7, <1>8 DEF Read, i, Abstract!OnFile
<1>9. CASE FsyncOf(t, h)
  BY <1>2, <1>3, <1>5, <1>6, <1>7, <1>9 DEF FsyncOf, i, Abstract!OnFile
<1>10. CASE Ftruncate(t, h)
  BY <1>2, <1>3, <1>5, <1>6, <1>7, <1>10 DEF Ftruncate, i, Abstract!OnFile
<1>11. CASE Fgetattr(t, h)
  BY <1>2, <1>3, <1>5, <1>6, <1>7, <1>11 DEF Fgetattr, i, Abstract!OnFile
<1>12. CASE Flush(t, h)
  <2>1. SameResult(Result("ok", fs), Result("ok", Shown), Files)
    BY <1>4 DEF SameResult, Result, Answers
  <2> QED
    BY <1>2, <1>3, <1>7, <1>12, <2>1 DEF Flush, Abstract!OnFile
<1>13. ASSUME NEW text \in Contents, Write(t, h, text) PROVE Abstract!OnFile(h)
  <2>1. text \in Contents \cup {Blank}
    OBVIOUS
  <2>2. SameResult(Pwrite(fs, i, text), Pwrite(Shown, i, text), Files)
    BY <1>4, <1>5, <2>1, SameFileCalls
  <2>3. Abstract!Pass("write", <<h>>, Pwrite(Shown, i, text))
    BY <1>3, <1>5, <1>13, <2>2 DEF Write
  <2>4. Abstract!Pwrite(Shown, i, text) = Pwrite(Shown, i, text)
    BY <1>7
  <2> QED
    BY <1>2, <2>3, <2>4 DEF i, Abstract!OnFile
<1> QED
  BY <1>8, <1>9, <1>10, <1>11, <1>12, <1>13 DEF OnFile

\* A file is closed; others stay what they were opened as.
LEMMA ReleaseStep ==
  ASSUME Inv, Inv', NEW t \in Threads, NEW h \in Handles, Release(t, h)
  PROVE  Abstract!OnFile(h)
<1>1. /\ fh[h] # 0 /\ UNCHANGED making
      /\ fs' = Reaped(fs, OpenInodes(fdt')) /\ fdt' = WithoutFd(fh[h])
      /\ fh' = [fh EXCEPT ![h] = 0] /\ LogSyscall(t, "release", <<h>>, "ok")
  BY DEF Release, Becomes
<1>2. /\ Opened' = [Opened EXCEPT ![h] = 0]
      /\ \A g \in Handles : Opened'[g] = Opened[g] \/ Opened'[g] = 0
  <2>1. ASSUME NEW g \in Handles, g # h PROVE Opened'[g] = Opened[g]
    <3> DEFINE x == <<"file", h>>
               y == <<"file", g>>
    <3>1. fh'[g] = fh[g]
      BY <1>1, <2>1 DEF Inv, Shapes
    <3>2. x \in Owners /\ y \in Owners /\ OwnFd(x) = fh[h] /\ OwnFd(y) = fh[g] /\ x # y
      BY <2>1 DEF Owners, OwnFd
    <3>3. fh[g] # fh[h]
      BY <1>1, <3>2 DEF Inv, Held
    <3>4. fh[g] # 0 => fdt'[fh[g]] = fdt[fh[g]]
      BY <1>1, <3>3, OpenedFile DEF WithoutFd
    <3> QED
      BY <3>1, <3>4 DEF Opened
  <2>2. Opened'[h] = 0
    BY <1>1 DEF Opened, Inv, Shapes
  <2>3. Opened' = [Opened EXCEPT ![h] = 0]
    BY <2>1, <2>2 DEF Opened
  <2> QED
    BY <2>1, <2>2, <2>3
<1>3. Agree(fs, Shown, Files')
  <2>1. Files' \subseteq Files \cup Linked(fs) \cup {0}
    BY <1>2 DEF Files
  <2> QED
    BY <2>1, ShownAgrees, AgreeOpen
<1>4. SameResult(Result("ok", fs), Result("ok", Shown), Files')
  BY <1>3 DEF SameResult, Result, Answers
<1>5. Abstract!Serve("release", <<h>>, Result("ok", Shown), Opened')
  <2>1. /\ fs' = Reaped(Result("ok", fs).fs, OpenInodes(fdt'))
        /\ LogSyscall(t, "release", <<h>>, Result("ok", fs).answer)
    BY <1>1 DEF Result
  <2> QED
    BY <1>1, <1>4, <2>1, Serves
<1>6. Abstract!Result("ok", Shown) = Result("ok", Shown) /\ Opened[h] # 0
  BY <1>1, FilesOpen, SameFileOperators
<1> QED
  BY <1>2, <1>5, <1>6 DEF Abstract!OnFile

\* Requests on a directory change nothing that is shown.
LEMMA DirectoryPasses ==
  ASSUME Inv, Inv', NEW op, NEW on, NEW t, NEW a \in Errors \cup {"ok"},
         LogError(t, op, on, a) \/ LogSyscall(t, op, on, a),
         fs' = Reaped(fs, OpenInodes(fdt')), UNCHANGED <<fh, making>>,
         \A h \in Handles : fh[h] # 0 => fdt'[fh[h]] = fdt[fh[h]]
  PROVE  Abstract!Pass(op, on, Abstract!Result(a, Shown))
<1>1. Opened' = Opened
  BY DEF Opened
<1>2. SameResult(Result(a, fs), Result(a, Shown), Files)
  BY ShownAgrees DEF SameResult, Result, Answers
<1>3. fs' = Reaped(Result(a, fs).fs, OpenInodes(fdt')) /\ Result(a, fs).answer = a
  BY DEF Result
<1>4. Abstract!Pass(op, on, Result(a, Shown))
  BY <1>1, <1>2, <1>3, Passes
<1>5. Abstract!Result(a, Shown) = Result(a, Shown)
  BY SameFileOperators
<1> QED
  BY <1>4, <1>5

\* opendir fails: the name does not lead to a directory, or no descriptor is left.
LEMMA OpendirFailsStep ==
  ASSUME Inv, Inv', NEW t \in Threads, NEW n \in Names, OpendirFails(t, n)
  PROVE  Abstract!Opendir(n) \/ Abstract!Exhausted(n)
<1> DEFINE a == IF FreeFds = {} THEN "EMFILE" ELSE Listable(fs, n)
<1>1. /\ LogSyscall(t, "opendir", <<n>>, a) /\ UNCHANGED <<fs, fdt, fh, making>>
  BY DEF OpendirFails, CannotList
<1>2. a \in Errors \cup {"ok"}
  BY MissingAnswer DEF Listable, Errors
<1>3. fs' = Reaped(fs, OpenInodes(fdt'))
  BY <1>1, NothingToReap
<1>4. Abstract!Pass("opendir", <<n>>, Abstract!Result(a, Shown))
  <2> HIDE DEF a
  <2> QED
    BY <1>1, <1>2, <1>3, DirectoryPasses
<1>5. CASE FreeFds = {}
  BY <1>4, <1>5 DEF Abstract!Exhausted
<1>6. CASE FreeFds # {}
  <2>1. Abstract!Listable(Shown, n) = a
    BY <1>6, ShownAgrees, SameReport, SameReading
  <2> QED
    BY <1>4, <2>1 DEF Abstract!Opendir
<1> QED
  BY <1>5, <1>6

\* A directory is opened; files stay open as they were.
LEMMA OpendirStep ==
  ASSUME Inv, Inv', NEW t \in Threads, NEW d \in Dirs, NEW on, NEW i,
         OpendirAt(t, d, on, i)
  PROVE  Abstract!Pass("opendir", on, Abstract!Result("ok", Shown))
<1>1. PICK e \in FreeFds : fs' = Reaped(fs, OpenInodes(fdt')) /\ fdt' = WithFd(e, 0)
  BY DEF OpendirAt, NewFd, Becomes
<1>2. UNCHANGED <<fh, making>> /\ LogError(t, "opendir", on, "ok")
  BY DEF OpendirAt
<1>3. \A h \in Handles : fh[h] # 0 => fdt'[fh[h]] = fdt[fh[h]]
  BY <1>1, OpenedFile DEF WithFd, FreeFds
<1> QED
  BY <1>1, <1>2, <1>3, DirectoryPasses

\* A directory is opened by its name.
LEMMA OpendirNameStep ==
  ASSUME Inv, Inv', NEW t \in Threads, NEW n \in Names, NEW d \in Dirs, Opendir(t, n, d)
  PROVE  Abstract!Opendir(n)
<1>1. Abstract!Pass("opendir", <<n>>, Abstract!Result("ok", Shown))
  BY OpendirStep DEF Opendir
<1>2. Abstract!Listable(Shown, n) = "ok"
  BY ShownAgrees, SameReport, SameReading DEF Opendir
<1> QED
  BY <1>1, <1>2 DEF Abstract!Opendir

\* There is no descriptor left for rootdir.
LEMMA OpendirRootFailsStep ==
  ASSUME Inv, Inv', NEW t \in Threads, OpendirRootFails(t)
  PROVE  Abstract!OnDirectory
<1>1. /\ LogSyscall(t, "opendir", <<>>, "EMFILE") /\ UNCHANGED <<fs, fdt, fh, making>>
  BY DEF OpendirRootFails, CannotList
<1>2. "EMFILE" \in Errors \cup {"ok"}
  BY DEF Errors
<1>3. fs' = Reaped(fs, OpenInodes(fdt'))
  BY <1>1, NothingToReap
<1>4. Abstract!Pass("opendir", <<>>, Abstract!Result("EMFILE", Shown))
  BY <1>1, <1>2, <1>3, DirectoryPasses
<1> QED
  BY <1>4 DEF Abstract!OnDirectory

\* A request on an open directory, or one entry of its listing.
LEMMA OnDirectoryStep ==
  ASSUME Inv, Inv', NEW t \in Threads, NEW d \in Dirs, OnDirectory(t, d)
  PROVE  Abstract!OnDirectory \/ UNCHANGED Abstract!vars
<1>1. CASE Readdir(t, d) \/ ReaddirNext(t, d) \/ ReaddirCut(t, d)
  <2>1. UNCHANGED <<fs, fdt, fh, making, reply>>
    BY <1>1 DEF Readdir, ReaddirNext, ReaddirCut
  <2> QED
    BY <2>1 DEF Abstract!vars, Shown, Opened, Owed
<1>2. CASE ReaddirFails(t, d) \/ ReaddirEnds(t, d) \/ ReaddirFull(t, d) \/ ReaddirAgain(t, d)
  <2>1. PICK a \in {"ok", "ENOMEM", "EIO", "ENOENT"} \cup LogErrors :
          LogError(t, "readdir", <<>>, a)
    BY <1>2 DEF ReaddirFails, OldErrors, ReaddirEnds, ReaddirFull, ReaddirAgain
  <2>2. a \in Errors \cup {"ok"}
    BY BbfsAssumption DEF Errors
  <2>3. fs' = Reaped(fs, OpenInodes(fdt')) /\ UNCHANGED <<fh, making, fdt>>
    BY <1>2, NothingToReap DEF ReaddirFails, ReaddirEnds, ReaddirFull, ReaddirAgain
  <2>4. Abstract!Pass("readdir", <<>>, Abstract!Result(a, Shown))
    BY <2>1, <2>2, <2>3, DirectoryPasses
  <2>5. a \in Abstract!Errors \cup {"ok"}
    BY <2>2, SameFileOperators
  <2> QED
    BY <2>4, <2>5 DEF Abstract!OnDirectory
<1>3. CASE Fsyncdir(t, d)
  <2>1. fs' = Reaped(fs, OpenInodes(fdt')) /\ UNCHANGED <<fh, making, fdt>>
        /\ LogError(t, "fsyncdir", <<>>, "ok")
    BY <1>3, NothingToReap DEF Fsyncdir
  <2>2. Abstract!Pass("fsyncdir", <<>>, Abstract!Result("ok", Shown))
    BY <2>1, DirectoryPasses
  <2> QED
    BY <2>2 DEF Abstract!OnDirectory
<1>4. CASE OpendirRoot(t, d)
  <2>1. Abstract!Pass("opendir", <<>>, Abstract!Result("ok", Shown))
    BY <1>4, OpendirStep DEF OpendirRoot
  <2> QED
    BY <2>1 DEF Abstract!OnDirectory
<1>5. CASE Releasedir(t, d)
  <2>1. /\ fs' = Reaped(fs, OpenInodes(fdt')) /\ fdt' = WithoutFd(dir[d].fd)
        /\ UNCHANGED <<fh, making>> /\ LogError(t, "releasedir", <<>>, "ok")
    BY <1>5 DEF Releasedir, Becomes
  <2>2. ASSUME NEW h \in Handles, fh[h] # 0 PROVE fdt'[fh[h]] = fdt[fh[h]]
    <3> DEFINE x == <<"file", h>>
               y == <<"dir", d>>
    <3>1. x \in Owners /\ y \in Owners /\ OwnFd(x) = fh[h] /\ OwnFd(y) = dir[d].fd /\ x # y
      BY DEF Owners, OwnFd
    <3>2. fh[h] # dir[d].fd /\ fh[h] \in DOMAIN fdt
      BY <2>2, <3>1, OpenedFile DEF Inv, Held
    <3> QED
      BY <2>1, <3>2 DEF WithoutFd
  <2>3. Abstract!Pass("releasedir", <<>>, Abstract!Result("ok", Shown))
    BY <2>1, <2>2, DirectoryPasses
  <2> QED
    BY <2>3 DEF Abstract!OnDirectory
<1> QED
  BY <1>1, <1>2, <1>3, <1>4, <1>5 DEF OnDirectory

-----------------------------------------------------------------------------
(* The refinement.                                                         *)

\* All requests on names.
LEMMA OnNameStep ==
  ASSUME Inv, Inv', NEW t \in Threads, NEW n \in Names, OnName(t, n)
  PROVE  Abstract!Next
<1>1. CASE \/ Getattr(t, n) \/ ReadlinkOf(t, n) \/ Statfs(t, n)
           \/ UnlinkOf(t, n) \/ RmdirOf(t, n) \/ TruncateOf(t, n) \/ Setattr(t, n) \/ Utime(t, n)
           \/ Setxattr(t, n) \/ Getxattr(t, n) \/ Listxattr(t, n) \/ Removexattr(t, n)
  BY <1>1, NameSteps DEF Abstract!Next
<1>2. CASE AccessOf(t, n)
  BY <1>2, AccessStep DEF Abstract!Next
<1>3. CASE Mknod(t, n)
  BY <1>3, MakesNewStep DEF Mknod, Abstract!Next
<1>4. ASSUME NEW e \in {"EMFILE", "EEXIST"}, MknodFails(t, n, e) PROVE Abstract!Next
  BY <1>4, MknodFailsStep DEF Abstract!Next
<1>5. CASE MknodFifo(t, n) \/ Mkdir(t, n)
  <2>1. "fifo" \in Kinds /\ "dir" \in Kinds /\ Blank \in Contents \cup Names \cup {Blank}
    BY DEF Kinds
  <2>2. \/ Abstract!PassMake("mkfifo", <<n>>, n, "fifo", Blank)
        \/ Abstract!PassMake("mkdir", <<n>>, n, "dir", Blank)
    BY <1>5, <2>1, MakeSteps DEF MknodFifo, Mkdir
  <2>3. Abstract!Blank = Blank
    BY SameReading
  <2> QED
    BY <2>2, <2>3 DEF Abstract!Making, Abstract!Next
<1>6. ASSUME NEW q \in Names, RenameOf(t, n, q) \/ LinkOf(t, n, q) PROVE Abstract!Next
  BY <1>6, TwoNamesSteps DEF Abstract!Next
<1>7. ASSUME NEW q \in Names, Symlink(t, n, q) PROVE Abstract!Next
  <2>1. "link" \in Kinds /\ n \in Contents \cup Names \cup {Blank}
    BY DEF Kinds
  <2>2. Abstract!PassMake("symlink", <<n, q>>, q, "link", n)
    BY <1>7, <2>1, MakeSteps DEF Symlink
  <2> QED
    BY <2>2 DEF Abstract!OnTwoNames, Abstract!Next
<1>8. CASE OpenFails(t, n)
  BY <1>8, OpenFailsStep DEF Abstract!Next
<1>9. CASE OpendirFails(t, n)
  BY <1>9, OpendirFailsStep DEF Abstract!Next
<1>10. ASSUME NEW h \in Handles, Open(t, n, h) PROVE Abstract!Next
  BY <1>10, OpenStep DEF Abstract!Next
<1>11. ASSUME NEW d \in Dirs, Opendir(t, n, d) PROVE Abstract!Next
  BY <1>11, OpendirNameStep DEF Abstract!Next
<1> QED
  BY <1>1, <1>2, <1>3, <1>4, <1>5, <1>6, <1>7, <1>8, <1>9, <1>10, <1>11 DEF OnName

\* Every step is a step of PassThrough or changes nothing of it.
LEMMA StepSimulation ==
  Inv /\ Inv' /\ [Next]_vars => [Abstract!Next]_Abstract!vars
<1> SUFFICES ASSUME Inv, Inv', [Next]_vars
             PROVE  Abstract!Next \/ UNCHANGED Abstract!vars
  OBVIOUS
<1>1. CASE Start \/ LogOpen \/ Crash \/ Unmount \/ UNCHANGED vars
  BY <1>1 DEF Start, LogOpen, Crash, Unmount, vars, Abstract!vars, Shown, Opened, Owed
<1>2. ASSUME NEW t \in Threads, MknodClose(t) \/ OpendirRootFails(t) PROVE Abstract!Next
  BY <1>2, MknodCloseStep, OpendirRootFailsStep DEF Abstract!Next
<1>3. ASSUME NEW t \in Threads, NEW n \in Names, OnName(t, n) PROVE Abstract!Next
  BY <1>3, OnNameStep
<1>4. ASSUME NEW t \in Threads, NEW h \in Handles, OnFile(t, h) PROVE Abstract!Next
  BY <1>4, FileSteps, ReleaseStep DEF Abstract!Next
<1>5. ASSUME NEW t \in Threads, NEW d \in Dirs, OnDirectory(t, d)
      PROVE  Abstract!Next \/ UNCHANGED Abstract!vars
  BY <1>5, OnDirectoryStep DEF Abstract!Next
<1> QED
  BY <1>1, <1>2, <1>3, <1>4, <1>5 DEF Next

\* At first there is nothing.
LEMMA InitSimulation == Init => Abstract!Init
<1> SUFFICES ASSUME Init PROVE Abstract!Init
  OBVIOUS
<1>1. Shown = [at |-> [n \in Names |-> 0], ino |-> [i \in Inodes |-> Unused]]
  BY DEF Init, Shown, Reaped
<1>2. Opened = [h \in Handles |-> 0] /\ Owed = [t \in Threads |-> NoReply] /\ reply = NoReply
  BY DEF Init, Opened, Owed
<1>3. Abstract!Unused = Unused /\ Abstract!NoReply = NoReply
  BY SameReading, SameFileOperators
<1> QED
  BY <1>1, <1>2, <1>3 DEF Abstract!Init

\* bbfs is a no-op file system: each request takes effect in one step as the
\* call of its name, on the file that was opened if it is about an open file,
\* and is answered with what happened in that step, whatever other threads do.
THEOREM BbfsPassesThrough == Spec => ImplementsPassThrough
<1>1. Spec => Abstract!Init /\ [][Abstract!Next]_Abstract!vars
  BY InitSimulation, StepSimulation, Invariance, PTL DEF Spec
<1> QED
  BY <1>1 DEF ImplementsPassThrough, Abstract!Spec

=============================================================================
