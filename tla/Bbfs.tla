-------------------------------- MODULE Bbfs --------------------------------
(***************************************************************************)
(* fuse-tutorial-2018-02-04/src/bbfs.c with the parts of log.c that decide *)
(* what a request is answered: the file system scpfs.cpp was written from. *)
(*                                                                         *)
(* libfuse runs the handlers in several threads.  A handler that makes one *)
(* system call is one action, up to its answer: its other state is its own *)
(* thread's.  bb_mknod and bb_readdir make several calls.  Requests on one *)
(* directory handle exclude each other (libfuse), and a handle is released *)
(* when no request uses it.  Log lines, read-only descriptors, open(2) of  *)
(* a fifo and changes made beside the mount point are left out.            *)
(***************************************************************************)
EXTENDS HostFiles

CONSTANTS
  Threads,
  Handles,   \* open files
  Dirs,      \* open directories
  Fds,       \* descriptors there are besides those of main(), no 0
  LogErrors, \* errors that writing the log may leave in errno
  Habits     \* the sets of UseKinds clients may restrict themselves to

UseKinds == {"open", "data",   \* open; read, write, truncate and the like
             "links",          \* symlink, link, readlink
             "nodes", "fifos", \* mkdir, rmdir; mknod of fifos
             "attrs", "xattrs", \* modes, owners and times; extended attributes
             "listing"}        \* opendir, readdir

NoThread == "nobody"
ASSUME BbfsAssumption ==
  /\ Fds \subseteq Nat \ {0} /\ IsFiniteSet(Fds)
  /\ LogErrors \subseteq Errors /\ Habits \subseteq SUBSET UseKinds
  /\ NoThread \notin Threads

VARIABLES
  phase,    \* how far main() has come
  rootdir,  \* bb_data->rootdir, what realpath returned
  fs,       \* the file system below rootdir
  fdt,      \* the descriptor table: open descriptor -> inode, 0 for a directory
  fh,       \* fi->fh of open files, 0 if there is none
  making,   \* per thread: bb_mknod between open and close
  dir,      \* open directories: the DIR, and the listing being made
  errno,    \* per thread: is errno set?  Kept where bb_readdir reads an old one
  reply,    \* the reply last given
  uses      \* what clients do in this behaviour; never changes

vars == <<phase, rootdir, fs, fdt, fh, making, dir, errno, reply, uses>>
main == <<phase, rootdir, uses>>

NotMaking == [fd |-> 0, name |-> Blank]
\* An open directory: of is its inode, 0 for rootdir; by the thread that lists
\* it; got what readdir(3) has returned, listed what was given to the filler; due
\* what has been in it since opendir, may what was in it at some time since;
\* fresh: not read to the end; cut: readdir(3) has failed.
NoDir == [fd |-> 0, of |-> 0, by |-> NoThread, got |-> {}, listed |-> {}, due |-> {},
          may |-> {}, fresh |-> FALSE, cut |-> FALSE]
WasRead(f) == [NoDir EXCEPT !.fd = f]
Reply(op, on, answer) == [op |-> op, on |-> on, answer |-> answer]
NoReply == Reply("none", <<>>, "none")

OpenInodes(table) == {table[d] : d \in DOMAIN table} \ {0}
FreeFds == Fds \ DOMAIN fdt
NewFd(d) == d \in FreeFds /\ \A e \in FreeFds : d <= e
WithFd(d, i) == [e \in DOMAIN fdt \cup {d} |-> IF e = d THEN i ELSE fdt[e]]
WithoutFd(d) == [e \in DOMAIN fdt \ {d} |-> fdt[e]]

Uses(u) == u \in uses
Idle(t) == /\ phase = "serving" /\ making[t] = NotMaking
           /\ \A d \in Dirs : dir[d].by # t
\* bb_fullpath has copied rootdir.
PathRequest(t) == Idle(t) /\ rootdir = "resolved"

\* The file system and the descriptors change.  What is not in the directory
\* all the time need not be read from it; what was in it at some time may be.
Becomes(new, table) ==
  /\ fdt' = table
  /\ fs' = Reaped(new, OpenInodes(table))
EntriesOf(f, i) == IF i = 0 THEN {"."} \cup Present(f)
                   ELSE IF i \in Linked(f) THEN {"."} ELSE {}
Watched == [d \in Dirs |->
  IF ~dir[d].fresh THEN dir[d]
  ELSE [dir[d] EXCEPT !.due = @ \cap EntriesOf(fs', dir[d].of),
                      !.may = @ \cup EntriesOf(fs', dir[d].of)]]

\* log_error: the error is read before the log is written; errno is what the
\* log leaves there.
Fails(t, a) == errno' = [errno EXCEPT ![t] = @ \/ (a \in Errors /\ Uses("listing"))]
LogError(t, op, on, a) == Fails(t, a) /\ reply' = Reply(op, on, a)
\* log_syscall: log_retstat keeps errno, but then log_error writes the log and
\* errno is read again.
LogSyscall(t, op, on, a) ==
  /\ Fails(t, a)
  /\ \E e \in IF a \in Errors THEN {a} \cup LogErrors ELSE {a} : reply' = Reply(op, on, e)

TypeOK ==
  /\ phase \in {"starting", "resolved", "serving", "exited", "crashed"}
  /\ rootdir \in {"unset", "resolved", "null"} /\ uses \in Habits
  /\ fs \in FileSystems
  /\ \A i \in Inodes : fs.ino[i] = Unused <=> i \notin Linked(fs) \cup OpenInodes(fdt)
  /\ DOMAIN fdt \subseteq Fds /\ \A d \in DOMAIN fdt : fdt[d] \in Inodes \cup {0}
  /\ fh \in [Handles -> Fds \cup {0}]
  /\ making \in [Threads -> [fd : Fds \cup {0}, name : Names \cup {Blank}]]
  /\ \A d \in Dirs :
       /\ dir[d].fd \in Fds \cup {0} /\ dir[d].by \in Threads \cup {NoThread}
       /\ dir[d].listed \subseteq dir[d].got /\ dir[d].due \subseteq dir[d].may
       /\ dir[d].may \subseteq Names \cup {"."} /\ dir[d].of \in Inodes \cup {0}
  /\ errno \in [Threads -> BOOLEAN]
  /\ reply.answer \in Errors \cup Kinds \cup Contents \cup Names \cup {"ok", "none"}

Init ==
  /\ phase = "starting" /\ rootdir = "unset" /\ uses \in Habits
  /\ fs = [at |-> [n \in Names |-> 0], ino |-> [i \in Inodes |-> Unused]]
  /\ fdt = [d \in {} |-> 0] /\ fh = [h \in Handles |-> 0]
  /\ making = [t \in Threads |-> NotMaking]
  /\ dir = [d \in Dirs |-> NoDir]
  /\ errno = [t \in Threads |-> FALSE] /\ reply = NoReply

-----------------------------------------------------------------------------
(* main().                                                                 *)

\* Root, too few arguments or no memory: main returns or aborts.  realpath
\* returns NULL for a directory that is not there; nobody looks.
Start ==
  /\ phase = "starting"
  /\ \/ phase' = "exited" /\ UNCHANGED rootdir
     \/ phase' = "resolved" /\ rootdir' \in {"resolved", "null"}
  /\ UNCHANGED <<fs, fdt, fh, making, dir, errno, reply, uses>>

\* log_open exits if it cannot open the log; then fuse_main.
LogOpen ==
  /\ phase = "resolved" /\ phase' \in {"exited", "serving"}
  /\ UNCHANGED <<rootdir, fs, fdt, fh, making, dir, errno, reply, uses>>

\* The first request with a path copies from NULL.
Crash ==
  /\ phase = "serving" /\ rootdir = "null" /\ phase' = "crashed"
  /\ UNCHANGED <<rootdir, fs, fdt, fh, making, dir, errno, reply, uses>>

Unmount ==
  /\ phase = "serving" /\ fdt = [d \in {} |-> 0] /\ phase' = "exited"
  /\ UNCHANGED <<rootdir, fs, fdt, fh, making, dir, errno, reply, uses>>

-----------------------------------------------------------------------------
(* Handlers that make one call with a path.                                *)

NameCall(t, op, on, result) ==
  /\ PathRequest(t)
  /\ Becomes(result.fs, fdt) /\ dir' = Watched
  /\ LogSyscall(t, op, on, result.answer)
  /\ UNCHANGED <<fh, making, main>>

Getattr(t, n) == NameCall(t, "getattr", <<n>>, Lstat(fs, n))
\* Mutant: retstat is still what readlink(2) returned.
ReadlinkLength(t, n) ==
  Uses("links") /\ Kind(fs, n) = "link" /\ NameCall(t, "readlink", <<n>>, Result("length", fs))
ReadlinkOf(t, n) == Uses("links") /\ NameCall(t, "readlink", <<n>>, Readlink(fs, n))
Statfs(t, n) == Uses("attrs") /\ NameCall(t, "statfs", <<n>>, Access(fs, n))
UnlinkOf(t, n) == NameCall(t, "unlink", <<n>>, Unlink(fs, n))
RmdirOf(t, n) == Uses("nodes") /\ NameCall(t, "rmdir", <<n>>, Rmdir(fs, n))
RenameOf(t, p, q) == NameCall(t, "rename", <<p, q>>, Rename(fs, p, q))
LinkOf(t, p, q) == Uses("links") /\ NameCall(t, "link", <<p, q>>, Link(fs, p, q))
\* bb_chmod and bb_chown, each a call of its name.
Setattr(t, n) == Uses("attrs") /\ NameCall(t, "setattr", <<n>>, SetAttr(fs, n))
Utime(t, n) == Uses("attrs") /\ NameCall(t, "utime", <<n>>, SetAttr(fs, n))
TruncateOf(t, n) == Uses("data") /\ NameCall(t, "truncate", <<n>>, Truncate(fs, n))
Setxattr(t, n) == Uses("xattrs") /\ NameCall(t, "setxattr", <<n>>, Lsetxattr(fs, n))
Getxattr(t, n) == Uses("xattrs") /\ NameCall(t, "getxattr", <<n>>, Lgetxattr(fs, n))
Listxattr(t, n) == Uses("xattrs") /\ NameCall(t, "listxattr", <<n>>, Llistxattr(fs, n))
Removexattr(t, n) == Uses("xattrs") /\ NameCall(t, "removexattr", <<n>>, Lremovexattr(fs, n))

\* Calls that make a name need an inode: bound.
MakeCall(t, op, on, n, kind, text) ==
  \E i \in Inodes : NewInode(fs, i) /\ NameCall(t, op, on, Make(fs, n, i, kind, text))
MknodFifo(t, n) == Uses("fifos") /\ MakeCall(t, "mkfifo", <<n>>, n, "fifo", Blank)
Mkdir(t, n) == Uses("nodes") /\ MakeCall(t, "mkdir", <<n>>, n, "dir", Blank)
Symlink(t, path, link) == Uses("links") /\ MakeCall(t, "symlink", <<path, link>>, link, "link", path)

\* bb_access reads errno before anything is logged.
AccessOf(t, n) ==
  /\ PathRequest(t) /\ Uses("attrs") /\ LogError(t, "access", <<n>>, Access(fs, n).answer)
  /\ UNCHANGED <<fs, fdt, fh, making, dir, main>>

-----------------------------------------------------------------------------
(* bb_mknod of a file: open with O_CREAT and O_EXCL, then close.           *)

MknodFails(t, n, e) ==
  /\ PathRequest(t)
  /\ IF FreeFds = {} THEN e = "EMFILE" ELSE Has(fs, n) /\ e = "EEXIST"
  /\ LogSyscall(t, "mknod", <<n>>, e)
  /\ UNCHANGED <<fs, fdt, fh, making, dir, main>>

MknodOpens(t, n, i, new) ==
  /\ PathRequest(t)
  /\ \E d \in Fds : /\ NewFd(d) /\ Becomes(new, WithFd(d, i))
                    /\ making' = [making EXCEPT ![t] = [fd |-> d, name |-> n]]
  /\ dir' = Watched /\ UNCHANGED <<fh, errno, reply, main>>
MakesNew(t, n) ==
  ~Has(fs, n) /\ \E i \in Inodes :
    NewInode(fs, i) /\ MknodOpens(t, n, i, Make(fs, n, i, "file", Blank).fs)

\* Mutant: without O_EXCL a file that is there is opened.
MknodShares(t, n) ==
  MakesNew(t, n) \/ (Kind(fs, n) = "file" /\ MknodOpens(t, n, fs.at[n], fs))
Mknod(t, n) == MakesNew(t, n)

\* Mutant: the descriptor is not closed.
MknodLeaks(t) ==
  /\ making[t] # NotMaking
  /\ making' = [making EXCEPT ![t] = NotMaking]
  /\ LogSyscall(t, "mknod", <<making[t].name>>, "ok")
  /\ UNCHANGED <<fs, fdt, fh, dir, main>>

MknodClose(t) ==
  /\ making[t] # NotMaking
  /\ Becomes(fs, WithoutFd(making[t].fd)) /\ dir' = Watched
  /\ making' = [making EXCEPT ![t] = NotMaking]
  /\ LogSyscall(t, "mknod", <<making[t].name>>, "ok")
  /\ UNCHANGED <<fh, main>>

-----------------------------------------------------------------------------
(* Open files.                                                             *)

OpenFails(t, n) ==
  /\ PathRequest(t) /\ Uses("open") /\ (FreeFds = {} \/ Openable(fs, n) # "ok")
  /\ LogSyscall(t, "open", <<n>>, IF FreeFds = {} THEN "EMFILE" ELSE Openable(fs, n))
  /\ UNCHANGED <<fs, fdt, fh, making, dir, main>>

Open(t, n, h) ==
  LET m == Followed(fs, n) IN
  /\ PathRequest(t) /\ Uses("open") /\ fh[h] = 0 /\ Kind(fs, m) = "file"
  /\ \E d \in Fds : /\ NewFd(d) /\ Becomes(fs, WithFd(d, fs.at[m])) /\ dir' = Watched
                    /\ fh' = [fh EXCEPT ![h] = d]
  /\ LogSyscall(t, "open", <<n>>, "ok")
  /\ UNCHANGED <<making, main>>

File(h) == fdt[fh[h]]
FileCall(t, h, op, result) ==
  /\ Idle(t) /\ fh[h] # 0
  /\ Becomes(result.fs, fdt) /\ LogSyscall(t, op, <<h>>, result.answer)
  /\ UNCHANGED <<fh, making, dir, main>>

Read(t, h) == Uses("data") /\ FileCall(t, h, "read", Pread(fs, File(h)))
Write(t, h, text) == Uses("data") /\ FileCall(t, h, "write", Pwrite(fs, File(h), text))
FsyncOf(t, h) == Uses("data") /\ FileCall(t, h, "fsync", Fsync(fs, File(h)))
Ftruncate(t, h) == Uses("data") /\ FileCall(t, h, "ftruncate", Pwrite(fs, File(h), Blank))
Fgetattr(t, h) == Uses("data") /\ FileCall(t, h, "fgetattr", Fstat(fs, File(h)))

\* bb_flush only logs.
Flush(t, h) == Uses("data") /\ FileCall(t, h, "flush", Result("ok", fs))

Release(t, h) ==
  /\ Idle(t) /\ fh[h] # 0
  /\ Becomes(fs, WithoutFd(fh[h])) /\ fh' = [fh EXCEPT ![h] = 0]
  /\ LogSyscall(t, "release", <<h>>, "ok")
  /\ UNCHANGED <<making, dir, main>>

-----------------------------------------------------------------------------
(* Open directories: rootdir and those in it.                              *)

\* dp is NULL.  A log line comes before log_error reads errno, so that the
\* answers are those of log_syscall.
CannotList(t, on, e) ==
  LET a == IF FreeFds = {} THEN "EMFILE" ELSE e IN
  /\ PathRequest(t) /\ Uses("listing") /\ a # "ok"
  /\ LogSyscall(t, "opendir", on, a)
  /\ UNCHANGED <<fs, fdt, fh, making, dir, main>>
OpendirFails(t, n) == CannotList(t, <<n>>, Listable(fs, n))
OpendirRootFails(t) == CannotList(t, <<>>, "ok")

OpendirAt(t, d, on, i) ==
  /\ PathRequest(t) /\ Uses("listing") /\ dir[d].fd = 0
  /\ \E f \in Fds :
       /\ NewFd(f) /\ Becomes(fs, WithFd(f, 0))
       /\ dir' = [dir EXCEPT ![d] =
                    [NoDir EXCEPT !.fd = f, !.of = i, !.due = EntriesOf(fs, i),
                                  !.may = EntriesOf(fs, i), !.fresh = TRUE]]
  /\ LogError(t, "opendir", on, "ok")
  /\ UNCHANGED <<fh, making, main>>
OpendirRoot(t, d) == OpendirAt(t, d, <<>>, 0)
Opendir(t, n, d) ==
  Listable(fs, n) = "ok" /\ OpendirAt(t, d, <<n>>, fs.at[Followed(fs, n)])

\* What readdir may return next: once each, "." for itself and "..", which are
\* there as long as the directory, all that has been there since opendir, and
\* perhaps what was there for a while; then NULL.
Entries(d) == dir[d].may \ dir[d].got
AtEnd(d) == dir[d].due \subseteq dir[d].got
Starts(t, d) == Idle(t) /\ dir[d].fresh /\ dir[d].by = NoThread
Goes(t, d) == dir[d].by = t /\ ~dir[d].cut

\* NULL without an error leaves errno as it was: set by an earlier request of
\* this thread, or by the log.
OldErrors(t) == LogErrors \cup IF errno[t] THEN {"ENOENT"} ELSE {}

\* Mutant: the first entry is not given to the filler.
ReaddirSkips(t, d) ==
  /\ Starts(t, d)
  /\ \E e \in Entries(d) : dir' = [dir EXCEPT ![d].by = t, ![d].got = {e}]
  /\ UNCHANGED <<fs, fdt, fh, making, errno, reply, main>>

\* The first call to readdir, and the filler takes the entry.
Readdir(t, d) ==
  /\ Starts(t, d)
  /\ \E e \in Entries(d) :
       dir' = [dir EXCEPT ![d].by = t, ![d].got = {e}, ![d].listed = {e}]
  /\ UNCHANGED <<fs, fdt, fh, making, errno, reply, main>>

\* The first call returns NULL: it failed, or the directory has been removed and
\* has no entry left.  Either way errno is answered.
ReaddirFails(t, d) ==
  /\ Starts(t, d)
  /\ \E e \in {"EIO"} \cup LogErrors \cup IF AtEnd(d) THEN {"ok"} \cup OldErrors(t) ELSE {} :
       LogError(t, "readdir", <<>>, e)
  /\ dir' = [dir EXCEPT ![d] = WasRead(@.fd)]
  /\ UNCHANGED <<fs, fdt, fh, making, main>>

ReaddirNext(t, d) ==
  /\ Goes(t, d)
  /\ \E e \in Entries(d) : dir' = [dir EXCEPT ![d].got = @ \cup {e}, ![d].listed = @ \cup {e}]
  /\ UNCHANGED <<fs, fdt, fh, making, errno, reply, main>>

\* A later call fails.
ReaddirCut(t, d) ==
  /\ Goes(t, d) /\ dir' = [dir EXCEPT ![d].cut = TRUE] /\ Fails(t, "EIO")
  /\ UNCHANGED <<fs, fdt, fh, making, reply, main>>

\* NULL ends the loop, whatever it means, and retstat is still 0.
ReaddirEnds(t, d) ==
  /\ dir[d].by = t /\ (AtEnd(d) \/ dir[d].cut)
  /\ dir' = [dir EXCEPT ![d] = WasRead(@.fd)]
  /\ LogError(t, "readdir", <<>>, "ok")
  /\ UNCHANGED <<fs, fdt, fh, making, main>>

\* The filler is out of memory: the entry readdir returned is lost.  errno is
\* what malloc left.
ReaddirFull(t, d) ==
  /\ Starts(t, d) \/ Goes(t, d)
  /\ Entries(d) # {}
  /\ dir' = [dir EXCEPT ![d] = WasRead(@.fd)]
  /\ LogError(t, "readdir", <<>>, "ENOMEM")
  /\ UNCHANGED <<fs, fdt, fh, making, main>>

\* The DIR was read before, and libfuse does not rewind it.  readdir returns
\* what is left, fails, or returns NULL at once: the answer is then what errno
\* happens to be.
ReaddirAgain(t, d) ==
  /\ Idle(t) /\ dir[d].fd # 0 /\ ~dir[d].fresh
  /\ \E e \in {"ok", "ENOMEM", "EIO"} \cup OldErrors(t) : LogError(t, "readdir", <<>>, e)
  /\ UNCHANGED <<fs, fdt, fh, making, dir, main>>

\* bb_fsyncdir only logs.
Fsyncdir(t, d) ==
  /\ Idle(t) /\ dir[d].fd # 0 /\ LogError(t, "fsyncdir", <<>>, "ok")
  /\ UNCHANGED <<fs, fdt, fh, making, dir, main>>

Releasedir(t, d) ==
  /\ Idle(t) /\ dir[d].fd # 0 /\ dir[d].by = NoThread
  /\ Becomes(fs, WithoutFd(dir[d].fd)) /\ dir' = [dir EXCEPT ![d] = NoDir]
  /\ LogError(t, "releasedir", <<>>, "ok")
  /\ UNCHANGED <<fh, making, main>>

-----------------------------------------------------------------------------
OnName(t, n) ==
  \/ Getattr(t, n) \/ ReadlinkOf(t, n) \/ Statfs(t, n) \/ AccessOf(t, n)
  \/ UnlinkOf(t, n) \/ RmdirOf(t, n) \/ TruncateOf(t, n) \/ Setattr(t, n) \/ Utime(t, n)
  \/ Setxattr(t, n) \/ Getxattr(t, n) \/ Listxattr(t, n) \/ Removexattr(t, n)
  \/ Mknod(t, n) \/ MknodFifo(t, n) \/ Mkdir(t, n)
  \/ \E e \in {"EMFILE", "EEXIST"} : MknodFails(t, n, e)
  \/ \E q \in Names : RenameOf(t, n, q) \/ LinkOf(t, n, q) \/ Symlink(t, n, q)
  \/ OpenFails(t, n) \/ OpendirFails(t, n)
  \/ \E h \in Handles : Open(t, n, h)
  \/ \E d \in Dirs : Opendir(t, n, d)

OnFile(t, h) ==
  \/ Read(t, h) \/ Flush(t, h) \/ FsyncOf(t, h) \/ Ftruncate(t, h) \/ Fgetattr(t, h) \/ Release(t, h)
  \/ \E text \in Contents : Write(t, h, text)

OnDirectory(t, d) ==
  \/ OpendirRoot(t, d) \/ Readdir(t, d) \/ ReaddirFails(t, d) \/ ReaddirNext(t, d)
  \/ ReaddirCut(t, d) \/ ReaddirEnds(t, d) \/ ReaddirFull(t, d) \/ ReaddirAgain(t, d)
  \/ Fsyncdir(t, d) \/ Releasedir(t, d)

Next ==
  \/ Start \/ LogOpen \/ Crash \/ Unmount
  \/ \E t \in Threads :
       \/ MknodClose(t) \/ OpendirRootFails(t)
       \/ \E n \in Names : OnName(t, n)
       \/ \E h \in Handles : OnFile(t, h)
       \/ \E d \in Dirs : OnDirectory(t, d)

Spec == Init /\ [][Next]_vars

-----------------------------------------------------------------------------
(* Properties.                                                             *)

\* Each open descriptor is the one of an open file, of an open directory or of
\* a file being made, of one of them only, and leads to what that one is about;
\* what is not open holds none.  A descriptor closed twice or leaked breaks it.
Holders == [file : {h \in Handles : fh[h] # 0}] \cup [dir : {d \in Dirs : dir[d].fd # 0}]
           \cup [making : {t \in Threads : making[t] # NotMaking}]
FdOf(x) == IF "file" \in DOMAIN x THEN fh[x.file]
           ELSE IF "dir" \in DOMAIN x THEN dir[x.dir].fd ELSE making[x.making].fd
DescriptorsOwned ==
  /\ {FdOf(x) : x \in Holders} = DOMAIN fdt
  /\ \A x, y \in Holders : FdOf(x) = FdOf(y) => x = y
  /\ \A x \in Holders : fdt[FdOf(x)] = 0 <=> "dir" \in DOMAIN x

\* A directory that is read for the first time and answered with success lists
\* every name that has been there since it was opened, unless readdir(3) failed
\* on the way, and in any case none that was not there at some time since,
\* although others make, remove and rename files.
Listed(d) == dir[d].fresh /\ ~dir'[d].fresh /\ dir'[d].fd # 0 /\ reply'.answer = "ok"
ListingComplete ==
  [][\A d \in Dirs : Listed(d) =>
       /\ dir[d].cut \/ dir[d].due \subseteq dir[d].listed
       /\ dir[d].listed \subseteq dir[d].may]_vars

\* Every request takes effect in one step as the call of its name would, and is
\* answered with what happened there, in all interleavings of the two calls of
\* bb_mknod with other requests; open files stay the files they were opened as
\* when names go, come back and change; no failed call is answered as success,
\* but for readdir, whose answers PassThrough leaves open.
Opened == [h \in Handles |-> IF fh[h] = 0 THEN 0 ELSE fdt[fh[h]]]
Shown == Reaped(fs, {Opened[h] : h \in Handles})
Owed == [t \in Threads |-> IF making[t] = NotMaking THEN NoReply
                           ELSE Reply("mknod", <<making[t].name>>, "ok")]
Abstract == INSTANCE PassThrough WITH shown <- Shown, opened <- Opened, owed <- Owed
ImplementsPassThrough == Abstract!Spec
=============================================================================
