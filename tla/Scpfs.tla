------------------------------- MODULE Scpfs -------------------------------
(***************************************************************************)
(* The data path of ulfs/scpfs.cpp: whole files are copied from the sftp   *)
(* server into LOCAL_DESTINATION when they are opened, read and written    *)
(* there, and copied back and removed when they are released.              *)
(*                                                                         *)
(* A handle is one open file description of a client.  Its label pc is the *)
(* system call or sftp call its request makes next; every action is one    *)
(* such call, so the handlers that libfuse runs in several threads         *)
(* interleave between calls.  Only sftp_close, which changes neither side, *)
(* is not a step of its own: it goes with the call that follows or, at the *)
(* end of scpfs_open, precedes it.                                         *)
(***************************************************************************)
EXTENDS Content, FiniteSets

CONSTANTS
  Paths,       \* names of regular files below the mount point
  Handles,     \* open file descriptions
  Inodes,      \* bound: local files alive at once
  Fds,         \* bound: descriptors a handler may be given; 0 is stdin
  MaxLen,      \* bound: blocks in a file
  Workers,     \* libfuse threads; 1 is the -s option
  Sharing,     \* client discipline, see MayOpen
  Faults,      \* what may go wrong, a subset of FaultKinds
  BlocksOf,    \* the blocks the clients of each path write
  RemoteInit,  \* what the server may hold at each path when scpfs starts
  Stdin, None

FaultKinds == {"stat", "open", "read", "write",     \* an sftp call fails
               "localOpen", "localWrite", \* a local call fails
               "limits",  \* descriptors or local inodes run out
               "errno0",  \* errno may be 0 when a failure is reported
               "race",    \* two threads are in libssh on the one session
               "crash"}   \* the daemon is killed

ASSUME ScpfsAssumption ==
  /\ MaxLen \in Nat /\ Workers \in Nat \ {0} /\ Fds \subseteq Nat /\ 0 \in Fds
  /\ Sharing \in {"shared", "exclusive", "patient"}
  /\ Faults \subseteq FaultKinds
  /\ BlocksOf \in [Paths -> SUBSET Block]
  /\ Stdin \notin Inodes /\ None \notin Inodes /\ Stdin # None
  /\ None \notin Paths /\ None \notin Fds /\ None \notin Seq(Block)
  /\ \A p \in Paths : RemoteInit[p] \subseteq Seq(BlocksOf[p]) \cup {None}

VARIABLES
  remote,   \* the files under REMOTE_DESTINATION, None where there is none
  local,    \* the directory LOCAL_DESTINATION: path -> inode
  data,     \* contents of the local inodes
  fdt,      \* the daemon's descriptor table: descriptor -> inode
  session,  \* the global sftpSession: "up", or "freed" by sftp_free
  handle,   \* the requests and open files of the clients
  queue     \* RELEASE requests the kernel has queued, oldest first

vars == <<remote, local, data, fdt, session, handle, queue>>

Idle == [pc |-> "idle", path |-> None, flags |-> {}, fh |-> None, rd |-> None,
         pos |-> 0, wpos |-> 0, buf |-> <<>>]

ReleasePC == {"release", "openStream", "copyOut", "closeStream", "closeFh", "remove"}
HandlerPC == {"lstat", "rstat", "openLocal", "copyIn", "closeLocal", "freeSession"}
               \cup ReleasePC
WaitingPC == {"toOpen", "toCreate", "toTrunc", "open", "queued"}
SftpPC    == {"rstat", "toOpen", "copyIn", "freeSession", "release", "copyOut",
              "closeStream"}

Labels == HandlerPC \cup WaitingPC \cup {"idle"}
HandleType ==
  [pc : Labels, path : Paths \cup {None},
   flags : SUBSET {"creat", "trunc"}, fh : Fds \cup {None},
   rd : Fds \cup {None}, pos : Nat, wpos : Nat, buf : Seq(Block)]

\* Labels at which the handle names a descriptor of the daemon.
FhPC == {"copyIn", "closeLocal", "toTrunc", "open", "queued", "release",
         "openStream", "copyOut", "closeStream", "closeFh"}
HoldsFh(h) == handle[h].pc \in FhPC

\* Labels at which a release has its stream.
StreamPC == {"copyOut", "closeStream"}

TypeOK ==
  /\ remote \in [Paths -> Seq(Block) \cup {None}]
  /\ local \in [Paths -> Inodes \cup {None}]
  /\ data \in [Inodes -> Seq(Block)]
  /\ fdt \in [Fds -> Inodes \cup {Stdin, None}]
  /\ session \in {"up", "freed"}
  /\ handle \in [Handles -> HandleType]
  /\ queue \in Seq(Handles)
  /\ \A h \in Handles : /\ handle[h].pc # "idle" => handle[h].path \in Paths
                        /\ HoldsFh(h) => handle[h].fh \in Fds

Init ==
  /\ remote \in {r \in [Paths -> UNION {RemoteInit[p] : p \in Paths}] :
                   \A p \in Paths : r[p] \in RemoteInit[p]}
  /\ local = [p \in Paths |-> None]
  /\ data = [i \in Inodes |-> <<>>]
  /\ fdt = [f \in Fds |-> IF f = 0 THEN Stdin ELSE None]
  /\ session = "up"
  /\ handle = [h \in Handles |-> Idle]
  /\ queue = <<>>

-----------------------------------------------------------------------------
(* The kernel, libfuse and the system calls the handlers make.             *)

\* A worker can take a request: RELEASE requests are not awaited by the
\* client, so they queue; every other request starts only behind them.
WorkerFree == Cardinality({h \in Handles : handle[h].pc \in HandlerPC}) < Workers
Ready == queue = <<>> /\ WorkerFree

\* Which paths clients open.  "exclusive": never one that a client has open;
\* "patient": nor one whose RELEASE has not been answered yet.
MayOpen(p) ==
  \A h \in Handles : handle[h].path = p =>
    \/ Sharing = "shared"
    \/ Sharing = "exclusive" /\ handle[h].pc \in ReleasePC \cup {"queued"}

At(h, l) == handle[h].pc = l
Goto(h, l) == handle' = [handle EXCEPT ![h].pc = l]
Finish(h) == handle' = [handle EXCEPT ![h] = Idle]
PathOf(h) == handle[h].path

\* Is the next call of h one into libssh?  In a copy loop it is the local read
\* or write while there is no block to send, or one to store.
InSftp(h) == /\ handle[h].pc \in SftpPC
             /\ At(h, "copyIn") => handle[h].buf = <<>>
             /\ At(h, "copyOut") => handle[h].buf # <<>>

\* Can an sftp call of h fail?  On a freed session it does, and when another
\* thread is in an sftp call too: neither the session nor libssh is locked.
Raced(h) == "race" \in Faults /\ Workers > 1 /\ InSftp(h)
              /\ \E g \in Handles \ {h} : InSftp(g)
SftpFault(h, kind) == kind \in Faults \/ session = "freed" \/ Raced(h)

FreeFds == {f \in Fds : fdt[f] = None}
LowestFd(f) == f \in FreeFds /\ \A g \in FreeFds : f <= g
NoFd == "limits" \in Faults /\ FreeFds = {}

\* sftp calls and short writes leave errno alone.  It can be 0 then only if the
\* open is served by another thread than the lookup, whose access() has failed
\* with ENOENT: a thread in which no call has failed yet.
ErrnoClear == "errno0" \in Faults /\ Workers > 1
FreeInodes == {i \in Inodes : (\A p \in Paths : local[p] # i)
                              /\ (\A f \in Fds : fdt[f] # i)}

\* Is there no descriptor, or no inode, left to open p with?
NoRoom(p) == NoFd \/ ("limits" \in Faults /\ local[p] = None /\ FreeInodes = {})

\* Mutant: the local file is opened without O_TRUNC.
OpenFileKeepsTail(p, f, i) ==
  /\ LowestFd(f)
  /\ IF local[p] # None THEN i = local[p]
     ELSE FreeInodes # {} /\ i = CHOOSE j \in FreeInodes : TRUE
  /\ local' = [local EXCEPT ![p] = i]
  /\ fdt' = [fdt EXCEPT ![f] = i]
  /\ UNCHANGED data

\* open(LOCAL_DESTINATION + p, O_CREAT | O_TRUNC) returning f on inode i.
OpenFile(p, f, i) ==
  /\ LowestFd(f)
  /\ IF local[p] # None THEN i = local[p]
     ELSE FreeInodes # {} /\ i = CHOOSE j \in FreeInodes : TRUE
  /\ local' = [local EXCEPT ![p] = i]
  /\ data' = [data EXCEPT ![i] = <<>>]
  /\ fdt' = [fdt EXCEPT ![f] = i]

\* write or pwrite of block b at k through f; stdin discards it.
WriteFd(f, k, b) ==
  data' = IF fdt[f] \in Inodes
          THEN [data EXCEPT ![fdt[f]] = WriteAt(@, k, b)] ELSE data

\* The contents left when the directory is l and the descriptor table t: the
\* local file system drops inodes that are neither linked nor open.
Reclaimed(l, t) ==
  [i \in Inodes |-> IF (\E p \in Paths : l[p] = i) \/ (\E f \in Fds : t[f] = i)
                    THEN data[i] ELSE <<>>]

\* close of the descriptors F, and unlink of the local copy of p.
CloseFds(F) ==
  LET t == [f \in Fds |-> IF f \in F THEN None ELSE fdt[f]]
  IN fdt' = t /\ data' = Reclaimed(local, t)
Unlink(p) ==
  LET l == [local EXCEPT ![p] = None]
  IN local' = l /\ data' = Reclaimed(l, fdt)

-----------------------------------------------------------------------------
(* scpfs_getattr, as the lookup that precedes every open(2).  With O_CREAT *)
(* the kernel holds the directory from the lookup to the create.           *)

Getattr(h, p, fl) ==
  /\ At(h, "idle") /\ Ready /\ MayOpen(p)
  /\ "creat" \in fl => \A g \in Handles : ~("creat" \in handle[g].flags
       /\ handle[g].pc \in {"lstat", "rstat", "toCreate"})
  /\ handle' = [handle EXCEPT ![h] =
       [Idle EXCEPT !.pc = IF local[p] # None THEN "lstat" ELSE "rstat",
                    !.path = p, !.flags = fl]]
  /\ UNCHANGED <<remote, local, data, fdt, session, queue>>

Found(h) == Goto(h, "toOpen")
NotFound(h) ==
  IF "creat" \in handle[h].flags THEN Goto(h, "toCreate") ELSE Finish(h)

GetattrLocal(h) ==
  /\ At(h, "lstat")
  /\ IF local[PathOf(h)] # None THEN Found(h) ELSE NotFound(h)
  /\ UNCHANGED <<remote, local, data, fdt, session, queue>>

GetattrRemote(h) ==
  /\ At(h, "rstat")
  /\ \/ /\ session = "up"
        /\ IF remote[PathOf(h)] # None THEN Found(h) ELSE NotFound(h)
     \/ SftpFault(h, "stat") /\ (NotFound(h) \/ Finish(h))
  /\ UNCHANGED <<remote, local, data, fdt, session, queue>>

-----------------------------------------------------------------------------
(* scpfs_open, scpfs_create and the scpfs_truncate of open(O_TRUNC).       *)

\* Mutant: fi->fh is not stored.
OpenedWithoutFh(h, f) ==
  handle' = [handle EXCEPT ![h] = [Idle EXCEPT !.pc = "open", !.path = PathOf(h)]]

\* What the client has after open returned 0 with fi->fh = f.
Opened(h, f) ==
  handle' = [handle EXCEPT ![h] =
    [Idle EXCEPT !.pc = IF "trunc" \in handle[h].flags THEN "toTrunc" ELSE "open",
                 !.path = PathOf(h), !.fh = f]]

\* Mutant: a failed sftp_open is answered as success, with the fi->fh of
\* libfuse.
OpenRemoteUnchecked(h) ==
  /\ At(h, "toOpen") /\ Ready
  /\ \/ session = "up" /\ remote[PathOf(h)] # None /\ Goto(h, "openLocal")
     \/ (remote[PathOf(h)] = None \/ SftpFault(h, "open")) /\ Opened(h, 0)
  /\ UNCHANGED <<remote, local, data, fdt, session, queue>>

OpenRemote(h) ==
  /\ At(h, "toOpen") /\ Ready
  /\ \/ session = "up" /\ remote[PathOf(h)] # None /\ Goto(h, "openLocal")
     \/ /\ remote[PathOf(h)] = None \/ SftpFault(h, "open")
        /\ Finish(h) \/ (ErrnoClear /\ Opened(h, 0))
  /\ UNCHANGED <<remote, local, data, fdt, session, queue>>

OpenLocal(h) ==
  /\ At(h, "openLocal")
  /\ \E f \in Fds, i \in Inodes :
       /\ OpenFile(PathOf(h), f, i)
       /\ handle' = [handle EXCEPT ![h].pc = "copyIn", ![h].fh = f]
  /\ UNCHANGED <<remote, session, queue>>

OpenLocalFails(h) ==
  /\ At(h, "openLocal")
  /\ "localOpen" \in Faults \/ NoRoom(PathOf(h))
  /\ Goto(h, "freeSession")
  /\ UNCHANGED <<remote, local, data, fdt, session, queue>>

\* sftp_read of the block at pos, the offset in both files.
ReadIn(h) ==
  LET c == remote[PathOf(h)] k == handle[h].pos IN
  /\ At(h, "copyIn") /\ handle[h].buf = <<>> /\ session = "up" /\ k < Len(c)
  /\ handle' = [handle EXCEPT ![h].buf = <<c[k + 1]>>]
  /\ UNCHANGED <<remote, local, data, fdt, session, queue>>

\* write of the block that was read.
CopyIn(h) ==
  LET k == handle[h].pos IN
  /\ At(h, "copyIn") /\ handle[h].buf # <<>>
  /\ fdt[handle[h].fh] \in Inodes
  /\ WriteFd(handle[h].fh, k, Head(handle[h].buf))
  /\ handle' = [handle EXCEPT ![h].pos = k + 1, ![h].buf = <<>>]
  /\ UNCHANGED <<remote, local, fdt, session, queue>>

\* write fails, or is short; then a part of the block is in the file.
CopyInFails(h) ==
  LET f == handle[h].fh IN
  /\ At(h, "copyIn") /\ handle[h].buf # <<>>
  /\ "localWrite" \in Faults \/ fdt[f] \notin Inodes
  /\ WriteFd(f, handle[h].pos, Head(handle[h].buf)) \/ UNCHANGED data
  /\ Goto(h, "closeLocal")
  /\ UNCHANGED <<remote, local, fdt, session, queue>>

CloseLocal(h) ==
  /\ At(h, "closeLocal")
  /\ CloseFds({handle[h].fh})
  /\ Goto(h, "freeSession")
  /\ UNCHANGED <<remote, local, session, queue>>

\* sftp_free(sftpSession), and the return of -errno: after a short write it may
\* be 0, after an open that failed it is not.
FreeSession(h) ==
  /\ At(h, "freeSession")
  /\ session' = "freed"
  /\ Finish(h) \/ (ErrnoClear /\ handle[h].fh # None /\ Opened(h, 0))
  /\ UNCHANGED <<remote, local, data, fdt, queue>>

\* Mutant: the loop goes on after sftp_read has returned 0.
CopiedInPastEnd(h) ==
  /\ At(h, "copyIn") /\ handle[h].pos > Len(remote[PathOf(h)])
  /\ Opened(h, handle[h].fh)
  /\ UNCHANGED <<remote, local, data, fdt, session, queue>>

\* sftp_read returned 0, or an error, which ends the loop just the same.
CopiedIn(h) ==
  /\ At(h, "copyIn") /\ handle[h].buf = <<>>
  /\ handle[h].pos >= Len(remote[PathOf(h)]) \/ SftpFault(h, "read")
  /\ Opened(h, handle[h].fh)
  /\ UNCHANGED <<remote, local, data, fdt, session, queue>>

Create(h) ==
  /\ At(h, "toCreate") /\ Ready
  /\ \/ \E f \in Fds, i \in Inodes :
          /\ OpenFile(PathOf(h), f, i)
          /\ handle' = [handle EXCEPT ![h] =
               [Idle EXCEPT !.pc = "open", !.path = PathOf(h), !.fh = f]]
     \/ /\ "localOpen" \in Faults \/ NoRoom(PathOf(h))
        /\ Finish(h) /\ UNCHANGED <<local, data, fdt>>
  /\ UNCHANGED <<remote, session, queue>>

\* Works on the name, not on the descriptor; when the name is gone open(2)
\* fails and the kernel releases the handle it had opened.
Truncate(h) ==
  LET i == local[PathOf(h)] IN
  /\ At(h, "toTrunc") /\ Ready
  /\ IF i # None
     THEN data' = [data EXCEPT ![i] = <<>>] /\ Goto(h, "open") /\ UNCHANGED queue
     ELSE Goto(h, "queued") /\ queue' = Append(queue, h) /\ UNCHANGED data
  /\ UNCHANGED <<remote, local, fdt, session>>

-----------------------------------------------------------------------------
(* Operations of clients on open files; scpfs_read changes nothing.        *)

Write(h, k, b) ==
  /\ At(h, "open") /\ Ready /\ b \in BlocksOf[PathOf(h)]
  /\ WriteFd(handle[h].fh, k, b)
  /\ UNCHANGED <<remote, local, fdt, session, handle, queue>>

Ftruncate(h, n) ==
  LET i == fdt[handle[h].fh] IN
  /\ At(h, "open") /\ Ready /\ i \in Inodes
  /\ data' = [data EXCEPT ![i] = Resize(@, n)]
  /\ UNCHANGED <<remote, local, fdt, session, handle, queue>>

\* truncate(2) by name: only a file with a local copy can be truncated.
TruncatePath(p, n) ==
  /\ Ready /\ MayOpen(p) /\ local[p] # None
  /\ data' = [data EXCEPT ![local[p]] = Resize(@, n)]
  /\ UNCHANGED <<remote, local, fdt, session, handle, queue>>

\* close(2): there is no flush handler, the kernel queues a RELEASE.
Close(h) ==
  /\ At(h, "open")
  /\ Goto(h, "queued")
  /\ queue' = Append(queue, h)
  /\ UNCHANGED <<remote, local, data, fdt, session>>

-----------------------------------------------------------------------------
(* scpfs_release.                                                          *)

TakeRelease(h) ==
  /\ queue # <<>> /\ Head(queue) = h /\ WorkerFree
  /\ queue' = Tail(queue)
  /\ Goto(h, "release")
  /\ UNCHANGED <<remote, local, data, fdt, session>>

\* Mutants: the remote file is opened without O_TRUNC; fi->fh is closed where
\* the comment announces it, and again at the end.
ReleaseOpenKeepsTail(h) ==
  /\ At(h, "release") /\ session = "up"
  /\ remote' = [remote EXCEPT ![PathOf(h)] = IF @ = None THEN <<>> ELSE @]
  /\ Goto(h, "openStream")
  /\ UNCHANGED <<local, data, fdt, session, queue>>
ReleaseOpenCloses(h) ==
  /\ At(h, "release") /\ session = "up"
  /\ remote' = [remote EXCEPT ![PathOf(h)] = <<>>]
  /\ Goto(h, "openStream")
  /\ CloseFds({handle[h].fh})
  /\ UNCHANGED <<local, session, queue>>

ReleaseOpen(h) ==
  /\ At(h, "release") /\ session = "up"
  /\ remote' = [remote EXCEPT ![PathOf(h)] = <<>>]
  /\ Goto(h, "openStream")
  /\ UNCHANGED <<local, data, fdt, session, queue>>

\* Mutant: the local copy is removed although it could not be uploaded.
ReleaseOpenFailsRemoves(h) ==
  /\ At(h, "release") /\ SftpFault(h, "open")
  /\ Goto(h, "remove")
  /\ UNCHANGED <<remote, local, data, fdt, session, queue>>

\* Returns with fi->fh still open and the local copy still there.
ReleaseOpenFails(h) ==
  /\ At(h, "release") /\ SftpFault(h, "open")
  /\ Finish(h)
  /\ UNCHANGED <<remote, local, data, fdt, session, queue>>

\* ifstream localFile(localpath): by name, and it may fail.
OpenStream(h) ==
  LET i == local[PathOf(h)] IN
  /\ At(h, "openStream")
  /\ IF i = None \/ NoFd
     THEN Goto(h, "copyOut") /\ UNCHANGED fdt
     ELSE \E f \in Fds :
            /\ LowestFd(f)
            /\ fdt' = [fdt EXCEPT ![f] = i]
            /\ handle' = [handle EXCEPT ![h].pc = "copyOut", ![h].rd = f]
  /\ UNCHANGED <<remote, local, data, session, queue>>

\* Is there more in the local file than the stream has read?
Unread(h) == LET f == handle[h].rd IN
  f # None /\ fdt[f] \in Inodes /\ handle[h].pos < Len(data[fdt[f]])

\* readsome on an empty buffer: the filebuf reads ahead, up to n.
ReadOut(h) ==
  LET c == data[fdt[handle[h].rd]] k == handle[h].pos IN
  /\ At(h, "copyOut") /\ handle[h].buf = <<>> /\ Unread(h)
  /\ \E n \in k + 1..Len(c) :
       handle' = [handle EXCEPT ![h].pos = n, ![h].buf = SubSeq(c, k + 1, n)]
  /\ UNCHANGED <<remote, local, data, fdt, session, queue>>

\* Mutant: a block whose sftp_write went through is sent again.
CopyOutAgain(h) ==
  /\ At(h, "copyOut") /\ handle[h].buf # <<>> /\ session = "up"
  /\ remote' = [remote EXCEPT
       ![PathOf(h)] = WriteAt(@, handle[h].wpos, Head(handle[h].buf))]
  /\ UNCHANGED <<local, data, fdt, session, handle, queue>>

\* sftp_write of the next block of the buffer.  Its result is ignored; a block
\* it fails to write is skipped and the remote offset stays.
CopyOut(h) ==
  LET w == handle[h].wpos IN
  /\ At(h, "copyOut") /\ handle[h].buf # <<>>
  /\ \/ /\ session = "up"
        /\ remote' = [remote EXCEPT ![PathOf(h)] = WriteAt(@, w, Head(handle[h].buf))]
        /\ handle' = [handle EXCEPT ![h].wpos = w + 1, ![h].buf = Tail(@)]
     \/ /\ SftpFault(h, "write")
        /\ handle' = [handle EXCEPT ![h].buf = Tail(@)]
        /\ UNCHANGED remote
  /\ UNCHANGED <<local, data, fdt, session, queue>>

\* readsome finds nothing, and the loop is over.
CopiedOut(h) ==
  /\ At(h, "copyOut") /\ handle[h].buf = <<>> /\ ~Unread(h)
  /\ Goto(h, "closeStream")
  /\ UNCHANGED <<remote, local, data, fdt, session, queue>>

\* localFile.close().
CloseStream(h) ==
  /\ At(h, "closeStream")
  /\ CloseFds({handle[h].rd})
  /\ handle' = [handle EXCEPT ![h].pc = "closeFh", ![h].rd = None]
  /\ UNCHANGED <<remote, local, session, queue>>

\* Mutants: fi->fh stays open; the local copy is not removed.
CloseFhSkipped(h) ==
  /\ At(h, "closeFh")
  /\ handle' = [handle EXCEPT ![h] =
       [Idle EXCEPT !.pc = "remove", !.path = PathOf(h)]]
  /\ UNCHANGED <<remote, local, data, fdt, session, queue>>
CloseFhKeepsCopy(h) ==
  /\ At(h, "closeFh")
  /\ CloseFds({handle[h].fh})
  /\ Finish(h)
  /\ UNCHANGED <<remote, local, session, queue>>

CloseFh(h) ==
  /\ At(h, "closeFh")
  /\ CloseFds({handle[h].fh})
  /\ handle' = [handle EXCEPT ![h] =
       [Idle EXCEPT !.pc = "remove", !.path = PathOf(h)]]
  /\ UNCHANGED <<remote, local, session, queue>>

RemoveLocal(h) ==
  /\ At(h, "remove")
  /\ Unlink(PathOf(h))
  /\ Finish(h)
  /\ UNCHANGED <<remote, fdt, session, queue>>

-----------------------------------------------------------------------------
\* The daemon dies and main runs again: descriptors, handles and the queue
\* are gone, both directories stay.  Besides being killed, it may die in any
\* use of a freed or raced session.
Crash ==
  /\ \/ "crash" \in Faults \/ session = "freed"
     \/ \E h \in Handles : Raced(h)
  /\ LET t == [f \in Fds |-> IF f = 0 THEN Stdin ELSE None]
     IN fdt' = t /\ data' = Reclaimed(local, t)
  /\ session' = "up"
  /\ handle' = [h \in Handles |-> Idle]
  /\ queue' = <<>>
  /\ UNCHANGED <<remote, local>>

Client(h) ==
  \/ \E p \in Paths, fl \in SUBSET {"creat", "trunc"} : Getattr(h, p, fl)
  \/ \E k \in 0..MaxLen - 1 : \E b \in Block : Write(h, k, b)
  \/ \E n \in 0..MaxLen : Ftruncate(h, n)
  \/ Close(h)
Request(h) == OpenRemote(h) \/ Create(h) \/ Truncate(h) \/ TakeRelease(h)
Handler(h) ==
  \/ GetattrLocal(h) \/ GetattrRemote(h)
  \/ OpenLocal(h) \/ OpenLocalFails(h) \/ ReadIn(h) \/ CopyIn(h) \/ CopyInFails(h)
  \/ CopiedIn(h) \/ CloseLocal(h) \/ FreeSession(h)
  \/ ReleaseOpen(h) \/ ReleaseOpenFails(h) \/ OpenStream(h) \/ ReadOut(h)
  \/ CopyOut(h) \/ CopiedOut(h) \/ CloseStream(h) \/ CloseFh(h) \/ RemoveLocal(h)

Next ==
  \/ \E h \in Handles : Client(h) \/ Request(h) \/ Handler(h)
  \/ \E p \in Paths, n \in 0..MaxLen : TruncatePath(p, n)
  \/ Crash

Spec == Init /\ [][Next]_vars

\* A thread that serves a request runs on, and libfuse takes every request out
\* of the kernel's queue in the end; clients owe nothing.
FairSpec ==
  /\ Spec
  /\ \A h \in Handles : WF_vars(Handler(h)) /\ SF_vars(Request(h))

-----------------------------------------------------------------------------
(* Properties.                                                             *)

\* A local copy is never left behind: some request that is under way, or some
\* open file, will still remove it in its release.  Left behind it would shadow
\* the remote file in every later getattr.
NoOrphan ==
  \A p \in Paths : local[p] # None =>
    \E h \in Handles : PathOf(h) = p /\ (HoldsFh(h) \/ At(h, "remove"))

\* The descriptors the handlers have open, as fi->fh or as the stream of a
\* release.
Held(h) == {f \in Fds : \/ HoldsFh(h) /\ f = handle[h].fh
                        \/ handle[h].pc \in StreamPC /\ f = handle[h].rd}

\* Every descriptor the daemon has open belongs to exactly one handle: no open,
\* failed open, release or reopen of the same name leaks one or closes the
\* descriptor of somebody else.
DescriptorsOwned ==
  \A f \in Fds : fdt[f] \in Inodes =>
    \E h \in Handles : f \in Held(h) /\ \A g \in Handles \ {h} : f \notin Held(g)

\* fi->fh names a local file, never stdin or a descriptor already closed.
HeldAreFiles == \A h \in Handles : \A f \in Held(h) : fdt[f] \in Inodes

\* Blocks written to one path never show up in another: not at the server, not
\* in a local copy, not through an open handle.
Clean(p, c) == \A k \in 1..Len(c) : c[k] \in BlocksOf[p] \cup {Zero}
Isolation ==
  /\ \A p \in Paths : /\ remote[p] # None => Clean(p, remote[p])
                      /\ local[p] # None => Clean(p, data[local[p]])
  /\ \A h \in Handles : \A f \in Held(h) :
       fdt[f] \in Inodes => Clean(PathOf(h), data[fdt[f]])

\* A file that exists, at the server or only locally, never vanishes: release
\* removes the local copy only after it has created the remote file, whatever
\* fails in between and wherever the daemon dies.
Present(p) == remote[p] # None \/ local[p] # None
PresenceKept == [][\A p \in Paths : Present(p) => Present(p)']_vars

\* A download ends with the local copy equal to the remote file, and an upload
\* that found the local copy ends with the remote file equal to it.
TransfersWhole ==
  [][\A h \in Handles :
       /\ At(h, "copyIn") /\ ~At(h, "copyIn")' =>
            data'[fdt[handle[h].fh]] = remote[PathOf(h)]
       /\ At(h, "copyOut") /\ At(h, "closeStream")' /\ handle[h].rd # None =>
            remote[PathOf(h)] = data[fdt[handle[h].rd]]]_vars

\* Clients that open a file one at a time get what CloseToOpen promises: the
\* asynchronous release, its block-by-block upload and the removal of the local
\* copy are invisible.  A handle that is being released counts as published.
Publishing(h) == handle[h].pc \in {"queued", "release", "openStream", "copyOut"}
IsOpen(h) == handle[h].pc \in {"toTrunc", "open"}
Seen(h) == data[fdt[handle[h].fh]]
Store == [p \in Paths |->
            IF \E h \in Handles : Publishing(h) /\ PathOf(h) = p
            THEN Seen(CHOOSE h \in Handles : Publishing(h) /\ PathOf(h) = p)
            ELSE remote[p]]
Copy == [h \in Handles |-> IF IsOpen(h) THEN Seen(h) ELSE None]
On == [h \in Handles |-> IF IsOpen(h) THEN PathOf(h) ELSE None]
Promise == INSTANCE CloseToOpen WITH store <- Store, copy <- Copy, on <- On
ImplementsCloseToOpen == Promise!Spec

\* Whatever other clients do, a closed file is released in the end, and an
\* open or create that was sent is answered.
ReleaseCompletes == \A h \in Handles : At(h, "queued") ~> At(h, "idle")
OpenCompletes ==
  \A h \in Handles : handle[h].pc \in {"toOpen", "toCreate", "toTrunc"} ~>
                       handle[h].pc \in {"open", "idle"}
=============================================================================
