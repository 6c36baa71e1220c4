--------------------------- MODULE ScpfsNamespace ---------------------------
(***************************************************************************)
(* The names of ulfs/scpfs.cpp: what its handlers do to the two trees of   *)
(* names they keep, LOCAL_DESTINATION and REMOTE_DESTINATION, and to the   *)
(* paths libfuse remembers for open files.  main() is here too: it starts, *)
(* fails, serves, is killed and is started again over the same two trees.  *)
(*                                                                         *)
(* Contents and threads are in Scpfs.  Here a request is one step, from    *)
(* the kernel's lookup to the answer: the daemon runs with -s.  The guards *)
(* on Getattr are those lookups.  A request that leaves the trees, the     *)
(* open files and the session as they were is no step: most failures, and  *)
(* utime, setxattr, listxattr, readlink, statfs and access.                *)
(***************************************************************************)
EXTENDS Naturals, Sequences, FiniteSets

CONSTANTS
  Names,     \* names clients use at the top of the mount point
  Subnames,  \* bound: names they use one directory below
  Hidden,    \* names libfuse gives to open files whose name is removed
  Handles,   \* open files
  Inodes,    \* bound: local files alive at once, natural numbers without 0
  Habits     \* the sets of UseKinds clients may restrict themselves to

UseKinds == {"sharing",   \* a file is opened while it is open
             "symlinks", "hardlinks", "nodes", \* symlink; link; mknod
             "subdirs",   \* mkdir, rmdir, files in directories
             "chmod",     \* files the daemon may not write
             "crash"}     \* the daemon is killed

ASSUME NamespaceAssumption ==
  /\ Habits \subseteq SUBSET UseKinds
  /\ Inodes \subseteq Nat \ {0}
  /\ Hidden \cap (Names \cup Subnames) = {}
  /\ IsFiniteSet(Names)

\* A path is a sequence of names; <<>> is the mount point itself.
TopPaths == {<<n>> : n \in Names}
SubPaths == {<<n, m>> : n \in Names, m \in Subnames \cup Hidden}
HiddenPaths == {<<n>> : n \in Hidden} \cup {<<n, m>> : n \in Names, m \in Hidden}
Paths == TopPaths \cup SubPaths \cup HiddenPaths
ClientPaths == Paths \ HiddenPaths
Parent(p) == SubSeq(p, 1, Len(p) - 1)
Under(p, q) == Len(p) <= Len(q) /\ SubSeq(q, 1, Len(p)) = p

VARIABLES
  phase,     \* how far main() has come, see Startup
  held,      \* what main() has acquired and nobody freed
  remote,    \* REMOTE_DESTINATION: path -> "none", "file" or "dir"
  local,     \* LOCAL_DESTINATION: path -> node
  readonly,  \* inodes whose mode keeps the daemon from writing them
  handle,    \* open files: the path of libfuse's node, the inode of fi->fh
  uses       \* what clients do in this behaviour; never changes

vars == <<phase, held, remote, local, readonly, handle, uses>>
daemon == <<phase, held, uses>>
files == <<remote, local, readonly, handle>>

Node(kind, i, to) == [kind |-> kind, ino |-> i, to |-> to]
Nothing == Node("none", 0, <<>>)
Dir == Node("dir", 0, <<>>)
Closed == [path |-> <<>>, ino |-> 0]

\* The calls of main(): what succeeds them, what they acquire, and what is
\* freed when they fail, before main() returns or aborts.
Step(to, gets, fails, frees) ==
  [to |-> to, gets |-> gets, fails |-> fails, frees |-> frees]
Startup ==
  [down          |-> Step("created", {"ssh"}, "failed", {}),
   created       |-> Step("connected", {"connection"}, "failed", {"ssh"}),
   connected     |-> Step("authenticated", {}, "failed", {"connection", "ssh"}),
   authenticated |-> Step("channel", {"sftp"}, "failed", {"connection", "ssh"}),
   channel       |-> Step("initialised", {}, "failed", {"sftp", "connection", "ssh"}),
   initialised   |-> Step("allocated", {"state"}, "aborted", {}),
   allocated     |-> Step("serving", {"log"}, "aborted", {})]
Over == {"failed", "aborted", "stopped", "killed"}
Phases == DOMAIN Startup \cup {"serving"} \cup Over
Resources == UNION {Startup[s].gets : s \in DOMAIN Startup}

-----------------------------------------------------------------------------
(* The local tree, the server's tree, and the handlers' view of the two.   *)

Uses(u) == u \in uses
Serving == phase = "serving"
SessionUp == "sftp" \in held
IsOpen(h) == handle[h].path # <<>>
OpenAt(p) == {h \in Handles : handle[h].path = p}
HasLocal(p) == local[p].kind # "none"
Empty(d) == \A p \in SubPaths : Parent(p) = d => ~HasLocal(p)

\* Where the local system calls end up that follow symbolic links.  All links
\* name top-level paths; after as many hops as there are paths it is a loop.
ResolvedIn(l, p) ==
  LET walk[n \in 0..Cardinality(TopPaths)] ==
        IF n = 0 THEN p
        ELSE IF l[walk[n - 1]].kind = "link" THEN l[walk[n - 1]].to ELSE walk[n - 1]
  IN IF l[p].kind # "link" THEN p ELSE walk[Cardinality(TopPaths)]
Resolved(p) == ResolvedIn(local, p)

\* file_exists_locally: access(2) follows links.
ExistsIn(l, p) == l[ResolvedIn(l, p)].kind \notin {"none", "link"}
Exists(p) == ExistsIn(local, p)

\* Mutant: the server is not asked.
GetattrOfLocal(p) == IF Exists(p) THEN local[p].kind ELSE "none"

\* What scpfs_getattr answers: lstat of the local name if access found it, else
\* sftp_stat, which fails without a session.
Getattr(p) == IF Exists(p) THEN local[p].kind
              ELSE IF SessionUp THEN remote[p] ELSE "none"
ParentShown(p) == Len(p) = 2 => Getattr(Parent(p)) = "dir"
Absent(p) == ParentShown(p) /\ Getattr(p) = "none"

\* Can a name be made at p in the local tree, or at the server?
LocalParent(p) == Len(p) = 2 => local[Parent(p)].kind = "dir"
RemoteParent(p) == Len(p) = 2 => remote[Parent(p)] = "dir"

\* Mutant: the local directory is listed.
ReaddirLocal(p) == HasLocal(p)

\* Does scpfs_readdir list p in its directory?
Readdir(p) == SessionUp /\ RemoteParent(p) /\ remote[p] # "none"

FreeInodes == {i \in Inodes : /\ \A p \in Paths : local[p].ino # i
                              /\ \A h \in Handles : handle[h].ino # i}
NewInode(i) == i \in FreeInodes /\ \A j \in FreeInodes : i <= j

\* The local tree becomes l and the open files hs; an inode that is gone has
\* no mode any more.
Becomes(l, hs) ==
  /\ local' = l /\ handle' = hs
  /\ readonly' = {i \in readonly : \/ \E p \in Paths : l[p].ino = i
                                   \/ \E h \in Handles : hs[h].ino = i}

\* Both trees are trees: what is below a directory is below a directory.
TypeOK ==
  /\ phase \in Phases /\ held \subseteq Resources /\ uses \in Habits
  /\ remote \in [Paths -> {"none", "file", "dir"}]
  /\ \A p \in Paths : local[p] \in [kind : {"none", "file", "fifo", "dir", "link"},
                                   ino : Inodes \cup {0}, to : TopPaths \cup {<<>>}]
  /\ readonly \subseteq Inodes
  /\ handle \in [Handles -> [path : Paths \cup {<<>>}, ino : Inodes \cup {0}]]
  /\ \A p \in Paths : /\ HasLocal(p) => LocalParent(p)
                      /\ remote[p] # "none" => RemoteParent(p)

\* The server has some tree of files; scpfs has never run here.
Init ==
  /\ uses \in Habits
  /\ remote \in [Paths -> {"none", "file", "dir"}]
  /\ \A p \in Paths :
       /\ p \in HiddenPaths => remote[p] = "none"
       /\ remote[p] = "dir" => p \in TopPaths /\ Uses("subdirs")
       /\ remote[p] # "none" => RemoteParent(p)
  /\ phase = "down" /\ held = {}
  /\ local = [p \in Paths |-> Nothing]
  /\ readonly = {}
  /\ handle = [h \in Handles |-> Closed]

-----------------------------------------------------------------------------
(* main().                                                                 *)

StartStep ==
  /\ phase \in DOMAIN Startup
  /\ phase' = Startup[phase].to
  /\ held' = held \cup Startup[phase].gets
  /\ UNCHANGED <<files, uses>>

\* Mutant: a failed sftp_init leaves the connection up.
StartFailsConnected ==
  /\ phase \in DOMAIN Startup
  /\ phase' = Startup[phase].fails
  /\ held' = held \ (Startup[phase].frees \ {x \in {"connection"} : SessionUp})
  /\ UNCHANGED <<files, uses>>

StartFails ==
  /\ phase \in DOMAIN Startup
  /\ phase' = Startup[phase].fails
  /\ held' = held \ Startup[phase].frees
  /\ UNCHANGED <<files, uses>>

\* fuse_main returns when the file system is unmounted; nothing is freed.
Unmount ==
  /\ Serving /\ \A h \in Handles : ~IsOpen(h)
  /\ phase' = "stopped"
  /\ UNCHANGED <<held, files, uses>>

\* Any sftp call on a freed session may also kill the daemon.
Kill ==
  /\ Serving /\ (Uses("crash") \/ ~SessionUp)
  /\ phase' = "killed"
  /\ Becomes(local, [h \in Handles |-> Closed])
  /\ UNCHANGED <<held, remote, uses>>

\* The process is gone, with all it held, and somebody starts another one.
\* Bound: only where clients have to live with daemons that die.
StartAgain ==
  /\ phase \in Over /\ Uses("crash")
  /\ phase' = "down" /\ held' = {}
  /\ UNCHANGED <<files, uses>>

-----------------------------------------------------------------------------
(* Open files.                                                             *)

\* The lookup found no name.  open(O_CREAT) follows a dangling link and then
\* makes the file the link names.
Create(h, p, ro) ==
  LET q == Resolved(p) IN
  /\ Serving /\ ~IsOpen(h) /\ Absent(p) /\ (ro => Uses("chmod"))
  /\ ~HasLocal(q) /\ LocalParent(q)
  /\ \E i \in Inodes :
       /\ NewInode(i)
       /\ local' = [local EXCEPT ![q] = Node("file", i, <<>>)]
       /\ handle' = [handle EXCEPT ![h] = [path |-> p, ino |-> i]]
       /\ readonly' = IF ro THEN readonly \cup {i} ELSE readonly
  /\ UNCHANGED <<remote, daemon>>

\* Mutant: the session is freed when the server does not have the file.
OpenFreesSession(h, p) ==
  /\ Serving /\ ~IsOpen(h) /\ ParentShown(p) /\ Getattr(p) = "file"
  /\ remote[p] = "none"
  /\ held' = held \ {"sftp"}
  /\ UNCHANGED <<files, phase, uses>>

\* The server has the file; the local file it is copied to is opened by name.
\* If that fails the session is freed.
Open(h, p) ==
  LET q == Resolved(p)
      writable == local[q].kind = "file" /\ local[q].ino \notin readonly
      new == ~HasLocal(q) /\ LocalParent(q) IN
  /\ Serving /\ ~IsOpen(h) /\ ParentShown(p) /\ Getattr(p) = "file"
  /\ Uses("sharing") \/ OpenAt(p) = {}
  /\ SessionUp /\ remote[p] = "file"
  /\ IF writable \/ new
     THEN /\ \E i \in Inodes :
               /\ IF writable THEN i = local[q].ino ELSE NewInode(i)
               /\ local' = [local EXCEPT ![q] = Node("file", i, <<>>)]
               /\ handle' = [handle EXCEPT ![h] = [path |-> p, ino |-> i]]
          /\ UNCHANGED <<held, remote, readonly>>
     ELSE held' = held \ {"sftp"} /\ UNCHANGED files
  /\ UNCHANGED <<phase, uses>>

\* Mutants of release: it uploads without looking at what sftp_open returned;
\* removes the local copy when it could not upload it; uploads only what the
\* server has already; returns before remove.
ReleaseAs(h, r, l) ==
  /\ Serving /\ IsOpen(h)
  /\ remote' = r
  /\ Becomes(l, [handle EXCEPT ![h] = Closed])
  /\ UNCHANGED daemon
WithoutCopy(h) == [local EXCEPT ![handle[h].path] = Nothing]
Uploaded(h) == [remote EXCEPT ![handle[h].path] = "file"]
CanUpload(h) == SessionUp /\ RemoteParent(handle[h].path)
ReleaseUnchecked(h) == SessionUp /\ ReleaseAs(h, Uploaded(h), WithoutCopy(h))
ReleaseDropsCopy(h) ==
  ReleaseAs(h, IF CanUpload(h) THEN Uploaded(h) ELSE remote, WithoutCopy(h))
ReleaseOldOnly(h) ==
  CanUpload(h) /\ ReleaseAs(h, remote, WithoutCopy(h))
ReleaseKeepsCopy(h) == CanUpload(h) /\ ReleaseAs(h, Uploaded(h), local)

\* scpfs_release: upload by the path libfuse has for the node now, then remove
\* of that path; neither if the remote file cannot be opened.  After the last
\* release of a hidden file libfuse has it unlinked.
Release(h) ==
  LET p == handle[h].path
      saved == SessionUp /\ RemoteParent(p) /\ remote[p] # "dir"
      r == IF saved THEN [remote EXCEPT ![p] = "file"] ELSE remote
      l == IF saved /\ (local[p].kind = "dir" => Empty(p))
           THEN [local EXCEPT ![p] = Nothing] ELSE local
      last == p \in HiddenPaths /\ OpenAt(p) = {h}
  IN
  /\ Serving /\ IsOpen(h)
  /\ remote' = IF last /\ ~ExistsIn(l, p) /\ SessionUp
               THEN [r EXCEPT ![p] = "none"] ELSE r
  /\ Becomes(IF last /\ ExistsIn(l, p) THEN [l EXCEPT ![p] = Nothing] ELSE l,
             [handle EXCEPT ![h] = Closed])
  /\ UNCHANGED daemon

-----------------------------------------------------------------------------
(* Names.                                                                  *)

\* What libfuse does before the name of an open file goes: the rename handler
\* moves the local copy to a free name beside it.
Hide(p, x) == x \in HiddenPaths /\ Parent(x) = Parent(p) /\ OpenAt(x) = {}
              /\ Getattr(x) = "none" /\ HasLocal(p)
Moved(p, x) == [local EXCEPT ![x] = local[p], ![p] = Nothing]
Following(p, x) ==
  [h \in Handles |-> IF h \in OpenAt(p) THEN [handle[h] EXCEPT !.path = x] ELSE handle[h]]

\* Mutant: the name goes at once although the file is open.
UnlinkOpen(p) ==
  /\ Serving /\ ParentShown(p) /\ Getattr(p) \in {"file", "fifo", "link"}
  /\ IF Exists(p)
     THEN Becomes([local EXCEPT ![p] = Nothing], handle) /\ UNCHANGED remote
     ELSE remote' = [remote EXCEPT ![p] = "none"] /\ UNCHANGED <<local, readonly, handle>>
  /\ UNCHANGED daemon

\* A name that is open is hidden; scpfs_unlink is for the others, and removes
\* the local name if access finds one, else the server's.
Unlink(p) ==
  /\ Serving /\ ParentShown(p) /\ Getattr(p) \in {"file", "fifo", "link"}
  /\ IF OpenAt(p) # {}
     THEN /\ \E x \in HiddenPaths : Hide(p, x) /\ Becomes(Moved(p, x), Following(p, x))
          /\ UNCHANGED remote
     ELSE IF Exists(p)
     THEN Becomes([local EXCEPT ![p] = Nothing], handle) /\ UNCHANGED remote
     ELSE remote' = [remote EXCEPT ![p] = "none"] /\ UNCHANGED <<local, readonly, handle>>
  /\ UNCHANGED daemon

\* A new name, which is made in the local tree only.
MakeLocal(p, node) ==
  /\ Serving /\ Absent(p)
  /\ ~HasLocal(p) /\ LocalParent(p)
  /\ local' = [local EXCEPT ![p] = node]
  /\ UNCHANGED <<remote, readonly, handle, daemon>>

\* For a regular file libfuse calls scpfs_create and scpfs_release instead.
Mknod(p) ==
  Uses("nodes") /\ \E i \in Inodes : NewInode(i) /\ MakeLocal(p, Node("fifo", i, <<>>))
Mkdir(p) == Uses("subdirs") /\ p \in TopPaths /\ MakeLocal(p, Dir)
\* The link's text is put below LOCAL_DESTINATION.
Symlink(from, p) ==
  Uses("symlinks") /\ \E i \in Inodes : NewInode(i) /\ MakeLocal(p, Node("link", i, from))
\* A second local name of the same file; there has to be a local copy.
HardLink(from, p) ==
  /\ Uses("hardlinks") /\ ParentShown(from)
  /\ Getattr(from) \in {"file", "fifo", "link"} /\ HasLocal(from)
  /\ MakeLocal(p, local[from])

\* Bound: a directory does not go while files in it are open, whose paths
\* libfuse would not know any more.
Deserted(d) == \A h \in Handles : IsOpen(h) => Parent(handle[h].path) # d

Rmdir(p) ==
  /\ Serving /\ Uses("subdirs") /\ p \in TopPaths /\ Getattr(p) = "dir" /\ Deserted(p)
  /\ local[p].kind = "dir" /\ Empty(p)
  /\ local' = [local EXCEPT ![p] = Nothing]
  /\ UNCHANGED <<remote, readonly, handle, daemon>>

\* The mode is that of the local copy; the server's is never changed.
Chmod(p) ==
  LET i == local[p].ino IN
  /\ Serving /\ Uses("chmod") /\ ParentShown(p) /\ Getattr(p) = "file" /\ Exists(p)
  /\ readonly' = IF i \in readonly THEN readonly \ {i} ELSE readonly \cup {i}
  /\ UNCHANGED <<remote, local, handle, daemon>>

\* rename(2) in the local tree l, with all there is below the name; two links
\* to one file stay as they are.
Rebased(p, q, x) == q \o SubSeq(x, Len(p) + 1, Len(x))
RenamedTree(l, p, q) ==
  IF l[p].ino # 0 /\ l[p].ino = l[q].ino THEN l
  ELSE [x \in Paths |->
          IF Under(q, x) /\ Rebased(q, p, x) \in Paths THEN l[Rebased(q, p, x)]
          ELSE IF Under(q, x) \/ Under(p, x) THEN Nothing ELSE l[x]]
RenamedHandles(hs, p, q) ==
  [h \in Handles |-> IF hs[h].path # <<>> /\ Under(p, hs[h].path)
                     THEN [hs[h] EXCEPT !.path = Rebased(p, q, @)] ELSE hs[h]]
CanRename(l, p, q) ==
  /\ l[p].kind # "none" /\ LocalParent(q)
  /\ l[q].kind # "none" => (l[p].kind = "dir") = (l[q].kind = "dir")
  /\ l[q].kind = "dir" => Empty(q)
Renaming(l, hs, p, q) ==
  IF CanRename(l, p, q) THEN Becomes(RenamedTree(l, p, q), RenamedHandles(hs, p, q))
  ELSE Becomes(l, hs)

\* libfuse hides a target that is open, then calls scpfs_rename, which renames
\* in the local tree; if that fails the target stays hidden.
Rename(p, q) ==
  /\ Serving /\ ParentShown(p) /\ ParentShown(q)
  /\ ~Under(p, q) /\ ~Under(q, p) /\ Deserted(q)
  /\ Getattr(p) # "none" /\ (Getattr(p) = "dir" => q \in TopPaths)
  /\ Getattr(q) # "none" => (Getattr(p) = "dir") = (Getattr(q) = "dir")
  /\ IF OpenAt(q) = {} THEN Renaming(local, handle, p, q)
     ELSE \E x \in HiddenPaths : Hide(q, x) /\ Renaming(Moved(q, x), Following(q, x), p, q)
  /\ UNCHANGED <<remote, daemon>>

-----------------------------------------------------------------------------
NameOp(p) ==
  \/ Unlink(p) \/ Mkdir(p) \/ Rmdir(p) \/ Mknod(p)
  \/ \E from \in TopPaths : Symlink(from, p)
  \/ \E from \in ClientPaths : HardLink(from, p)

Next ==
  \/ StartStep \/ StartFails \/ Unmount \/ Kill \/ StartAgain
  \/ \E h \in Handles : Release(h) \/ \E p \in ClientPaths :
       Open(h, p) \/ \E ro \in BOOLEAN : Create(h, p, ro)
  \/ \E p \in ClientPaths : NameOp(p) \/ Chmod(p) \/ \E q \in ClientPaths : Rename(p, q)

Spec == Init /\ [][Next]_vars

-----------------------------------------------------------------------------
(* Properties.                                                             *)

\* Does a step name p, or a directory p is in, as what it makes or removes?
Naming(p) ==
  \/ NameOp(p) \/ \E h \in Handles, ro \in BOOLEAN : Create(h, p, ro)
  \/ \E q, r \in ClientPaths : (Under(q, p) \/ Under(r, p)) /\ Rename(q, r)

\* A name never vanishes from both sides unless a client removed or renamed it:
\* release removes a local copy only when the server has the file, also below
\* directories the server does not have, for hidden files and after restarts.
NamesKept ==
  [][\A p \in ClientPaths :
       (HasLocal(p) \/ remote[p] # "none") /\ ~(HasLocal(p) \/ remote[p] # "none")' =>
         Naming(p)]_vars

\* Without symbolic links, and without files opened twice where directories come
\* and go, opening, releasing, changing a mode, starting and dying never change
\* what getattr answers at any name, whichever side it comes from.  But when the
\* session comes up or is freed, by an open that fails for instance, names that
\* only the server has appear or vanish.
ViewStable ==
  [][~Uses("symlinks") /\ ~({"sharing", "subdirs"} \subseteq uses) =>
     \A p \in ClientPaths : Getattr(p)' # Getattr(p) =>
       \/ Naming(p)
       \/ SessionUp' # SessionUp /\ "none" \in {Getattr(p), Getattr(p)'}]_vars

\* When files are open once at a time and there are no symbolic links, the path
\* a release will upload and remove is the local name of the very file its
\* descriptor is open on, through renames of it, over it and of its directory,
\* and after its name was removed.
OwnCopy ==
  uses \cap {"sharing", "symlinks"} = {} =>
    \A h \in Handles : IsOpen(h) => local[handle[h].path].ino = handle[h].ino

\* Clients that only create, open, unlink and rename files leave nothing in the
\* local tree, and no hidden name at the server, but what an open file will
\* still release.
NothingLeftBehind ==
  uses \subseteq {"sharing"} =>
    /\ \A p \in Paths : HasLocal(p) => OpenAt(p) # {}
    /\ \A p \in HiddenPaths : remote[p] # "none" => OpenAt(p) # {}

\* For the same clients a directory lists just the names that can be found, but
\* for files that are open: readdir asks the server only, getattr both sides.
ListedIsFound ==
  uses \subseteq {"sharing"} /\ Serving =>
    \A p \in Paths : OpenAt(p) = {} => (Readdir(p) <=> Getattr(p) # "none")

\* Without directories, modes and symbolic links no open frees the session.
SessionKept == uses \cap {"subdirs", "chmod", "symlinks"} = {} /\ Serving => SessionUp

\* While the session works, no request gives a name to a file on one side that
\* is a directory on the other, where no upload or lookup could reach it.
KindsAgree ==
  \A p \in Paths : HasLocal(p) /\ remote[p] # "none" =>
                     (local[p].kind = "dir") = (remote[p] = "dir")
KindsKept == [][~Uses("symlinks") /\ SessionUp /\ KindsAgree => KindsAgree']_vars

\* A failed start has freed all it acquired, and what is served is served with
\* everything in place.
StartupFrees ==
  /\ phase = "failed" => held = {}
  /\ Serving => Resources \ {"sftp"} \subseteq held
=============================================================================
