# A verification of scpfs

`src/ulfs/scpfs.cpp` is a user-level file system: a FUSE daemon that shows the
directory `aos/lab2/` of an sftp server below a mount point. A file is copied
as a whole into `/tmp/aos/` when a client opens it, read and written there, and
copied back and removed when the kernel releases it. This directory models the
daemon in TLA+, checks it with TLC and proves what matters most with TLAPS.

## The system

| part | state | operations | talks to |
|---|---|---|---|
| data path (`scpfs_getattr`, `open`, `create`, `read`, `write`, `truncate`, `ftruncate`, `release`) | the remote directory, the local directory, the descriptor table, `sftpSession`, `fi->fh` of every open file | whole-file download at open, pread/pwrite on the local copy, whole-file upload and `remove` at release | kernel requests; libssh; local system calls |
| namespace handlers (`unlink`, `rename`, `link`, `symlink`, `mkdir`, `rmdir`, `mknod`, `chmod`, `chown`, `utime`, `setxattr`, `listxattr`, `readdir`, `access`, `readlink`, `statfs`) | the two directories | act on the local name, on the remote one, or on whichever `access` finds | the data path, through the two directories |
| startup (`main`) | `sshSession`, `sftpSession`, the log file | connect, authenticate, open the sftp channel, hand over to `fuse_main` | libssh, libfuse |
| unregistered handlers (`getxattr`, `opendir`, `releasedir`, `fsync`) | none | never called: `scpfs_oper` does not name them | |
| `log.c`, `log.h`, `params.h`, `config.h` | a log file | formatting; not used by `scpfs.cpp` | |
| client programs under `src/testing/` | their open files | open, read, write, truncate and close in loops | the mount point |
| `bbfs` in `src/fuse-tutorial-2018-02-04/`, the file system `scpfs.cpp` was written from | `rootdir`, the log file, `fi->fh` of open files and directories | every request passed on as a system call below `rootdir`, and logged | kernel requests; local system calls; `log.c` |

What makes the data path hard:

* *Concurrency.* `fuse_main` runs handlers in several threads unless `-s` is
  given. They share the local directory, the descriptor table and one
  `sftpSession`, and hold no lock.
* *Asynchrony.* There is no flush handler, so close(2) returns at once and
  RELEASE is handled later, beside the requests of other clients.
* *Names against descriptors.* `write` and `ftruncate` use `fi->fh`; `truncate`,
  the upload of `release` and its `remove` use the name.
* *Failure.* sftp calls fail without setting `errno`, the upload loop ignores
  errors, error paths of `open` free the shared session, the error path of
  `release` leaves descriptor and copy behind, and the daemon may die between
  any two calls.

What makes the names hard:

* *Two trees.* Some handlers act on the local tree only (`rename`, `link`,
  `mkdir`, `chmod`), some on the side `access` finds first (`getattr`, `unlink`),
  `readdir` on the server's only, and `release` moves a name from one to the
  other.
* *libfuse in between.* It hides an open file whose name goes, and a release
  gets the path the file has by then.
* *Leftovers.* After a crash, or a release that failed, local copies shadow the
  server's files.

What makes bbfs hard: several threads share one descriptor table; `bb_mknod`
and `bb_readdir` make several calls; and errors are read from `errno` after the
log has been written.

What makes each part correct:

* data path: a client that closes a file and opens it again finds what it
  wrote; no file vanishes; contents do not cross between files; descriptors are
  neither leaked nor shared; no local copy is left to shadow the remote file;
  every close is followed by its release and every open answered;
* namespace: what `getattr` shows is what the operation then acts on, and
  removing or renaming a name does so on the side the other handlers look at;
* startup: every exit frees exactly what was acquired;
* bbfs: a request is what the call of its name is, also with other requests
  between its calls; an open file stays the file that was opened; failure is
  never answered as success, but for a listing that `readdir(3)` cuts short; any
  other listing is complete.

## Modules

| module | what it is |
|---|---|
| `Content` | file contents as sequences of blocks: `WriteAt` (pwrite of one block) and `Resize` (truncate) |
| `Scpfs` | the data path, its properties, and the mutants each property is tested with |
| `CloseToOpen` | the abstract specification: open hands out a private copy, close publishes it in one step |
| `ScpfsClaims` | what comments and test programs of the repository say and the code does not do |
| `ScpfsNamespace` | the two trees of names, the paths libfuse keeps for open files, and `main` |
| `HostFiles` | the file system below bbfs: what the system calls it makes do |
| `Bbfs` | the handlers of `bbfs.c`, the error reporting of `log.c`, and `main` |
| `PassThrough` | the abstract specification of bbfs: every request one step |
| `MCScpfs`, `MCScpfsNamespace`, `MCBbfs` | constants for TLC |
| `ScpfsProofs` | type correctness, and that no file vanishes |
| `ScpfsOwnership` | who owns descriptors and inodes: isolation, no leaks, nothing left behind |
| `ScpfsTransfers` | that transfers move whole files, and that the data path implements `CloseToOpen` |
| `NamespaceProofs` | that no name vanishes but on request, and what a failed start has freed |
| `NamespaceInvariants` | the inductive invariants of `ScpfsNamespace`, and all its other properties |
| `HostFilesProofs` | what each system call keeps, and that it does the same on file systems that look the same |
| `BbfsProofs` | types, descriptors and listings of bbfs |
| `BbfsRefinement` | that bbfs implements `PassThrough` |

### Scpfs and the code

An action is one system call or sftp call, so handlers of different threads
interleave between any two calls. Only `sftp_close`, which changes neither side,
is not a step of its own: it goes with the call that follows it or, at the end of
`scpfs_open`, with the one before.

| state | in the code |
|---|---|
| `remote` | the files under `REMOTE_DESTINATION`; `None` where there is none |
| `local` | the directory `LOCAL_DESTINATION`, names to inodes |
| `data` | contents of the inodes; an inode outlives its name while a descriptor is open |
| `fdt` | the daemon's descriptor table; `open` takes the lowest free one, 0 starts as stdin |
| `session` | `sftpSession`; `"freed"` after `sftp_free` on an error path of `scpfs_open` |
| `handle` | one record per client open file: `pc` (the next call of its request), `path`, open flags, `fh` (`fi->fh`), and for a transfer `rd` (the ifstream), `pos` (blocks read), `wpos` (blocks written), `buf` (blocks read and not yet written: `buffer`, and in an upload also what the filebuf has read ahead) |
| `queue` | RELEASE requests that no thread has taken |

A handle goes through these labels:

    idle -> lstat | rstat                  scpfs_getattr (Getattr, GetattrLocal, GetattrRemote)
         -> toOpen -> openLocal -> copyIn  scpfs_open (OpenRemote, OpenLocal; ReadIn and CopyIn
                                           in turn; CopiedIn)
         -> toCreate                       scpfs_create (Create)
         -> toTrunc                        scpfs_truncate for O_TRUNC (Truncate)
         -> open                           Write, Ftruncate; Close
         -> queued -> release -> openStream -> copyOut -> closeStream -> closeFh
         -> remove -> idle                 scpfs_release (TakeRelease, ReleaseOpen, OpenStream;
                                           ReadOut and CopyOut in turn, CopiedOut; CloseStream,
                                           CloseFh, RemoveLocal)

The error paths of `scpfs_open` are `OpenLocalFails` and `CopyInFails` ->
`closeLocal` (`CloseLocal`), then `freeSession` (`FreeSession`). A short write
leaves a part of the block in the local file. `ReleaseOpenFails` is the error
return of `scpfs_release`; `TruncatePath` is truncate(2) by name. `scpfs_read`
changes no state.

What is taken from outside `src/`, as `scpfs.cpp` relies on it:

* The kernel looks a name up before it opens it, and keeps the directory locked
  from the lookup to the CREATE under O_CREAT. O_TRUNC arrives as SETATTR after
  OPEN, because `scpfs_oper` does not ask for atomic O_TRUNC; if that fails the
  kernel releases the file it opened.
* The kernel serves its queue in order. A request that waits for a RELEASE that
  was queued after it is the same behaviour as one where the client closes a
  little later, so `Ready` demands an empty queue.
* A failed lookup counts as "no such file": `access` has just set `errno` to
  ENOENT, which `-errno` then reports whatever the sftp error was. The other
  outcome, an error to the client, is a disjunct of `GetattrRemote`.
* A later sftp call on a freed session fails or kills the daemon: `sftp_free`
  has closed the channel, so no reply comes even if the freed memory still looks
  like a session. Calls of two threads inside libssh at once (fault `"race"`)
  work, fail or kill the daemon. Corrupted replies are not modelled.
* Page and attribute caches of the kernel are left out: every lookup and every
  write reaches the daemon. So are the kernel's limits on background requests.

Abstractions: contents are blocks, one per iteration of a copy loop (8192 bytes
in, 1024 out) or pwrite; permissions, times and log output are left out.

### Faults and client disciplines

`Faults` names what may go wrong in a run: `"stat"`, `"open"`, `"read"`,
`"write"` (the sftp call fails), `"localOpen"`, `"localWrite"`, `"limits"`
(descriptors or inodes run out), `"errno0"` (a failed `sftp_open`, or a short
write, is reported by a thread whose `errno` is 0), `"race"`, `"crash"` (the
daemon dies and is started again: descriptors and requests are gone, both
directories stay). Neither libssh nor a short write sets `errno`, and the lookup
before an open leaves ENOENT there when the file is not local. So `"errno0"`
needs a second thread, one in which no call has failed yet, to serve the open
(`ErrnoClear`); with one thread it changes nothing.

`Sharing` says which opens clients attempt: `"shared"` any; `"exclusive"` none
of a file that is open; `"patient"` none of a file whose last release has not
been answered either.

### ScpfsNamespace and the code

Requests are atomic here, from the lookup to the answer: the daemon runs with
`-s`. What threads and half-done transfers do to one file is in `Scpfs`; here
are the names, and contents are left out.

| state | in the code |
|---|---|
| `phase`, `held` | how far `main` has come, and what it acquired and nobody freed; `"sftp"` goes when an error path of `scpfs_open` frees the session |
| `remote`, `local` | the two trees, paths to nodes; a local node has an inode, so that hard links and open files can be told |
| `readonly` | files whose local mode keeps the daemon from opening them for writing |
| `handle` | open files: the path libfuse has for the node, and the inode `fi->fh` is open on |
| `uses` | what clients do in this behaviour, one of `Habits` |

An action is a handler with the kernel's lookup before it: `Create`, `Open`,
`Release`, `Unlink`, `Mknod`, `Mkdir`, `Rmdir`, `Symlink`, `HardLink`, `Chmod`,
`Rename`. `Mknod` is that of a fifo: because there is a create handler, libfuse
serves mknod of a regular file as create and release. `Getattr` and `Readdir` are what those two answer. `Startup` is the
table of the calls of `main`, with what each acquires and what is freed when it
fails; `StartStep` and `StartFails` go through it. `Unmount`, `Kill` and
`StartAgain` end a daemon and begin the next one over the same trees.

Outside `src/`: libfuse hides an open file when its name is removed or renamed
over (`Hide`), by calling the rename handler, and unlinks the hidden name after
the last release; the paths of open files follow renames. A rename of or into
directories follows POSIX. Bounds: directories are one deep, one hidden name
for each, links name top-level paths, and a directory does not go while files in
it are open (libfuse would release those without a path).

What the properties exclude, the code does not do:

* `NamesKept` exempts the names that a request is about, even if it fails. When
  a file is renamed over an open one and `scpfs_rename` fails, because the source
  is only at the server, libfuse has hidden the open file already; its last
  release uploads it under the hidden name and libfuse then unlinks that. The
  file is lost.
* `ViewStable`, `KindsKept`, `OwnCopy` exclude symbolic links: create and open
  through a link act on another name than the release will.
* `ViewStable` excludes files open twice together with directories: after a
  rename of a local directory over one of the server's, the second release can
  bring back a name. It says what `scpfs_getattr` answers also without a session,
  and there the answer does change: an open that fails locally frees the session,
  and all names that only the server has vanish until the daemon is started
  again. The property says that nothing else changes an answer.
* `OwnCopy` excludes files open twice: the first release removes the copy of
  all.
* `NothingLeftBehind` and `ListedIsFound` hold for clients that create, open,
  unlink and rename files. What mkdir, mknod and link make is never listed, since
  `scpfs_readdir` asks the server and those handlers do not tell it.
* `SessionKept` excludes directories (the server's directories do not exist
  locally, so opening a file in one fails and frees the session), chmod (a copy
  that cannot be written fails the same way) and symbolic links (they may lead to
  where nothing can be made).

### Bbfs and the code

| state | in the code |
|---|---|
| `phase`, `rootdir` | how far `main` has come; `"null"` when `realpath` failed, which is not checked: the first request with a path then crashes |
| `fs` | the directory below `rootdir`: names, inodes, contents, attributes |
| `fdt`, `fh` | the descriptor table, and `fi->fh` of open files |
| `making` | a thread in `bb_mknod` between open and close |
| `dir` | an open directory: its descriptor, which directory it is (`of`: 0 for `rootdir`, or the inode of a subdirectory), the thread that reads it, what `readdir(3)` returned, what the filler got, whether `readdir(3)` has failed (`cut`); `due` and `may`, the entries that have been there all the time and at some time. `"."` stands for itself and `".."` |
| `errno` | whether a thread's `errno` is set; only a second `bb_readdir` reads an old one |
| `reply` | the last answer, with the request it answers |

A handler with one system call is one action, because the rest of what it does
is local to its thread. `Mknod` and `MknodClose`, and the actions of `bb_readdir`,
are the handlers with several. The first call of `readdir(3)` is `Readdir`, or
`ReaddirFails` if it returns NULL, for an error or because the directory has been
removed and is empty: `errno` is answered. The later ones are `ReaddirNext`, and
`ReaddirCut` if one fails. `ReaddirEnds` is what NULL does then: whether the
directory has come to its end or the call failed, the answer is success.
`ReaddirFull` is a filler that refuses, `ReaddirAgain` a second reading.
`opendir` of a subdirectory succeeds, of a name that is gone, a file, a fifo, a
link to one or a full descriptor table it fails (`OpendirFails`). `LogSyscall` is `log_syscall`:
it saves `errno` around the first log line, but reads it after the second, so a
client may be told the log's error; `LogError` is `log_error`, which reads it
first. `PassThrough` allows exactly that. It says what every request is answered,
with one exception: `readdir` may be answered anything there, and what a listing
has is `ListingComplete`'s subject.

Outside `src/`: `HostFiles` is POSIX for one directory whose subdirectories stay
empty; all files are opened for reading and writing; close, read, write and sync
do not fail, and of the others only with the errors that the state explains
(`readdir(3)` may always fail); nobody changes the directory beside the mount
point. libfuse lets
one request at a time use a directory handle and does not rewind the DIR.

Three things the code does that its comments do not say, found while modelling.
When `readdir(3)` fails after the first entry (`ReaddirCut`), the names read so far
are answered as the whole directory, with success; the comment at `bbfs.c:624`
says of NULL in the loop that it "just means I've read the whole directory". So
`ListingComplete` asks for every name only of a listing that was not cut, and of
any listing that it has none that was not there. A second reading of an open
directory (rewinddir) starts where the first ended: `readdir(3)` returns NULL at
once, and `bb_readdir` answers an old error, or success with no names. Its comment (`bbfs.c:612`) takes NULL for an error. After a
failed open `fi->fh` is the negated error and not -1 as the comment at
`bbfs.c:302` says; libfuse does not use it.

## Runs

The instances of `MCScpfs` have two handles and two local inodes. Two handles are enough for
every pair of requests to meet; a third only adds a bystander. Two paths where
files can be mixed up or compete for descriptors; one, with every interleaving
of two handles on it, where a property is about one file and its transfers.
`MaxLen` bounds files: with 1 a copy can be interrupted before and after its
block, with 2 also between blocks, which `TransfersWhole` and the refinement
need. `Fds` bounds descriptors: one for stdin and two for each handle where they
must not run out, two in all where they must. The server starts with a file at
`pa` and none at `pb`; with one path it may or may not have the file.

Where handles are a symmetry set nothing in the specification tells them apart:
no CHOOSE ranges over them and no liveness property is checked. Inodes are not
symmetric, since `OpenFile` chooses one.

| run | instance | shows |
|---|---|---|
| `patient` | 2 threads, `"patient"`, 2 paths, 2 blocks | `ImplementsCloseToOpen`: the data path refines `CloseToOpen`, for clients that wait for the answer of a release before they open the file again. What happens to those that do not is `reopen_races_release`. With one thread nobody can overtake a release and the refinement holds for `"exclusive"` clients too; `OneOpenerIsPromised` proves that |
| `one_thread` | 1 thread, `"shared"`, 1 path, 2 blocks, fair | `TransfersWhole`: every transfer moves a whole file, however often it is open; `ReleaseCompletes`, `OpenCompletes`. With one thread nobody changes the files while a loop runs |
| `threads` | 2 threads, `"shared"`, 2 paths, 1 block | `TypeOK`, `NoOrphan`, `DescriptorsOwned`, `HeldAreFiles`, `Isolation` |
| `server_faults` | 2 threads, `"exclusive"`, 2 paths, failing sftp calls, 2 descriptors | `HeldAreFiles`, `Isolation`: leaks lead to exhausted descriptors, those to a freed session, but never to data in the wrong file |
| `local_faults` | 2 threads, `"shared"`, 1 path, failing local calls, `"errno0"`, `"race"`, crashes | `PresenceKept`: the file is still there. Its contents may be lost, so the blocks are all zeros |
| `namespace` | 2 top-level names, one name below them, one hidden name, 2 handles, 3 inodes, all server trees to begin with | the properties of `ScpfsNamespace`. Two names are what rename and link need; two handles, a file open twice or two files; three inodes, two open files whose names are gone and a new one |
| `bbfs` | 2 threads, 2 names, 2 open files, 2 descriptors, 2 inodes, an error of the log | `ImplementsPassThrough`, `DescriptorsOwned`. Two threads are enough for a request between the two calls of another; two descriptors, for the table to be full with any two of its holders |
| `bbfs_listing` | 2 threads, 2 names, 1 open directory, 2 descriptors, 2 inodes; clients list directories and make and remove names and directories | `ListingComplete`, of the mount point and of directories in it, which may be removed while they are read; `DescriptorsOwned` and `ImplementsPassThrough` with the requests on directories |

In these three runs a behaviour begins with the choice of what clients do in it
(`Habits`), each kind of use alone or with those it meets badly; everything at
once would only multiply the states. `CHECK_DEADLOCK FALSE`, since both programs
end.

The four runs below look for a counterexample and find one: the code does not do
what a comment or a test program says.

| run | instance | finds |
|---|---|---|
| `second_close_empties` | 1 thread, file open twice | the second release truncates the remote file and has nothing to upload: the first has removed the copy both handles named |
| `failed_write_lost` | 1 thread, sftp_write fails | the error is ignored and the only whole copy removed |
| `reopen_races_release` | 2 threads, no faults | close, then open of the same file: the open meets its own release half way and fails |
| `stale_errno_opens_stdin` | 2 threads, `"errno0"` | one thread serves the lookup and another one, in which no call has failed yet, the open; `sftp_open` fails, `-errno` is 0, and the open succeeds with `fi->fh` 0 |

A release whose `sftp_open` fails also leaks its descriptor, against the comment
"Close the local temporary file" (`scpfs.cpp:356`): one error return,
`ReleaseOpenFails`, and no run of its own.

Deadlock is checked in all runs of `MCScpfs`.

### Fairness

`FairSpec` gives weak fairness to the steps of a handler (a thread that serves a
request is scheduled by the operating system). It gives strong fairness to the
start of a request: `Ready` comes and goes with the other requests, and the
kernel's queue is first in, first out, so a request that can be taken again and
again is taken. Clients owe nothing: nothing says that an
open file is ever closed. `one_thread` uses it without faults; with them the
daemon may die, and then nothing is answered. With several threads liveness is
not checked: a client that appends to a file as fast as a loop copies it would
keep the loop going, and no fairness of the daemon's excludes that.

## Proofs

The theorems hold for all values of the constants that satisfy the assumptions of
their module: `ScpfsAssumption` and `ZeroIsBlock`; `NamespaceAssumption`, which
asks that inodes are positive numbers, hidden names no client's, and the set of
names at the top finite; `HostAssumption` and `BbfsAssumption`, which ask that
names and descriptors are finite sets, inodes and descriptors positive numbers,
and the errors of the log errors.

### The data path

`ScpfsProofs`:

* `TypeCorrect`: `Spec => []TypeOK`. `TypeOK` is not inductive. The step that
  takes a RELEASE off the queue needs that what is queued is a handle with label
  `"queued"`, and only once (`QueueOK`); the steps of a transfer need that the
  remote file exists (`HasRemote`). `TInv` is the conjunction of the three.
* `FilesKept`: `Spec => PresenceKept`. `DirectoryChanges` lists the five actions
  that change what exists where; of these only `RemoveLocal` takes something
  away, and `HasRemote` says that the server has the file then.

`MovedKeeps` carries most of the proof: a step that moves one handle keeps
`TInv` if the record it leaves is well typed, its files are, and no remote file
vanishes.

`ScpfsOwnership`:

* `HandlesAreFiles` and `PathsIsolated`: `Spec => []HeldAreFiles` and
  `Spec => []Isolation`, for all faults but `"errno0"` with more than one thread
  (`~ErrnoClear`). That has to be excluded: it gives a handle descriptor 0, whoever
  gets that next, and `stale_errno_opens_stdin` is the counterexample. Isolation is not inductive: a
  write goes to the inode behind a descriptor, so nothing may lead to that inode
  from another path. `Own` says this (`OnePath`, about `Names(i)`, the paths
  that lead to inode `i` by name or through a descriptor in use), with
  `NotShared` (no descriptor is used by two handles, so that closing one's own
  never redirects another's), `HeldAreFiles` (what is in use is never free, so
  that it is never handed out again) and `StreamInRelease`. Descriptors that
  leaked and copies left behind do no harm here: they keep an inode from being
  reused, or lead to it from the one path it belongs to.
* `NoCopyLeft` and `DescriptorsBelong`: `Spec => []NoOrphan` and
  `Spec => []DescriptorsOwned` when `Faults = {}`. `Tidy` adds that the session is
  up, that every descriptor on a local file is in use, and that every local copy
  has a handle at a label from which the only way to `idle` removes it. `Own` is
  needed once more: the error path of a download, which would free the session,
  is not taken because `fi->fh` is a local file.

A step either takes nothing new (`ShrinkKeeps`), or gives one handle a free
descriptor on an inode that only its own path leads to (`GainKeeps`); all
actions are instances of these two.

`ScpfsTransfers` assumes `Faults = {}`. TLC checked its invariants before they were
proved, on the instances of `patient` and `one_thread` and on that of `patient` with
one thread and `"exclusive"`.

* `TransfersAreWhole`: `Spec => TransfersWhole` under `Quiet`, that is with one
  thread and any clients, or with any number of threads and `"patient"` clients.
  Otherwise a second open truncates the local copy that a release is reading. The
  invariant is `Calm`. `Progress` says for each label how far a transfer has come:
  the first `pos` blocks are there, and nothing else (`SoFar`), and what an upload has read and not yet sent is the part of the file
  that comes next (`Buffered`). `Apart` is why it
  stays so: with one thread no two handlers run at a time, with patient clients no
  two handles have one path. `Frame` then shows that a step for one handle leaves
  what another one sees, since by `Own` only its own path leads to an inode.
* `OneOpenerIsPromised`: `Spec => ImplementsCloseToOpen` under `OneOpener`: clients
  are `"patient"`, or they are `"exclusive"` and there is one thread. In the second
  case an open is served only when the queue is empty and no handler runs; whoever
  closed the file is done then, because it was in the queue (`Waits`) or with the
  thread. `AllLinked` adds to `Calm` that the local name of an open file leads to
  the inode of its descriptor. So the release, which reads the name, uploads what
  was written through the descriptor, and O_TRUNC, which acts on the name,
  truncates the file that was opened. The mapping is `Store`, `Copy` and `On`: a file
  shows what its last closed handle has until that has been uploaded, and the server's
  contents otherwise. There is one case for each action: the end of the download is
  the abstract `Open`, the local create is `Create`, writes and both
  truncations change the private copy, close(2) is `Close`; lookup, download, upload
  and removal are stutters. At the end of an upload the store stops being what the
  handle shows and becomes what the server has; `SoFarAll` says they are equal.

### The names

`NamespaceProofs`:

* `FailedStartsFree`: `Spec => []StartupFrees`. That a failed start holds nothing
  follows only if what it held before is exactly what that call's error path
  frees. `HoldsAll` says for each phase what `main` has acquired so far.
* `NamesAreKept`: `Spec => NamesKept`, for any names, habits and number of open
  files. The invariant is only that both trees are functions on all paths
  (`Trees`); the argument is in the steps. `Release` is the hard one
  (`ReleaseKeeps`): the local name it removes is the one it has just uploaded, and
  libfuse's last unlink is of a hidden name, which no client has. `RenameKeeps` is
  the other: libfuse may first hide the target, and what neither rename touches is
  below neither name.

`NamespaceInvariants` proves every other property. Its parts are operators on the
trees and the open files, because a rename over an open file is two moves
(libfuse hides the target first) and each part is carried through both. TLC
checked all of them together, on the instance of `namespace`, before they were
proved.

* `NamespaceTyped`: `Spec => []TypeOK`, from `Sound`. A tree stays one because
  nothing is made below what is no directory and no directory goes while something
  is below it. For the local tree the second has a hard case: libfuse puts a hidden
  name, and a release looks for one, below the directory of the open file, so an
  open file must keep its directory (`OpenFiles`). The other is a rename over an
  open name, which hides that name and leaves the tree broken below it if the
  second rename fails (`Rooted`). `Found` excludes that the name is a directory's: as
  long as the session works the name of an open file is neither free nor a
  directory. After the session is lost it can be, but then the second rename does
  not fail.
* `ReleaseHasItsCopy`: `Spec => []OwnCopy`, from `Owned`: open files have different
  paths, and the name there has the inode that is open. It is kept only because
  libfuse renames every open path that a rename moves, and hides what a rename
  would drop.
* `KindsAreKept`: `Spec => KindsKept`. The step that makes a name on one side has
  looked at both, unless it is a release, which uploads a regular file to a name
  that by `Found` is no directory.
* `SessionIsKept`: `Spec => []SessionKept`, from `Steady`: without directories on
  either side (`Flat`) and without modes (`Writable`) an open finds its local copy,
  which it can write, or can make it, so the error path that frees the session is
  not taken.
* `NothingIsLeftBehind` and `WhatIsListedIsFound`: `Spec => []NothingLeftBehind` and
  `Spec => []ListedIsFound`, from `Tidy` and `Steady`. That every local name is that
  of an open file is not inductive. Two names of one inode would break it: rename(2)
  between them does nothing, so libfuse's path moves on and the old name stays.
  `Steady` is needed because a release without session uploads and removes nothing.
* `ViewsAreStable`: `Spec => ViewStable`. Without links `getattr` answers `Shown`,
  the local kind or else the server's, and without a session only the local kind
  (`GetattrShows`). So an answer changes because `Shown` does, or because the
  session comes or goes and there is no local copy. A release changes both sides
  at once, so it shows what was shown before only if that was a regular file:
  `Seen` says so where there are no directories, `Owned` where files are open one
  at a time. Neither holds with both, which is why the property excludes it.

No property needs what a chain of symbolic links leads to. `ResolvedIn` answers at
once for a name that is no link, so a proof that has excluded links needs no
induction on the hops; the chain itself is only model-checked.

### Bbfs

`HostFilesProofs` has one lemma per system call: it keeps the types and `Agree`, it
answers one of `Answers`, and on two file systems that agree on names and open
inodes it gives the same answer and leaves them so (`SameResult`).

`BbfsProofs`: the invariant is `Inv == Shapes /\ Live /\ Held /\ Listings`.

* `BbfsTyped`: `Spec => []TypeOK`. `TypeOK` says that what is unused is blank and
  what is used has a name or a descriptor; a close frees an inode when its last
  descriptor goes, so `Live` has to know which are open.
* `BbfsDescriptors`: `Spec => []DescriptorsOwned`. Each descriptor has one of three
  kinds of holder, open files, open directories and threads in `bb_mknod`. `Owners`
  puts them in one set and `Held` says that descriptors and holders correspond, one
  to one, and lead to what the holder is about. Then every action either takes a
  free descriptor (`Takes`), or gives one back (`Gives`), or leaves them.
* `BbfsListings`: `Spec => ListingComplete`. A listing in progress has what
  `readdir` returned, which is among what may be there, and what is due may be
  there (`Listings`). So a name made or removed meanwhile by another thread moves
  between `due` and `may` only. A listing ends with success when all that is due
  was returned, or when a call failed: then `cut` says so, and the property asks
  only that nothing was invented.

`BbfsRefinement`:

* `BbfsPassesThrough`: `Spec => ImplementsPassThrough`. The abstract file system is
  that of bbfs without the inodes that only a descriptor of a half-done `bb_mknod`
  reaches, so they `Agree`, and each call does the same on both (`Carries`). There
  is one case for each action: it is the request of its name. Of the two calls of
  `bb_mknod` the open is the request, and the close gives the answer still owed.
  What changes nothing that can be reached or answered is a stutter. The answers
  of `readdir` are the one thing the abstract system leaves open. `Held` is needed: were a
  descriptor closed by another holder, `fi->fh` would lead to another file, and
  the request would be another one.

### Model-checked only

* `ReleaseCompletes` and `OpenCompletes`: liveness; the prover has no rule for
  fairness and ENABLED. All other properties of the passing runs are proved.
* What a chain of symbolic links leads to, as said above.

## Plan

1. *Done:* the data path, its abstract specification, faults, and the proofs of
   its state invariants.
2. *Done:* the names and `main` (`ScpfsNamespace`); bbfs and its refinement.
3. Composition of `Scpfs` and `ScpfsNamespace`: a rename or unlink between two
   steps of a transfer, with threads.
4. `ReadSome`: the upload loop on byte counts of 32 bits, against a reference
   definition of the loop that copies the whole file.
5. *Done:* the state invariants and action properties of `ScpfsNamespace`, the
   invariants of bbfs, and its refinement of `PassThrough`.
6. *Done:* `TransfersWhole`, from one invariant on how far a transfer has come, and
   on it the refinement of `CloseToOpen`.

## Not modelled

`log.c`, `log.h`, `params.h` and `config.h` under `src/ulfs` are the tutorial's and
not used by `scpfs.cpp`; the functions of the tutorial's `log.c` that print structs
only format lines. The handlers that `scpfs_oper` does not register are never
called. `chown`, `utime` and `setxattr` of scpfs change attributes of the local
copy that no property is about. The timing and output of the test programs are
left out; what they open, write and close are the client actions of `Scpfs`.
