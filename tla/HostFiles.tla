----------------------------- MODULE HostFiles -----------------------------
(***************************************************************************)
(* The file system under the directory that bbfs shows at its mount point: *)
(* what the system calls made by bbfs.c do to it.  It is one directory of  *)
(* names; directories made in it stay empty.                               *)
(*                                                                         *)
(* A file system is a record: fs.at maps a name to its inode, 0 if there   *)
(* is none, and fs.ino an inode to what it is.  The operators on calls     *)
(* return a result: the answer, an error or what the call reports, and the *)
(* file system after it.                                                   *)
(***************************************************************************)
EXTENDS Naturals, FiniteSets

CONSTANTS
  Names,    \* names in the directory
  Inodes,   \* bound: files alive at once, natural numbers without 0
  Contents  \* what a file may hold

\* The text of a new file, and of what has no text.
Blank == ""

ASSUME HostAssumption ==
  Inodes \subseteq Nat \ {0} /\ IsFiniteSet(Names) /\ Blank \in Contents

Kinds == {"file", "dir", "link", "fifo"}
Errors == {"ENOENT", "EEXIST", "EISDIR", "ENOTDIR", "EINVAL", "EPERM", "ELOOP",
           "ENODATA", "EMFILE", "ENOSPC", "ENOMEM", "EIO"}

\* An inode: text is a file's content or a link's target, attrs what has been
\* set of its mode, owner and times, and of its extended attributes.
Inode(kind, text) == [kind |-> kind, text |-> text, attrs |-> {}]
Unused == Inode("unused", Blank)

FileSystems ==
  [at : [Names -> Inodes \cup {0}],
   ino : [Inodes -> [kind : Kinds \cup {"unused"}, text : Contents \cup Names \cup {Blank},
                     attrs : SUBSET {"mode", "xattr"}]]]

Result(answer, fs) == [answer |-> answer, fs |-> fs]

Present(fs) == {n \in Names : fs.at[n] # 0}
Has(fs, n) == n \in Present(fs)
Kind(fs, n) == IF Has(fs, n) THEN fs.ino[fs.at[n]].kind ELSE "none"
Linked(fs) == {fs.at[n] : n \in Present(fs)}
NewInode(fs, i) == /\ fs.ino[i] = Unused
                   /\ \A j \in Inodes : fs.ino[j] = Unused => i <= j

\* An inode is gone with its last name and its last descriptor.
Reaped(fs, open) ==
  LET live == Linked(fs) \cup open IN
  [at |-> fs.at, ino |-> [i \in Inodes |-> IF i \in live THEN fs.ino[i] ELSE Unused]]

\* Following symbolic links; after as many hops as there are names it is a loop.
Hops(fs) == [n \in Names |-> IF Kind(fs, n) = "link" THEN fs.ino[fs.at[n]].text ELSE n]
Chase(hops, n) ==
  LET walk[k \in 0..Cardinality(Names)] == IF k = 0 THEN n ELSE hops[walk[k - 1]]
  IN walk[Cardinality(Names)]
Followed(fs, n) == Chase(Hops(fs), n)

Missing(fs, n) == IF Has(fs, n) THEN "ok" ELSE "ENOENT"
Unreached(fs, n) ==
  LET m == Followed(fs, n) IN
  IF Kind(fs, m) = "link" THEN "ELOOP" ELSE Missing(fs, m)

\* The call fails with error e, or else leaves the file system as new.
Unless(e, fs, new) == IF e = "ok" THEN Result("ok", new) ELSE Result(e, fs)

\* The names change; an inode changes.
Renamed(fs, at) == [at |-> at, ino |-> fs.ino]
Changed(fs, i, inode) == [at |-> fs.at, ino |-> [fs.ino EXCEPT ![i] = inode]]

\* Calls that only report.
Lstat(fs, n) == Result(IF Has(fs, n) THEN Kind(fs, n) ELSE "ENOENT", fs)
Readlink(fs, n) ==
  Result(IF ~Has(fs, n) THEN "ENOENT"
         ELSE IF Kind(fs, n) # "link" THEN "EINVAL" ELSE fs.ino[fs.at[n]].text, fs)
Access(fs, n) == Result(Unreached(fs, n), fs)
Llistxattr(fs, n) == Result(Missing(fs, n), fs)
Lgetxattr(fs, n) ==
  Result(IF ~Has(fs, n) THEN "ENOENT"
         ELSE IF "xattr" \in fs.ino[fs.at[n]].attrs THEN "ok" ELSE "ENODATA", fs)

\* Calls on names.  Make stands for mkdir, mkfifo, mknod, symlink and open with
\* O_CREAT and O_EXCL.
Make(fs, n, i, kind, text) ==
  Unless(IF Has(fs, n) THEN "EEXIST" ELSE "ok", fs,
         Changed(Renamed(fs, [fs.at EXCEPT ![n] = i]), i, Inode(kind, text)))
Unlink(fs, n) ==
  Unless(IF Kind(fs, n) = "dir" THEN "EISDIR" ELSE Missing(fs, n), fs,
         Renamed(fs, [fs.at EXCEPT ![n] = 0]))
Rmdir(fs, n) ==
  Unless(IF Has(fs, n) /\ Kind(fs, n) # "dir" THEN "ENOTDIR" ELSE Missing(fs, n), fs,
         Renamed(fs, [fs.at EXCEPT ![n] = 0]))
Rename(fs, p, q) ==
  Unless(IF ~Has(fs, p) \/ ~Has(fs, q) THEN Missing(fs, p)
         ELSE IF Kind(fs, p) # "dir" /\ Kind(fs, q) = "dir" THEN "EISDIR"
         ELSE IF Kind(fs, p) = "dir" /\ Kind(fs, q) # "dir" THEN "ENOTDIR" ELSE "ok", fs,
         IF fs.at[p] = fs.at[q] THEN fs
         ELSE Renamed(fs, [fs.at EXCEPT ![q] = fs.at[p], ![p] = 0]))
Link(fs, p, q) ==
  Unless(IF Kind(fs, p) = "dir" THEN "EPERM"
         ELSE IF Has(fs, p) /\ Has(fs, q) THEN "EEXIST" ELSE Missing(fs, p), fs,
         Renamed(fs, [fs.at EXCEPT ![q] = fs.at[p]]))

\* Calls on what a name leads to, or, the l- ones, on the name itself.
WithAttrs(fs, i, attrs) == Changed(fs, i, [fs.ino[i] EXCEPT !.attrs = attrs])
WithText(fs, i, text) == Changed(fs, i, [fs.ino[i] EXCEPT !.text = text])
SetAttr(fs, n) ==
  LET i == fs.at[Followed(fs, n)] IN
  Unless(Unreached(fs, n), fs, WithAttrs(fs, i, fs.ino[i].attrs \cup {"mode"}))
Lsetxattr(fs, n) ==
  Unless(IF Kind(fs, n) \in {"link", "fifo"} THEN "EPERM" ELSE Missing(fs, n), fs,
         WithAttrs(fs, fs.at[n], fs.ino[fs.at[n]].attrs \cup {"xattr"}))
Lremovexattr(fs, n) ==
  Unless(IF Kind(fs, n) \in {"link", "fifo"} THEN "EPERM" ELSE Lgetxattr(fs, n).answer, fs,
         WithAttrs(fs, fs.at[n], fs.ino[fs.at[n]].attrs \ {"xattr"}))
Truncate(fs, n) ==
  LET m == Followed(fs, n) IN
  Unless(IF Kind(fs, m) = "dir" THEN "EISDIR" ELSE IF Kind(fs, m) = "fifo" THEN "EINVAL"
         ELSE Unreached(fs, n), fs, WithText(fs, fs.at[m], Blank))

\* Can the name be opened for reading and writing?
Openable(fs, n) ==
  IF Kind(fs, Followed(fs, n)) = "dir" THEN "EISDIR" ELSE Unreached(fs, n)

\* Can the name be opened as a directory?
Listable(fs, n) ==
  IF Unreached(fs, n) = "ok" /\ Kind(fs, Followed(fs, n)) # "dir" THEN "ENOTDIR"
  ELSE Unreached(fs, n)

\* Calls on a descriptor, by its inode.
Pread(fs, i) == Result(fs.ino[i].text, fs)
Pwrite(fs, i, text) == Result("ok", WithText(fs, i, text))
Fstat(fs, i) == Result(fs.ino[i].kind, fs)
Fsync(fs, i) == Result("ok", fs)
=============================================================================
