--------------------------- MODULE HostFilesProofs ---------------------------
(***************************************************************************)
(* Lemmas on the calls of HostFiles: each keeps a file system a file       *)
(* system, and does to what can be reached, by a name or an open file, and *)
(* answers about it, the same whatever is there besides.                   *)
(***************************************************************************)
EXTENDS HostFiles, TLAPS

\* Two file systems that agree on all names and on all inodes that have a name
\* or are open; none of these is unused.
Agree(f, g, open) ==
  /\ f \in FileSystems /\ g \in FileSystems
  /\ f.at = g.at
  /\ \A i \in Inodes : i \in Linked(f) \cup open => f.ino[i] = g.ino[i] /\ f.ino[i].kind \in Kinds

\* A call that does the same to both, with the same answer.
Answers == Errors \cup Kinds \cup Contents \cup Names \cup {"ok"}
SameResult(r, s, open) ==
  r.answer = s.answer /\ r.answer \in Answers /\ Agree(r.fs, s.fs, open)

\* 0 stands for no inode.
LEMMA ZeroIsNoInode == 0 \notin Inodes
  BY HostAssumption

\* What has a name has an inode, which is linked.
LEMMA HasInode ==
  ASSUME NEW f \in FileSystems, NEW n, Has(f, n)
  PROVE  n \in Names /\ f.at[n] \in Inodes /\ f.at[n] \in Linked(f)
  BY DEF FileSystems, Has, Linked, Present

\* Reaping: what remains is a file system, agrees with what was, and only
\* depends on what can be reached; more may be reaped again.
LEMMA ReapedAgrees ==
  ASSUME NEW f \in FileSystems, NEW open
  PROVE  /\ Reaped(f, open) \in FileSystems
         /\ Agree(f, f, open) => Agree(f, Reaped(f, open), open)
<1>1. Unused \in [kind : Kinds \cup {"unused"}, text : Contents \cup Names \cup {Blank},
                  attrs : SUBSET {"mode", "xattr"}]
  BY DEF Unused, Inode
<1> DEFINE node == [kind : Kinds \cup {"unused"}, text : Contents \cup Names \cup {Blank},
                    attrs : SUBSET {"mode", "xattr"}]
<1>2. f.ino \in [Inodes -> node] /\ f.at \in [Names -> Inodes \cup {0}]
  BY DEF FileSystems
<1> HIDE DEF node
<1>3. Reaped(f, open).ino \in [Inodes -> node]
  BY <1>1, <1>2 DEF Reaped, node
<1>4. Reaped(f, open) \in FileSystems
  BY <1>2, <1>3 DEF FileSystems, Reaped, node
<1> QED
  BY <1>4 DEF Agree, Reaped

\* What can be reached decides what is left.
LEMMA AgreeReaped ==
  ASSUME NEW f, NEW g, NEW open, Agree(f, g, open)
  PROVE  Reaped(f, open) = Reaped(g, open)
<1>1. Linked(f) = Linked(g)
  BY DEF Agree, Linked, Present
<1> QED
  BY <1>1 DEF Agree, Reaped

\* Reaping more after less is reaping more at once.
LEMMA ReapedTwice ==
  ASSUME NEW f \in FileSystems, NEW less, NEW more, less \subseteq more \cup {0}
  PROVE  Reaped(Reaped(f, more), less) = Reaped(f, less)
<1> DEFINE g == Reaped(f, more)
<1>1. g.at = f.at /\ Linked(g) = Linked(f)
  BY DEF Reaped, Linked, Present
<1>2. \A i \in Inodes : i \in Linked(f) \cup less => g.ino[i] = f.ino[i]
  BY ZeroIsNoInode DEF Reaped
<1> HIDE DEF g
<1>3. Reaped(g, less) = Reaped(f, less)
  BY <1>1, <1>2 DEF Reaped
<1> QED
  BY <1>3 DEF g

-----------------------------------------------------------------------------
(* What is read of a name or an open file is the same in both.             *)

\* Which names there are, and what they are.
LEMMA SameNames ==
  ASSUME NEW f, NEW g, NEW open, Agree(f, g, open), NEW n
  PROVE  /\ Has(f, n) <=> Has(g, n)
         /\ Present(f) = Present(g) /\ Linked(f) = Linked(g)
         /\ Has(f, n) => f.ino[f.at[n]] = g.ino[g.at[n]] /\ f.at[n] \in Inodes
         /\ Kind(f, n) = Kind(g, n)
         /\ Missing(f, n) = Missing(g, n)
<1>1. Present(f) = Present(g) /\ Linked(f) = Linked(g)
  BY DEF Agree, Present, Linked
<1>2. Has(f, n) <=> Has(g, n)
  BY <1>1 DEF Has
<1>3. Has(f, n) => f.ino[f.at[n]] = g.ino[g.at[n]] /\ f.at[n] \in Inodes
  BY HasInode DEF Agree
<1>4. Kind(f, n) = Kind(g, n)
  BY <1>2, <1>3 DEF Kind
<1>5. Missing(f, n) = Missing(g, n)
  BY <1>2 DEF Missing
<1> QED
  BY <1>1, <1>2, <1>3, <1>4, <1>5

\* Where names lead.
LEMMA SameFollowed ==
  ASSUME NEW f, NEW g, NEW open, Agree(f, g, open), NEW n
  PROVE  Followed(f, n) = Followed(g, n) /\ Unreached(f, n) = Unreached(g, n)
<1>1. Hops(f) = Hops(g)
  <2>1. ASSUME NEW m \in Names PROVE Hops(f)[m] = Hops(g)[m]
    <3>1. Kind(f, m) = Kind(g, m) /\ Has(f, m) => f.ino[f.at[m]] = g.ino[g.at[m]]
      BY SameNames
    <3>2. Kind(f, m) = "link" => Has(f, m)
      BY DEF Kind
    <3> QED
      BY <3>1, <3>2, SameNames DEF Hops
  <2> QED
    BY <2>1 DEF Hops
<1>2. Followed(f, n) = Followed(g, n)
  BY <1>1 DEF Followed
<1>3. Kind(f, Followed(f, n)) = Kind(g, Followed(f, n))
      /\ Missing(f, Followed(f, n)) = Missing(g, Followed(f, n))
  BY SameNames
<1> QED
  BY <1>2, <1>3 DEF Unreached

-----------------------------------------------------------------------------
(* Calls that only report.                                                 *)

\* What calls answer about a name that is missing.
LEMMA MissingAnswer ==
  ASSUME NEW f, NEW n
  PROVE  Missing(f, n) \in {"ok", "ENOENT"} /\ Unreached(f, n) \in {"ok", "ENOENT", "ELOOP"}
  BY DEF Missing, Unreached

\* lstat, readlink, access, the reports on attributes; may it be opened?
LEMMA SameReport ==
  ASSUME NEW f, NEW g, NEW open, Agree(f, g, open), NEW n
  PROVE  /\ SameResult(Lstat(f, n), Lstat(g, n), open)
         /\ SameResult(Readlink(f, n), Readlink(g, n), open)
         /\ SameResult(Access(f, n), Access(g, n), open)
         /\ SameResult(Llistxattr(f, n), Llistxattr(g, n), open)
         /\ SameResult(Lgetxattr(f, n), Lgetxattr(g, n), open)
         /\ Openable(f, n) = Openable(g, n) /\ Listable(f, n) = Listable(g, n)
<1>1. /\ Has(f, n) <=> Has(g, n)
      /\ Has(f, n) => f.ino[f.at[n]] = g.ino[g.at[n]]
      /\ Kind(f, n) = Kind(g, n) /\ Missing(f, n) = Missing(g, n)
  BY SameNames
<1>2. Followed(f, n) = Followed(g, n) /\ Unreached(f, n) = Unreached(g, n)
  BY SameFollowed
<1>3. Kind(f, Followed(f, n)) = Kind(g, Followed(f, n))
  BY SameNames
<1>4. Openable(f, n) = Openable(g, n) /\ Listable(f, n) = Listable(g, n)
  BY <1>2, <1>3 DEF Openable, Listable
<1>5. Missing(f, n) \in Answers /\ Unreached(f, n) \in Answers
  BY MissingAnswer DEF Answers, Errors
<1>6. /\ Has(f, n) => Kind(f, n) \in Kinds /\ f.ino[f.at[n]].text \in Contents \cup Names \cup {Blank}
      /\ {"ENOENT", "EINVAL", "ok", "ENODATA"} \subseteq Answers /\ Blank \in Contents
  BY HasInode, HostAssumption DEF Agree, FileSystems, Kind, Answers, Errors
<1>7. SameResult(Lstat(f, n), Lstat(g, n), open)
  BY <1>1, <1>6 DEF SameResult, Result, Lstat, Answers
<1>8. SameResult(Readlink(f, n), Readlink(g, n), open)
  BY <1>1, <1>6 DEF SameResult, Result, Readlink, Answers
<1>9. SameResult(Access(f, n), Access(g, n), open)
  BY <1>2, <1>5 DEF SameResult, Result, Access
<1>10. SameResult(Llistxattr(f, n), Llistxattr(g, n), open)
  BY <1>1, <1>5 DEF SameResult, Result, Llistxattr
<1>11. SameResult(Lgetxattr(f, n), Lgetxattr(g, n), open)
  BY <1>1, <1>6 DEF SameResult, Result, Lgetxattr
<1> QED
  BY <1>4, <1>7, <1>8, <1>9, <1>10, <1>11

-----------------------------------------------------------------------------
(* Calls that change names or inodes.                                      *)

\* A call that fails alike in both, and else does the same to both.
LEMMA SameUnless ==
  ASSUME NEW f, NEW g, NEW open, Agree(f, g, open), NEW e, NEW new, NEW newer,
         e \in Errors \cup {"ok"}, e = "ok" => Agree(new, newer, open)
  PROVE  SameResult(Unless(e, f, new), Unless(e, g, newer), open)
  BY DEF SameResult, Unless, Result, Answers

\* What an inode may be.
InodeType == [kind : Kinds \cup {"unused"}, text : Contents \cup Names \cup {Blank},
              attrs : SUBSET {"mode", "xattr"}]

\* The shape of a file system.
LEMMA FileSystem ==
  ASSUME NEW f
  PROVE  f \in FileSystems <=> /\ f = [at |-> f.at, ino |-> f.ino]
                               /\ f.at \in [Names -> Inodes \cup {0}]
                               /\ f.ino \in [Inodes -> InodeType]
  BY DEF FileSystems, InodeType

\* Names are given to inodes that have one, or to none.
LEMMA SameRenamed ==
  ASSUME NEW f, NEW g, NEW open, Agree(f, g, open), NEW at \in [Names -> Inodes \cup {0}],
         \A n \in Names : at[n] \in Linked(f) \cup {0}
  PROVE  Agree(Renamed(f, at), Renamed(g, at), open)
<1>1. /\ Renamed(f, at) \in FileSystems /\ Renamed(g, at) \in FileSystems
      /\ Renamed(f, at).at = at /\ Renamed(g, at).at = at
      /\ Renamed(f, at).ino = f.ino /\ Renamed(g, at).ino = g.ino
  BY FileSystem DEF Agree, Renamed
<1>2. Linked(Renamed(f, at)) \subseteq Linked(f)
  BY <1>1 DEF Linked, Present
<1> QED
  BY <1>1, <1>2 DEF Agree

\* One inode changes.
LEMMA SameChanged ==
  ASSUME NEW f, NEW g, NEW open, Agree(f, g, open), NEW i, NEW v \in InodeType,
         v.kind \in Kinds
  PROVE  Agree(Changed(f, i, v), Changed(g, i, v), open)
<1>1. /\ Changed(f, i, v).at = f.at /\ Changed(g, i, v).at = f.at
      /\ Changed(f, i, v).ino = [f.ino EXCEPT ![i] = v]
      /\ Changed(g, i, v).ino = [g.ino EXCEPT ![i] = v]
  BY DEF Agree, Changed
<1>2. f.ino \in [Inodes -> InodeType] /\ g.ino \in [Inodes -> InodeType]
  BY FileSystem DEF Agree
<1>3. /\ [f.ino EXCEPT ![i] = v] \in [Inodes -> InodeType]
      /\ [g.ino EXCEPT ![i] = v] \in [Inodes -> InodeType]
      /\ \A j \in Inodes : [f.ino EXCEPT ![i] = v][j] = IF j = i THEN v ELSE f.ino[j]
      /\ \A j \in Inodes : [g.ino EXCEPT ![i] = v][j] = IF j = i THEN v ELSE g.ino[j]
  BY <1>2
<1>4. Changed(f, i, v) \in FileSystems /\ Changed(g, i, v) \in FileSystems
  BY <1>1, <1>3, FileSystem DEF Agree, Changed
<1>5. Linked(Changed(f, i, v)) = Linked(f)
  BY <1>1 DEF Linked, Present
<1> QED
  BY <1>1, <1>3, <1>4, <1>5 DEF Agree

\* Names that come and go.
LEMMA SameNameCalls ==
  ASSUME NEW f, NEW g, NEW open, Agree(f, g, open), NEW p \in Names, NEW q \in Names
  PROVE  /\ SameResult(Unlink(f, p), Unlink(g, p), open)
         /\ SameResult(Rmdir(f, p), Rmdir(g, p), open)
         /\ SameResult(Rename(f, p, q), Rename(g, p, q), open)
         /\ SameResult(Link(f, p, q), Link(g, p, q), open)
<1>1. /\ (Has(f, p) <=> Has(g, p)) /\ (Has(f, q) <=> Has(g, q))
      /\ Kind(f, p) = Kind(g, p) /\ Missing(f, p) = Missing(g, p)
      /\ Kind(f, q) = Kind(g, q) /\ Missing(f, q) = Missing(g, q)
  BY SameNames
<1>2. /\ f.at \in [Names -> Inodes \cup {0}] /\ f.at = g.at
      /\ \A n \in Names : f.at[n] \in Linked(f) \cup {0}
  BY DEF Agree, FileSystems, Linked, Present
<1> DEFINE without == [f.at EXCEPT ![p] = 0]
           linked == [f.at EXCEPT ![q] = f.at[p]]
           moved == [linked EXCEPT ![p] = 0]
<1>3. without \in [Names -> Inodes \cup {0}] /\ \A n \in Names : without[n] \in Linked(f) \cup {0}
  BY <1>2
<1>4. linked \in [Names -> Inodes \cup {0}] /\ \A n \in Names : linked[n] \in Linked(f) \cup {0}
  BY <1>2
<1>5. moved \in [Names -> Inodes \cup {0}] /\ \A n \in Names : moved[n] \in Linked(f) \cup {0}
  BY <1>4
<1>6. g.at = f.at => /\ [g.at EXCEPT ![p] = 0] = without
                     /\ [g.at EXCEPT ![q] = g.at[p]] = linked
                     /\ [g.at EXCEPT ![q] = g.at[p], ![p] = 0] = moved
                     /\ [f.at EXCEPT ![q] = f.at[p], ![p] = 0] = moved
  OBVIOUS
<1> HIDE DEF without, linked, moved
<1>7. /\ Agree(Renamed(f, without), Renamed(g, without), open)
      /\ Agree(Renamed(f, linked), Renamed(g, linked), open)
      /\ Agree(Renamed(f, moved), Renamed(g, moved), open)
  BY <1>3, <1>4, <1>5, SameRenamed
<1>8. SameResult(Unlink(f, p), Unlink(g, p), open)
  <2> DEFINE e == IF Kind(f, p) = "dir" THEN "EISDIR" ELSE Missing(f, p)
  <2>1. Unlink(f, p) = Unless(e, f, Renamed(f, without))
    BY DEF Unlink, without
  <2>2. Unlink(g, p) = Unless(e, g, Renamed(g, without))
    BY <1>1, <1>2, <1>6 DEF Unlink
  <2>3. e \in Errors \cup {"ok"}
    BY MissingAnswer DEF Errors
  <2> QED
    BY <1>7, <2>1, <2>2, <2>3, SameUnless
<1>9. SameResult(Rmdir(f, p), Rmdir(g, p), open)
  <2> DEFINE e == IF Has(f, p) /\ Kind(f, p) # "dir" THEN "ENOTDIR" ELSE Missing(f, p)
  <2>1. Rmdir(f, p) = Unless(e, f, Renamed(f, without))
    BY DEF Rmdir, without
  <2>2. Rmdir(g, p) = Unless(e, g, Renamed(g, without))
    BY <1>1, <1>2, <1>6 DEF Rmdir
  <2>3. e \in Errors \cup {"ok"}
    BY MissingAnswer DEF Errors
  <2> QED
    BY <1>7, <2>1, <2>2, <2>3, SameUnless
<1>10. SameResult(Link(f, p, q), Link(g, p, q), open)
  <2> DEFINE e == IF Kind(f, p) = "dir" THEN "EPERM"
                  ELSE IF Has(f, p) /\ Has(f, q) THEN "EEXIST" ELSE Missing(f, p)
  <2>1. Link(f, p, q) = Unless(e, f, Renamed(f, linked))
    BY DEF Link, linked
  <2>2. Link(g, p, q) = Unless(e, g, Renamed(g, linked))
    BY <1>1, <1>2, <1>6 DEF Link
  <2>3. e \in Errors \cup {"ok"}
    BY MissingAnswer DEF Errors
  <2> QED
    BY <1>7, <2>1, <2>2, <2>3, SameUnless
<1>11. SameResult(Rename(f, p, q), Rename(g, p, q), open)
  <2> DEFINE e == IF ~Has(f, p) \/ ~Has(f, q) THEN Missing(f, p)
                  ELSE IF Kind(f, p) # "dir" /\ Kind(f, q) = "dir" THEN "EISDIR"
                  ELSE IF Kind(f, p) = "dir" /\ Kind(f, q) # "dir" THEN "ENOTDIR" ELSE "ok"
             new(h) == IF f.at[p] = f.at[q] THEN h ELSE Renamed(h, moved)
  <2>1. Rename(f, p, q) = Unless(e, f, new(f))
    BY <1>2, <1>6 DEF Rename
  <2>2. Rename(g, p, q) = Unless(e, g, new(g))
    BY <1>1, <1>2, <1>6 DEF Rename
  <2>3. Agree(new(f), new(g), open)
    BY <1>7
  <2>4. e \in Errors \cup {"ok"}
    BY MissingAnswer DEF Errors
  <2> HIDE DEF e, new
  <2> QED
    BY <2>1, <2>2, <2>3, <2>4, SameUnless
<1> QED
  BY <1>8, <1>9, <1>10, <1>11

\* A name is made for an inode nothing leads to.
LEMMA SameMake ==
  ASSUME NEW f, NEW g, NEW open, Agree(f, g, open), NEW n \in Names, NEW i \in Inodes,
         NEW kind \in Kinds, NEW text \in Contents \cup Names \cup {Blank}
  PROVE  SameResult(Make(f, n, i, kind, text), Make(g, n, i, kind, text), open)
<1> DEFINE at == [f.at EXCEPT ![n] = i]
           v == Inode(kind, text)
           new(h) == Changed(Renamed(h, at), i, v)
           e == IF Has(f, n) THEN "EEXIST" ELSE "ok"
<1>1. /\ f.at \in [Names -> Inodes \cup {0}] /\ f.at = g.at
      /\ f.ino \in [Inodes -> InodeType] /\ g.ino \in [Inodes -> InodeType]
  BY FileSystem DEF Agree
<1>2. at \in [Names -> Inodes \cup {0}] /\ \A m \in Names : at[m] = i \/ at[m] = f.at[m]
  BY <1>1
<1>3. v \in InodeType /\ v.kind \in Kinds
  BY DEF InodeType, Inode
<1>4. /\ Make(f, n, i, kind, text) = Unless(e, f, new(f))
      /\ Make(g, n, i, kind, text) = Unless(e, g, new(g))
  BY <1>1, SameNames DEF Make
<1>5. Agree(new(f), new(g), open)
  <2>1. /\ new(f) = [at |-> at, ino |-> [f.ino EXCEPT ![i] = v]]
        /\ new(g) = [at |-> at, ino |-> [g.ino EXCEPT ![i] = v]]
        /\ new(f).at = at /\ new(g).at = at
        /\ new(f).ino = [f.ino EXCEPT ![i] = v] /\ new(g).ino = [g.ino EXCEPT ![i] = v]
    BY DEF Changed, Renamed
  <2> HIDE DEF new, at, v
  <2>2. /\ [f.ino EXCEPT ![i] = v] \in [Inodes -> InodeType]
        /\ [g.ino EXCEPT ![i] = v] \in [Inodes -> InodeType]
        /\ \A j \in Inodes : [f.ino EXCEPT ![i] = v][j] = IF j = i THEN v ELSE f.ino[j]
        /\ \A j \in Inodes : [g.ino EXCEPT ![i] = v][j] = IF j = i THEN v ELSE g.ino[j]
    BY <1>1, <1>3
  <2>3. new(f) \in FileSystems /\ new(g) \in FileSystems
    BY <1>2, <2>1, <2>2, FileSystem
  <2>4. Linked(new(f)) \subseteq Linked(f) \cup {i}
    <3> SUFFICES ASSUME NEW j \in Linked(new(f)), j # i PROVE j \in Linked(f)
      OBVIOUS
    <3>1. PICK m \in Names : j = at[m] /\ at[m] # 0
      BY <2>1 DEF Linked, Present
    <3>2. j = f.at[m]
      BY <1>2, <3>1
    <3> QED
      BY <3>1, <3>2 DEF Linked, Present
  <2>5. \A j \in Inodes : j \in Linked(new(f)) \cup open =>
                           new(f).ino[j] = new(g).ino[j] /\ new(f).ino[j].kind \in Kinds
    <3> SUFFICES ASSUME NEW j \in Inodes, j \in Linked(new(f)) \cup open
                 PROVE  new(f).ino[j] = new(g).ino[j] /\ new(f).ino[j].kind \in Kinds
      OBVIOUS
    <3>1. j = i \/ (f.ino[j] = g.ino[j] /\ f.ino[j].kind \in Kinds)
      BY <2>4 DEF Agree
    <3> QED
      BY <1>3, <2>1, <2>2, <3>1
  <2> QED
    BY <2>1, <2>3, <2>5 DEF Agree
<1>6. e \in Errors \cup {"ok"}
  BY DEF Errors
<1> HIDE DEF new, e
<1> QED
  BY <1>4, <1>5, <1>6, SameUnless

\* Attributes and contents.
LEMMA SameAttrs ==
  ASSUME NEW f, NEW g, NEW open, Agree(f, g, open), NEW i \in Inodes,
         i \in Linked(f) \/ i \in open, NEW attrs, attrs \subseteq {"mode", "xattr"}
  PROVE  Agree(WithAttrs(f, i, attrs), WithAttrs(g, i, attrs), open)
<1> DEFINE v == [f.ino[i] EXCEPT !.attrs = attrs]
<1>1. f.ino[i] = g.ino[i] /\ f.ino[i] \in InodeType /\ f.ino[i].kind \in Kinds
  BY FileSystem DEF Agree
<1>2. v \in InodeType /\ v.kind \in Kinds
  BY <1>1 DEF InodeType
<1>3. WithAttrs(f, i, attrs) = Changed(f, i, v) /\ WithAttrs(g, i, attrs) = Changed(g, i, v)
  BY <1>1 DEF WithAttrs
<1> HIDE DEF v
<1> QED
  BY <1>2, <1>3, SameChanged

\* The contents of one inode change.
LEMMA SameText ==
  ASSUME NEW f, NEW g, NEW open, Agree(f, g, open), NEW i \in Inodes,
         i \in Linked(f) \/ i \in open, NEW text, text \in Contents \cup {Blank}
  PROVE  Agree(WithText(f, i, text), WithText(g, i, text), open)
<1> DEFINE v == [f.ino[i] EXCEPT !.text = text]
<1>1. f.ino[i] = g.ino[i] /\ f.ino[i] \in InodeType /\ f.ino[i].kind \in Kinds
  BY FileSystem DEF Agree
<1>2. v \in InodeType /\ v.kind \in Kinds
  BY <1>1 DEF InodeType
<1>3. WithText(f, i, text) = Changed(f, i, v) /\ WithText(g, i, text) = Changed(g, i, v)
  BY <1>1 DEF WithText
<1> HIDE DEF v
<1> QED
  BY <1>2, <1>3, SameChanged

\* chmod, chown, utime, truncate and the calls on extended attributes.
LEMMA SameAttrCalls ==
  ASSUME NEW f, NEW g, NEW open, Agree(f, g, open), NEW n
  PROVE  /\ SameResult(SetAttr(f, n), SetAttr(g, n), open)
         /\ SameResult(Lsetxattr(f, n), Lsetxattr(g, n), open)
         /\ SameResult(Lremovexattr(f, n), Lremovexattr(g, n), open)
         /\ SameResult(Truncate(f, n), Truncate(g, n), open)
<1> DEFINE m == Followed(f, n)
<1>1. Followed(g, n) = m /\ Unreached(f, n) = Unreached(g, n) /\ f.at = g.at
  BY SameFollowed DEF Agree
<1>2. /\ Has(f, m) <=> Has(g, m)
      /\ Kind(f, m) = Kind(g, m) /\ Missing(f, m) = Missing(g, m)
      /\ Kind(f, n) = Kind(g, n) /\ Missing(f, n) = Missing(g, n)
  BY SameNames
<1>3. \A x : Missing(f, x) = "ok" => Has(f, x)
  BY DEF Missing
<1>4. \A x : Has(f, x) => f.at[x] \in Inodes /\ f.at[x] \in Linked(f)
  BY HasInode DEF Agree
<1>5. Unreached(f, n) = "ok" => Has(f, m)
  BY <1>3 DEF Unreached
<1>6. Lgetxattr(f, n).answer = Lgetxattr(g, n).answer
      /\ (Lgetxattr(f, n).answer = "ok" => Has(f, n))
  BY SameReport DEF SameResult, Lgetxattr, Result
<1> HIDE DEF m
<1>7. \A x : Has(f, x) =>
        LET i == f.at[x]  a == f.ino[i].attrs IN
        /\ f.ino[i] = g.ino[i]
        /\ Agree(WithAttrs(f, i, a \cup {"mode"}), WithAttrs(g, i, a \cup {"mode"}), open)
        /\ Agree(WithAttrs(f, i, a \cup {"xattr"}), WithAttrs(g, i, a \cup {"xattr"}), open)
        /\ Agree(WithAttrs(f, i, a \ {"xattr"}), WithAttrs(g, i, a \ {"xattr"}), open)
        /\ Agree(WithText(f, i, Blank), WithText(g, i, Blank), open)
  <2> SUFFICES ASSUME NEW x, Has(f, x)
               PROVE  LET i == f.at[x]  a == f.ino[i].attrs IN
                      /\ f.ino[i] = g.ino[i]
                      /\ Agree(WithAttrs(f, i, a \cup {"mode"}), WithAttrs(g, i, a \cup {"mode"}), open)
                      /\ Agree(WithAttrs(f, i, a \cup {"xattr"}), WithAttrs(g, i, a \cup {"xattr"}), open)
                      /\ Agree(WithAttrs(f, i, a \ {"xattr"}), WithAttrs(g, i, a \ {"xattr"}), open)
                      /\ Agree(WithText(f, i, Blank), WithText(g, i, Blank), open)
    OBVIOUS
  <2> DEFINE i == f.at[x]
             a == f.ino[i].attrs
  <2>1. i \in Inodes /\ i \in Linked(f) /\ Blank \in Contents \cup {Blank}
    BY <1>4
  <2>2. f.ino[i] \in InodeType
    BY <2>1, FileSystem DEF Agree
  <2>3. /\ a \cup {"mode"} \subseteq {"mode", "xattr"}
        /\ a \cup {"xattr"} \subseteq {"mode", "xattr"}
        /\ a \ {"xattr"} \subseteq {"mode", "xattr"}
    BY <2>2 DEF InodeType
  <2> HIDE DEF i, a
  <2>4. f.ino[i] = g.ino[i]
    BY <2>1 DEF Agree
  <2>5. Agree(WithText(f, i, Blank), WithText(g, i, Blank), open)
    BY <2>1, SameText
  <2>6. /\ Agree(WithAttrs(f, i, a \cup {"mode"}), WithAttrs(g, i, a \cup {"mode"}), open)
        /\ Agree(WithAttrs(f, i, a \cup {"xattr"}), WithAttrs(g, i, a \cup {"xattr"}), open)
        /\ Agree(WithAttrs(f, i, a \ {"xattr"}), WithAttrs(g, i, a \ {"xattr"}), open)
    BY <2>1, <2>3, SameAttrs
  <2> QED
    BY <2>4, <2>5, <2>6 DEF i, a
<1>8. SameResult(SetAttr(f, n), SetAttr(g, n), open)
  <2> DEFINE new(h) == WithAttrs(h, h.at[m], h.ino[h.at[m]].attrs \cup {"mode"})
  <2>1. Unreached(f, n) = "ok" => Agree(new(f), new(g), open)
    BY <1>1, <1>5, <1>7
  <2>2. Unreached(f, n) \in Errors \cup {"ok"}
    BY MissingAnswer DEF Errors
  <2>3. /\ SetAttr(f, n) = Unless(Unreached(f, n), f, new(f))
        /\ SetAttr(g, n) = Unless(Unreached(f, n), g, new(g))
    BY <1>1 DEF SetAttr, m
  <2> HIDE DEF new
  <2> QED
    BY <2>1, <2>2, <2>3, SameUnless
<1>9. SameResult(Truncate(f, n), Truncate(g, n), open)
  <2> DEFINE new(h) == WithText(h, h.at[m], Blank)
             e == IF Kind(f, m) = "dir" THEN "EISDIR" ELSE IF Kind(f, m) = "fifo" THEN "EINVAL"
                  ELSE Unreached(f, n)
  <2>1. e = "ok" => Agree(new(f), new(g), open)
    BY <1>1, <1>5, <1>7
  <2>2. e \in Errors \cup {"ok"}
    BY MissingAnswer DEF Errors
  <2>3. /\ Truncate(f, n) = Unless(e, f, new(f))
        /\ Truncate(g, n) = Unless(e, g, new(g))
    BY <1>1, <1>2 DEF Truncate, m
  <2> HIDE DEF new, e
  <2> QED
    BY <2>1, <2>2, <2>3, SameUnless
<1>10. SameResult(Lsetxattr(f, n), Lsetxattr(g, n), open)
  <2> DEFINE new(h) == WithAttrs(h, h.at[n], h.ino[h.at[n]].attrs \cup {"xattr"})
             e == IF Kind(f, n) \in {"link", "fifo"} THEN "EPERM" ELSE Missing(f, n)
  <2>1. e = "ok" => Agree(new(f), new(g), open)
    BY <1>1, <1>3, <1>7
  <2>2. e \in Errors \cup {"ok"}
    BY MissingAnswer DEF Errors
  <2>3. /\ Lsetxattr(f, n) = Unless(e, f, new(f))
        /\ Lsetxattr(g, n) = Unless(e, g, new(g))
    BY <1>1, <1>2 DEF Lsetxattr
  <2> HIDE DEF new, e
  <2> QED
    BY <2>1, <2>2, <2>3, SameUnless
<1>11. SameResult(Lremovexattr(f, n), Lremovexattr(g, n), open)
  <2> DEFINE new(h) == WithAttrs(h, h.at[n], h.ino[h.at[n]].attrs \ {"xattr"})
             e == IF Kind(f, n) \in {"link", "fifo"} THEN "EPERM" ELSE Lgetxattr(f, n).answer
  <2>1. e = "ok" => Agree(new(f), new(g), open)
    BY <1>1, <1>6, <1>7
  <2>2. e \in Errors \cup {"ok"}
    BY DEF Errors, Lgetxattr, Result
  <2>3. /\ Lremovexattr(f, n) = Unless(e, f, new(f))
        /\ Lremovexattr(g, n) = Unless(e, g, new(g))
    BY <1>1, <1>2, <1>6 DEF Lremovexattr
  <2> HIDE DEF new, e
  <2> QED
    BY <2>1, <2>2, <2>3, SameUnless
<1> QED
  BY <1>8, <1>9, <1>10, <1>11

\* Calls on an open file.
LEMMA SameFileCalls ==
  ASSUME NEW f, NEW g, NEW open, Agree(f, g, open), NEW i \in open, i \in Inodes,
         NEW text \in Contents \cup {Blank}
  PROVE  /\ SameResult(Pread(f, i), Pread(g, i), open)
         /\ SameResult(Pwrite(f, i, text), Pwrite(g, i, text), open)
         /\ SameResult(Fstat(f, i), Fstat(g, i), open)
         /\ SameResult(Fsync(f, i), Fsync(g, i), open)
<1>1. /\ f.ino[i] = g.ino[i] /\ f.ino[i].kind \in Kinds
      /\ f.ino[i].text \in Contents \cup Names \cup {Blank} /\ Blank \in Contents
  BY HostAssumption DEF Agree, FileSystems
<1>2. Agree(WithText(f, i, text), WithText(g, i, text), open)
  BY SameText
<1> QED
  BY <1>1, <1>2 DEF SameResult, Answers, Result, Pread, Pwrite, Fstat, Fsync
=============================================================================
