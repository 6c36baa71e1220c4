------------------------ MODULE NamespaceInvariants ------------------------
(***************************************************************************)
(* The inductive invariants of ScpfsNamespace, and what follows from them, *)
(* for every set of names, handles and habits.                             *)
(***************************************************************************)
EXTENDS NamespaceProofs, SequenceTheorems

-----------------------------------------------------------------------------
(* The invariant.  Its parts are about any trees l and r and open files hs, *)
(* because a rename of an open target is two moves, one after the other.    *)

Nodes == [kind : {"none", "file", "fifo", "dir", "link"}, ino : Inodes \cup {0},
          to : TopPaths \cup {<<>>}]
Kinds == {"none", "file", "dir"}
OpenNodes == [path : Paths \cup {<<>>}, ino : Inodes \cup {0}]

\* What a daemon that serves nobody has open, and the unstructured rest.
Static ==
  /\ phase \in Phases /\ held \subseteq Resources /\ uses \in Habits
  /\ readonly \subseteq Inodes
  /\ ~Serving => \A h \in Handles : ~IsOpen(h)

\* Directories are at the top, and only they have something below.
RemoteTree(r) ==
  /\ r \in [Paths -> Kinds]
  /\ \A p \in Paths : r[p] = "dir" => p \in TopPaths
  /\ \A p \in SubPaths : r[p] # "none" => r[Parent(p)] = "dir"
LocalNodes(l) ==
  /\ l \in [Paths -> Nodes]
  /\ \A p \in Paths : l[p].kind \in {"none", "dir"} <=> l[p].ino = 0
  /\ \A p \in SubPaths : l[p].kind # "dir"
  /\ \A p, q \in Paths : l[p].ino = l[q].ino /\ l[p].ino # 0 => l[p].kind = l[q].kind
Above(l, x) == l[x].kind # "none" => l[Parent(x)].kind = "dir"
LocalTree(l) == LocalNodes(l) /\ \A x \in SubPaths : Above(l, x)

\* An open file below a directory is below a local one.
OpenFiles(l, hs) ==
  /\ hs \in [Handles -> OpenNodes]
  /\ \A h \in Handles : hs[h].path # <<>> => hs[h].ino # 0
  /\ \A h \in Handles : hs[h].path \in SubPaths => l[Parent(hs[h].path)].kind = "dir"

\* The name of an open file is no directory, and at the top it is not free.
Found(l, hs, r) ==
  \A h \in Handles : LET p == hs[h].path IN
    /\ p # <<>> => l[p].kind # "dir"
    /\ p \in TopPaths /\ l[p].kind = "none" => r[p] = "file"

\* Without symlink there are no links, and what is open is a regular file.
Plain(l, hs) ==
  ~Uses("symlinks") =>
    /\ \A p \in Paths : l[p].kind # "link"
    /\ \A p \in Paths, h \in Handles :
         hs[h].path # <<>> /\ l[p].ino = hs[h].ino => l[p].kind = "file"

Shape(l, hs) == LocalTree(l) /\ OpenFiles(l, hs) /\ Plain(l, hs)
Sound ==
  /\ Static /\ RemoteTree(remote) /\ Shape(local, handle)
  /\ SessionUp => Found(local, handle, remote)

\* Files open one at a time have paths of their own, with their own inodes.
Owned(l, hs) ==
  /\ \A h \in Handles : hs[h].path # <<>> => l[hs[h].path].ino = hs[h].ino
  /\ \A g, h \in Handles : hs[g].path = hs[h].path => g = h \/ hs[g].path = <<>>
OneAtATime == uses \cap {"sharing", "symlinks"} = {}

\* No directory is on either side.
Flat(l, r) == \A p \in Paths : l[p].kind # "dir" /\ r[p] # "dir"

\* Every name is that of a file of its own that is open, and so is every hidden
\* name at the server.
Tidy(l, hs, r) ==
  /\ \A p, q \in Paths : l[p].ino = l[q].ino /\ l[p].ino # 0 => p = q
  /\ \A p \in Paths : l[p].kind # "none" => \E h \in Handles : hs[h].path = p
  /\ \A p \in HiddenPaths : r[p] # "none" => \E h \in Handles : hs[h].path = p

\* An open name at the top is that of a file, on this side or on the other.
Seen(l, hs, r) ==
  \A h \in Handles : LET p == hs[h].path IN
    p \in TopPaths => \/ l[p].kind = "file"
                      \/ l[p].kind = "none" /\ r[p] = "file"
-----------------------------------------------------------------------------
(* Paths.                                                                  *)

\* A path is one name or two.
LEMMA PathForms ==
  ASSUME NEW p \in Paths
  PROVE  \/ \E n \in Names \cup Hidden : p = <<n>>
         \/ p \in SubPaths /\ \E n \in Names, m \in Subnames \cup Hidden : p = <<n, m>>
  BY DEF Paths, TopPaths, SubPaths, HiddenPaths

\* What one name is.
LEMMA OneName ==
  ASSUME NEW n
  PROVE  /\ Len(<<n>>) = 1 /\ Parent(<<n>>) = <<>> /\ <<n>> # <<>>
         /\ \A m : <<m>> = <<n>> <=> m = n
<1>1. <<n>> \in Seq({n})
  OBVIOUS
<1>2. Len(<<n>>) = 1 /\ SubSeq(<<n>>, 1, 0) = <<>>
  BY <1>1
<1> QED
  BY <1>2 DEF Parent

\* What two names are.
LEMMA TwoNames ==
  ASSUME NEW n, NEW m
  PROVE  /\ Len(<<n, m>>) = 2 /\ Parent(<<n, m>>) = <<n>> /\ <<n, m>> # <<>>
         /\ \A a, b : <<a, b>> = <<n, m>> <=> a = n /\ b = m
         /\ \A a : <<a>> # <<n, m>>
<1>1. <<n, m>> \in Seq({n, m})
  OBVIOUS
<1>2. Len(<<n, m>>) = 2 /\ <<n, m>>[1] = n /\ <<n, m>>[2] = m
  BY <1>1
<1>3. SubSeq(<<n, m>>, 1, 1) = <<n>>
  <2> DEFINE s == SubSeq(<<n, m>>, 1, 1)
  <2>1. s \in Seq({n, m}) /\ Len(s) = 1 /\ s[1] = n
    BY <1>1, <1>2, SubSeqProperties
  <2>2. <<n>> \in Seq({n, m}) /\ Len(<<n>>) = 1 /\ <<n>>[1] = n
    OBVIOUS
  <2> HIDE DEF s
  <2>3. s = <<n>>
    BY <2>1, <2>2, SeqEqual
  <2> QED
    BY <2>3 DEF s
<1> QED
  BY <1>2, <1>3, OneName DEF Parent

\* Paths one name long are at the top, and the others one level below a path
\* that is not hidden.
LEMMA PathKinds ==
  ASSUME NEW p \in Paths
  PROVE  /\ p # <<>>
         /\ p \notin SubPaths => Len(p) = 1 /\ Parent(p) = <<>>
         /\ p \in SubPaths => Len(p) = 2 /\ Parent(p) \in TopPaths
         /\ p \in TopPaths => p \notin SubPaths /\ p \notin HiddenPaths
         /\ p \in ClientPaths /\ p \notin SubPaths => p \in TopPaths
<1>1. ASSUME NEW n \in Names \cup Hidden, p = <<n>>
      PROVE  Len(p) = 1 /\ Parent(p) = <<>> /\ p \notin SubPaths /\ p # <<>>
  BY <1>1, OneName, TwoNames DEF SubPaths
<1>2. ASSUME NEW n \in Names, NEW m \in Subnames \cup Hidden, p = <<n, m>>, p \in SubPaths
      PROVE  Len(p) = 2 /\ Parent(p) \in TopPaths /\ p \notin TopPaths /\ p # <<>>
  BY <1>2, OneName, TwoNames DEF TopPaths
<1>3. p \in TopPaths => p \notin HiddenPaths
  BY OneName, TwoNames, NamespaceAssumption DEF TopPaths, HiddenPaths
<1> QED
  BY <1>1, <1>2, <1>3, PathForms DEF ClientPaths, HiddenPaths, TopPaths

\* The sets of paths.
LEMMA PathSets ==
  /\ TopPaths \subseteq Paths /\ SubPaths \subseteq Paths /\ HiddenPaths \subseteq Paths
  /\ ClientPaths \subseteq Paths /\ ClientPaths \cap HiddenPaths = {}
  /\ <<>> \notin Paths
  BY PathKinds DEF Paths, ClientPaths

\* Under is to be the same or one level below.
LEMMA UnderMeans ==
  ASSUME NEW p \in Paths, NEW q \in Paths
  PROVE  Under(p, q) <=> p = q \/ (p \notin SubPaths /\ q \in SubPaths /\ Parent(q) = p)
<1>1. ASSUME NEW n, p = <<n>>, NEW m, q = <<m>> PROVE Under(p, q) <=> p = q
  <2>1. <<m>> \in Seq({m})
    OBVIOUS
  <2>2. SubSeq(<<m>>, 1, 1) = <<m>>
    BY <2>1, OneName, SubSeqFull
  <2> QED
    BY <1>1, <2>2, OneName DEF Under
<1>2. ASSUME NEW n, p = <<n>>, NEW m, NEW k, q = <<m, k>>
      PROVE  Under(p, q) <=> Parent(q) = p
  BY <1>2, OneName, TwoNames DEF Under, Parent
<1>3. ASSUME NEW n, NEW k, p = <<n, k>>, NEW m, q = <<m>> PROVE ~Under(p, q)
  BY <1>3, OneName, TwoNames DEF Under
<1>4. ASSUME NEW n, NEW k, p = <<n, k>>, NEW m, NEW j, q = <<m, j>>
      PROVE  Under(p, q) <=> p = q
  <2>1. <<m, j>> \in Seq({m, j})
    OBVIOUS
  <2>2. SubSeq(<<m, j>>, 1, 2) = <<m, j>>
    BY <2>1, TwoNames, SubSeqFull
  <2> QED
    BY <1>4, <2>2, TwoNames DEF Under
<1> QED
  BY <1>1, <1>2, <1>3, <1>4, PathForms, PathKinds, OneName, TwoNames

\* What a rename makes of the name itself, and of the names below it.
LEMMA RebasedSelf ==
  ASSUME NEW p \in Paths, NEW q \in Paths PROVE Rebased(p, q, p) = q
<1> DEFINE S == Names \cup Subnames \cup Hidden
<1>1. p \in Seq(S) /\ q \in Seq(S)
  <2>1. \A n \in S : <<n>> \in Seq(S)
    OBVIOUS
  <2>2. \A n, m \in S : <<n, m>> \in Seq(S)
    OBVIOUS
  <2> HIDE DEF S
  <2>3. Names \subseteq S /\ Subnames \subseteq S /\ Hidden \subseteq S
    BY DEF S
  <2>4. ASSUME NEW x \in Paths PROVE x \in Seq(S)
    <3>1. CASE \E n \in Names \cup Hidden : x = <<n>>
      BY <2>1, <2>3, <3>1
    <3>2. CASE \E n \in Names, m \in Subnames \cup Hidden : x = <<n, m>>
      BY <2>2, <2>3, <3>2
    <3> QED
      BY <3>1, <3>2, PathForms
  <2> QED
    BY <2>4
<1> HIDE DEF S
<1>2. SubSeq(p, Len(p) + 1, Len(p)) = <<>>
  BY <1>1
<1>3. q \o <<>> = q
  BY <1>1
<1> QED
  BY <1>2, <1>3 DEF Rebased

\* A name below a directory at the top goes below the other one, and back.
LEMMA RebasedBelow ==
  ASSUME NEW p \in Paths \ SubPaths, NEW q \in TopPaths, NEW x \in SubPaths, Parent(x) = p
  PROVE  /\ Rebased(p, q, x) \in SubPaths /\ Parent(Rebased(p, q, x)) = q
         /\ Rebased(q, p, Rebased(p, q, x)) = x
         /\ Rebased(p, q, x) \in HiddenPaths <=> x \in HiddenPaths
<1>1. PICK n \in Names, m \in Subnames \cup Hidden : x = <<n, m>>
  BY DEF SubPaths
<1>2. PICK a \in Names : q = <<a>>
  BY DEF TopPaths
<1>3. p = <<n>>
  BY <1>1, TwoNames
<1>4. ASSUME NEW b, NEW c PROVE Rebased(<<b>>, <<c>>, <<b, m>>) = <<c, m>>
  <2>1. <<b, m>> \in Seq({b, m}) /\ <<b>> \in Seq({b}) /\ <<c>> \in Seq({c, m})
    OBVIOUS
  <2>2. SubSeq(<<b, m>>, 2, 2) = <<m>>
    <3> DEFINE s == SubSeq(<<b, m>>, 2, 2)
    <3>1. <<b, m>>[2] = m /\ <<m>> \in Seq({b, m}) /\ Len(<<m>>) = 1 /\ <<m>>[1] = m
      OBVIOUS
    <3>2. s \in Seq({b, m}) /\ Len(s) = 1 /\ s[1] = m
      BY <3>1, SubSeqProperties
    <3> HIDE DEF s
    <3>3. s = <<m>>
      BY <3>1, <3>2, SeqEqual
    <3> QED
      BY <3>3 DEF s
  <2>3. <<c>> \o <<m>> = <<c, m>>
    <3> DEFINE s == <<c>> \o <<m>>
    <3>1. /\ <<c>> \in Seq({c, m}) /\ <<m>> \in Seq({c, m}) /\ <<c, m>> \in Seq({c, m})
          /\ Len(<<c>>) = 1 /\ Len(<<m>>) = 1 /\ Len(<<c, m>>) = 2
          /\ <<c>>[1] = c /\ <<m>>[1] = m /\ <<c, m>>[1] = c /\ <<c, m>>[2] = m
      OBVIOUS
    <3>2. s \in Seq({c, m}) /\ Len(s) = 2 /\ s[1] = c /\ s[2] = m
      BY <3>1, ConcatProperties
    <3> HIDE DEF s
    <3>3. \A i \in 1..Len(s) : s[i] = <<c, m>>[i]
      BY <3>1, <3>2
    <3>4. s = <<c, m>>
      BY <3>1, <3>2, <3>3, SeqEqual
    <3> QED
      BY <3>4 DEF s
  <2>4. Len(<<b>>) = 1 /\ Len(<<b, m>>) = 2
    OBVIOUS
  <2>5. Rebased(<<b>>, <<c>>, <<b, m>>) = <<c>> \o SubSeq(<<b, m>>, 1 + 1, 2)
    BY <2>4 DEF Rebased
  <2> QED
    BY <2>2, <2>3, <2>5
<1>5. Rebased(p, q, x) = <<a, m>> /\ Rebased(q, p, <<a, m>>) = x
  BY <1>1, <1>2, <1>3, <1>4
<1>6. <<a, m>> \in SubPaths /\ Parent(<<a, m>>) = q
  BY <1>2, TwoNames DEF SubPaths
<1>7. <<a, m>> \in HiddenPaths <=> <<n, m>> \in HiddenPaths
  BY OneName, TwoNames DEF HiddenPaths
<1> QED
  BY <1>1, <1>5, <1>6, <1>7
\* No path is below one that is below a directory.
LEMMA RebasedTooLong ==
  ASSUME NEW p \in SubPaths, NEW x \in SubPaths, NEW q, Parent(x) = q
  PROVE  Rebased(q, p, x) \notin Paths
<1>1. PICK n \in Names, m \in Subnames \cup Hidden : x = <<n, m>>
  BY DEF SubPaths
<1>2. PICK a \in Names, b \in Subnames \cup Hidden : p = <<a, b>>
  BY DEF SubPaths
<1> DEFINE t == SubSeq(<<n, m>>, 2, 2)
           s == <<a, b>> \o t
<1>3. <<n, m>>[2] = m
  OBVIOUS
<1>4. t \in Seq({a, b, m}) /\ Len(t) = 1
  BY <1>3, SubSeqProperties
<1> HIDE DEF t
<1>5. <<a, b>> \in Seq({a, b, m}) /\ Len(<<a, b>>) = 2
  OBVIOUS
<1>6. Len(s) = 3
  <2>1. Len(<<a, b>> \o t) = Len(<<a, b>>) + Len(t)
    BY <1>4, <1>5, ConcatProperties
  <2> QED
    BY <1>4, <1>5, <2>1
<1>7. q = <<n>> /\ Len(<<n>>) = 1 /\ Len(<<n, m>>) = 2
  BY <1>1, OneName, TwoNames
<1>8. Rebased(q, p, x) = <<a, b>> \o SubSeq(<<n, m>>, 1 + 1, 2)
  BY <1>1, <1>2, <1>7 DEF Rebased
<1>9. Rebased(q, p, x) = s
  BY <1>8 DEF s, t
<1> HIDE DEF s
<1> QED
  BY <1>6, <1>9, PathKinds

-----------------------------------------------------------------------------
(* One name gets another node, one file is opened or closed.               *)

\* Who is below a path?
Below(p, x) == x \in SubPaths /\ Parent(x) = p
Childless(l, hs, p) == /\ \A x \in Paths : Below(p, x) => l[x].kind = "none"
                       /\ \A h \in Handles : ~Below(p, hs[h].path)

\* Node n may stand at path q.
Fits(l, hs, q, n) ==
  /\ n \in Nodes /\ (n.kind \in {"none", "dir"} <=> n.ino = 0)
  /\ q \in SubPaths => n.kind # "dir" /\ (n.kind # "none" => l[Parent(q)].kind = "dir")
  /\ l[q].kind = "dir" => Childless(l, hs, q)
  /\ \A p \in Paths : l[p].ino = n.ino /\ n.ino # 0 => l[p].kind = n.kind
  /\ ~Uses("symlinks") =>
       /\ n.kind # "link"
       /\ \A h \in Handles : hs[h].path # <<>> /\ n.ino = hs[h].ino => n.kind = "file"

\* The tree with a node that fits is one.
LEMMA SetShape ==
  ASSUME NEW l, NEW hs, Shape(l, hs), NEW q \in Paths, NEW n, Fits(l, hs, q, n)
  PROVE  Shape([l EXCEPT ![q] = n], hs)
<1> DEFINE t == [l EXCEPT ![q] = n]
<1>1. l \in [Paths -> Nodes] /\ n \in Nodes
  BY DEF Shape, LocalTree, LocalNodes, Fits
<1>2. t \in [Paths -> Nodes] /\ \A p \in Paths : t[p] = IF p = q THEN n ELSE l[p]
  BY <1>1
<1>3. \A x \in SubPaths : x \in Paths /\ Parent(x) \in Paths /\ Parent(x) \notin SubPaths
  BY PathKinds, PathSets
<1> HIDE DEF t
<1>4. LocalNodes(t)
  <2>1. \A p \in Paths : t[p].kind \in {"none", "dir"} <=> t[p].ino = 0
    BY <1>2 DEF Shape, LocalTree, LocalNodes, Fits
  <2>2. \A p \in SubPaths : t[p].kind # "dir"
    BY <1>2, <1>3 DEF Shape, LocalTree, LocalNodes, Fits
  <2>3. ASSUME NEW a \in Paths, NEW b \in Paths, t[a].ino = t[b].ino, t[a].ino # 0
        PROVE  t[a].kind = t[b].kind
    BY <1>2, <2>3 DEF Shape, LocalTree, LocalNodes, Fits
  <2> QED
    BY <1>2, <2>1, <2>2, <2>3 DEF LocalNodes
<1>5. ASSUME NEW x \in SubPaths PROVE Above(t, x)
  <2>1. Above(l, x)
    BY DEF Shape, LocalTree
  <2>2. CASE x = q
    <3>1. Parent(x) # q
      BY <1>3, <2>2
    <3> QED
      BY <1>2, <1>3, <2>2, <3>1 DEF Above, Fits
  <2>3. CASE x # q /\ Parent(x) = q
    BY <1>2, <1>3, <2>1, <2>3 DEF Above, Fits, Childless, Below
  <2>4. CASE x # q /\ Parent(x) # q
    BY <1>2, <1>3, <2>1, <2>4 DEF Above
  <2> QED
    BY <2>2, <2>3, <2>4
<1>6. OpenFiles(t, hs)
  BY <1>2, <1>3 DEF Shape, OpenFiles, Fits, Childless, Below
<1>7. Plain(t, hs)
  BY <1>2 DEF Shape, Plain, Fits
<1> QED
  BY <1>4, <1>5, <1>6, <1>7 DEF Shape, LocalTree, t

\* Nothing fits where no directory is that is used.
LEMMA NothingFits ==
  ASSUME NEW l, NEW hs, Shape(l, hs), NEW q \in Paths,
         l[q].kind = "dir" => Childless(l, hs, q)
  PROVE  Fits(l, hs, q, Nothing)
<1>1. Nothing.kind = "none" /\ Nothing.ino = 0 /\ Nothing \in Nodes
  BY DEF Nothing, Node, Nodes
<1>2. \A h \in Handles : hs[h].path # <<>> => hs[h].ino # 0
  BY DEF Shape, OpenFiles
<1> QED
  BY <1>1, <1>2 DEF Fits

\* A file fits where the directory is there and no directory is in the way.
LEMMA FileFits ==
  ASSUME NEW l, NEW hs, NEW q \in Paths, NEW i \in Inodes,
         q \in SubPaths => l[Parent(q)].kind = "dir", l[q].kind # "dir",
         \A p \in Paths : l[p].ino = i => l[p].kind = "file"
  PROVE  Fits(l, hs, q, Node("file", i, <<>>))
<1> DEFINE n == Node("file", i, <<>>)
<1>1. n.kind = "file" /\ n.ino = i /\ n \in Nodes
  BY DEF Node, Nodes
<1>2. i # 0
  BY NamespaceAssumption
<1> HIDE DEF n
<1>3. Fits(l, hs, q, n)
  BY <1>1, <1>2 DEF Fits
<1> QED
  BY <1>3 DEF n

\* Opening a file that is there.
LEMMA OpenShape ==
  ASSUME NEW l, NEW hs, Shape(l, hs), NEW h \in Handles, NEW p \in Paths, NEW i \in Inodes,
         p \in SubPaths => l[Parent(p)].kind = "dir",
         ~Uses("symlinks") => \A q \in Paths : l[q].ino = i => l[q].kind = "file"
  PROVE  Shape(l, [hs EXCEPT ![h] = [path |-> p, ino |-> i]])
<1> DEFINE f == [path |-> p, ino |-> i]
           gs == [hs EXCEPT ![h] = f]
<1>1. f.path = p /\ f.ino = i /\ f \in OpenNodes /\ i # 0
  BY NamespaceAssumption DEF OpenNodes
<1> HIDE DEF f
<1>2. hs \in [Handles -> OpenNodes]
  BY DEF Shape, OpenFiles
<1>3. gs \in [Handles -> OpenNodes] /\ \A g \in Handles : gs[g] = IF g = h THEN f ELSE hs[g]
  BY <1>1, <1>2
<1> HIDE DEF gs
<1>4. OpenFiles(l, gs)
  BY <1>1, <1>3 DEF Shape, OpenFiles
<1>5. Plain(l, gs)
  BY <1>1, <1>3 DEF Shape, Plain
<1> QED
  BY <1>4, <1>5 DEF Shape, gs, f

\* Closing one, or all of them.
LEMMA CloseShape ==
  ASSUME NEW l, NEW hs, Shape(l, hs), NEW gs \in [Handles -> OpenNodes],
         \A h \in Handles : gs[h] = hs[h] \/ gs[h] = Closed
  PROVE  Shape(l, gs)
<1>1. Closed.path = <<>> /\ <<>> \notin SubPaths
  BY PathSets DEF Closed
<1>2. OpenFiles(l, gs)
  BY <1>1 DEF Shape, OpenFiles
<1>3. Plain(l, gs)
  BY <1>1 DEF Shape, Plain
<1> QED
  BY <1>2, <1>3 DEF Shape
-----------------------------------------------------------------------------
(* Hiding an open file.                                                    *)

\* Where the nodes and the open files are afterwards.
LEMMA HiddenAt ==
  ASSUME NEW q \in ClientPaths, NEW x \in HiddenPaths, Parent(x) = Parent(q),
         Shape(local, handle)
  PROVE  /\ q \in Paths /\ x \in Paths /\ x # q /\ x \notin TopPaths
         /\ x \in SubPaths <=> q \in SubPaths
         /\ Moved(q, x) \in [Paths -> Nodes]
         /\ \A p \in Paths : Moved(q, x)[p] = IF p = q THEN Nothing
                                           ELSE IF p = x THEN local[q] ELSE local[p]
         /\ Following(q, x) \in [Handles -> OpenNodes]
         /\ \A h \in Handles : /\ Following(q, x)[h].ino = handle[h].ino
                               /\ Following(q, x)[h].path = IF handle[h].path = q THEN x
                                                           ELSE handle[h].path
<1>1. q \in Paths /\ x \in Paths /\ x # q /\ x \notin TopPaths /\ <<>> \notin Paths
  BY PathSets, PathKinds
<1>2. \A p \in TopPaths : p # <<>>
  BY PathSets
<1>3. x \in SubPaths <=> q \in SubPaths
  BY <1>1, <1>2, PathKinds
<1>4. local \in [Paths -> Nodes] /\ Nothing \in Nodes
  BY DEF Shape, LocalTree, LocalNodes, Nothing, Node, Nodes
<1>5. /\ Moved(q, x) \in [Paths -> Nodes]
      /\ \A p \in Paths : Moved(q, x)[p] = IF p = q THEN Nothing
                                        ELSE IF p = x THEN local[q] ELSE local[p]
  BY <1>1, <1>4 DEF Moved
<1>6. handle \in [Handles -> OpenNodes]
  BY DEF Shape, OpenFiles
<1>7. ASSUME NEW h \in Handles
      PROVE  LET f == IF h \in OpenAt(q) THEN [handle[h] EXCEPT !.path = x] ELSE handle[h] IN
             /\ f \in OpenNodes /\ f.ino = handle[h].ino
             /\ f.path = IF handle[h].path = q THEN x ELSE handle[h].path
  <2>1. handle[h] \in OpenNodes
    BY <1>6
  <2>2. h \in OpenAt(q) <=> handle[h].path = q
    BY DEF OpenAt
  <2>3. /\ [handle[h] EXCEPT !.path = x] \in OpenNodes
        /\ [handle[h] EXCEPT !.path = x].ino = handle[h].ino
        /\ [handle[h] EXCEPT !.path = x].path = x
    BY <2>1, <1>1 DEF OpenNodes
  <2> QED
    BY <2>1, <2>2, <2>3
<1>8. /\ Following(q, x) \in [Handles -> OpenNodes]
      /\ \A h \in Handles : /\ Following(q, x)[h].ino = handle[h].ino
                            /\ Following(q, x)[h].path = IF handle[h].path = q THEN x
                                                        ELSE handle[h].path
  BY <1>7 DEF Following
<1> QED
  BY <1>1, <1>3, <1>5, <1>8

\* Everything is as it should be, but for what may be left below the name.
Rooted(l, hs, q) ==
  /\ LocalNodes(l) /\ OpenFiles(l, hs) /\ Plain(l, hs)
  /\ \A x \in SubPaths : Above(l, x) \/ (Parent(x) = q /\ l[q] = Nothing)

\* So it is after an open target was hidden.
LEMMA HideRooted ==
  ASSUME NEW q \in ClientPaths, NEW x \in HiddenPaths, Parent(x) = Parent(q),
         Shape(local, handle), HasLocal(q),
         \A h \in Handles : ~Below(q, handle[h].path)
  PROVE  Rooted(Moved(q, x), Following(q, x), q)
<1> DEFINE l == Moved(q, x)
           hs == Following(q, x)
<1>1. /\ q \in Paths /\ x \in Paths /\ x # q /\ x \notin TopPaths
      /\ x \in SubPaths <=> q \in SubPaths
      /\ l \in [Paths -> Nodes]
      /\ \A p \in Paths : l[p] = IF p = q THEN Nothing ELSE IF p = x THEN local[q] ELSE local[p]
      /\ hs \in [Handles -> OpenNodes]
      /\ \A h \in Handles : /\ hs[h].ino = handle[h].ino
                            /\ hs[h].path = IF handle[h].path = q THEN x ELSE handle[h].path
  BY HiddenAt
<1>2. Nothing.kind = "none" /\ Nothing.ino = 0
  BY DEF Nothing, Node
<1>3. \A y \in SubPaths : y \in Paths /\ Parent(y) \in TopPaths /\ Parent(y) \in Paths
                         /\ Parent(y) \notin SubPaths
  BY PathKinds, PathSets
<1> HIDE DEF l, hs
<1>4. LocalNodes(l)
  <2>1. \A p \in Paths : l[p].kind \in {"none", "dir"} <=> l[p].ino = 0
    BY <1>1, <1>2 DEF Shape, LocalTree, LocalNodes
  <2>2. ASSUME NEW p \in SubPaths PROVE l[p].kind # "dir"
    <3>1. \A y \in SubPaths : local[y].kind # "dir"
      BY DEF Shape, LocalTree, LocalNodes
    <3>2. l[p] = IF p = q THEN Nothing ELSE IF p = x THEN local[q] ELSE local[p]
      BY <1>1, <1>3
    <3> QED
      BY <1>1, <1>2, <3>1, <3>2
  <2>3. ASSUME NEW a \in Paths, NEW b \in Paths, l[a].ino = l[b].ino, l[a].ino # 0
        PROVE  l[a].kind = l[b].kind
    BY <1>1, <1>2, <2>3 DEF Shape, LocalTree, LocalNodes
  <2> QED
    BY <1>1, <2>1, <2>2, <2>3 DEF LocalNodes
<1>5. OpenFiles(l, hs)
  <2>1. ASSUME NEW h \in Handles, hs[h].path # <<>> PROVE hs[h].ino # 0
    BY <1>1, <2>1, PathSets DEF Shape, OpenFiles
  <2>2. ASSUME NEW h \in Handles, hs[h].path \in SubPaths
        PROVE  l[Parent(hs[h].path)].kind = "dir"
    <3>1. handle[h].path \in SubPaths /\ Parent(hs[h].path) = Parent(handle[h].path)
      BY <1>1, <2>2
    <3>2. Parent(handle[h].path) \in TopPaths /\ Parent(handle[h].path) # q
      BY <1>3, <3>1 DEF Below
    <3>3. l[Parent(handle[h].path)] = local[Parent(handle[h].path)]
      BY <1>1, <3>2, PathSets
    <3> QED
      BY <3>1, <3>3 DEF Shape, OpenFiles
  <2> QED
    BY <1>1, <2>1, <2>2 DEF OpenFiles
<1>6. Plain(l, hs)
  <2>1. ASSUME ~Uses("symlinks"), NEW p \in Paths PROVE l[p].kind # "link"
    BY <1>1, <1>2, <2>1 DEF Shape, Plain
  <2>2. ASSUME ~Uses("symlinks"), NEW p \in Paths, NEW h \in Handles,
               hs[h].path # <<>>, l[p].ino = hs[h].ino
        PROVE  l[p].kind = "file"
    <3>1. handle[h].path # <<>>
      BY <1>1, <2>2, PathSets
    <3>2. handle[h].ino # 0
      BY <3>1 DEF Shape, OpenFiles
    <3> QED
      BY <1>1, <1>2, <2>2, <3>1, <3>2 DEF Shape, Plain
  <2> QED
    BY <2>1, <2>2 DEF Plain
<1>7. ASSUME NEW y \in SubPaths PROVE Above(l, y) \/ (Parent(y) = q /\ l[q] = Nothing)
  <2>1. CASE Parent(y) # q
    <3>1. l[Parent(y)] = local[Parent(y)]
      BY <1>1, <1>3, <2>1
    <3>2. \A z \in SubPaths : Above(local, z)
      BY DEF Shape, LocalTree
    <3>3. CASE y = x
      BY <1>1, <3>1, <3>2, <3>3 DEF Above
    <3>4. CASE y # x
      BY <1>1, <1>2, <1>3, <3>1, <3>2, <3>4 DEF Above
    <3> QED
      BY <3>3, <3>4
  <2> QED
    BY <1>1, <2>1
<1> QED
  BY <1>4, <1>5, <1>6, <1>7 DEF Rooted, l, hs

\* A hidden file leaves nothing below its name.
LEMMA HideShape ==
  ASSUME NEW q \in ClientPaths, NEW x \in HiddenPaths, Parent(x) = Parent(q),
         Shape(local, handle), HasLocal(q), local[q].kind # "dir"
  PROVE  Shape(Moved(q, x), Following(q, x))
<1>1. \A y \in SubPaths : Above(local, y) /\ y \in Paths /\ Parent(y) \in TopPaths
  BY PathKinds, PathSets DEF Shape, LocalTree
<1>2. \A h \in Handles : ~Below(q, handle[h].path)
  BY DEF Shape, OpenFiles, Below
<1>3. Rooted(Moved(q, x), Following(q, x), q)
  BY <1>2, HideRooted
<1>4. ASSUME NEW y \in SubPaths, Parent(y) = q PROVE Above(Moved(q, x), y)
  <2>1. local[y].kind = "none"
    BY <1>1, <1>4 DEF Above
  <2>2. y # x
    BY <1>4, HiddenAt, PathKinds, PathSets
  <2>3. Moved(q, x)[y].kind = "none"
    BY <1>1, <2>1, <2>2, HiddenAt DEF Nothing, Node
  <2> QED
    BY <2>3 DEF Above
<1> QED
  BY <1>3, <1>4 DEF Rooted, Shape, LocalTree
-----------------------------------------------------------------------------
(* Renaming.                                                               *)

\* Where the nodes are after the names p and q became one.
LEMMA RenamedAt ==
  ASSUME NEW p \in ClientPaths, NEW q \in ClientPaths, ~Under(p, q), ~Under(q, p),
         NEW l, l \in [Paths -> Nodes], ~(l[p].ino # 0 /\ l[p].ino = l[q].ino)
  PROVE  LET t == RenamedTree(l, p, q) IN
         /\ t \in [Paths -> Nodes]
         /\ t[q] = l[p]
         /\ \A x \in SubPaths : Parent(x) = q =>
              t[x] = IF p \in TopPaths THEN l[Rebased(q, p, x)] ELSE Nothing
         /\ \A x \in Paths : x = p \/ Below(p, x) => t[x] = Nothing
         /\ \A x \in Paths : x # p /\ x # q /\ ~Below(p, x) /\ ~Below(q, x) => t[x] = l[x]
<1> DEFINE t == RenamedTree(l, p, q)
<1>1. t = [x \in Paths |->
             IF Under(q, x) /\ Rebased(q, p, x) \in Paths THEN l[Rebased(q, p, x)]
             ELSE IF Under(q, x) \/ Under(p, x) THEN Nothing ELSE l[x]]
  BY DEF RenamedTree
<1>2. p \in Paths /\ q \in Paths /\ p # q /\ SubPaths \subseteq Paths
  BY PathSets, UnderMeans
<1>3. p \notin SubPaths => p \in TopPaths
  BY PathKinds, <1>2
<1>4. \A x \in Paths : /\ Under(p, x) <=> x = p \/ Below(p, x)
                       /\ Under(q, x) <=> x = q \/ Below(q, x)
  BY <1>2, UnderMeans, PathKinds DEF Below
<1>5. Rebased(q, p, q) = p
  BY <1>2, RebasedSelf
<1>6. ASSUME NEW x \in SubPaths, Parent(x) = q
      PROVE  Rebased(q, p, x) \in Paths <=> p \in TopPaths
  <2>1. q \in Paths \ SubPaths
    BY <1>2, <1>6, PathKinds
  <2>2. CASE p \in TopPaths
    BY <1>2, <1>6, <2>1, <2>2, RebasedBelow
  <2>3. CASE p \notin TopPaths
    BY <1>3, <1>6, <2>3, RebasedTooLong
  <2> QED
    BY <2>2, <2>3
<1>7. Nothing \in Nodes
  BY DEF Nothing, Node, Nodes
<1>8. t \in [Paths -> Nodes]
  BY <1>1, <1>7
<1>9. \A x \in Paths : ~(Below(p, x) /\ Below(q, x)) /\ (Below(p, x) => x # q)
                      /\ (Below(q, x) => x # p)
  BY <1>2, <1>4 DEF Below
<1> HIDE DEF t
<1>10. t[q] = l[p]
  BY <1>1, <1>2, <1>4, <1>5
<1>11. ASSUME NEW x \in SubPaths, Parent(x) = q
       PROVE  t[x] = IF p \in TopPaths THEN l[Rebased(q, p, x)] ELSE Nothing
  BY <1>1, <1>2, <1>4, <1>6, <1>11 DEF Below
<1>12. ASSUME NEW x \in Paths, x = p \/ Below(p, x) PROVE t[x] = Nothing
  <2>1. Under(p, x) /\ ~Under(q, x)
    BY <1>2, <1>4, <1>9, <1>12
  <2> QED
    BY <1>1, <2>1
<1>13. ASSUME NEW x \in Paths, x # p, x # q, ~Below(p, x), ~Below(q, x) PROVE t[x] = l[x]
  <2>1. ~Under(p, x) /\ ~Under(q, x)
    BY <1>4, <1>13
  <2> QED
    BY <1>1, <2>1
<1> QED
  BY <1>8, <1>10, <1>11, <1>12, <1>13 DEF t

\* Where the open files are.
LEMMA RenamedOpenAt ==
  ASSUME NEW p \in ClientPaths, NEW q \in ClientPaths,
         NEW hs, hs \in [Handles -> OpenNodes], NEW h \in Handles,
         Below(p, hs[h].path) => q \in TopPaths
  PROVE  LET f == RenamedHandles(hs, p, q)[h] IN
         /\ f \in OpenNodes /\ f.ino = hs[h].ino
         /\ f.path = IF hs[h].path = p THEN q
                     ELSE IF Below(p, hs[h].path) THEN Rebased(p, q, hs[h].path)
                     ELSE hs[h].path
         /\ Below(p, hs[h].path) => f.path \in SubPaths /\ Parent(f.path) = q
<1> DEFINE f == RenamedHandles(hs, p, q)[h]
           x == hs[h].path
<1>1. f = IF x # <<>> /\ Under(p, x) THEN [hs[h] EXCEPT !.path = Rebased(p, q, x)] ELSE hs[h]
  BY DEF RenamedHandles
<1>2. hs[h] \in OpenNodes /\ x \in Paths \cup {<<>>} /\ hs[h].ino \in Inodes \cup {0}
  BY DEF OpenNodes
<1>3. p \in Paths /\ q \in Paths /\ <<>> \notin Paths
  BY PathSets
<1>4. x # <<>> => (Under(p, x) <=> x = p \/ Below(p, x))
  BY <1>2, <1>3, UnderMeans, PathKinds DEF Below
<1>5. Rebased(p, q, p) = q
  BY <1>3, RebasedSelf
<1>6. Below(p, x) => /\ x # <<>> /\ Rebased(p, q, x) \in SubPaths
                     /\ Parent(Rebased(p, q, x)) = q
  BY <1>3, PathKinds, PathSets, RebasedBelow DEF Below
<1>7. \A y \in Paths : /\ [hs[h] EXCEPT !.path = y] \in OpenNodes
                       /\ [hs[h] EXCEPT !.path = y].path = y
                       /\ [hs[h] EXCEPT !.path = y].ino = hs[h].ino
  BY <1>2 DEF OpenNodes
<1> HIDE DEF f, x
<1>8. CASE x # <<>> /\ Under(p, x)
  <2>1. Rebased(p, q, x) \in Paths
    BY <1>3, <1>4, <1>5, <1>6, <1>8, PathSets
  <2>2. /\ f \in OpenNodes /\ f.ino = hs[h].ino /\ f.path = Rebased(p, q, x)
    BY <1>1, <1>7, <1>8, <2>1
  <2> QED
    BY <1>4, <1>5, <1>6, <1>8, <2>2, <1>3 DEF f, x
<1>9. CASE ~(x # <<>> /\ Under(p, x))
  <2>1. f = hs[h] /\ x # p /\ ~Below(p, x)
    BY <1>1, <1>3, <1>4, <1>6, <1>9
  <2> QED
    BY <1>2, <2>1 DEF f, x
<1> QED
  BY <1>8, <1>9

\* What rename(2) may do: the source is there, so is the directory of the target,
\* neither the target nor anything below it is open, and a directory goes to the top.
Renames(l, hs, p, q) ==
  /\ p \in ClientPaths /\ q \in ClientPaths /\ ~Under(p, q) /\ ~Under(q, p)
  /\ Rooted(l, hs, q) /\ l[p].kind # "none"
  /\ \A h \in Handles : hs[h].path # q /\ ~Below(q, hs[h].path)
  /\ l[p].kind = "dir" => q \in TopPaths
  /\ q \in SubPaths => l[Parent(q)].kind = "dir"

\* What is open below the source is below a directory.
LEMMA OpenBelow ==
  ASSUME NEW l, NEW hs, NEW p, NEW q, Renames(l, hs, p, q), NEW h \in Handles,
         Below(p, hs[h].path)
  PROVE  l[p].kind = "dir" /\ q \in TopPaths
  BY DEF Renames, Rooted, OpenFiles, Below

\* Nobody is above the source and the target but their parents.
LEMMA RenamedParents ==
  ASSUME NEW p \in ClientPaths, NEW q \in ClientPaths, ~Under(p, q), ~Under(q, p)
  PROVE  /\ p \in Paths /\ q \in Paths /\ p # q
         /\ q \in SubPaths => /\ Parent(q) # p /\ Parent(q) # q /\ Parent(q) \in TopPaths
                              /\ Parent(q) \in Paths /\ Parent(q) \notin SubPaths
         /\ \A x \in SubPaths : /\ Parent(x) \in TopPaths /\ Parent(x) \in Paths
                                /\ Parent(x) \notin SubPaths
<1>1. p \in Paths /\ q \in Paths /\ SubPaths \subseteq Paths /\ TopPaths \subseteq Paths
  BY PathSets
<1>2. \A x \in SubPaths : Parent(x) \in TopPaths /\ Parent(x) \notin SubPaths
  BY <1>1, PathKinds
<1>3. /\ p # q
      /\ q \in SubPaths /\ p \notin SubPaths => Parent(q) # p
  BY <1>1, UnderMeans
<1>4. q \in SubPaths => Parent(q) # p /\ Parent(q) # q
  BY <1>2, <1>3
<1> QED
  BY <1>1, <1>2, <1>3, <1>4

\* Two names of one file stay as they are, and so does what is open.
LEMMA RenameSameShape ==
  ASSUME NEW l, NEW hs, NEW p, NEW q, Renames(l, hs, p, q),
         l[p].ino # 0, l[p].ino = l[q].ino
  PROVE  Shape(RenamedTree(l, p, q), RenamedHandles(hs, p, q))
<1> DEFINE gs == RenamedHandles(hs, p, q)
<1>1. RenamedTree(l, p, q) = l
  BY DEF RenamedTree
<1>2. p \in ClientPaths /\ q \in ClientPaths /\ p \in Paths /\ q \in Paths
  BY PathSets DEF Renames
<1>3. LocalNodes(l) /\ OpenFiles(l, hs) /\ Plain(l, hs) /\ l[q] # Nothing
  BY DEF Renames, Rooted, Nothing, Node
<1>4. LocalTree(l)
  BY <1>3 DEF Renames, Rooted, LocalTree
<1>5. \A h \in Handles : ~Below(p, hs[h].path)
  BY <1>2, <1>3, OpenBelow DEF LocalNodes
<1>6. hs \in [Handles -> OpenNodes]
  BY <1>3 DEF OpenFiles
<1>7. \A h \in Handles : /\ gs[h] \in OpenNodes /\ gs[h].ino = hs[h].ino
                         /\ gs[h].path = IF hs[h].path = p THEN q ELSE hs[h].path
  BY <1>2, <1>5, <1>6, RenamedOpenAt
<1>8. gs = [h \in Handles |-> gs[h]]
  BY DEF RenamedHandles
<1> HIDE DEF gs
<1>9. gs \in [Handles -> OpenNodes]
  BY <1>7, <1>8
<1>10. OpenFiles(l, gs)
  <2>1. q \in SubPaths => l[Parent(q)].kind = "dir"
    BY DEF Renames
  <2> QED
    BY <1>2, <1>3, <1>7, <1>9, <2>1, PathSets DEF OpenFiles
<1>11. Plain(l, gs)
  BY <1>2, <1>3, <1>7, PathSets DEF Plain
<1> QED
  BY <1>1, <1>4, <1>10, <1>11 DEF Shape, gs

\* Every other rename moves the source with all there is below it.
LEMMA RenameShape ==
  ASSUME NEW l, NEW hs, NEW p, NEW q, Renames(l, hs, p, q)
  PROVE  Shape(RenamedTree(l, p, q), RenamedHandles(hs, p, q))
<1> DEFINE t == RenamedTree(l, p, q)
           gs == RenamedHandles(hs, p, q)
<1>1. CASE l[p].ino # 0 /\ l[p].ino = l[q].ino
  BY <1>1, RenameSameShape
<1>2. CASE ~(l[p].ino # 0 /\ l[p].ino = l[q].ino)
  <2>1. p \in ClientPaths /\ q \in ClientPaths /\ ~Under(p, q) /\ ~Under(q, p)
    BY DEF Renames
  <2>2. /\ p \in Paths /\ q \in Paths /\ p # q
        /\ q \in SubPaths => /\ Parent(q) # p /\ Parent(q) # q /\ Parent(q) \in TopPaths
                             /\ Parent(q) \in Paths /\ Parent(q) \notin SubPaths
        /\ \A x \in SubPaths : /\ Parent(x) \in TopPaths /\ Parent(x) \in Paths
                               /\ Parent(x) \notin SubPaths
    BY <2>1, RenamedParents
  <2>3. LocalNodes(l) /\ OpenFiles(l, hs) /\ Plain(l, hs)
    BY DEF Renames, Rooted
  <2>4. l \in [Paths -> Nodes] /\ hs \in [Handles -> OpenNodes]
    BY <2>3 DEF LocalNodes, OpenFiles
  <2>5. /\ t \in [Paths -> Nodes]
        /\ t[q] = l[p]
        /\ \A x \in SubPaths : Parent(x) = q =>
             t[x] = IF p \in TopPaths THEN l[Rebased(q, p, x)] ELSE Nothing
        /\ \A x \in Paths : x = p \/ Below(p, x) => t[x] = Nothing
        /\ \A x \in Paths : x # p /\ x # q /\ ~Below(p, x) /\ ~Below(q, x) => t[x] = l[x]
    BY <1>2, <2>1, <2>4, RenamedAt
  <2>6. \A h \in Handles :
          /\ gs[h] \in OpenNodes /\ gs[h].ino = hs[h].ino
          /\ gs[h].path = IF hs[h].path = p THEN q
                          ELSE IF Below(p, hs[h].path) THEN Rebased(p, q, hs[h].path)
                          ELSE hs[h].path
          /\ Below(p, hs[h].path) => gs[h].path \in SubPaths /\ Parent(gs[h].path) = q
    BY <2>1, <2>4, OpenBelow, RenamedOpenAt
  <2>7. gs \in [Handles -> OpenNodes]
    <3>1. gs = [h \in Handles |-> gs[h]]
      BY DEF RenamedHandles
    <3> HIDE DEF gs
    <3> QED
      BY <2>6, <3>1
  <2> HIDE DEF t, gs
  <2>8. ASSUME NEW x \in SubPaths, Parent(x) = q, p \in TopPaths
        PROVE  Rebased(q, p, x) \in SubPaths /\ Parent(Rebased(q, p, x)) = p
               /\ Rebased(q, p, x) \in Paths
    <3>1. q \in Paths \ SubPaths
      BY <2>2, <2>8
    <3> QED
      BY <2>8, <3>1, RebasedBelow, PathSets
  <2>9. \A x \in Paths : \/ t[x] = Nothing
                         \/ \E y \in Paths : /\ t[x] = l[y]
                                             /\ x \in SubPaths => y \in SubPaths \/ (x = q /\ y = p)
    <3>1. ASSUME NEW x \in Paths, Below(q, x)
          PROVE  t[x] = Nothing \/ \E y \in Paths : t[x] = l[y] /\ y \in SubPaths
      BY <2>5, <2>8, <3>1 DEF Below
    <3> QED
      BY <2>2, <2>5, <3>1
  <2>10. Nothing.kind = "none" /\ Nothing.ino = 0
    BY DEF Nothing, Node
  <2>11. LocalNodes(t)
    <3>1. \A x \in Paths : t[x].kind \in {"none", "dir"} <=> t[x].ino = 0
      BY <2>3, <2>9, <2>10 DEF LocalNodes
    <3>2. ASSUME NEW x \in SubPaths PROVE t[x].kind # "dir"
      <4>1. q \in SubPaths => l[p].kind # "dir"
        BY <2>2, PathKinds DEF Renames
      <4>2. x \in Paths
        BY PathSets
      <4> QED
        BY <2>3, <2>9, <2>10, <4>1, <4>2 DEF LocalNodes
    <3>3. ASSUME NEW a \in Paths, NEW b \in Paths, t[a].ino = t[b].ino, t[a].ino # 0
          PROVE  t[a].kind = t[b].kind
      BY <2>3, <2>9, <2>10, <3>3 DEF LocalNodes
    <3> QED
      BY <2>5, <3>1, <3>2, <3>3 DEF LocalNodes
  <2>12. \A x \in SubPaths : Parent(x) # p /\ Parent(x) # q => t[Parent(x)] = l[Parent(x)]
    BY <2>2, <2>5 DEF Below
  <2>13. ASSUME NEW x \in SubPaths PROVE Above(t, x)
    <3>1. x \in Paths
      BY PathSets
    <3>2. CASE x = q
      BY <2>2, <2>12, <3>2 DEF Above, Renames
    <3>3. CASE Parent(x) = q
      <4>1. CASE p \in TopPaths
        <5>1. t[x] = l[Rebased(q, p, x)]
          BY <2>5, <3>3, <4>1
        <5>2. Rebased(q, p, x) \in SubPaths /\ Parent(Rebased(q, p, x)) = p
          BY <2>8, <3>3, <4>1
        <5>3. Above(l, Rebased(q, p, x))
          BY <2>2, <5>2 DEF Renames, Rooted
        <5> QED
          BY <2>5, <3>3, <5>1, <5>2, <5>3 DEF Above
      <4>2. CASE p \notin TopPaths
        BY <2>5, <2>10, <3>3, <4>2 DEF Above
      <4> QED
        BY <4>1, <4>2
    <3>4. CASE x = p \/ Parent(x) = p
      BY <2>5, <2>10, <3>1, <3>4 DEF Above, Below
    <3>5. CASE x # p /\ x # q /\ Parent(x) # p /\ Parent(x) # q
      <4>1. t[x] = l[x] /\ t[Parent(x)] = l[Parent(x)]
        BY <2>5, <2>12, <3>1, <3>5 DEF Below
      <4>2. Above(l, x)
        BY <3>5 DEF Renames, Rooted
      <4> QED
        BY <4>1, <4>2 DEF Above
    <3> QED
      BY <3>2, <3>3, <3>4, <3>5
  <2>14. OpenFiles(t, gs)
    <3>1. ASSUME NEW h \in Handles, gs[h].path # <<>> PROVE gs[h].ino # 0
      <4>1. hs[h].path # <<>>
        BY <2>2, <2>6, <3>1, PathSets DEF Below
      <4> QED
        BY <2>3, <2>6, <4>1 DEF OpenFiles
    <3>2. ASSUME NEW h \in Handles, gs[h].path \in SubPaths
          PROVE  t[Parent(gs[h].path)].kind = "dir"
      <4>1. CASE hs[h].path = p
        <5>1. gs[h].path = q
          BY <2>6, <4>1
        <5> QED
          BY <2>2, <2>12, <3>2, <5>1 DEF Renames
      <4>2. CASE Below(p, hs[h].path)
        BY <2>5, <2>6, <4>2, OpenBelow
      <4>3. CASE hs[h].path # p /\ ~Below(p, hs[h].path)
        <5>1. gs[h].path = hs[h].path
          BY <2>6, <4>3
        <5>2. Parent(hs[h].path) # p /\ Parent(hs[h].path) # q
          BY <3>2, <4>3, <5>1 DEF Renames, Below
        <5> QED
          BY <2>3, <2>12, <3>2, <5>1, <5>2 DEF OpenFiles
      <4> QED
        BY <4>1, <4>2, <4>3
    <3> QED
      BY <2>7, <3>1, <3>2 DEF OpenFiles
  <2>15. Plain(t, gs)
    <3>1. ASSUME ~Uses("symlinks"), NEW x \in Paths PROVE t[x].kind # "link"
      BY <2>3, <2>9, <2>10, <3>1 DEF Plain
    <3>2. ASSUME ~Uses("symlinks"), NEW x \in Paths, NEW h \in Handles, gs[h].path # <<>>,
                 t[x].ino = gs[h].ino
          PROVE  t[x].kind = "file"
      <4>1. gs[h].ino # 0 /\ gs[h].ino = hs[h].ino
        BY <2>6, <2>14, <3>2 DEF OpenFiles
      <4>2. hs[h].path # <<>>
        BY <2>2, <2>6, <3>2, PathSets DEF Below
      <4> QED
        BY <2>3, <2>9, <2>10, <3>2, <4>1, <4>2 DEF Plain
    <3> QED
      BY <3>1, <3>2 DEF Plain
  <2> QED
    BY <2>11, <2>13, <2>14, <2>15 DEF Shape, LocalTree, t, gs
<1> QED
  BY <1>1, <1>2

\* An open file keeps a name that is not free.
LEMMA RenameFound ==
  ASSUME NEW l, NEW hs, NEW r, NEW p, NEW q, Renames(l, hs, p, q), Found(l, hs, r)
  PROVE  Found(RenamedTree(l, p, q), RenamedHandles(hs, p, q), r)
<1> DEFINE t == RenamedTree(l, p, q)
           gs == RenamedHandles(hs, p, q)
<1>1. p \in ClientPaths /\ q \in ClientPaths /\ ~Under(p, q) /\ ~Under(q, p)
  BY DEF Renames
<1>2. p \in Paths /\ q \in Paths /\ p # q
  BY <1>1, RenamedParents
<1>3. l \in [Paths -> Nodes] /\ hs \in [Handles -> OpenNodes] /\ LocalNodes(l)
  BY DEF Renames, Rooted, LocalNodes, OpenFiles
<1>4. \A h \in Handles :
        /\ gs[h].path = IF hs[h].path = p THEN q
                        ELSE IF Below(p, hs[h].path) THEN Rebased(p, q, hs[h].path)
                        ELSE hs[h].path
        /\ Below(p, hs[h].path) => gs[h].path \in SubPaths
  BY <1>1, <1>3, OpenBelow, RenamedOpenAt
<1>5. t[q].kind = l[p].kind
  <2>1. CASE l[p].ino # 0 /\ l[p].ino = l[q].ino
    BY <1>2, <1>3, <2>1 DEF RenamedTree, LocalNodes
  <2>2. CASE ~(l[p].ino # 0 /\ l[p].ino = l[q].ino)
    BY <1>1, <1>3, <2>2, RenamedAt
  <2> QED
    BY <2>1, <2>2
<1>6. ASSUME NEW x \in Paths, x # p, x # q, ~Below(p, x), ~Below(q, x) PROVE t[x] = l[x]
  <2>1. CASE l[p].ino # 0 /\ l[p].ino = l[q].ino
    BY <2>1 DEF RenamedTree
  <2>2. CASE ~(l[p].ino # 0 /\ l[p].ino = l[q].ino)
    BY <1>1, <1>3, <1>6, <2>2, RenamedAt
  <2> QED
    BY <2>1, <2>2
<1>7. LocalNodes(t)
  BY RenameShape DEF Shape, LocalTree
<1> HIDE DEF t, gs
<1>8. ASSUME NEW h \in Handles, gs[h].path # <<>>
      PROVE  /\ t[gs[h].path].kind # "dir"
             /\ gs[h].path \in TopPaths /\ t[gs[h].path].kind = "none" => r[gs[h].path] = "file"
  <2>1. CASE hs[h].path = p
    BY <1>2, <1>4, <1>5, <2>1, PathSets DEF Found, Renames
  <2>2. CASE hs[h].path # p /\ Below(p, hs[h].path)
    <3>1. gs[h].path \in SubPaths /\ gs[h].path \in Paths /\ gs[h].path \notin TopPaths
      BY <1>4, <2>2, PathKinds, PathSets
    <3> QED
      BY <1>7, <3>1 DEF LocalNodes
  <2>3. CASE hs[h].path # p /\ ~Below(p, hs[h].path)
    <3>1. gs[h].path = hs[h].path /\ hs[h].path # q /\ ~Below(q, hs[h].path)
      BY <1>4, <2>3 DEF Renames
    <3>2. hs[h].path \in Paths
      BY <1>3, <1>8, <3>1 DEF OpenNodes
    <3>3. t[hs[h].path] = l[hs[h].path]
      BY <1>6, <2>3, <3>1, <3>2
    <3> QED
      BY <1>8, <3>1, <3>3 DEF Found
  <2> QED
    BY <2>1, <2>2, <2>3
<1>9. <<>> \notin TopPaths
  BY PathSets
<1> QED
  BY <1>8, <1>9 DEF Found, t, gs

-----------------------------------------------------------------------------
(* The steps keep the invariant.                                           *)

\* What a serving daemon's step has to keep.
LEMMA SoundFrom ==
  ASSUME Sound, UNCHANGED <<phase, uses>>, held' \subseteq held, Serving,
         readonly' \subseteq Inodes, RemoteTree(remote'), Shape(local', handle'),
         SessionUp' => Found(local', handle', remote')
  PROVE  Sound'
<1>1. Plain(local, handle)'
  BY DEF Shape, Plain, Uses
<1>2. Static'
  BY DEF Sound, Static, Serving
<1> QED
  BY <1>1, <1>2 DEF Sound, Shape, RemoteTree, LocalTree, LocalNodes, Above, OpenFiles, Found

\* Open files have paths.
LEMMA OpenPaths ==
  Sound => \A h \in Handles : handle[h].path # <<>> => handle[h].path \in Paths
  BY DEF Sound, Shape, OpenFiles, OpenNodes

\* Where a name leads that is no link, and who finds something there.
LEMMA Lookups ==
  ASSUME Sound, NEW p \in Paths
  PROVE  /\ local[p].kind # "link" => /\ Resolved(p) = p
                                      /\ Exists(p) <=> HasLocal(p)
         /\ ~Uses("symlinks") => local[p].kind # "link"
         /\ local[p].kind = "dir" => Getattr(p) = "dir"
         /\ p \in SubPaths /\ HasLocal(p) => local[Parent(p)].kind = "dir"
         /\ LocalParent(p) <=> (p \in SubPaths => local[Parent(p)].kind = "dir")
         /\ RemoteParent(p) <=> (p \in SubPaths => remote[Parent(p)] = "dir")
<1>1. local[p].kind # "link" => Resolved(p) = p
  BY DEF Resolved, ResolvedIn
<1>2. local[p].kind # "link" => (Exists(p) <=> HasLocal(p))
  BY <1>1 DEF Exists, ExistsIn, Resolved, HasLocal
<1>3. local[p].kind = "dir" => Getattr(p) = "dir"
  BY <1>2 DEF Getattr, HasLocal
<1>4. ~Uses("symlinks") => local[p].kind # "link"
  BY DEF Sound, Shape, Plain
<1>5. p \in SubPaths /\ HasLocal(p) => local[Parent(p)].kind = "dir"
  BY DEF Sound, Shape, LocalTree, Above, HasLocal
<1>6. Len(p) = 2 <=> p \in SubPaths
  BY PathKinds
<1> QED
  BY <1>1, <1>2, <1>3, <1>4, <1>5, <1>6 DEF LocalParent, RemoteParent

\* A file is opened, and made if it was not there.
LEMMA OpenedSound ==
  ASSUME Sound, Serving, NEW h \in Handles, NEW p \in ClientPaths, NEW i \in Inodes, NEW q,
         q = Resolved(p),
         \/ local[q].kind = "file" /\ i = local[q].ino
         \/ ~HasLocal(q) /\ LocalParent(q) /\ NewInode(i),
         local' = [local EXCEPT ![q] = Node("file", i, <<>>)],
         handle' = [handle EXCEPT ![h] = [path |-> p, ino |-> i]],
         remote' = remote, UNCHANGED daemon, readonly' \subseteq Inodes
  PROVE  Sound'
<1>1. p \in Paths /\ \A x \in SubPaths : x \in Paths /\ Parent(x) \in Paths
  BY PathKinds, PathSets
<1>2. /\ local \in [Paths -> Nodes] /\ Shape(local, handle) /\ LocalNodes(local)
      /\ handle \in [Handles -> OpenNodes]
  BY DEF Sound, Shape, LocalTree, LocalNodes, OpenFiles
<1>3. NewInode(i) => \A x \in Paths : local[x].ino # i
  BY DEF NewInode, FreeInodes
<1>4. i # 0
  BY NamespaceAssumption
<1>5. local[p].kind # "link" => q = p
  BY <1>1, Lookups
<1>6. q \in Paths => /\ local[q].kind \in {"none", "file"}
                     /\ \A x \in Paths : local[x].ino = i => local[x].kind = "file"
                     /\ q \in SubPaths => local[Parent(q)].kind = "dir"
  BY <1>2, <1>3, <1>4, Lookups DEF HasLocal, LocalNodes
<1>7. /\ Node("file", i, <<>>).kind = "file" /\ Node("file", i, <<>>).ino = i
      /\ Node("file", i, <<>>) \in Nodes
  BY DEF Node, Nodes
<1>8. /\ Shape(local', handle)
      /\ local' \in [Paths -> Nodes]
      /\ \A x \in Paths : local'[x] = IF x = q THEN Node("file", i, <<>>) ELSE local[x]
  <2>1. CASE q \in Paths
    <3>1. Fits(local, handle, q, Node("file", i, <<>>))
      BY <1>6, <2>1, FileFits
    <3>2. Shape(local', handle)
      BY <1>2, <2>1, <3>1, SetShape
    <3> QED
      BY <1>2, <1>7, <3>2
  <2>2. CASE q \notin Paths
    <3>1. local' = local
      BY <1>2, <2>2
    <3> QED
      BY <1>2, <2>2, <3>1
  <2> QED
    BY <2>1, <2>2
<1>9. p \in SubPaths => local'[Parent(p)].kind = "dir"
  <2>1. p \in SubPaths => local[Parent(p)].kind = "dir"
    BY <1>1, <1>5, <1>6, Lookups DEF HasLocal
  <2> QED
    BY <1>1, <1>6, <1>8, <2>1
<1>10. ~Uses("symlinks") => \A x \in Paths : local'[x].ino = i => local'[x].kind = "file"
  BY <1>1, <1>5, <1>6, <1>7, <1>8, Lookups
<1>11. Shape(local', handle')
  BY <1>1, <1>8, <1>9, <1>10, OpenShape
<1>12. SessionUp' => Found(local', handle', remote')
  <2> SUFFICES ASSUME SessionUp PROVE Found(local', handle', remote')
    BY DEF SessionUp, daemon
  <2>1. Found(local, handle, remote)
    BY DEF Sound
  <2>2. \A g \in Handles : g # h => handle'[g] = handle[g]
    BY <1>2
  <2>3. handle'[h].path = p
    BY <1>2
  <2>4. local'[p].kind # "dir" /\ local'[p].kind # "none"
    BY <1>1, <1>5, <1>7, <1>8
  <2> QED
    BY <1>7, <1>8, <2>1, <2>2, <2>3, <2>4, OpenPaths, PathSets DEF Found
<1> QED
  BY <1>11, <1>12, SoundFrom DEF Sound, daemon

\* create makes the file its name leads to.
LEMMA CreateSound ==
  ASSUME Sound, NEW h \in Handles, NEW p \in ClientPaths, NEW ro \in BOOLEAN, Create(h, p, ro)
  PROVE  Sound'
<1> DEFINE q == Resolved(p)
<1>1. PICK i \in Inodes :
        /\ NewInode(i)
        /\ local' = [local EXCEPT ![q] = Node("file", i, <<>>)]
        /\ handle' = [handle EXCEPT ![h] = [path |-> p, ino |-> i]]
        /\ readonly' = IF ro THEN readonly \cup {i} ELSE readonly
  BY DEF Create
<1>2. Serving /\ ~HasLocal(q) /\ LocalParent(q) /\ remote' = remote /\ UNCHANGED daemon
  BY DEF Create
<1>3. readonly' \subseteq Inodes
  BY <1>1 DEF Sound, Static
<1>4. q = Resolved(p)
  OBVIOUS
<1> HIDE DEF q
<1> QED
  BY <1>1, <1>2, <1>3, <1>4, OpenedSound

\* A step that leaves the files alone keeps them.
LEMMA FilesSound ==
  ASSUME Sound, UNCHANGED <<files, phase, uses>>, Serving, held' \subseteq held
  PROVE  Sound'
<1>1. SessionUp' => SessionUp
  BY DEF SessionUp
<1> QED
  BY <1>1, SoundFrom DEF Sound, Static, files

\* open opens the file its name leads to, or frees the session.
LEMMA OpenSound ==
  ASSUME Sound, NEW h \in Handles, NEW p \in ClientPaths, Open(h, p)
  PROVE  Sound'
<1> DEFINE q == Resolved(p)
           writable == local[q].kind = "file" /\ local[q].ino \notin readonly
           new == ~HasLocal(q) /\ LocalParent(q)
<1>1. CASE writable \/ new
  <2>1. PICK i \in Inodes :
          /\ IF writable THEN i = local[q].ino ELSE NewInode(i)
          /\ local' = [local EXCEPT ![q] = Node("file", i, <<>>)]
          /\ handle' = [handle EXCEPT ![h] = [path |-> p, ino |-> i]]
    BY <1>1 DEF Open
  <2>2. Serving /\ UNCHANGED <<held, remote, readonly, phase, uses>>
    BY <1>1 DEF Open
  <2>3. q = Resolved(p)
    OBVIOUS
  <2>4. \/ local[q].kind = "file" /\ i = local[q].ino
        \/ ~HasLocal(q) /\ LocalParent(q) /\ NewInode(i)
    BY <1>1, <2>1
  <2>5. readonly' \subseteq Inodes /\ remote' = remote /\ UNCHANGED daemon
    BY <2>2 DEF Sound, Static, daemon
  <2> HIDE DEF q, writable, new
  <2> QED
    BY <2>1, <2>2, <2>3, <2>4, <2>5, OpenedSound
<1>2. CASE ~(writable \/ new)
  <2>1. Serving /\ held' \subseteq held /\ UNCHANGED <<files, phase, uses>>
    BY <1>2 DEF Open
  <2> QED
    BY <2>1, FilesSound
<1> QED
  BY <1>1, <1>2

\* A file comes to the server, or goes, where no directory is.
LEMMA SetRemote ==
  ASSUME NEW r, RemoteTree(r), NEW p \in Paths, r[p] # "dir", NEW v \in {"none", "file"},
         v = "file" => (p \in SubPaths => r[Parent(p)] = "dir")
  PROVE  /\ RemoteTree([r EXCEPT ![p] = v])
         /\ \A x \in Paths : [r EXCEPT ![p] = v][x] = IF x = p THEN v ELSE r[x]
<1> DEFINE t == [r EXCEPT ![p] = v]
<1>1. r \in [Paths -> Kinds]
  BY DEF RemoteTree
<1>2. t \in [Paths -> Kinds] /\ \A x \in Paths : t[x] = IF x = p THEN v ELSE r[x]
  BY <1>1 DEF Kinds
<1>3. \A x \in SubPaths : x \in Paths /\ Parent(x) \in Paths /\ Parent(x) \notin SubPaths
  BY PathKinds, PathSets
<1> HIDE DEF t
<1>4. RemoteTree(t)
  <2>1. ASSUME NEW x \in SubPaths, t[x] # "none" PROVE t[Parent(x)] = "dir"
    BY <1>2, <1>3, <2>1 DEF RemoteTree
  <2> QED
    BY <1>2, <2>1 DEF RemoteTree
<1> QED
  BY <1>2, <1>4 DEF t

\* What release does: the file is closed, and for a name of the client's either
\* nothing else happens or the server has the file.
LEMMA ReleaseAt ==
  ASSUME Sound, NEW h \in Handles, Release(h), NEW p, p = handle[h].path
  PROVE  /\ p \in Paths /\ Serving /\ UNCHANGED daemon /\ readonly' \subseteq Inodes
         /\ handle' = [handle EXCEPT ![h] = Closed]
         /\ local' = local \/ local' = [local EXCEPT ![p] = Nothing]
         /\ local' = local \/ local[p].kind # "dir" \/ p \notin TopPaths
         /\ SessionUp => local[p].kind # "dir"
         /\ RemoteTree(remote') /\ \A x \in Paths : x # p => remote'[x] = remote[x]
         /\ p \notin HiddenPaths =>
              \/ UNCHANGED <<local, remote>> /\ ~(SessionUp /\ RemoteParent(p) /\ remote[p] # "dir")
              \/ SessionUp /\ RemoteParent(p) /\ remote[p] # "dir" /\ remote'[p] = "file"
         /\ p \notin HiddenPaths /\ local' = local =>
              \/ UNCHANGED <<local, remote>>
              \/ local[p].kind = "none"
<1> DEFINE saved == SessionUp /\ RemoteParent(p) /\ remote[p] # "dir"
           r == IF saved THEN [remote EXCEPT ![p] = "file"] ELSE remote
           l == IF saved /\ (local[p].kind = "dir" => Empty(p))
                THEN [local EXCEPT ![p] = Nothing] ELSE local
           last == p \in HiddenPaths /\ OpenAt(p) = {h}
<1>1. /\ remote' = IF last /\ ~ExistsIn(l, p) /\ SessionUp THEN [r EXCEPT ![p] = "none"] ELSE r
      /\ local' = IF last /\ ExistsIn(l, p) THEN [l EXCEPT ![p] = Nothing] ELSE l
      /\ handle' = [handle EXCEPT ![h] = Closed]
      /\ readonly' \subseteq readonly
      /\ Serving /\ IsOpen(h) /\ UNCHANGED daemon
  BY DEF Release, Becomes
<1>2. p \in Paths
  BY <1>1 DEF Sound, Shape, OpenFiles, OpenNodes, IsOpen
<1>3. /\ local \in [Paths -> Nodes] /\ remote \in [Paths -> Kinds] /\ RemoteTree(remote)
      /\ Nothing \in Nodes /\ Nothing.kind = "none"
  BY DEF Sound, Shape, LocalTree, LocalNodes, RemoteTree, Nothing, Node, Nodes
<1>4. p \in HiddenPaths => p \notin TopPaths /\ remote[p] # "dir"
  BY <1>2, PathKinds DEF Sound, RemoteTree
<1>5. RemoteParent(p) => (p \in SubPaths => remote[Parent(p)] = "dir")
  BY <1>2, Lookups
<1>6. RemoteTree(r) /\ r[p] = (IF saved THEN "file" ELSE remote[p])
      /\ \A x \in Paths : x # p => r[x] = remote[x]
  BY <1>2, <1>3, <1>5, SetRemote
<1>7. l = local \/ (l = [local EXCEPT ![p] = Nothing] /\ saved)
  OBVIOUS
<1>8. l = [local EXCEPT ![p] = Nothing] => [l EXCEPT ![p] = Nothing] = l
  BY <1>2, <1>3
<1>9. ~saved => l = local /\ r = remote
  OBVIOUS
<1>10. saved /\ l = local => local[p].kind \in {"none", "dir"}
  <2>1. [local EXCEPT ![p] = Nothing][p] = Nothing
    BY <1>2, <1>3
  <2> QED
    BY <1>3, <2>1
<1>11. saved => local[p].kind # "dir"
  BY <1>1 DEF Sound, Found, IsOpen
<1>12. saved <=> SessionUp /\ RemoteParent(p) /\ remote[p] # "dir"
  OBVIOUS
<1>13. last => p \in HiddenPaths
  OBVIOUS
<1> HIDE DEF saved, r, l, last
<1>14. local' = local \/ local' = [local EXCEPT ![p] = Nothing]
  BY <1>1, <1>7, <1>8
<1>15. local' = local \/ local[p].kind # "dir" \/ p \notin TopPaths
  BY <1>1, <1>4, <1>7, <1>11, <1>13
<1>16. RemoteTree(remote') /\ \A x \in Paths : x # p => remote'[x] = remote[x]
  <2>1. CASE remote' = r
    BY <1>6, <2>1
  <2>2. CASE remote' = [r EXCEPT ![p] = "none"] /\ last
    <3>1. r[p] # "dir"
      BY <1>4, <1>6, <1>13, <2>2
    <3>2. "none" \in {"none", "file"} /\ "none" # "file"
      OBVIOUS
    <3>3. /\ RemoteTree([r EXCEPT ![p] = "none"])
          /\ \A x \in Paths : [r EXCEPT ![p] = "none"][x] = IF x = p THEN "none" ELSE r[x]
      BY <1>2, <1>6, <3>1, <3>2, SetRemote
    <3>4. RemoteTree(remote')
      BY <2>2, <3>3
    <3>5. \A x \in Paths : x # p => remote'[x] = remote[x]
      BY <1>6, <2>2, <3>3
    <3> QED
      BY <3>4, <3>5
  <2> QED
    BY <1>1, <2>1, <2>2
<1>17. p \notin HiddenPaths =>
         \/ UNCHANGED <<local, remote>> /\ ~(SessionUp /\ RemoteParent(p) /\ remote[p] # "dir")
         \/ SessionUp /\ RemoteParent(p) /\ remote[p] # "dir" /\ remote'[p] = "file"
  BY <1>1, <1>6, <1>9, <1>12, <1>13
<1>18. p \notin HiddenPaths /\ local' = local =>
         UNCHANGED <<local, remote>> \/ local[p].kind = "none"
  BY <1>1, <1>9, <1>10, <1>11, <1>13
<1>19. SessionUp => local[p].kind # "dir"
  BY <1>1 DEF Sound, Found, IsOpen
<1> QED
  BY <1>1, <1>2, <1>14, <1>15, <1>16, <1>17, <1>18, <1>19 DEF Sound, Static

\* release keeps the invariant.
LEMMA ReleaseSound ==
  ASSUME Sound, NEW h \in Handles, Release(h)
  PROVE  Sound'
<1> DEFINE p == handle[h].path
<1>1. p = handle[h].path
  OBVIOUS
<1> HIDE DEF p
<1>2. /\ p \in Paths /\ Serving /\ UNCHANGED daemon /\ readonly' \subseteq Inodes
      /\ handle' = [handle EXCEPT ![h] = Closed]
      /\ local' = local \/ local' = [local EXCEPT ![p] = Nothing]
      /\ local' = local \/ local[p].kind # "dir" \/ p \notin TopPaths
      /\ RemoteTree(remote') /\ \A x \in Paths : x # p => remote'[x] = remote[x]
  BY <1>1, ReleaseAt
<1>3. Shape(local, handle) /\ handle \in [Handles -> OpenNodes] /\ local \in [Paths -> Nodes]
  BY DEF Sound, Shape, OpenFiles, LocalTree, LocalNodes
<1>4. /\ handle' \in [Handles -> OpenNodes] /\ Closed.path = <<>>
      /\ \A g \in Handles : handle'[g] = handle[g] \/ handle'[g] = Closed
  BY <1>2, <1>3 DEF Closed, OpenNodes
<1>5. Shape(local', handle)
  <2>1. ASSUME local' # local PROVE local[p].kind = "dir" => Childless(local, handle, p)
    <3>1. local[p].kind = "dir" => p \notin TopPaths
      BY <1>2, <2>1
    <3>2. \A x \in Paths \cup {<<>>} : Below(p, x) => p \in TopPaths
      BY PathKinds, PathSets DEF Below
    <3> QED
      BY <1>3, <3>1, <3>2 DEF Childless, OpenNodes
  <2>2. ASSUME local' # local PROVE Fits(local, handle, p, Nothing)
    BY <1>2, <1>3, <2>1, <2>2, NothingFits
  <2> QED
    BY <1>2, <1>3, <2>2, SetShape
<1>6. Shape(local', handle')
  BY <1>4, <1>5, CloseShape
<1>7. SessionUp' => Found(local', handle', remote')
  <2> SUFFICES ASSUME SessionUp PROVE Found(local', handle', remote')
    BY <1>2 DEF SessionUp, daemon
  <2>1. Found(local, handle, remote)
    BY DEF Sound
  <2>2. ASSUME NEW g \in Handles, handle'[g].path # <<>>
        PROVE  /\ local'[handle'[g].path].kind # "dir"
               /\ handle'[g].path \in TopPaths /\ local'[handle'[g].path].kind = "none" =>
                    remote'[handle'[g].path] = "file"
    <3>1. handle'[g] = handle[g] /\ handle[g].path \in Paths
      BY <1>4, <2>2, OpenPaths
    <3>2. local[handle[g].path].kind # "dir"
      BY <2>1, <2>2, <3>1 DEF Found
    <3>3. local'[handle[g].path].kind # "dir"
      BY <1>2, <1>3, <3>1, <3>2 DEF Nothing, Node
    <3>4. CASE handle[g].path = p
      <4>1. p \in TopPaths => remote'[p] = "file" \/ UNCHANGED <<local, remote>>
        BY <1>1, <1>2, ReleaseAt, PathKinds
      <4> QED
        BY <2>1, <3>1, <3>3, <3>4, <4>1 DEF Found
    <3>5. CASE handle[g].path # p
      <4>1. local'[handle[g].path] = local[handle[g].path]
        BY <1>2, <1>3, <3>1, <3>5
      <4> QED
        BY <1>2, <2>1, <3>1, <3>3, <3>5, <4>1 DEF Found
    <3> QED
      BY <3>4, <3>5
  <2> QED
    BY <2>2, PathSets DEF Found
<1> QED
  BY <1>2, <1>6, <1>7, SoundFrom DEF daemon

\* What is open keeps a name that is not free when another name is hidden.
LEMMA HideFound ==
  ASSUME NEW q \in ClientPaths, NEW x \in HiddenPaths, Parent(x) = Parent(q),
         OpenAt(x) = {}, Shape(local, handle), Found(local, handle, remote)
  PROVE  Found(Moved(q, x), Following(q, x), remote)
<1> DEFINE l == Moved(q, x)
           hs == Following(q, x)
<1>1. /\ q \in Paths /\ x \in Paths /\ x # q /\ x \notin TopPaths
      /\ \A p \in Paths : l[p] = IF p = q THEN Nothing ELSE IF p = x THEN local[q] ELSE local[p]
      /\ \A h \in Handles : hs[h].path = IF handle[h].path = q THEN x ELSE handle[h].path
  BY HiddenAt
<1> HIDE DEF l, hs
<1>2. \A h \in Handles : handle[h].path # <<>> => handle[h].path \in Paths
  BY DEF Shape, OpenFiles, OpenNodes
<1>3. ASSUME NEW h \in Handles, hs[h].path # <<>>
      PROVE  /\ l[hs[h].path].kind # "dir"
             /\ hs[h].path \in TopPaths /\ l[hs[h].path].kind = "none" =>
                  remote[hs[h].path] = "file"
  <2>1. CASE hs[h].path = x
    <3>1. handle[h].path = q
      BY <1>1, <2>1 DEF OpenAt
    <3>2. local[q].kind # "dir"
      BY <1>1, <3>1, PathSets DEF Found
    <3> QED
      BY <1>1, <2>1, <3>2
  <2>2. CASE hs[h].path # x
    <3>1. hs[h].path = handle[h].path /\ handle[h].path # q
      BY <1>1, <2>2
    <3> QED
      BY <1>1, <1>2, <1>3, <2>2, <3>1 DEF Found
  <2> QED
    BY <2>1, <2>2
<1>4. Found(l, hs, remote)
  BY <1>3, PathSets DEF Found
<1> QED
  BY <1>4 DEF l, hs

\* unlink hides the name, or removes it on one side.
LEMMA UnlinkSound ==
  ASSUME Sound, NEW p \in ClientPaths, Unlink(p)
  PROVE  Sound'
<1>1. p \in Paths /\ Serving /\ UNCHANGED daemon
  BY PathSets DEF Unlink
<1>2. Shape(local, handle) /\ RemoteTree(remote) /\ readonly \subseteq Inodes
      /\ local \in [Paths -> Nodes]
  BY DEF Sound, Static, Shape, LocalTree, LocalNodes
<1>3. local[p].kind # "dir" /\ (~Exists(p) => remote[p] # "dir")
  BY <1>1, Lookups DEF Unlink, Getattr
<1>4. SessionUp' => Found(local, handle, remote)
  BY <1>1 DEF Sound, SessionUp, daemon
<1>5. ASSUME NEW x \in HiddenPaths, Hide(p, x), local' = Moved(p, x), handle' = Following(p, x),
             remote' = remote, readonly' \subseteq readonly
      PROVE  Sound'
  <2>1. Parent(x) = Parent(p) /\ HasLocal(p) /\ OpenAt(x) = {}
    BY <1>5 DEF Hide
  <2>2. Shape(local', handle')
    BY <1>2, <1>3, <1>5, <2>1, HideShape
  <2>3. SessionUp' => Found(local', handle', remote')
    BY <1>2, <1>4, <1>5, <2>1, HideFound
  <2> QED
    BY <1>1, <1>2, <1>5, <2>2, <2>3, SoundFrom DEF daemon
<1>6. ASSUME OpenAt(p) = {}, local' = [local EXCEPT ![p] = Nothing], handle' = handle,
             remote' = remote, readonly' \subseteq readonly
      PROVE  Sound'
  <2>1. Fits(local, handle, p, Nothing)
    BY <1>1, <1>2, <1>3, NothingFits
  <2>2. Shape(local', handle')
    BY <1>1, <1>2, <1>6, <2>1, SetShape
  <2>3. \A h \in Handles : handle[h].path # p
    BY <1>6 DEF OpenAt
  <2>4. \A x \in Paths : x # p => local'[x] = local[x]
    BY <1>2, <1>6
  <2>5. SessionUp' => Found(local', handle', remote')
    BY <1>4, <1>6, <2>3, <2>4, OpenPaths, PathSets DEF Found
  <2> QED
    BY <1>1, <1>2, <1>6, <2>2, <2>5, SoundFrom DEF daemon
<1>7. ASSUME OpenAt(p) = {}, remote' = [remote EXCEPT ![p] = "none"], ~Exists(p),
             UNCHANGED <<local, handle, readonly>>
      PROVE  Sound'
  <2>1. "none" \in {"none", "file"} /\ "none" # "file"
    OBVIOUS
  <2>2. /\ RemoteTree(remote')
        /\ \A x \in Paths : remote'[x] = IF x = p THEN "none" ELSE remote[x]
    <3>1. remote[p] # "dir"
      BY <1>3, <1>7
    <3>2. /\ RemoteTree([remote EXCEPT ![p] = "none"])
          /\ \A x \in Paths : [remote EXCEPT ![p] = "none"][x]
                              = IF x = p THEN "none" ELSE remote[x]
      BY <1>1, <1>2, <2>1, <3>1, SetRemote
    <3> QED
      BY <1>7, <3>2
  <2>3. \A h \in Handles : handle[h].path # p
    BY <1>7 DEF OpenAt
  <2>4. SessionUp' => Found(local', handle', remote')
    BY <1>4, <1>7, <2>2, <2>3, OpenPaths, PathSets DEF Found
  <2> QED
    BY <1>1, <1>2, <1>7, <2>2, <2>4, SoundFrom DEF daemon
<1> QED
  BY <1>5, <1>6, <1>7 DEF Unlink, Becomes

\* A name that is made was free.
LEMMA MadeSound ==
  ASSUME Sound, NEW p \in ClientPaths, NEW node, MakeLocal(p, node),
         Fits(local, handle, p, node)
  PROVE  Sound'
<1>1. /\ p \in Paths /\ Serving /\ UNCHANGED <<remote, readonly, handle, daemon>>
      /\ local' = [local EXCEPT ![p] = node]
      /\ ~HasLocal(p) /\ Getattr(p) = "none"
  BY PathSets DEF MakeLocal, Absent
<1>2. Shape(local, handle) /\ RemoteTree(remote) /\ readonly \subseteq Inodes
      /\ local \in [Paths -> Nodes] /\ node \in Nodes
  BY DEF Sound, Static, Shape, LocalTree, LocalNodes, Fits
<1>3. Shape(local', handle')
  BY <1>1, <1>2, SetShape
<1>4. ~Exists(p)
  BY <1>1, Lookups DEF HasLocal
<1>5. SessionUp => remote[p] = "none"
  BY <1>1, <1>4 DEF Getattr
<1>6. \A x \in Paths : x # p => local'[x] = local[x]
  BY <1>1, <1>2
<1>7. SessionUp' => Found(local', handle', remote')
  <2> SUFFICES ASSUME SessionUp PROVE Found(local', handle', remote')
    BY <1>1 DEF SessionUp, daemon
  <2>1. Found(local, handle, remote)
    BY DEF Sound
  <2>2. \A h \in Handles : handle[h].path \in TopPaths => handle[h].path # p
    BY <1>1, <1>5, <2>1 DEF Found, HasLocal
  <2>3. ASSUME NEW h \in Handles, handle[h].path = p
        PROVE  local'[p].kind # "dir" /\ p \notin TopPaths
    <3>1. p \notin TopPaths
      BY <2>2, <2>3
    <3>2. p \in SubPaths
      BY <1>1, <3>1, PathKinds
    <3> QED
      BY <1>1, <1>2, <3>1, <3>2 DEF Fits
  <2> QED
    BY <1>1, <1>6, <2>1, <2>3, OpenPaths, PathSets DEF Found
<1> QED
  BY <1>1, <1>2, <1>3, <1>7, SoundFrom DEF daemon

\* The nodes that are made fit.
LEMMA NewFits ==
  ASSUME Sound, NEW p \in Paths, ~HasLocal(p), LocalParent(p), NEW i \in Inodes, NewInode(i),
         NEW kind \in {"file", "fifo", "link"}, kind = "link" => Uses("symlinks"),
         NEW to \in TopPaths \cup {<<>>}
  PROVE  Fits(local, handle, p, Node(kind, i, to))
<1>1. /\ Node(kind, i, to).kind = kind /\ Node(kind, i, to).ino = i
      /\ Node(kind, i, to) \in Nodes /\ i # 0
  BY NamespaceAssumption DEF Node, Nodes
<1>2. /\ \A x \in Paths : local[x].ino # i
      /\ \A h \in Handles : handle[h].ino # i
  BY DEF NewInode, FreeInodes
<1> QED
  BY <1>1, <1>2, Lookups DEF Fits, HasLocal

\* So does a directory at the top.
LEMMA DirFits ==
  ASSUME Sound, NEW p \in TopPaths, ~HasLocal(p)
  PROVE  Fits(local, handle, p, Dir)
<1>1. Dir.kind = "dir" /\ Dir.ino = 0 /\ Dir \in Nodes
  BY DEF Dir, Node, Nodes
<1>2. p \in Paths /\ p \notin SubPaths
  BY PathKinds, PathSets
<1>3. \A h \in Handles : handle[h].path # <<>> => handle[h].ino # 0
  BY DEF Sound, Shape, OpenFiles
<1> QED
  BY <1>1, <1>2, <1>3 DEF Fits, HasLocal

\* So does a second name of what is there.
LEMMA LinkFits ==
  ASSUME Sound, NEW p \in Paths, ~HasLocal(p), LocalParent(p), NEW from \in Paths,
         HasLocal(from), local[from].kind # "dir"
  PROVE  Fits(local, handle, p, local[from])
<1>1. local \in [Paths -> Nodes] /\ LocalNodes(local) /\ Plain(local, handle)
  BY DEF Sound, Shape, LocalTree, LocalNodes
<1>2. p \in SubPaths => local[Parent(p)].kind = "dir"
  BY Lookups
<1>3. local[p].kind # "dir"
  BY DEF HasLocal
<1> QED
  BY <1>1, <1>2, <1>3 DEF Fits, LocalNodes, Plain

\* rmdir removes a directory nobody uses.
LEMMA RmdirSound ==
  ASSUME Sound, NEW p \in ClientPaths, Rmdir(p)
  PROVE  Sound'
<1>1. /\ p \in Paths /\ p \in TopPaths /\ Serving
      /\ UNCHANGED <<remote, readonly, handle, daemon>>
      /\ local' = [local EXCEPT ![p] = Nothing]
      /\ local[p].kind = "dir" /\ Empty(p) /\ Deserted(p)
  BY PathSets DEF Rmdir
<1>2. Shape(local, handle) /\ RemoteTree(remote) /\ readonly \subseteq Inodes
      /\ local \in [Paths -> Nodes]
  BY DEF Sound, Static, Shape, LocalTree, LocalNodes
<1>3. Childless(local, handle, p)
  <2>1. \A h \in Handles : ~Below(p, handle[h].path)
    BY <1>1, PathSets DEF Deserted, IsOpen, Below
  <2> QED
    BY <1>1, <2>1 DEF Childless, Empty, Below, HasLocal
<1>4. Fits(local, handle, p, Nothing)
  BY <1>1, <1>2, <1>3, NothingFits
<1>5. Shape(local', handle')
  BY <1>1, <1>2, <1>4, SetShape
<1>6. SessionUp' => Found(local', handle', remote')
  <2> SUFFICES ASSUME SessionUp PROVE Found(local', handle', remote')
    BY <1>1 DEF SessionUp, daemon
  <2>1. Found(local, handle, remote)
    BY DEF Sound
  <2>2. \A h \in Handles : handle[h].path # p
    BY <1>1, <2>1, PathSets DEF Found
  <2>3. \A x \in Paths : x # p => local'[x] = local[x]
    BY <1>1, <1>2
  <2> QED
    BY <1>1, <2>1, <2>2, <2>3, OpenPaths, PathSets DEF Found
<1> QED
  BY <1>1, <1>2, <1>5, <1>6, SoundFrom DEF daemon

\* The requests that make or remove one name.
LEMMA NameOpSound ==
  ASSUME Sound, NEW p \in ClientPaths, NameOp(p)
  PROVE  Sound'
<1> p \in Paths
  BY PathSets
<1>1. CASE Unlink(p)
  BY <1>1, UnlinkSound
<1>2. CASE Rmdir(p)
  BY <1>2, RmdirSound
<1>3. CASE Mkdir(p)
  <2>1. MakeLocal(p, Dir) /\ p \in TopPaths /\ ~HasLocal(p)
    BY <1>3 DEF Mkdir, MakeLocal
  <2> QED
    BY <2>1, DirFits, MadeSound
<1>4. CASE Mknod(p)
  <2>1. PICK i \in Inodes : NewInode(i) /\ MakeLocal(p, Node("fifo", i, <<>>))
    BY <1>4 DEF Mknod
  <2>2. ~HasLocal(p) /\ LocalParent(p)
    BY <2>1 DEF MakeLocal
  <2>3. "fifo" # "link" /\ "fifo" \in {"file", "fifo", "link"} /\ <<>> \in TopPaths \cup {<<>>}
    OBVIOUS
  <2>4. Fits(local, handle, p, Node("fifo", i, <<>>))
    BY <2>1, <2>2, <2>3, NewFits
  <2> QED
    BY <2>1, <2>4, MadeSound
<1>5. ASSUME NEW from \in TopPaths, Symlink(from, p) PROVE Sound'
  <2>1. Uses("symlinks") /\ \E i \in Inodes : NewInode(i) /\ MakeLocal(p, Node("link", i, from))
    BY <1>5 DEF Symlink
  <2>2. PICK i \in Inodes : NewInode(i) /\ MakeLocal(p, Node("link", i, from))
    BY <2>1
  <2>3. ~HasLocal(p) /\ LocalParent(p)
    BY <2>2 DEF MakeLocal
  <2>4. "link" \in {"file", "fifo", "link"} /\ from \in TopPaths \cup {<<>>}
    OBVIOUS
  <2>5. Fits(local, handle, p, Node("link", i, from))
    BY <2>1, <2>2, <2>3, <2>4, NewFits
  <2> QED
    BY <2>2, <2>5, MadeSound
<1>6. ASSUME NEW from \in ClientPaths, HardLink(from, p) PROVE Sound'
  <2>1. /\ MakeLocal(p, local[from]) /\ HasLocal(from)
        /\ Getattr(from) # "dir" /\ from \in Paths
    BY <1>6, PathSets DEF HardLink
  <2>2. ~HasLocal(p) /\ LocalParent(p)
    BY <2>1 DEF MakeLocal
  <2>3. local[from].kind # "dir"
    BY <2>1, Lookups
  <2>4. Fits(local, handle, p, local[from])
    BY <2>1, <2>2, <2>3, LinkFits
  <2> QED
    BY <2>1, <2>4, MadeSound
<1> QED
  BY <1>1, <1>2, <1>3, <1>4, <1>5, <1>6 DEF NameOp

\* chmod changes the mode of a local file.
LEMMA ChmodSound ==
  ASSUME Sound, NEW p \in ClientPaths, Chmod(p)
  PROVE  Sound'
<1>1. p \in Paths /\ Serving /\ UNCHANGED <<remote, local, handle, daemon>>
  BY PathSets DEF Chmod
<1>2. /\ readonly' = IF local[p].ino \in readonly THEN readonly \ {local[p].ino}
                                                   ELSE readonly \cup {local[p].ino}
      /\ Getattr(p) = "file" /\ Exists(p)
  BY DEF Chmod
<1>3. /\ Shape(local, handle) /\ RemoteTree(remote) /\ readonly \subseteq Inodes
      /\ local \in [Paths -> Nodes] /\ LocalNodes(local)
  BY DEF Sound, Static, Shape, LocalTree, LocalNodes
<1>4. local[p].kind = "file"
  BY <1>2 DEF Getattr
<1>5. local[p].ino \in Inodes
  BY <1>1, <1>3, <1>4 DEF LocalNodes, Nodes
<1>6. readonly' \subseteq Inodes
  BY <1>2, <1>3, <1>5
<1>7. SessionUp' => Found(local', handle', remote')
  BY <1>1 DEF Sound, SessionUp, daemon
<1> QED
  BY <1>1, <1>3, <1>6, <1>7, SoundFrom DEF daemon

\* What a rename does once an open target is out of the way, or fails to do.
LEMMA RenamingSound ==
  ASSUME Sound, NEW l, NEW hs, NEW p, NEW q, Renaming(l, hs, p, q),
         Serving, remote' = remote, UNCHANGED daemon,
         CanRename(l, p, q) => Renames(l, hs, p, q),
         CanRename(l, p, q) \/ Shape(l, hs),
         SessionUp => Found(l, hs, remote)
  PROVE  Sound'
<1>1. RemoteTree(remote') /\ readonly' \subseteq Inodes
  BY DEF Sound, Static, Renaming, Becomes
<1>2. (SessionUp' <=> SessionUp) /\ held' \subseteq held /\ UNCHANGED <<phase, uses>>
  BY DEF SessionUp, daemon
<1>3. CASE CanRename(l, p, q)
  <2>1. local' = RenamedTree(l, p, q) /\ handle' = RenamedHandles(hs, p, q)
    BY <1>3 DEF Renaming, Becomes
  <2>2. Shape(local', handle')
    BY <1>3, <2>1, RenameShape
  <2>3. SessionUp' => Found(local', handle', remote')
    BY <1>2, <1>3, <2>1, RenameFound
  <2> QED
    BY <1>1, <1>2, <2>2, <2>3, SoundFrom
<1>4. CASE ~CanRename(l, p, q)
  <2>1. local' = l /\ handle' = hs
    BY <1>4 DEF Renaming, Becomes
  <2>2. Shape(local', handle') /\ (SessionUp' => Found(local', handle', remote'))
    BY <1>2, <1>4, <2>1
  <2> QED
    BY <1>1, <1>2, <2>2, SoundFrom
<1> QED
  BY <1>3, <1>4

\* A rename over a name that is not open meets what rename(2) asks.
LEMMA RenamesPlainly ==
  ASSUME Sound, NEW p \in ClientPaths, NEW q \in ClientPaths, Rename(p, q),
         OpenAt(q) = {}, CanRename(local, p, q)
  PROVE  Renames(local, handle, p, q)
<1>1. p \in Paths /\ q \in Paths
  BY PathSets
<1>2. Shape(local, handle)
  BY DEF Sound
<1>3. Rooted(local, handle, q)
  BY <1>2 DEF Shape, LocalTree, Rooted
<1>4. \A h \in Handles : handle[h].path # q /\ ~Below(q, handle[h].path)
  BY PathSets DEF OpenAt, Rename, Deserted, IsOpen, Below
<1>5. local[p].kind = "dir" => q \in TopPaths
  BY <1>1, Lookups DEF Rename
<1>6. q \in SubPaths => local[Parent(q)].kind = "dir"
  BY <1>1, Lookups DEF CanRename
<1> QED
  BY <1>3, <1>4, <1>5, <1>6 DEF Renames, Rename, CanRename

\* So does one over a name that had to be hidden first.
LEMMA RenamesOverHidden ==
  ASSUME Sound, NEW p \in ClientPaths, NEW q \in ClientPaths, Rename(p, q),
         NEW x \in HiddenPaths, Hide(q, x), CanRename(Moved(q, x), p, q)
  PROVE  Renames(Moved(q, x), Following(q, x), p, q)
<1> DEFINE l == Moved(q, x)
           hs == Following(q, x)
<1>1. Shape(local, handle) /\ Parent(x) = Parent(q) /\ HasLocal(q)
  BY DEF Sound, Hide
<1>2. /\ q \in Paths /\ x \in Paths /\ x # q /\ x \notin TopPaths
      /\ \A y \in Paths : l[y] = IF y = q THEN Nothing ELSE IF y = x THEN local[q] ELSE local[y]
      /\ \A h \in Handles : hs[h].path = IF handle[h].path = q THEN x ELSE handle[h].path
  BY <1>1, HiddenAt
<1>3. ~Under(p, q) /\ ~Under(q, p)
  BY DEF Rename
<1>4. /\ p \in Paths /\ p # q
      /\ q \in SubPaths => Parent(q) # q /\ Parent(q) \in TopPaths /\ Parent(q) \in Paths
  BY <1>3, RenamedParents
<1>5. p # x
  BY PathSets
<1>6. \A h \in Handles : ~Below(q, handle[h].path)
  BY PathSets DEF Rename, Deserted, IsOpen, Below
<1>7. Rooted(l, hs, q)
  BY <1>1, <1>6, HideRooted
<1>8. ~Below(q, x)
  <2>1. Parent(q) # q
    BY <1>2, <1>4, PathKinds
  <2> QED
    BY <1>1, <2>1 DEF Below
<1>9. \A h \in Handles : hs[h].path # q /\ ~Below(q, hs[h].path)
  BY <1>2, <1>6, <1>8
<1>10. l[p] = local[p]
  BY <1>2, <1>4, <1>5
<1>11. l[p].kind = "dir" => q \in TopPaths
  BY <1>4, <1>10, Lookups DEF Rename
<1>12. q \in SubPaths => l[Parent(q)].kind = "dir"
  <2>1. q \in SubPaths => local[Parent(q)].kind = "dir"
    BY <1>2, Lookups DEF CanRename
  <2> QED
    BY <1>2, <1>4, <2>1
<1>13. l[p].kind # "none"
  BY DEF CanRename
<1> HIDE DEF l, hs
<1>14. Renames(l, hs, p, q)
  BY <1>3, <1>7, <1>9, <1>11, <1>12, <1>13 DEF Renames
<1> QED
  BY <1>14 DEF l, hs

\* rename keeps the invariant.  An open name can be a directory only after the
\* session was lost; then the rename over it does not fail.
LEMMA RenameSound ==
  ASSUME Sound, NEW p \in ClientPaths, NEW q \in ClientPaths, Rename(p, q)
  PROVE  Sound'
<1>1. Serving /\ remote' = remote /\ UNCHANGED daemon /\ p \in Paths /\ q \in Paths
  BY PathSets DEF Rename
<1>2. Shape(local, handle) /\ (SessionUp => Found(local, handle, remote))
  BY DEF Sound
<1>3. CASE OpenAt(q) = {}
  <2>1. Renaming(local, handle, p, q)
    BY <1>3 DEF Rename
  <2>2. CanRename(local, p, q) => Renames(local, handle, p, q)
    BY <1>3, RenamesPlainly
  <2> QED
    BY <1>1, <1>2, <2>1, <2>2, RenamingSound
<1>4. CASE OpenAt(q) # {}
  <2>1. PICK x \in HiddenPaths : Hide(q, x) /\ Renaming(Moved(q, x), Following(q, x), p, q)
    BY <1>4 DEF Rename
  <2>2. Parent(x) = Parent(q) /\ HasLocal(q) /\ OpenAt(x) = {}
    BY <2>1 DEF Hide
  <2>3. CanRename(Moved(q, x), p, q) => Renames(Moved(q, x), Following(q, x), p, q)
    BY <2>1, RenamesOverHidden
  <2>4. SessionUp => Found(Moved(q, x), Following(q, x), remote)
    BY <1>2, <2>2, HideFound
  <2>5. CASE local[q].kind # "dir"
    <3>1. Shape(Moved(q, x), Following(q, x))
      BY <1>2, <2>2, <2>5, HideShape
    <3> QED
      BY <1>1, <2>1, <2>3, <2>4, <3>1, RenamingSound
  <2>6. CASE local[q].kind = "dir"
    <3>1. q \in TopPaths
      BY <1>1, <1>2, <2>6, PathKinds DEF Shape, LocalTree, LocalNodes
    <3>2. ~SessionUp
      BY <1>2, <1>4, <2>6, <3>1, PathSets DEF OpenAt, Found
    <3>3. local[p].kind # "none"
      BY <1>1, <3>2, Lookups DEF Rename, Getattr, HasLocal
    <3>4. ~Under(p, q)
      BY DEF Rename
    <3>5. p # q /\ p # x
      BY <1>1, <3>4, UnderMeans, PathSets
    <3>6. Moved(q, x)[p] = local[p] /\ Moved(q, x)[q] = Nothing
      BY <1>1, <1>2, <2>2, <3>5, HiddenAt
    <3>7. LocalParent(q)
      BY <1>1, <3>1, PathKinds, Lookups
    <3>8. CanRename(Moved(q, x), p, q)
      BY <3>3, <3>6, <3>7 DEF CanRename, Nothing, Node
    <3> QED
      BY <1>1, <2>1, <2>3, <2>4, <3>8, RenamingSound
  <2> QED
    BY <2>5, <2>6
<1> QED
  BY <1>3, <1>4

\* Where nothing is open there is little to keep.
LEMMA IdleSound ==
  ASSUME Sound, Shape(local', handle'), \A h \in Handles : handle'[h].path = <<>>,
         remote' = remote, uses' = uses, readonly' \subseteq Inodes,
         phase' \in Phases, held' \subseteq Resources
  PROVE  Sound'
<1>1. Plain(local, handle)'
  BY DEF Shape, Plain, Uses
<1>2. Static'
  BY DEF Sound, Static, IsOpen
<1>3. Found(local, handle, remote)'
  BY PathSets DEF Found
<1> QED
  BY <1>1, <1>2, <1>3 DEF Sound, Shape, RemoteTree, LocalTree, LocalNodes, Above, OpenFiles

\* The steps of a start, and the end of a daemon.
LEMMA StartSound ==
  ASSUME Sound, StartStep \/ StartFails
  PROVE  Sound'
<1>1. phase \in {"down", "created", "connected", "authenticated", "channel",
                 "initialised", "allocated"}
  BY DEF StartStep, StartFails, Startup
<1>2. UNCHANGED <<files, uses>>
  BY DEF StartStep, StartFails
<1>3. Shape(local, handle) /\ readonly \subseteq Inodes /\ held \subseteq Resources
      /\ \A h \in Handles : handle[h].path = <<>>
  BY <1>1 DEF Sound, Static, Serving, IsOpen
<1>4. phase' \in {"created", "connected", "authenticated", "channel", "initialised",
                  "allocated", "serving", "failed", "aborted"}
  BY <1>1 DEF StartStep, StartFails, Startup, Step
<1>5. phase' \in Phases
  BY <1>4 DEF Phases, Over, Startup
<1>6. held' \subseteq Resources
  <2>1. CASE StartFails
    BY <1>3, <2>1 DEF StartFails
  <2>2. CASE StartStep
    <3>1. Startup[phase].gets \subseteq Resources
      BY <2>2 DEF StartStep, Resources
    <3> QED
      BY <1>3, <2>2, <3>1 DEF StartStep
  <2> QED
    BY <2>1, <2>2
<1> QED
  BY <1>2, <1>3, <1>5, <1>6, IdleSound DEF files

\* The end of a daemon, and the next start.
LEMMA EndSound ==
  ASSUME Sound, Unmount \/ Kill \/ StartAgain
  PROVE  Sound'
<1>1. Shape(local, handle) /\ readonly \subseteq Inodes /\ held \subseteq Resources
      /\ (~Serving => \A h \in Handles : ~IsOpen(h)) /\ handle \in [Handles -> OpenNodes]
  BY DEF Sound, Static, Shape, OpenFiles
<1>2. CASE Unmount
  <2>1. phase' \in Phases
    BY <1>2 DEF Unmount, Phases, Over
  <2> QED
    BY <1>1, <1>2, <2>1, IdleSound DEF Unmount, files, IsOpen
<1>3. CASE StartAgain
  <2>1. phase' \in Phases /\ ~Serving
    BY <1>3 DEF StartAgain, Phases, Over, Startup, Serving
  <2> QED
    BY <1>1, <1>3, <2>1, IdleSound DEF StartAgain, files, IsOpen
<1>4. CASE Kill
  <2>1. /\ phase' \in Phases /\ local' = local /\ handle' = [h \in Handles |-> Closed]
        /\ readonly' \subseteq readonly /\ UNCHANGED <<held, remote, uses>>
    BY <1>4 DEF Kill, Phases, Over, Becomes
  <2>2. handle' \in [Handles -> OpenNodes] /\ Closed.path = <<>>
    BY <2>1 DEF Closed, OpenNodes
  <2>3. Shape(local, handle')
    BY <1>1, <2>1, <2>2, CloseShape
  <2> QED
    BY <1>1, <2>1, <2>2, <2>3, IdleSound
<1> QED
  BY <1>2, <1>3, <1>4

\* The server's first tree, an empty local one, and nothing open.
LEMMA InitSound == Init => Sound
<1> SUFFICES ASSUME Init PROVE Sound
  OBVIOUS
<1>1. Nothing \in Nodes /\ Nothing.kind = "none" /\ Nothing.ino = 0
  BY DEF Nothing, Node, Nodes
<1>2. Closed \in OpenNodes /\ Closed.path = <<>>
  BY DEF Closed, OpenNodes
<1>3. \A p \in SubPaths : p \in Paths /\ Parent(p) \in Paths /\ Len(p) = 2
  BY PathKinds, PathSets
<1>4. /\ local = [p \in Paths |-> Nothing] /\ handle = [h \in Handles |-> Closed]
      /\ remote \in [Paths -> Kinds] /\ uses \in Habits /\ readonly = {} /\ held = {}
      /\ phase = "down"
  BY DEF Init, Kinds
<1>5. Static
  BY <1>2, <1>4 DEF Static, Phases, Startup, Serving, IsOpen
<1>6. RemoteTree(remote)
  BY <1>3, <1>4 DEF Init, RemoteParent, RemoteTree
<1>7. LocalTree(local)
  BY <1>1, <1>3, <1>4 DEF LocalTree, LocalNodes, Above
<1>8. OpenFiles(local, handle) /\ Found(local, handle, remote)
  BY <1>2, <1>4, PathSets DEF OpenFiles, Found
<1>9. Plain(local, handle)
  BY <1>1, <1>2, <1>4 DEF Plain
<1> QED
  BY <1>5, <1>6, <1>7, <1>8, <1>9 DEF Sound, Shape

\* Every step keeps it.
LEMMA NextSound == Sound /\ [Next]_vars => Sound'
<1> SUFFICES ASSUME Sound, [Next]_vars PROVE Sound'
  OBVIOUS
<1>1. CASE StartStep \/ StartFails
  BY <1>1, StartSound
<1>2. CASE Unmount \/ Kill \/ StartAgain
  BY <1>2, EndSound
<1>3. ASSUME NEW h \in Handles, Release(h) PROVE Sound'
  BY <1>3, ReleaseSound
<1>4. ASSUME NEW h \in Handles, NEW p \in ClientPaths, Open(h, p) PROVE Sound'
  BY <1>4, OpenSound
<1>5. ASSUME NEW h \in Handles, NEW p \in ClientPaths, NEW ro \in BOOLEAN, Create(h, p, ro)
      PROVE  Sound'
  BY <1>5, CreateSound
<1>6. ASSUME NEW p \in ClientPaths, NameOp(p) PROVE Sound'
  BY <1>6, NameOpSound
<1>7. ASSUME NEW p \in ClientPaths, Chmod(p) PROVE Sound'
  BY <1>7, ChmodSound
<1>8. ASSUME NEW p \in ClientPaths, NEW q \in ClientPaths, Rename(p, q) PROVE Sound'
  BY <1>8, RenameSound
<1>9. CASE UNCHANGED vars
  BY <1>9 DEF vars, Sound, Static, Serving, IsOpen, RemoteTree, Shape, LocalTree, LocalNodes,
              Above, OpenFiles, Plain, Uses, SessionUp, Found
<1> QED
  BY <1>1, <1>2, <1>3, <1>4, <1>5, <1>6, <1>7, <1>8, <1>9 DEF Next

\* Both trees stay trees of well-formed nodes, through every rename, removal and
\* upload, hidden files and lost sessions.
THEOREM NamespaceTyped == Spec => []TypeOK
<1>1. Sound => TypeOK
  <2> SUFFICES ASSUME Sound PROVE TypeOK
    OBVIOUS
  <2>1. /\ phase \in Phases /\ held \subseteq Resources /\ uses \in Habits
        /\ readonly \subseteq Inodes
    BY DEF Sound, Static
  <2>2. remote \in [Paths -> {"none", "file", "dir"}]
    BY DEF Sound, RemoteTree, Kinds
  <2>3. \A p \in Paths : local[p] \in [kind : {"none", "file", "fifo", "dir", "link"},
                                       ino : Inodes \cup {0}, to : TopPaths \cup {<<>>}]
    BY DEF Sound, Shape, LocalTree, LocalNodes, Nodes
  <2>4. handle \in [Handles -> [path : Paths \cup {<<>>}, ino : Inodes \cup {0}]]
    BY DEF Sound, Shape, OpenFiles, OpenNodes
  <2>5. ASSUME NEW p \in Paths
        PROVE  (HasLocal(p) => LocalParent(p)) /\ (remote[p] # "none" => RemoteParent(p))
    BY Lookups DEF Sound, RemoteTree
  <2> QED
    BY <2>1, <2>2, <2>3, <2>4, <2>5 DEF TypeOK
<1> QED
  BY <1>1, InitSound, NextSound, PTL DEF Spec

-----------------------------------------------------------------------------
(* Every open file has its own local name.                                 *)

\* A name that holds no inode is not that of an open file.
LEMMA OwnedHave ==
  ASSUME Sound, Owned(local, handle), NEW p \in Paths, local[p].kind \in {"none", "dir"}
  PROVE  OpenAt(p) = {}
<1>1. local[p].ino = 0
  BY DEF Sound, Shape, LocalTree, LocalNodes
<1>2. ASSUME NEW h \in Handles, handle[h].path = p PROVE FALSE
  <2>1. handle[h].path # <<>>
    BY <1>2, PathSets
  <2> QED
    BY <1>1, <1>2, <2>1 DEF Owned, Sound, Shape, OpenFiles
<1> QED
  BY <1>2 DEF OpenAt

\* A node changes at a name that is not open.
LEMMA SetOwned ==
  ASSUME Sound, Owned(local, handle), NEW p \in Paths, OpenAt(p) = {}, NEW n
  PROVE  Owned([local EXCEPT ![p] = n], handle)
<1>1. local \in [Paths -> Nodes] /\ handle \in [Handles -> OpenNodes]
  BY DEF Sound, Shape, LocalTree, LocalNodes, OpenFiles
<1>2. \A h \in Handles : handle[h].path # p
  BY DEF OpenAt
<1>3. \A h \in Handles : handle[h].path # <<>> => handle[h].path \in Paths
  BY <1>1 DEF OpenNodes
<1>4. \A x \in Paths : x # p => [local EXCEPT ![p] = n][x] = local[x]
  BY <1>1
<1> QED
  BY <1>2, <1>3, <1>4 DEF Owned

\* One file is opened under a name that is not open.
LEMMA OpenedOwned ==
  ASSUME Sound, Owned(local, handle), ~Uses("symlinks"),
         NEW h \in Handles, NEW p \in ClientPaths, NEW i \in Inodes, OpenAt(p) = {},
         local' = [local EXCEPT ![Resolved(p)] = Node("file", i, <<>>)],
         handle' = [handle EXCEPT ![h] = [path |-> p, ino |-> i]]
  PROVE  Owned(local', handle')
<1>1. p \in Paths /\ Resolved(p) = p /\ p # <<>>
  BY PathSets, Lookups
<1>2. local \in [Paths -> Nodes] /\ handle \in [Handles -> OpenNodes]
  BY DEF Sound, Shape, LocalTree, LocalNodes, OpenFiles
<1>3. Owned(local', handle)
  BY <1>1, SetOwned
<1>4. local'[p].ino = i
  BY <1>1, <1>2 DEF Node
<1>5. /\ handle'[h].path = p /\ handle'[h].ino = i
      /\ \A g \in Handles : g # h => handle'[g] = handle[g]
  BY <1>2
<1>6. \A g \in Handles : handle[g].path # p
  BY DEF OpenAt
<1> QED
  BY <1>1, <1>3, <1>4, <1>5, <1>6 DEF Owned

\* Closing files keeps the others.
LEMMA CloseOwned ==
  ASSUME NEW l, NEW hs, Owned(l, hs), NEW gs,
         \A h \in Handles : gs[h] = hs[h] \/ gs[h] = Closed
  PROVE  Owned(l, gs)
<1>1. Closed.path = <<>>
  BY DEF Closed
<1> QED
  BY <1>1 DEF Owned

\* release removes the name of the file it closes and of no other.
LEMMA ReleaseOwned ==
  ASSUME Sound, Owned(local, handle), NEW h \in Handles, Release(h)
  PROVE  Owned(local', handle')
<1> DEFINE p == handle[h].path
<1>1. p = handle[h].path
  OBVIOUS
<1> HIDE DEF p
<1>2. /\ p \in Paths /\ handle' = [handle EXCEPT ![h] = Closed]
      /\ local' = local \/ local' = [local EXCEPT ![p] = Nothing]
  BY <1>1, ReleaseAt
<1>3. local \in [Paths -> Nodes] /\ handle \in [Handles -> OpenNodes] /\ Closed.path = <<>>
  BY DEF Sound, Shape, LocalTree, LocalNodes, OpenFiles, Closed
<1>4. handle'[h].path = <<>> /\ \A g \in Handles : g # h => handle'[g] = handle[g]
  BY <1>2, <1>3
<1>5. \A g \in Handles : g # h => handle[g].path # p
  BY <1>1, <1>2, PathSets DEF Owned
<1>6. \A x \in Paths : x # p => local'[x] = local[x]
  BY <1>2, <1>3
<1>7. \A g \in Handles : handle[g].path # <<>> => handle[g].path \in Paths
  BY <1>3 DEF OpenNodes
<1> QED
  BY <1>4, <1>5, <1>6, <1>7 DEF Owned

\* A hidden file takes its inode along.
LEMMA HideOwned ==
  ASSUME Sound, Owned(local, handle), NEW q \in ClientPaths, NEW x \in HiddenPaths, Hide(q, x)
  PROVE  Owned(Moved(q, x), Following(q, x))
<1> DEFINE l == Moved(q, x)
           hs == Following(q, x)
<1>1. Parent(x) = Parent(q) /\ OpenAt(x) = {} /\ Shape(local, handle)
  BY DEF Hide, Sound
<1>2. /\ q \in Paths /\ x \in Paths /\ x # q
      /\ \A p \in Paths : l[p] = IF p = q THEN Nothing ELSE IF p = x THEN local[q] ELSE local[p]
      /\ \A h \in Handles : /\ hs[h].ino = handle[h].ino
                            /\ hs[h].path = IF handle[h].path = q THEN x ELSE handle[h].path
  BY <1>1, HiddenAt
<1> HIDE DEF l, hs
<1>3. \A h \in Handles : handle[h].path # x
  BY <1>1 DEF OpenAt
<1>4. \A h \in Handles : handle[h].path # <<>> => handle[h].path \in Paths
  BY <1>1 DEF Shape, OpenFiles, OpenNodes
<1>5. ASSUME NEW h \in Handles, hs[h].path # <<>> PROVE l[hs[h].path].ino = hs[h].ino
  BY <1>2, <1>3, <1>4, <1>5, PathSets DEF Owned
<1>6. ASSUME NEW g \in Handles, NEW h \in Handles, hs[g].path = hs[h].path
      PROVE  g = h \/ hs[g].path = <<>>
  BY <1>2, <1>3, <1>6, PathSets DEF Owned
<1>7. Owned(l, hs)
  BY <1>5, <1>6 DEF Owned
<1> QED
  BY <1>7 DEF l, hs

\* A rename takes the inodes along, of the file itself and of those below it.
LEMMA RenameOwned ==
  ASSUME NEW l, NEW hs, NEW p, NEW q, Renames(l, hs, p, q), Owned(l, hs)
  PROVE  Owned(RenamedTree(l, p, q), RenamedHandles(hs, p, q))
<1> DEFINE t == RenamedTree(l, p, q)
           gs == RenamedHandles(hs, p, q)
<1>1. p \in ClientPaths /\ q \in ClientPaths /\ ~Under(p, q) /\ ~Under(q, p)
  BY DEF Renames
<1>2. p \in Paths /\ q \in Paths /\ p # q /\ Parent(q) # q /\ p # <<>> /\ q # <<>>
  <2>1. p \in Paths /\ q \in Paths /\ p # q /\ (q \in SubPaths => Parent(q) # q)
    BY <1>1, RenamedParents
  <2>2. q \notin SubPaths => Parent(q) = <<>>
    BY <2>1, PathKinds
  <2> QED
    BY <2>1, <2>2, PathSets
<1>3. l \in [Paths -> Nodes] /\ hs \in [Handles -> OpenNodes] /\ LocalNodes(l)
  BY DEF Renames, Rooted, LocalNodes, OpenFiles
<1>4. \A h \in Handles :
        /\ gs[h].ino = hs[h].ino
        /\ gs[h].path = IF hs[h].path = p THEN q
                        ELSE IF Below(p, hs[h].path) THEN Rebased(p, q, hs[h].path)
                        ELSE hs[h].path
        /\ Below(p, hs[h].path) => gs[h].path \in SubPaths /\ Parent(gs[h].path) = q
  BY <1>1, <1>3, OpenBelow, RenamedOpenAt
<1>5. \A h \in Handles : hs[h].path # <<>> => hs[h].path \in Paths
  BY <1>3 DEF OpenNodes
<1>6. \A h \in Handles : hs[h].path # q /\ ~Below(q, hs[h].path)
  BY DEF Renames
<1>7. ASSUME NEW h \in Handles, Below(p, hs[h].path)
      PROVE  /\ p \in TopPaths /\ Rebased(q, p, gs[h].path) = hs[h].path
             /\ l[p].kind = "dir"
  <2>1. l[p].kind = "dir" /\ q \in TopPaths
    BY <1>7, OpenBelow
  <2>2. p \in Paths \ SubPaths /\ hs[h].path \in SubPaths /\ Parent(hs[h].path) = p
    BY <1>7, <1>2, PathKinds, PathSets DEF Below
  <2>3. Rebased(q, p, Rebased(p, q, hs[h].path)) = hs[h].path
    BY <2>1, <2>2, RebasedBelow
  <2>4. gs[h].path = Rebased(p, q, hs[h].path)
    <3>1. hs[h].path # p
      BY <2>2
    <3> QED
      BY <1>4, <1>7, <3>1
  <2>5. p \in TopPaths
    BY <1>1, <1>2, <2>2, PathKinds
  <2> QED
    BY <2>1, <2>3, <2>4, <2>5
<1>8. ASSUME NEW h \in Handles, gs[h].path # <<>> PROVE t[gs[h].path].ino = gs[h].ino
  <2>1. hs[h].path # <<>>
    BY <1>2, <1>4, <1>8, PathSets DEF Below
  <2>2. l[hs[h].path].ino = hs[h].ino
    BY <2>1 DEF Owned
  <2>3. CASE l[p].ino # 0 /\ l[p].ino = l[q].ino
    <3>1. t = l
      BY <2>3 DEF RenamedTree
    <3>2. l[p].kind # "dir"
      BY <1>2, <1>3, <2>3 DEF LocalNodes
    <3>3. ~Below(p, hs[h].path)
      BY <1>7, <3>2
    <3> HIDE DEF t, gs
    <3> QED
      BY <1>4, <2>2, <2>3, <3>1, <3>3
  <2>4. CASE ~(l[p].ino # 0 /\ l[p].ino = l[q].ino)
    <3>1. /\ t[q] = l[p]
          /\ \A x \in SubPaths : Parent(x) = q =>
               t[x] = IF p \in TopPaths THEN l[Rebased(q, p, x)] ELSE Nothing
          /\ \A x \in Paths : x # p /\ x # q /\ ~Below(p, x) /\ ~Below(q, x) => t[x] = l[x]
      BY <1>1, <1>3, <2>4, RenamedAt
    <3> HIDE DEF t, gs
    <3>2. CASE hs[h].path = p
      BY <1>4, <2>2, <3>1, <3>2
    <3>3. CASE Below(p, hs[h].path)
      BY <1>4, <1>7, <2>2, <3>1, <3>3
    <3>4. CASE hs[h].path # p /\ ~Below(p, hs[h].path)
      BY <1>4, <1>5, <1>6, <2>1, <2>2, <3>1, <3>4
    <3> QED
      BY <3>2, <3>3, <3>4
  <2> QED
    BY <2>3, <2>4
<1> HIDE DEF t, gs
<1>9. ASSUME NEW g \in Handles, NEW h \in Handles, gs[g].path = gs[h].path, gs[g].path # <<>>
      PROVE  hs[g].path = hs[h].path /\ hs[g].path # <<>>
  <2>1. ASSUME NEW a \in Handles, NEW b \in Handles, gs[a].path = gs[b].path,
               Below(p, hs[a].path)
        PROVE  Below(p, hs[b].path)
    <3>1. gs[a].path \in SubPaths /\ Parent(gs[a].path) = q
      BY <1>4, <2>1
    <3>2. gs[b].path # q
      BY <1>2, <2>1, <3>1
    <3> QED
      BY <1>4, <1>6, <2>1, <3>1, <3>2 DEF Below
  <2>2. CASE Below(p, hs[g].path)
    BY <1>7, <1>9, <2>1, <2>2, PathSets DEF Below
  <2>3. CASE ~Below(p, hs[g].path)
    <3>1. ~Below(p, hs[h].path)
      BY <1>9, <2>1, <2>3
    <3> QED
      BY <1>2, <1>4, <1>6, <1>9, <2>3, <3>1
  <2> QED
    BY <2>2, <2>3
<1>10. \A g, h \in Handles : gs[g].path = gs[h].path => g = h \/ gs[g].path = <<>>
  BY <1>9 DEF Owned
<1>11. Owned(t, gs)
  BY <1>8, <1>10 DEF Owned
<1> QED
  BY <1>11 DEF t, gs

\* unlink hides an open file with its inode, and removes only other names.
LEMMA UnlinkOwned ==
  ASSUME Sound, Owned(local, handle), NEW p \in ClientPaths, Unlink(p)
  PROVE  Owned(local', handle')
<1>1. p \in Paths
  BY PathSets
<1>2. CASE UNCHANGED <<local, handle>>
  BY <1>2
<1>3. ASSUME NEW x \in HiddenPaths, Hide(p, x), Becomes(Moved(p, x), Following(p, x))
      PROVE  Owned(local', handle')
  BY <1>3, HideOwned DEF Becomes
<1>4. ASSUME OpenAt(p) = {}, Becomes([local EXCEPT ![p] = Nothing], handle)
      PROVE  Owned(local', handle')
  BY <1>1, <1>4, SetOwned DEF Becomes
<1> QED
  BY <1>2, <1>3, <1>4 DEF Unlink

\* A name that is made or removed is not that of an open file.
LEMMA NameOpOwned ==
  ASSUME Sound, Owned(local, handle), NEW p \in ClientPaths, NameOp(p)
  PROVE  Owned(local', handle')
<1>1. p \in Paths
  BY PathSets
<1>2. CASE Unlink(p)
  BY <1>2, UnlinkOwned
<1>3. ASSUME NEW n, local' = [local EXCEPT ![p] = n], handle' = handle,
             local[p].kind \in {"none", "dir"}
      PROVE  Owned(local', handle')
  BY <1>1, <1>3, OwnedHave, SetOwned
<1>4. CASE Rmdir(p)
  BY <1>3, <1>4 DEF Rmdir
<1>5. ASSUME NEW n, MakeLocal(p, n) PROVE Owned(local', handle')
  BY <1>3, <1>5 DEF MakeLocal, HasLocal
<1> QED
  BY <1>2, <1>4, <1>5 DEF NameOp, Mkdir, Mknod, Symlink, HardLink

\* rename takes open files along, the hidden ones as well.
LEMMA RenameStepOwned ==
  ASSUME Sound, Owned(local, handle), NEW p \in ClientPaths, NEW q \in ClientPaths,
         Rename(p, q)
  PROVE  Owned(local', handle')
<1>1. ASSUME NEW l, NEW hs, Renaming(l, hs, p, q), Owned(l, hs),
             CanRename(l, p, q) => Renames(l, hs, p, q)
      PROVE  Owned(local', handle')
  <2>1. CASE CanRename(l, p, q)
    <3>1. Owned(RenamedTree(l, p, q), RenamedHandles(hs, p, q))
      BY <1>1, <2>1, RenameOwned
    <3> QED
      BY <1>1, <2>1, <3>1 DEF Renaming, Becomes
  <2>2. CASE ~CanRename(l, p, q)
    BY <1>1, <2>2 DEF Renaming, Becomes
  <2> QED
    BY <2>1, <2>2
<1>2. CASE OpenAt(q) = {}
  <2>1. Renaming(local, handle, p, q)
    BY <1>2 DEF Rename
  <2>2. CanRename(local, p, q) => Renames(local, handle, p, q)
    BY <1>2, RenamesPlainly
  <2> QED
    BY <1>1, <2>1, <2>2
<1>3. CASE OpenAt(q) # {}
  <2>1. PICK x \in HiddenPaths : Hide(q, x) /\ Renaming(Moved(q, x), Following(q, x), p, q)
    BY <1>3 DEF Rename
  <2>2. CanRename(Moved(q, x), p, q) => Renames(Moved(q, x), Following(q, x), p, q)
    BY <2>1, RenamesOverHidden
  <2>3. Owned(Moved(q, x), Following(q, x))
    BY <2>1, HideOwned
  <2> QED
    BY <1>1, <2>1, <2>2, <2>3
<1> QED
  BY <1>2, <1>3

\* Every step keeps them apart.
LEMMA NextOwned ==
  ASSUME Sound, Owned(local, handle), OneAtATime, [Next]_vars
  PROVE  Owned(local', handle')
<1>1. ~Uses("sharing") /\ ~Uses("symlinks")
  BY DEF OneAtATime, Uses
<1>2. CASE UNCHANGED <<local, handle>>
  BY <1>2
<1>3. CASE Kill
  BY <1>3, CloseOwned DEF Kill, Becomes
<1>4. ASSUME NEW h \in Handles, Release(h) PROVE Owned(local', handle')
  BY <1>4, ReleaseOwned
<1>5. ASSUME NEW h \in Handles, NEW p \in ClientPaths, Open(h, p) PROVE Owned(local', handle')
  <2>1. OpenAt(p) = {}
    BY <1>1, <1>5 DEF Open
  <2>2. CASE UNCHANGED files
    BY <2>2, <1>2 DEF files
  <2>3. ASSUME NEW i \in Inodes, local' = [local EXCEPT ![Resolved(p)] = Node("file", i, <<>>)],
               handle' = [handle EXCEPT ![h] = [path |-> p, ino |-> i]]
        PROVE  Owned(local', handle')
    BY <1>1, <2>1, <2>3, OpenedOwned
  <2> QED
    BY <1>5, <2>2, <2>3 DEF Open
<1>6. ASSUME NEW h \in Handles, NEW p \in ClientPaths, NEW ro \in BOOLEAN, Create(h, p, ro)
      PROVE  Owned(local', handle')
  <2>1. Resolved(p) = p /\ p \in Paths
    BY <1>1, Lookups, PathSets
  <2>2. local[p].kind = "none"
    BY <1>6, <2>1 DEF Create, HasLocal
  <2>3. OpenAt(p) = {}
    BY <2>1, <2>2, OwnedHave
  <2>4. PICK i \in Inodes : /\ local' = [local EXCEPT ![Resolved(p)] = Node("file", i, <<>>)]
                            /\ handle' = [handle EXCEPT ![h] = [path |-> p, ino |-> i]]
    BY <1>6 DEF Create
  <2> QED
    BY <1>1, <2>3, <2>4, OpenedOwned
<1>7. ASSUME NEW p \in ClientPaths, NameOp(p) PROVE Owned(local', handle')
  BY <1>7, NameOpOwned
<1>8. ASSUME NEW p \in ClientPaths, NEW q \in ClientPaths, Rename(p, q)
      PROVE  Owned(local', handle')
  BY <1>8, RenameStepOwned
<1> QED
  BY <1>2, <1>3, <1>4, <1>5, <1>6, <1>7, <1>8
     DEF Next, StartStep, StartFails, Unmount, StartAgain, Chmod, files, vars

\* What clients do never changes.
LEMMA UsesStay == [Next]_vars => uses' = uses
<1> SUFFICES ASSUME [Next]_vars PROVE uses' = uses
  OBVIOUS
<1>1. ASSUME NEW p, NEW node, MakeLocal(p, node) PROVE uses' = uses
  BY <1>1 DEF MakeLocal, daemon
<1>2. ASSUME NEW p, NameOp(p) PROVE uses' = uses
  BY <1>1, <1>2 DEF NameOp, Unlink, Mkdir, Rmdir, Mknod, Symlink, HardLink, daemon
<1>3. ASSUME NEW p, NEW q, Rename(p, q) PROVE uses' = uses
  BY <1>3 DEF Rename, daemon
<1>4. ASSUME NEW h, NEW p, Open(h, p) PROVE uses' = uses
  BY <1>4 DEF Open
<1>5. ASSUME NEW h, NEW p, NEW ro, Create(h, p, ro) PROVE uses' = uses
  BY <1>5 DEF Create, daemon
<1>6. ASSUME NEW h, Release(h) PROVE uses' = uses
  BY <1>6 DEF Release, daemon
<1>7. ASSUME NEW p, Chmod(p) PROVE uses' = uses
  BY <1>7 DEF Chmod, daemon
<1> QED
  BY <1>2, <1>3, <1>4, <1>5, <1>6, <1>7
     DEF Next, StartStep, StartFails, Unmount, Kill, StartAgain, vars

\* When files are open once at a time and there are no symbolic links, what a
\* release uploads and removes is the local name of the file it has open.
THEOREM ReleaseHasItsCopy == Spec => []OwnCopy
<1> DEFINE Own == OneAtATime => Owned(local, handle)
<1>1. Init => Own
  BY DEF Init, Owned, Closed
<1>2. Sound /\ Own /\ [Next]_vars => Own'
  <2> SUFFICES ASSUME Sound, Own, [Next]_vars, OneAtATime' PROVE Owned(local, handle)'
    OBVIOUS
  <2>1. OneAtATime
    BY UsesStay DEF OneAtATime
  <2>2. Owned(local', handle')
    BY <2>1, NextOwned
  <2> QED
    BY <2>2 DEF Owned
<1>3. Own => OwnCopy
  BY DEF OneAtATime, Owned, OwnCopy, IsOpen
<1> QED
  BY <1>1, <1>2, <1>3, InitSound, NextSound, PTL DEF Spec

-----------------------------------------------------------------------------
(* No name is a file on one side and a directory on the other.             *)

Agreeing(l, r) ==
  \A p \in Paths : l[p].kind # "none" /\ r[p] # "none" => (l[p].kind = "dir" <=> r[p] = "dir")

\* What the lookups see without links while the session works.
LEMMA SeenKinds ==
  ASSUME Sound, ~Uses("symlinks"), SessionUp, NEW p \in Paths
  PROVE  /\ HasLocal(p) => Getattr(p) = local[p].kind
         /\ ~HasLocal(p) => Getattr(p) = remote[p]
  BY Lookups DEF Getattr

\* A node may change where it agrees with the server.
LEMMA SetAgrees ==
  ASSUME NEW l, l \in [Paths -> Nodes], NEW r, Agreeing(l, r), NEW p \in Paths, NEW n,
         n.kind = "none" \/ r[p] = "none" \/ (n.kind = "dir" <=> r[p] = "dir")
  PROVE  Agreeing([l EXCEPT ![p] = n], r)
  BY DEF Agreeing

\* What is opened, made or removed agrees.
LEMMA OpenAgrees ==
  ASSUME Sound, ~Uses("symlinks"), SessionUp, Agreeing(local, remote),
         NEW h \in Handles, NEW p \in ClientPaths,
         Open(h, p) \/ \E ro \in BOOLEAN : Create(h, p, ro)
  PROVE  Agreeing(local', remote')
<1>1. p \in Paths /\ Resolved(p) = p /\ local \in [Paths -> Nodes]
  BY PathSets, Lookups DEF Sound, Shape, LocalTree, LocalNodes
<1>2. CASE UNCHANGED files
  BY <1>2 DEF files
<1>3. ASSUME NEW i, local' = [local EXCEPT ![p] = Node("file", i, <<>>)], remote' = remote,
             remote[p] \in {"none", "file"}
      PROVE  Agreeing(local', remote')
  <2>1. Node("file", i, <<>>).kind = "file"
    BY DEF Node
  <2>2. \/ remote[p] = "none"
        \/ (Node("file", i, <<>>).kind = "dir" <=> remote[p] = "dir")
    BY <1>3, <2>1
  <2> QED
    BY <1>1, <1>3, <2>2, SetAgrees
<1>4. CASE Open(h, p)
  BY <1>1, <1>2, <1>3, <1>4 DEF Open
<1>5. ASSUME NEW ro \in BOOLEAN, Create(h, p, ro) PROVE Agreeing(local', remote')
  <2>1. remote[p] = "none"
    BY <1>1, <1>5, SeenKinds DEF Create, Absent, HasLocal
  <2> QED
    BY <1>1, <1>3, <1>5, <2>1 DEF Create
<1> QED
  BY <1>4, <1>5

\* What is uploaded is no directory on either side.
LEMMA ReleaseAgrees ==
  ASSUME Sound, SessionUp, Agreeing(local, remote), NEW h \in Handles, Release(h)
  PROVE  Agreeing(local', remote')
<1> DEFINE p == handle[h].path
<1>1. p = handle[h].path
  OBVIOUS
<1> HIDE DEF p
<1>2. /\ p \in Paths
      /\ local' = local \/ local' = [local EXCEPT ![p] = Nothing]
      /\ local[p].kind # "dir"
      /\ RemoteTree(remote') /\ \A x \in Paths : x # p => remote'[x] = remote[x]
      /\ p \notin HiddenPaths => UNCHANGED <<local, remote>> \/ remote'[p] = "file"
  BY <1>1, ReleaseAt
<1>3. local \in [Paths -> Nodes] /\ Nothing.kind = "none"
  BY DEF Sound, Shape, LocalTree, LocalNodes, Nothing, Node
<1>4. local'[p].kind # "dir" /\ \A x \in Paths : x # p => local'[x] = local[x]
  BY <1>2, <1>3
<1>5. CASE UNCHANGED <<local, remote>>
  BY <1>5
<1>6. CASE p \in HiddenPaths \/ remote'[p] = "file"
  <2>1. remote'[p] # "dir"
    BY <1>2, <1>6, PathKinds DEF RemoteTree
  <2> QED
    BY <1>2, <1>4, <2>1 DEF Agreeing
<1> QED
  BY <1>2, <1>5, <1>6

\* A hidden name is free at the server.
LEMMA HideAgrees ==
  ASSUME Sound, ~Uses("symlinks"), SessionUp, Agreeing(local, remote),
         NEW q \in ClientPaths, NEW x \in HiddenPaths, Hide(q, x)
  PROVE  Agreeing(Moved(q, x), remote)
<1>1. /\ Parent(x) = Parent(q) /\ Shape(local, handle) /\ x \in Paths /\ Getattr(x) = "none"
  BY PathSets DEF Hide, Sound
<1>2. remote[x] = "none"
  BY <1>1, SeenKinds DEF HasLocal
<1>3. \A p \in Paths : Moved(q, x)[p] = IF p = q THEN Nothing
                                        ELSE IF p = x THEN local[q] ELSE local[p]
  BY <1>1, HiddenAt
<1>4. Nothing.kind = "none"
  BY DEF Nothing, Node
<1> QED
  BY <1>2, <1>3, <1>4 DEF Agreeing

\* A name is made only where nothing is shown.
LEMMA NameOpAgrees ==
  ASSUME Sound, ~Uses("symlinks"), SessionUp, Agreeing(local, remote),
         NEW p \in ClientPaths, NameOp(p)
  PROVE  Agreeing(local', remote')
<1>1. p \in Paths /\ local \in [Paths -> Nodes] /\ Nothing.kind = "none"
  BY PathSets DEF Sound, Shape, LocalTree, LocalNodes, Nothing, Node
<1>2. ASSUME local' = [local EXCEPT ![p] = Nothing], remote' = remote
      PROVE  Agreeing(local', remote')
  BY <1>1, <1>2, SetAgrees
<1>3. CASE Unlink(p)
  <2>1. ASSUME NEW x \in HiddenPaths, Hide(p, x), local' = Moved(p, x), remote' = remote
        PROVE  Agreeing(local', remote')
    BY <2>1, HideAgrees
  <2>2. ASSUME local' = local, remote' = [remote EXCEPT ![p] = "none"]
        PROVE  Agreeing(local', remote')
    <3>1. remote \in [Paths -> Kinds]
      BY DEF Sound, RemoteTree
    <3> QED
      BY <2>2, <3>1 DEF Agreeing
  <2> QED
    BY <1>2, <1>3, <2>1, <2>2 DEF Unlink, Becomes
<1>4. CASE Rmdir(p)
  BY <1>2, <1>4 DEF Rmdir
<1>5. ASSUME NEW n, MakeLocal(p, n) PROVE Agreeing(local', remote')
  <2>1. remote[p] = "none"
    BY <1>1, <1>5, SeenKinds DEF MakeLocal, Absent, HasLocal
  <2> QED
    BY <1>1, <1>5, <2>1, SetAgrees DEF MakeLocal
<1> QED
  BY <1>3, <1>4, <1>5 DEF NameOp, Mkdir, Mknod, Symlink, HardLink

\* So does what is renamed, when the target's kind is right.
LEMMA RenameAgrees ==
  ASSUME NEW l, NEW hs, NEW p, NEW q, Renames(l, hs, p, q), NEW r, RemoteTree(r),
         Agreeing(l, r), r[q] # "none" => (l[p].kind = "dir" <=> r[q] = "dir")
  PROVE  Agreeing(RenamedTree(l, p, q), r)
<1> DEFINE t == RenamedTree(l, p, q)
<1>1. p \in ClientPaths /\ q \in ClientPaths /\ ~Under(p, q) /\ ~Under(q, p)
      /\ l \in [Paths -> Nodes]
  BY DEF Renames, Rooted, LocalNodes
<1>2. LocalNodes(t)
  BY RenameShape DEF Shape, LocalTree
<1>3. CASE l[p].ino # 0 /\ l[p].ino = l[q].ino
  BY <1>3 DEF RenamedTree
<1>4. CASE ~(l[p].ino # 0 /\ l[p].ino = l[q].ino)
  <2>1. /\ t[q] = l[p]
        /\ \A x \in Paths : x = p \/ Below(p, x) => t[x] = Nothing
        /\ \A x \in Paths : x # p /\ x # q /\ ~Below(p, x) /\ ~Below(q, x) => t[x] = l[x]
    BY <1>1, <1>4, RenamedAt
  <2>2. \A x \in SubPaths : r[x] # "dir" /\ t[x].kind # "dir"
    BY <1>2, PathKinds, PathSets DEF RemoteTree, LocalNodes
  <2>3. Nothing.kind = "none"
    BY DEF Nothing, Node
  <2> HIDE DEF t
  <2>4. Agreeing(t, r)
    BY <2>1, <2>2, <2>3 DEF Agreeing, Below
  <2> QED
    BY <2>4 DEF t
<1> QED
  BY <1>3, <1>4

\* rename has asked what kind both names are.
LEMMA RenameStepAgrees ==
  ASSUME Sound, ~Uses("symlinks"), SessionUp, Agreeing(local, remote),
         NEW p \in ClientPaths, NEW q \in ClientPaths, Rename(p, q)
  PROVE  Agreeing(local', remote')
<1>1. p \in Paths /\ q \in Paths /\ RemoteTree(remote) /\ remote' = remote
  BY PathSets DEF Sound, Rename
<1>2. HasLocal(p) /\ remote[q] # "none" => (local[p].kind = "dir" <=> remote[q] = "dir")
  <2> SUFFICES ASSUME HasLocal(p), remote[q] # "none"
               PROVE  local[p].kind = "dir" <=> remote[q] = "dir"
    OBVIOUS
  <2>1. Getattr(p) = local[p].kind
    BY <1>1, SeenKinds
  <2>2. Getattr(q) # "none" /\ (Getattr(q) = "dir" <=> remote[q] = "dir")
    BY <1>1, SeenKinds DEF Agreeing, HasLocal
  <2> QED
    BY <2>1, <2>2 DEF Rename
<1>3. ASSUME NEW l, NEW hs, Renaming(l, hs, p, q), Agreeing(l, remote),
             l[p].kind # "none" => l[p] = local[p],
             CanRename(l, p, q) => Renames(l, hs, p, q)
      PROVE  Agreeing(local', remote')
  <2>1. CASE CanRename(l, p, q)
    <3>1. l[p].kind # "none"
      BY <2>1 DEF CanRename
    <3>2. remote[q] # "none" => (l[p].kind = "dir" <=> remote[q] = "dir")
      BY <1>2, <1>3, <3>1 DEF HasLocal
    <3>3. Agreeing(RenamedTree(l, p, q), remote)
      BY <1>1, <1>3, <2>1, <3>2, RenameAgrees
    <3> QED
      BY <1>1, <1>3, <2>1, <3>3 DEF Renaming, Becomes
  <2>2. CASE ~CanRename(l, p, q)
    BY <1>1, <1>3, <2>2 DEF Renaming, Becomes
  <2> QED
    BY <2>1, <2>2
<1>4. CASE OpenAt(q) = {}
  <2>1. Renaming(local, handle, p, q)
    BY <1>4 DEF Rename
  <2>2. CanRename(local, p, q) => Renames(local, handle, p, q)
    BY <1>4, RenamesPlainly
  <2> QED
    BY <1>3, <2>1, <2>2
<1>5. CASE OpenAt(q) # {}
  <2>1. PICK x \in HiddenPaths : Hide(q, x) /\ Renaming(Moved(q, x), Following(q, x), p, q)
    BY <1>5 DEF Rename
  <2>2. CanRename(Moved(q, x), p, q) => Renames(Moved(q, x), Following(q, x), p, q)
    BY <2>1, RenamesOverHidden
  <2>3. Agreeing(Moved(q, x), remote)
    BY <2>1, HideAgrees
  <2>4. Parent(x) = Parent(q) /\ Shape(local, handle)
    BY <2>1 DEF Hide, Sound
  <2>5. p # x
    BY PathSets
  <2>6. Moved(q, x)[p].kind # "none" => Moved(q, x)[p] = local[p]
    BY <1>1, <2>4, <2>5, HiddenAt DEF Nothing, Node
  <2> QED
    BY <1>3, <2>1, <2>2, <2>3, <2>6
<1> QED
  BY <1>4, <1>5

\* While the session works, no request gives a name to a file on one side that
\* is a directory on the other.
THEOREM KindsAreKept == Spec => KindsKept
<1>1. KindsAgree <=> Agreeing(local, remote)
  BY DEF KindsAgree, Agreeing, HasLocal
<1>2. Sound /\ [Next]_vars => [~Uses("symlinks") /\ SessionUp /\ KindsAgree => KindsAgree']_vars
  <2> SUFFICES ASSUME Sound, [Next]_vars, ~Uses("symlinks"), SessionUp,
                      Agreeing(local, remote)
               PROVE  Agreeing(local', remote')
    <3>1. KindsAgree' <=> Agreeing(local', remote')
      BY DEF KindsAgree, Agreeing, HasLocal
    <3> QED
      BY <1>1, <3>1
  <2>1. CASE UNCHANGED <<local, remote>>
    BY <2>1
  <2>2. ASSUME NEW h \in Handles, Release(h) PROVE Agreeing(local', remote')
    BY <2>2, ReleaseAgrees
  <2>3. ASSUME NEW h \in Handles, NEW p \in ClientPaths,
               Open(h, p) \/ \E ro \in BOOLEAN : Create(h, p, ro)
        PROVE  Agreeing(local', remote')
    BY <2>3, OpenAgrees
  <2>4. ASSUME NEW p \in ClientPaths, NameOp(p) PROVE Agreeing(local', remote')
    BY <2>4, NameOpAgrees
  <2>5. ASSUME NEW p \in ClientPaths, NEW q \in ClientPaths, Rename(p, q)
        PROVE  Agreeing(local', remote')
    BY <2>5, RenameStepAgrees
  <2> QED
    BY <2>1, <2>2, <2>3, <2>4, <2>5
       DEF Next, StartStep, StartFails, Unmount, Kill, StartAgain, Becomes, Chmod, files, vars
<1> QED
  BY <1>2, InitSound, NextSound, PTL DEF Spec, KindsKept

-----------------------------------------------------------------------------
(* Without mkdir there are no directories, without chmod all files can be  *)
(* written, and then the session stays.                                    *)

\* What a rename moves is no directory if nothing is.
LEMMA RenamedFlat ==
  ASSUME NEW l, NEW p, NEW q, \A x \in Paths : l[x].kind # "dir"
  PROVE  \A x \in Paths : RenamedTree(l, p, q)[x].kind # "dir"
<1>1. Nothing.kind # "dir"
  BY DEF Nothing, Node
<1>2. CASE l[p].ino # 0 /\ l[p].ino = l[q].ino
  BY <1>2 DEF RenamedTree
<1>3. CASE ~(l[p].ino # 0 /\ l[p].ino = l[q].ino)
  BY <1>1, <1>3 DEF RenamedTree
<1> QED
  BY <1>2, <1>3

\* Hiding makes no directories either.
LEMMA HideFlat ==
  ASSUME NEW q \in ClientPaths, NEW x \in HiddenPaths, Hide(q, x), Shape(local, handle),
         \A y \in Paths : local[y].kind # "dir"
  PROVE  /\ Shape(Moved(q, x), Following(q, x))
         /\ \A y \in Paths : Moved(q, x)[y].kind # "dir"
<1>1. Parent(x) = Parent(q) /\ HasLocal(q) /\ local[q].kind # "dir"
  BY PathSets DEF Hide
<1>2. Shape(Moved(q, x), Following(q, x))
  BY <1>1, HideShape
<1>3. \A y \in Paths : Moved(q, x)[y] = IF y = q THEN Nothing
                                        ELSE IF y = x THEN local[q] ELSE local[y]
  BY <1>1, HiddenAt
<1> QED
  BY <1>1, <1>2, <1>3 DEF Nothing, Node

\* No request but mkdir makes a directory.
LEMMA NextFlat ==
  ASSUME Sound, ~Uses("subdirs"), Flat(local, remote), [Next]_vars
  PROVE  Flat(local', remote')
<1>1. local \in [Paths -> Nodes] /\ remote \in [Paths -> Kinds] /\ Shape(local, handle)
  BY DEF Sound, Shape, LocalTree, LocalNodes, RemoteTree
<1>2. CASE UNCHANGED <<local, remote>>
  BY <1>2
<1>3. ASSUME NEW x, NEW n, n.kind # "dir", local' = [local EXCEPT ![x] = n], remote' = remote
      PROVE  Flat(local', remote')
  BY <1>1, <1>3 DEF Flat
<1>4. Nothing.kind # "dir"
  BY DEF Nothing, Node
<1>5. \A kind, i, to : kind # "dir" => Node(kind, i, to).kind # "dir"
  BY DEF Node
<1>6. ASSUME NEW q \in ClientPaths, NEW x \in HiddenPaths, Hide(q, x)
      PROVE  \A y \in Paths : Moved(q, x)[y].kind # "dir"
  BY <1>1, <1>6, HideFlat DEF Flat
<1>7. ASSUME NEW h \in Handles, Release(h) PROVE Flat(local', remote')
  <2> DEFINE p == handle[h].path
  <2>1. p = handle[h].path
    OBVIOUS
  <2> HIDE DEF p
  <2>2. /\ p \in Paths /\ (local' = local \/ local' = [local EXCEPT ![p] = Nothing])
        /\ RemoteTree(remote') /\ \A x \in Paths : x # p => remote'[x] = remote[x]
        /\ p \notin HiddenPaths => UNCHANGED <<local, remote>> \/ remote'[p] = "file"
    BY <1>7, <2>1, ReleaseAt
  <2>3. p \in HiddenPaths => remote'[p] # "dir"
    BY <2>2, PathKinds DEF RemoteTree
  <2>4. \A x \in Paths : remote'[x] # "dir"
    BY <2>2, <2>3 DEF Flat
  <2>5. \A x \in Paths : local'[x].kind # "dir"
    BY <1>1, <1>4, <2>2 DEF Flat
  <2> QED
    BY <2>4, <2>5 DEF Flat
<1>8. ASSUME NEW h \in Handles, NEW p \in ClientPaths,
             Open(h, p) \/ \E ro \in BOOLEAN : Create(h, p, ro)
      PROVE  Flat(local', remote')
  <2>1. CASE UNCHANGED files
    BY <1>2, <2>1 DEF files
  <2>2. ASSUME NEW i, local' = [local EXCEPT ![Resolved(p)] = Node("file", i, <<>>)],
               remote' = remote
        PROVE  Flat(local', remote')
    <3>1. Node("file", i, <<>>).kind # "dir"
      BY <1>5
    <3> QED
      BY <1>3, <2>2, <3>1
  <2> QED
    BY <1>8, <2>1, <2>2 DEF Open, Create
<1>9. ASSUME NEW p \in ClientPaths, NameOp(p) PROVE Flat(local', remote')
  <2>1. CASE Unlink(p)
    <3>1. ASSUME NEW x \in HiddenPaths, Hide(p, x), local' = Moved(p, x), remote' = remote
          PROVE  Flat(local', remote')
      BY <1>6, <3>1 DEF Flat
    <3>2. ASSUME local' = local, remote' = [remote EXCEPT ![p] = "none"]
          PROVE  Flat(local', remote')
      BY <1>1, <3>2 DEF Flat
    <3> QED
      BY <1>3, <1>4, <2>1, <3>1, <3>2 DEF Unlink, Becomes
  <2>2. CASE Mknod(p)
    <3>1. PICK i \in Inodes : MakeLocal(p, Node("fifo", i, <<>>))
      BY <2>2 DEF Mknod
    <3> QED
      BY <1>3, <1>5, <3>1 DEF MakeLocal
  <2>3. ASSUME NEW from \in TopPaths, Symlink(from, p) PROVE Flat(local', remote')
    <3>1. PICK i \in Inodes : MakeLocal(p, Node("link", i, from))
      BY <2>3 DEF Symlink
    <3> QED
      BY <1>3, <1>5, <3>1 DEF MakeLocal
  <2>4. ASSUME NEW from \in ClientPaths, HardLink(from, p) PROVE Flat(local', remote')
    <3>1. local[from].kind # "dir"
      BY PathSets DEF Flat
    <3> QED
      BY <1>3, <2>4, <3>1 DEF HardLink, MakeLocal
  <2> QED
    BY <1>9, <2>1, <2>2, <2>3, <2>4 DEF NameOp, Mkdir, Rmdir
<1>10. ASSUME NEW p \in ClientPaths, NEW q \in ClientPaths, Rename(p, q)
       PROVE  Flat(local', remote')
  <2>1. ASSUME NEW l, NEW hs, Renaming(l, hs, p, q), \A x \in Paths : l[x].kind # "dir"
        PROVE  \A x \in Paths : local'[x].kind # "dir"
    <3>1. local' = RenamedTree(l, p, q) \/ local' = l
      BY <2>1 DEF Renaming, Becomes
    <3> QED
      BY <2>1, <3>1, RenamedFlat
  <2>2. remote' = remote
    BY <1>10 DEF Rename
  <2>3. CASE OpenAt(q) = {}
    BY <1>10, <2>1, <2>2, <2>3 DEF Rename, Flat
  <2>4. CASE OpenAt(q) # {}
    <3>1. PICK x \in HiddenPaths : Hide(q, x) /\ Renaming(Moved(q, x), Following(q, x), p, q)
      BY <1>10, <2>4 DEF Rename
    <3>2. \A y \in Paths : Moved(q, x)[y].kind # "dir"
      BY <1>6, <3>1
    <3>3. \A y \in Paths : local'[y].kind # "dir"
      BY <2>1, <3>1, <3>2
    <3> QED
      BY <2>2, <3>3 DEF Flat
  <2> QED
    BY <2>3, <2>4
<1> QED
  BY <1>2, <1>7, <1>8, <1>9, <1>10
     DEF Next, StartStep, StartFails, Unmount, Kill, StartAgain, Becomes, Chmod, files, vars

\* No request but chmod, and a create with such a mode, makes a file the daemon
\* may not write.
LEMMA NextWritable ==
  ASSUME ~Uses("chmod"), readonly = {}, [Next]_vars
  PROVE  readonly' = {}
<1>1. \A l, hs : Becomes(l, hs) => readonly' = {}
  BY DEF Becomes
<1>2. ASSUME NEW p, NEW node, MakeLocal(p, node) PROVE readonly' = {}
  BY <1>2 DEF MakeLocal
<1>3. ASSUME NEW p, NameOp(p) PROVE readonly' = {}
  BY <1>1, <1>2, <1>3 DEF NameOp, Unlink, Mkdir, Rmdir, Mknod, Symlink, HardLink
<1>4. ASSUME NEW p, NEW q, Rename(p, q) PROVE readonly' = {}
  BY <1>1, <1>4 DEF Rename, Renaming
<1>5. ASSUME NEW h, NEW p, Open(h, p) PROVE readonly' = {}
  BY <1>5 DEF Open, files
<1>6. ASSUME NEW h, NEW p, NEW ro \in BOOLEAN, Create(h, p, ro) PROVE readonly' = {}
  BY <1>6 DEF Create
<1>7. ASSUME NEW h, Release(h) PROVE readonly' = {}
  BY <1>1, <1>7 DEF Release
<1> QED
  BY <1>1, <1>3, <1>4, <1>5, <1>6, <1>7
     DEF Next, StartStep, StartFails, Unmount, Kill, StartAgain, Chmod, files, vars

\* Where there are no directories every open finds its file or makes it.
LEMMA OpenKeepsSession ==
  ASSUME Sound, Flat(local, remote), readonly = {}, ~Uses("symlinks"),
         NEW h \in Handles, NEW p \in ClientPaths, Open(h, p)
  PROVE  UNCHANGED <<phase, held>>
<1>1. p \in Paths /\ Resolved(p) = p
  BY PathSets, Lookups
<1>2. ASSUME p \in SubPaths PROVE FALSE
  <2>1. Parent(p) \in Paths /\ Len(p) = 2
    BY <1>1, <1>2, PathKinds, PathSets
  <2>2. Getattr(Parent(p)) # "dir"
    BY <2>1 DEF Flat, Getattr
  <2> QED
    BY <2>1, <2>2 DEF Open, ParentShown
<1>3. LocalParent(p)
  BY <1>1, <1>2, Lookups
<1>4. HasLocal(p) => local[p].kind = "file"
  BY <1>1, Lookups DEF Open, Getattr
<1>5. \/ local[p].kind = "file" /\ local[p].ino \notin readonly
      \/ ~HasLocal(p) /\ LocalParent(p)
      => held' = held
  BY <1>1 DEF Open
<1> QED
  BY <1>3, <1>4, <1>5 DEF Open

\* A start that succeeds has a session, and no other step loses it.
LEMMA NextSession ==
  ASSUME Sound, HoldsAll, Flat(local, remote), readonly = {}, ~Uses("symlinks"),
         Serving => SessionUp, [Next]_vars
  PROVE  Serving' => SessionUp'
<1>1. CASE StartStep
  <2>1. phase \in {"down", "created", "connected", "authenticated", "channel",
                   "initialised", "allocated"}
    BY <1>1 DEF StartStep, Startup
  <2>2. phase' = "serving" => phase = "allocated"
    BY <1>1, <2>1 DEF StartStep, Startup, Step
  <2> QED
    BY <1>1, <2>2 DEF StartStep, HoldsAll, Serving, SessionUp
<1>2. CASE StartFails
  <2>1. phase \in {"down", "created", "connected", "authenticated", "channel",
                   "initialised", "allocated"}
    BY <1>2 DEF StartFails, Startup
  <2>2. phase' # "serving"
    BY <1>2, <2>1 DEF StartFails, Startup, Step
  <2> QED
    BY <2>2 DEF Serving
<1>3. CASE Unmount \/ Kill \/ StartAgain
  BY <1>3 DEF Unmount, Kill, StartAgain, Serving
<1>4. CASE UNCHANGED <<phase, held>>
  BY <1>4 DEF Serving, SessionUp
<1>5. ASSUME NEW h \in Handles, NEW p \in ClientPaths, Open(h, p) PROVE UNCHANGED <<phase, held>>
  BY <1>5, OpenKeepsSession
<1>6. ASSUME NEW h \in Handles, Release(h) PROVE UNCHANGED <<phase, held>>
  BY <1>6 DEF Release, daemon
<1>7. ASSUME NEW h \in Handles, NEW p \in ClientPaths, NEW ro, Create(h, p, ro)
      PROVE  UNCHANGED <<phase, held>>
  BY <1>7 DEF Create, daemon
<1>8. ASSUME NEW p, NameOp(p) PROVE UNCHANGED <<phase, held>>
  BY <1>8 DEF NameOp, Unlink, Mkdir, Rmdir, Mknod, Symlink, HardLink, MakeLocal, daemon
<1>9. ASSUME NEW p, Chmod(p) PROVE UNCHANGED <<phase, held>>
  BY <1>9 DEF Chmod, daemon
<1>10. ASSUME NEW p, NEW q, Rename(p, q) PROVE UNCHANGED <<phase, held>>
  BY <1>10 DEF Rename, daemon
<1> QED
  BY <1>1, <1>2, <1>3, <1>4, <1>5, <1>6, <1>7, <1>8, <1>9, <1>10 DEF Next, vars

\* What clients that make no directories, and change no modes, can rely on.
FlatAlways == ~Uses("subdirs") => Flat(local, remote)
Writable == ~Uses("chmod") => readonly = {}
Steady == FlatAlways /\ Writable /\ HoldsAll /\ SessionKept

\* It holds at the start, and every step keeps it.
LEMMA InitSteady == Init => Steady
<1> SUFFICES ASSUME Init PROVE Steady
  OBVIOUS
<1>1. Sound
  BY InitSound
<1>2. FlatAlways
  <2>1. \A p \in Paths : local[p] = Nothing
    BY DEF Init
  <2> QED
    BY <2>1 DEF Init, FlatAlways, Flat, Nothing, Node
<1>3. HoldsAll
  BY DEF Init, HoldsAll
<1>4. SessionKept
  BY DEF Init, SessionKept, Serving
<1> QED
  BY <1>2, <1>3, <1>4 DEF Steady, Init, Writable

\* What clients do stays the same, and so does what they can rely on.
LEMMA NextSteady == Sound /\ Steady /\ [Next]_vars => Steady'
<1> SUFFICES ASSUME Sound, Steady, [Next]_vars PROVE Steady'
  OBVIOUS
<1>1. uses' = uses
  BY UsesStay
<1>2. FlatAlways'
  <2> SUFFICES ASSUME ~Uses("subdirs") PROVE Flat(local', remote')
    BY <1>1 DEF FlatAlways, Flat, Uses
  <2> QED
    BY NextFlat DEF Steady, FlatAlways
<1>3. Writable'
  BY <1>1, NextWritable DEF Steady, Writable, Uses
<1>4. HoldsAll'
  BY NextHolds DEF Steady
<1>5. SessionKept'
  <2> SUFFICES ASSUME uses \cap {"subdirs", "chmod", "symlinks"} = {}
               PROVE  Serving' => SessionUp'
    BY <1>1 DEF SessionKept
  <2>1. ~Uses("subdirs") /\ ~Uses("chmod") /\ ~Uses("symlinks")
    BY DEF Uses
  <2> QED
    BY <2>1, NextSession DEF Steady, FlatAlways, Writable, SessionKept
<1> QED
  BY <1>2, <1>3, <1>4, <1>5 DEF Steady

\* Without directories, modes and symbolic links no request ever frees the session.
THEOREM SessionIsKept == Spec => []SessionKept
<1>1. Steady => SessionKept
  BY DEF Steady
<1> QED
  BY <1>1, InitSound, NextSound, InitSteady, NextSteady, PTL DEF Spec

-----------------------------------------------------------------------------
(* Clients that only create, open, unlink and rename leave nothing behind. *)

\* Where nothing is a directory nothing is below one.
LEMMA FlatTree ==
  ASSUME NEW l, NEW hs, Shape(l, hs), \A x \in Paths : l[x].kind # "dir"
  PROVE  /\ \A x \in SubPaths : l[x].kind = "none"
         /\ \A h \in Handles : hs[h].path \notin SubPaths
<1>1. \A x \in SubPaths : Parent(x) \in Paths
  BY PathKinds, PathSets
<1> QED
  BY <1>1 DEF Shape, LocalTree, Above, OpenFiles

\* What is opened is at a name of its own.
LEMMA OpenedTidy ==
  ASSUME Sound, Tidy(local, handle, remote), NEW h \in Handles, ~IsOpen(h), NEW p \in Paths,
         NEW i \in Inodes, local[p].ino = i \/ NewInode(i),
         local' = [local EXCEPT ![p] = Node("file", i, <<>>)],
         handle' = [handle EXCEPT ![h] = [path |-> p, ino |-> i]], remote' = remote
  PROVE  Tidy(local', handle', remote')
<1>1. local \in [Paths -> Nodes] /\ handle \in [Handles -> OpenNodes] /\ handle[h].path = <<>>
  BY DEF Sound, Shape, LocalTree, LocalNodes, OpenFiles, IsOpen
<1>2. \A x \in Paths : local'[x] = IF x = p THEN Node("file", i, <<>>) ELSE local[x]
  BY <1>1
<1>3. handle'[h].path = p /\ \A g \in Handles : g # h => handle'[g] = handle[g]
  BY <1>1
<1>4. Node("file", i, <<>>).ino = i
  BY DEF Node
<1>5. NewInode(i) => \A x \in Paths : local[x].ino # i
  BY DEF NewInode, FreeInodes
<1>6. i # 0
  BY NamespaceAssumption
<1>7. \A x \in Paths : x # p => local[x].ino # i
  BY <1>5, <1>6 DEF Tidy
<1>8. ASSUME NEW x \in Paths, NEW y \in Paths, local'[x].ino = local'[y].ino, local'[x].ino # 0
      PROVE  x = y
  BY <1>2, <1>4, <1>7, <1>8 DEF Tidy
<1>9. \A x \in Paths, g \in Handles : handle[g].path = x => g # h
  BY <1>1, PathSets
<1>10. ASSUME NEW x \in Paths, local'[x].kind # "none" PROVE \E g \in Handles : handle'[g].path = x
  <2>1. CASE x = p
    BY <1>3, <2>1
  <2>2. CASE x # p
    BY <1>2, <1>3, <1>9, <1>10, <2>2 DEF Tidy
  <2> QED
    BY <2>1, <2>2
<1>11. ASSUME NEW x \in HiddenPaths, remote'[x] # "none"
       PROVE  \E g \in Handles : handle'[g].path = x
  <2>1. PICK g \in Handles : handle[g].path = x
    BY <1>11 DEF Tidy
  <2> QED
    BY <1>3, <1>9, <2>1, PathSets
<1> QED
  BY <1>8, <1>10, <1>11 DEF Tidy

\* release uploads every file and removes its copy, and the last release of a
\* hidden file removes it from the server.
LEMMA ReleaseTidy ==
  ASSUME Sound, Tidy(local, handle, remote), Flat(local, remote), SessionUp,
         NEW h \in Handles, Release(h)
  PROVE  Tidy(local', handle', remote')
<1> DEFINE p == handle[h].path
           saved == SessionUp /\ RemoteParent(p) /\ remote[p] # "dir"
           r == IF saved THEN [remote EXCEPT ![p] = "file"] ELSE remote
           l == IF saved /\ (local[p].kind = "dir" => Empty(p))
                THEN [local EXCEPT ![p] = Nothing] ELSE local
           last == p \in HiddenPaths /\ OpenAt(p) = {h}
<1>1. /\ remote' = IF last /\ ~ExistsIn(l, p) /\ SessionUp THEN [r EXCEPT ![p] = "none"] ELSE r
      /\ local' = IF last /\ ExistsIn(l, p) THEN [l EXCEPT ![p] = Nothing] ELSE l
      /\ handle' = [handle EXCEPT ![h] = Closed]
      /\ IsOpen(h)
  BY DEF Release, Becomes
<1>2. Shape(local, handle) /\ handle \in [Handles -> OpenNodes] /\ local \in [Paths -> Nodes]
      /\ remote \in [Paths -> Kinds]
  BY DEF Sound, Shape, OpenFiles, LocalTree, LocalNodes, RemoteTree
<1>3. p \in Paths
  BY <1>1, OpenPaths DEF IsOpen
<1>4. local[p].kind # "dir" /\ remote[p] # "dir"
  BY <1>3 DEF Flat
<1>5. p \notin SubPaths
  BY <1>2, FlatTree DEF Flat
<1>6. RemoteParent(p)
  BY <1>3, <1>5, Lookups
<1>7. saved
  BY <1>4, <1>6
<1>8. l = [local EXCEPT ![p] = Nothing] /\ r = [remote EXCEPT ![p] = "file"]
  BY <1>4, <1>7
<1>9. Nothing.kind = "none" /\ Nothing.ino = 0 /\ Closed.path = <<>>
  BY DEF Nothing, Node, Closed
<1>10. p = handle[h].path /\ (last <=> p \in HiddenPaths /\ OpenAt(p) = {h})
  OBVIOUS
<1> HIDE DEF p, saved, r, l, last
<1>11. l[p] = Nothing /\ \A x \in Paths : x # p => l[x] = local[x]
  BY <1>2, <1>3, <1>8
<1>12. ~ExistsIn(l, p)
  BY <1>9, <1>11 DEF ExistsIn, ResolvedIn
<1>13. /\ local' = l /\ (last => remote'[p] = "none")
       /\ \A x \in Paths : x # p => remote'[x] = remote[x]
  BY <1>1, <1>2, <1>3, <1>8, <1>12
<1>14. \A g \in Handles : g # h => handle'[g] = handle[g]
  BY <1>1, <1>2
<1>15. \A x, y \in Paths : local'[x].ino = local'[y].ino /\ local'[x].ino # 0 => x = y
  BY <1>9, <1>11, <1>13 DEF Tidy
<1>16. \A g \in Handles : handle[g].path # p => g # h
  BY <1>10
<1>17. ASSUME NEW x \in Paths, local'[x].kind # "none" PROVE \E g \in Handles : handle'[g].path = x
  <2>1. x # p /\ local[x].kind # "none"
    BY <1>9, <1>11, <1>13, <1>17
  <2>2. PICK g \in Handles : handle[g].path = x
    BY <2>1 DEF Tidy
  <2> QED
    BY <1>14, <1>16, <2>1, <2>2
<1>18. ASSUME NEW x \in HiddenPaths, remote'[x] # "none"
       PROVE  \E g \in Handles : handle'[g].path = x
  <2>1. CASE x # p
    <3>1. PICK g \in Handles : handle[g].path = x
      BY <1>13, <1>18, <2>1, PathSets DEF Tidy
    <3> QED
      BY <1>14, <1>16, <2>1, <3>1
  <2>2. CASE x = p
    <3>1. OpenAt(p) # {h}
      BY <1>10, <1>13, <1>18, <2>2
    <3>2. PICK g \in Handles : handle[g].path = p /\ g # h
      BY <1>10, <3>1 DEF OpenAt
    <3> QED
      BY <1>14, <2>2, <3>2
  <2> QED
    BY <2>1, <2>2
<1> QED
  BY <1>15, <1>17, <1>18 DEF Tidy

\* A hidden file is open under its hidden name.
LEMMA HideTidy ==
  ASSUME Sound, Tidy(local, handle, remote), NEW q \in ClientPaths, NEW x \in HiddenPaths,
         Hide(q, x)
  PROVE  Tidy(Moved(q, x), Following(q, x), remote)
<1> DEFINE l == Moved(q, x)
           hs == Following(q, x)
<1>1. Parent(x) = Parent(q) /\ OpenAt(x) = {} /\ HasLocal(q) /\ Shape(local, handle)
  BY DEF Hide, Sound
<1>2. /\ q \in Paths /\ x \in Paths /\ x # q
      /\ \A y \in Paths : l[y] = IF y = q THEN Nothing ELSE IF y = x THEN local[q] ELSE local[y]
      /\ \A h \in Handles : hs[h].path = IF handle[h].path = q THEN x ELSE handle[h].path
  BY <1>1, HiddenAt
<1>3. Nothing.kind = "none" /\ Nothing.ino = 0
  BY DEF Nothing, Node
<1>4. q \notin HiddenPaths
  BY PathSets
<1> HIDE DEF l, hs
<1>5. local[x].ino = 0
  <2>1. \A h \in Handles : handle[h].path # x
    BY <1>1 DEF OpenAt
  <2>2. local[x].kind = "none"
    BY <1>2, <2>1 DEF Tidy
  <2> QED
    BY <1>1, <1>2, <2>2 DEF Shape, LocalTree, LocalNodes
<1>6. ASSUME NEW a \in Paths, NEW b \in Paths, l[a].ino = l[b].ino, l[a].ino # 0 PROVE a = b
  BY <1>2, <1>3, <1>6 DEF Tidy
<1>7. ASSUME NEW y \in Paths, l[y].kind # "none" PROVE \E h \in Handles : hs[h].path = y
  <2>1. CASE y = x
    <3>1. PICK h \in Handles : handle[h].path = q
      BY <1>1, <1>2 DEF Tidy, HasLocal
    <3> QED
      BY <1>2, <2>1, <3>1
  <2>2. CASE y # x
    <3>1. y # q /\ local[y].kind # "none"
      BY <1>2, <1>3, <1>7, <2>2
    <3> QED
      BY <1>2, <3>1 DEF Tidy
  <2> QED
    BY <2>1, <2>2
<1>8. ASSUME NEW y \in HiddenPaths, remote[y] # "none" PROVE \E h \in Handles : hs[h].path = y
  BY <1>2, <1>4, <1>8 DEF Tidy
<1>9. Tidy(l, hs, remote)
  BY <1>6, <1>7, <1>8 DEF Tidy
<1> QED
  BY <1>9 DEF l, hs

\* A file is open under its new name.
LEMMA RenameTidy ==
  ASSUME NEW l, NEW hs, NEW r, NEW p, NEW q, Renames(l, hs, p, q), Shape(l, hs),
         \A x \in Paths : l[x].kind # "dir", Tidy(l, hs, r)
  PROVE  Tidy(RenamedTree(l, p, q), RenamedHandles(hs, p, q), r)
<1> DEFINE t == RenamedTree(l, p, q)
           gs == RenamedHandles(hs, p, q)
<1>1. /\ p \in ClientPaths /\ q \in ClientPaths /\ ~Under(p, q) /\ ~Under(q, p)
      /\ p \in Paths /\ q \in Paths /\ p # q
  BY RenamedParents DEF Renames
<1>2. l \in [Paths -> Nodes] /\ hs \in [Handles -> OpenNodes]
  BY DEF Shape, LocalTree, LocalNodes, OpenFiles
<1>3. ~(l[p].ino # 0 /\ l[p].ino = l[q].ino)
  BY <1>1 DEF Tidy
<1>4. /\ t[q] = l[p]
      /\ \A x \in SubPaths : Parent(x) = q =>
           t[x] = IF p \in TopPaths THEN l[Rebased(q, p, x)] ELSE Nothing
      /\ \A x \in Paths : x = p \/ Below(p, x) => t[x] = Nothing
      /\ \A x \in Paths : x # p /\ x # q /\ ~Below(p, x) /\ ~Below(q, x) => t[x] = l[x]
  BY <1>1, <1>2, <1>3, RenamedAt
<1>5. /\ \A x \in SubPaths : l[x].kind = "none"
      /\ \A h \in Handles : hs[h].path \notin SubPaths
  BY FlatTree
<1>6. \A h \in Handles : gs[h].path = IF hs[h].path = p THEN q ELSE hs[h].path
  BY <1>1, <1>2, <1>5, RenamedOpenAt DEF Below
<1>7. LocalNodes(t)
  BY RenameShape DEF Shape, LocalTree
<1>8. Nothing.kind = "none"
  BY DEF Nothing, Node
<1> HIDE DEF t, gs
<1>9. ASSUME NEW x \in Paths, Below(q, x) PROVE t[x].kind = "none"
  <2>1. CASE p \in TopPaths
    <3>1. q \in Paths \ SubPaths
      BY <1>1, <1>9, PathKinds, PathSets DEF Below
    <3>2. Rebased(q, p, x) \in SubPaths
      BY <1>9, <2>1, <3>1, RebasedBelow DEF Below
    <3> QED
      BY <1>4, <1>5, <1>9, <2>1, <3>2 DEF Below
  <2>2. CASE p \notin TopPaths
    BY <1>4, <1>8, <1>9, <2>2 DEF Below
  <2> QED
    BY <2>1, <2>2
<1>10. ASSUME NEW x \in Paths, t[x].kind # "none"
       PROVE  (x = q /\ t[x] = l[p]) \/ (x # p /\ x # q /\ t[x] = l[x])
  BY <1>4, <1>8, <1>9, <1>10
<1>11. ASSUME NEW a \in Paths, NEW b \in Paths, t[a].ino = t[b].ino, t[a].ino # 0 PROVE a = b
  <2>1. t[a].kind # "none" /\ t[b].kind # "none"
    BY <1>7, <1>11 DEF LocalNodes
  <2> QED
    BY <1>1, <1>10, <1>11, <2>1 DEF Tidy
<1>12. ASSUME NEW x \in Paths, t[x].kind # "none" PROVE \E h \in Handles : gs[h].path = x
  <2>1. CASE x = q
    <3>1. PICK h \in Handles : hs[h].path = p
      BY <1>1 DEF Tidy, Renames
    <3> QED
      BY <1>6, <2>1, <3>1
  <2>2. CASE x # q
    <3>1. PICK h \in Handles : hs[h].path = x
      BY <1>10, <1>12, <2>2 DEF Tidy
    <3> QED
      BY <1>6, <1>10, <1>12, <2>2, <3>1
  <2> QED
    BY <2>1, <2>2
<1>13. ASSUME NEW x \in HiddenPaths, r[x] # "none" PROVE \E h \in Handles : gs[h].path = x
  <2>1. PICK h \in Handles : hs[h].path = x
    BY <1>13 DEF Tidy
  <2> QED
    BY <1>1, <1>6, <2>1, PathSets
<1>14. Tidy(t, gs, r)
  BY <1>11, <1>12, <1>13 DEF Tidy
<1> QED
  BY <1>14 DEF t, gs

\* Every step of such clients keeps it.
LEMMA NextTidy ==
  ASSUME Sound, Steady, uses \subseteq {"sharing"}, Tidy(local, handle, remote), [Next]_vars
  PROVE  Tidy(local', handle', remote')
<1>1. /\ ~Uses("subdirs") /\ ~Uses("chmod") /\ ~Uses("symlinks") /\ ~Uses("crash")
      /\ ~Uses("nodes") /\ ~Uses("hardlinks")
  BY DEF Uses
<1>2. Flat(local, remote) /\ readonly = {} /\ (Serving => SessionUp)
  BY <1>1 DEF Steady, FlatAlways, Writable, SessionKept, Uses
<1>3. CASE UNCHANGED <<local, handle, remote>>
  BY <1>3
<1>4. ~Kill
  BY <1>1, <1>2 DEF Kill
<1>5. ASSUME NEW h \in Handles, Release(h) PROVE Tidy(local', handle', remote')
  BY <1>2, <1>5, ReleaseTidy DEF Release
<1>6. ASSUME NEW h \in Handles, NEW p \in ClientPaths,
             Open(h, p) \/ \E ro \in BOOLEAN : Create(h, p, ro)
      PROVE  Tidy(local', handle', remote')
  <2>1. p \in Paths /\ Resolved(p) = p
    BY <1>1, Lookups, PathSets
  <2>2. CASE UNCHANGED files
    BY <1>3, <2>2 DEF files
  <2>3. ASSUME NEW i \in Inodes, local[p].ino = i \/ NewInode(i),
               local' = [local EXCEPT ![p] = Node("file", i, <<>>)],
               handle' = [handle EXCEPT ![h] = [path |-> p, ino |-> i]], remote' = remote,
               ~IsOpen(h)
        PROVE  Tidy(local', handle', remote')
    BY <2>1, <2>3, OpenedTidy
  <2>4. CASE Open(h, p)
    BY <2>1, <2>2, <2>3, <2>4 DEF Open
  <2>5. CASE \E ro \in BOOLEAN : Create(h, p, ro)
    BY <2>1, <2>3, <2>5 DEF Create
  <2> QED
    BY <1>6, <2>4, <2>5
<1>7. ASSUME NEW p \in ClientPaths, NameOp(p) PROVE Tidy(local', handle', remote')
  <2>1. Unlink(p)
    BY <1>1, <1>7 DEF NameOp, Mkdir, Rmdir, Mknod, Symlink, HardLink
  <2>2. p \in Paths /\ remote \in [Paths -> Kinds]
    BY PathSets DEF Sound, RemoteTree
  <2>3. ASSUME NEW x \in HiddenPaths, Hide(p, x), local' = Moved(p, x),
               handle' = Following(p, x), remote' = remote
        PROVE  Tidy(local', handle', remote')
    BY <2>3, HideTidy
  <2>4. OpenAt(p) = {} => ~Exists(p)
    BY <1>1, <2>2, Lookups DEF Tidy, HasLocal, OpenAt
  <2>5. ASSUME remote' = [remote EXCEPT ![p] = "none"], UNCHANGED <<local, handle>>
        PROVE  Tidy(local', handle', remote')
    <3>1. \A x \in HiddenPaths : remote'[x] # "none" => remote[x] # "none"
      BY <2>2, <2>5, PathSets
    <3> QED
      BY <2>5, <3>1 DEF Tidy
  <2> QED
    BY <2>1, <2>3, <2>4, <2>5 DEF Unlink, Becomes
<1>8. ASSUME NEW p \in ClientPaths, NEW q \in ClientPaths, Rename(p, q)
      PROVE  Tidy(local', handle', remote')
  <2>1. ASSUME NEW l, NEW hs, Renaming(l, hs, p, q), Shape(l, hs),
               \A x \in Paths : l[x].kind # "dir", Tidy(l, hs, remote),
               CanRename(l, p, q) => Renames(l, hs, p, q)
        PROVE  Tidy(local', handle', remote')
    <3>1. remote' = remote
      BY <1>8 DEF Rename
    <3>2. CASE CanRename(l, p, q)
      <4>1. Tidy(RenamedTree(l, p, q), RenamedHandles(hs, p, q), remote)
        BY <2>1, <3>2, RenameTidy
      <4> QED
        BY <2>1, <3>1, <3>2, <4>1 DEF Renaming, Becomes
    <3>3. CASE ~CanRename(l, p, q)
      BY <2>1, <3>1, <3>3 DEF Renaming, Becomes
    <3> QED
      BY <3>2, <3>3
  <2>2. Shape(local, handle) /\ \A x \in Paths : local[x].kind # "dir"
    BY <1>2 DEF Sound, Flat
  <2>3. CASE OpenAt(q) = {}
    <3>1. Renaming(local, handle, p, q)
      BY <1>8, <2>3 DEF Rename
    <3>2. CanRename(local, p, q) => Renames(local, handle, p, q)
      BY <1>8, <2>3, RenamesPlainly
    <3> QED
      BY <2>1, <2>2, <3>1, <3>2
  <2>4. CASE OpenAt(q) # {}
    <3>1. PICK x \in HiddenPaths : Hide(q, x) /\ Renaming(Moved(q, x), Following(q, x), p, q)
      BY <1>8, <2>4 DEF Rename
    <3>2. CanRename(Moved(q, x), p, q) => Renames(Moved(q, x), Following(q, x), p, q)
      BY <1>8, <3>1, RenamesOverHidden
    <3>3. Tidy(Moved(q, x), Following(q, x), remote)
      BY <3>1, HideTidy
    <3>4. Shape(Moved(q, x), Following(q, x)) /\ \A y \in Paths : Moved(q, x)[y].kind # "dir"
      BY <2>2, <3>1, HideFlat
    <3> QED
      BY <2>1, <3>1, <3>2, <3>3, <3>4
  <2> QED
    BY <2>3, <2>4
<1>9. ~\E p \in ClientPaths : Chmod(p)
  BY <1>1 DEF Chmod
<1> QED
  BY <1>3, <1>4, <1>5, <1>6, <1>7, <1>8, <1>9
     DEF Next, StartStep, StartFails, Unmount, StartAgain, files, vars

\* What such clients leave, at any time.
TidyAlways == uses \subseteq {"sharing"} => Tidy(local, handle, remote)

\* They find nothing in the local tree, and add nothing that stays.
LEMMA InitTidy == Init => TidyAlways
<1> SUFFICES ASSUME Init PROVE Tidy(local, handle, remote)
  BY DEF TidyAlways
<1>1. \A p \in Paths : local[p].kind = "none" /\ local[p].ino = 0
  BY DEF Init, Nothing, Node
<1>2. \A p \in HiddenPaths : remote[p] = "none"
  BY PathSets DEF Init
<1> QED
  BY <1>1, <1>2 DEF Tidy

\* Every step of theirs keeps it so.
LEMMA TidyStays == Sound /\ Steady /\ TidyAlways /\ [Next]_vars => TidyAlways'
<1> SUFFICES ASSUME Sound, Steady, TidyAlways, [Next]_vars, (uses \subseteq {"sharing"})'
             PROVE  Tidy(local, handle, remote)'
  BY DEF TidyAlways
<1>1. uses \subseteq {"sharing"}
  BY UsesStay
<1>2. Tidy(local', handle', remote')
  BY <1>1, NextTidy DEF TidyAlways
<1> QED
  BY <1>2 DEF Tidy

\* Clients that only create, open, unlink and rename files leave nothing in the
\* local tree, and no hidden name at the server, but what an open file will
\* still release.
THEOREM NothingIsLeftBehind == Spec => []NothingLeftBehind
<1>1. TidyAlways => NothingLeftBehind
  BY DEF TidyAlways, Tidy, NothingLeftBehind, HasLocal, OpenAt
<1> QED
  BY <1>1, InitSound, NextSound, InitSteady, NextSteady, InitTidy, TidyStays, PTL DEF Spec

\* For them a directory lists just the names that can be found, but for files
\* that are open.
THEOREM WhatIsListedIsFound == Spec => []ListedIsFound
<1>1. Sound /\ Steady /\ TidyAlways => ListedIsFound
  <2> SUFFICES ASSUME Sound, Steady, TidyAlways, uses \subseteq {"sharing"}, Serving,
                      NEW p \in Paths, OpenAt(p) = {}
               PROVE  Readdir(p) <=> Getattr(p) # "none"
    BY DEF ListedIsFound
  <2>1. SessionUp /\ ~Uses("symlinks")
    BY DEF Steady, SessionKept, Uses
  <2>2. ~HasLocal(p)
    BY DEF TidyAlways, Tidy, HasLocal, OpenAt
  <2>3. Getattr(p) = remote[p]
    BY <2>1, <2>2, SeenKinds
  <2>4. remote[p] # "none" => RemoteParent(p)
    BY Lookups DEF Sound, RemoteTree
  <2> QED
    BY <2>1, <2>3, <2>4 DEF Readdir
<1> QED
  BY <1>1, InitSound, NextSound, InitSteady, NextSteady, InitTidy, TidyStays, PTL DEF Spec

-----------------------------------------------------------------------------
(* What getattr answers changes for names that requests name, and no other. *)

\* Files that are closed need not be seen.
LEMMA ClosedSeen ==
  ASSUME NEW l, NEW hs, NEW r, \A h \in Handles : hs[h].path = <<>>
  PROVE  Seen(l, hs, r)
  BY PathSets DEF Seen

\* release leaves each file that is still open on one side.
LEMMA ReleaseSeen ==
  ASSUME Sound, Seen(local, handle, remote), NEW h \in Handles, Release(h)
  PROVE  Seen(local', handle', remote')
<1> DEFINE p == handle[h].path
<1>1. p = handle[h].path
  OBVIOUS
<1> HIDE DEF p
<1>2. /\ p \in Paths /\ handle' = [handle EXCEPT ![h] = Closed]
      /\ local' = local \/ local' = [local EXCEPT ![p] = Nothing]
      /\ \A x \in Paths : x # p => remote'[x] = remote[x]
      /\ p \notin HiddenPaths => UNCHANGED <<local, remote>> \/ remote'[p] = "file"
  BY <1>1, ReleaseAt
<1>3. local \in [Paths -> Nodes] /\ handle \in [Handles -> OpenNodes]
  BY DEF Sound, Shape, LocalTree, LocalNodes, OpenFiles
<1>4. Nothing.kind = "none" /\ Closed.path = <<>>
  BY DEF Nothing, Node, Closed
<1>5. ASSUME NEW g \in Handles, handle'[g].path \in TopPaths
      PROVE  \/ local'[handle'[g].path].kind = "file"
             \/ local'[handle'[g].path].kind = "none" /\ remote'[handle'[g].path] = "file"
  <2>1. handle'[g] = handle[g] /\ handle[g].path \in Paths
    BY <1>2, <1>3, <1>4, <1>5, PathSets
  <2>2. \/ local[handle[g].path].kind = "file"
        \/ local[handle[g].path].kind = "none" /\ remote[handle[g].path] = "file"
    BY <1>5, <2>1 DEF Seen
  <2>3. CASE handle[g].path # p
    <3>1. local'[handle[g].path] = local[handle[g].path]
      BY <1>2, <1>3, <2>1, <2>3
    <3> QED
      BY <1>2, <2>1, <2>2, <2>3, <3>1
  <2>4. CASE handle[g].path = p
    <3>1. UNCHANGED <<local, remote>> \/ remote'[p] = "file"
      BY <1>2, <1>5, <2>1, <2>4, PathKinds
    <3>2. local' = local \/ local'[p].kind = "none"
      BY <1>2, <1>3, <1>4
    <3> QED
      BY <2>1, <2>2, <2>4, <3>1, <3>2
  <2> QED
    BY <2>3, <2>4
<1> QED
  BY <1>5 DEF Seen

\* What is opened is a local file.
LEMMA OpenedSeen ==
  ASSUME Sound, Seen(local, handle, remote), NEW h \in Handles, NEW p \in Paths,
         NEW i \in Inodes, local' = [local EXCEPT ![p] = Node("file", i, <<>>)],
         handle' = [handle EXCEPT ![h] = [path |-> p, ino |-> i]], remote' = remote
  PROVE  Seen(local', handle', remote')
<1>1. local \in [Paths -> Nodes] /\ handle \in [Handles -> OpenNodes]
  BY DEF Sound, Shape, LocalTree, LocalNodes, OpenFiles
<1>2. /\ local'[p].kind = "file"
      /\ \A x \in Paths : x # p => local'[x] = local[x]
  BY <1>1 DEF Node
<1>3. handle'[h].path = p /\ \A g \in Handles : g # h => handle'[g] = handle[g]
  BY <1>1
<1> QED
  BY <1>2, <1>3, PathSets DEF Seen

\* A change at a name that is not open is not seen.
LEMMA OthersSeen ==
  ASSUME Seen(local, handle, remote), NEW p, OpenAt(p) = {}, handle' = handle,
         \A x \in Paths : x # p => local'[x] = local[x] /\ remote'[x] = remote[x]
  PROVE  Seen(local', handle', remote')
<1>1. \A h \in Handles : handle[h].path # p
  BY DEF OpenAt
<1> QED
  BY <1>1, PathSets DEF Seen

\* A hidden file leaves the names at the top to others.
LEMMA HideSeen ==
  ASSUME Sound, Seen(local, handle, remote), NEW q \in ClientPaths, NEW x \in HiddenPaths,
         Hide(q, x)
  PROVE  Seen(Moved(q, x), Following(q, x), remote)
<1>1. Parent(x) = Parent(q) /\ Shape(local, handle)
  BY DEF Hide, Sound
<1>2. /\ x \notin TopPaths
      /\ \A y \in Paths : y # q /\ y # x => Moved(q, x)[y] = local[y]
      /\ \A h \in Handles : Following(q, x)[h].path = IF handle[h].path = q THEN x
                                                      ELSE handle[h].path
  BY <1>1, HiddenAt
<1> QED
  BY <1>2, PathSets DEF Seen

\* A file that is renamed is seen under its new name.
LEMMA RenameSeen ==
  ASSUME NEW l, NEW hs, NEW r, NEW p, NEW q, Renames(l, hs, p, q), Shape(l, hs),
         \A x \in Paths : l[x].kind # "dir", Seen(l, hs, r)
  PROVE  Seen(RenamedTree(l, p, q), RenamedHandles(hs, p, q), r)
<1> DEFINE t == RenamedTree(l, p, q)
           gs == RenamedHandles(hs, p, q)
<1>1. /\ p \in ClientPaths /\ q \in ClientPaths /\ ~Under(p, q) /\ ~Under(q, p)
      /\ p \in Paths /\ q \in Paths /\ p # q
  BY RenamedParents DEF Renames
<1>2. l \in [Paths -> Nodes] /\ hs \in [Handles -> OpenNodes] /\ LocalNodes(l)
  BY DEF Shape, LocalTree, LocalNodes, OpenFiles
<1>3. \A h \in Handles : hs[h].path \notin SubPaths
  BY FlatTree
<1>4. \A h \in Handles : gs[h].path = IF hs[h].path = p THEN q ELSE hs[h].path
  BY <1>1, <1>2, <1>3, RenamedOpenAt DEF Below
<1>5. CASE l[p].ino # 0 /\ l[p].ino = l[q].ino
  <2>1. t = l /\ l[q].kind = l[p].kind
    BY <1>1, <1>2, <1>5 DEF RenamedTree, LocalNodes
  <2> HIDE DEF t, gs
  <2>2. ASSUME NEW h \in Handles, hs[h].path = p PROVE l[q].kind = "file"
    <3>1. p \in TopPaths
      BY <1>1, <1>3, <2>2, PathKinds
    <3> QED
      BY <2>1, <2>2, <3>1 DEF Seen, Renames
  <2>3. Seen(t, gs, r)
    BY <1>4, <2>1, <2>2 DEF Seen
  <2> QED
    BY <2>3 DEF t, gs
<1>6. CASE ~(l[p].ino # 0 /\ l[p].ino = l[q].ino)
  <2>1. /\ t[q] = l[p]
        /\ \A x \in Paths : x # p /\ x # q /\ ~Below(p, x) /\ ~Below(q, x) => t[x] = l[x]
    BY <1>1, <1>2, <1>6, RenamedAt
  <2>2. \A x \in TopPaths : x \in Paths /\ ~Below(p, x) /\ ~Below(q, x)
    BY PathKinds, PathSets DEF Below
  <2> HIDE DEF t, gs
  <2>3. ASSUME NEW h \in Handles, hs[h].path = p PROVE t[q].kind = "file"
    <3>1. p \in TopPaths
      BY <1>1, <1>3, <2>3, PathKinds
    <3> QED
      BY <2>1, <2>3, <3>1 DEF Seen, Renames
  <2>4. \A h \in Handles : hs[h].path # q
    BY DEF Renames
  <2>5. Seen(t, gs, r)
    BY <1>4, <2>1, <2>2, <2>3, <2>4 DEF Seen
  <2> QED
    BY <2>5 DEF t, gs
<1> QED
  BY <1>5, <1>6

\* While the session works, every open name at the top stays that of a file.
LEMMA NextSeen ==
  ASSUME Sound, Flat(local, remote), ~Uses("symlinks"), ~Uses("subdirs"), SessionUp,
         Seen(local, handle, remote), [Next]_vars
  PROVE  Seen(local', handle', remote')
<1>1. Shape(local, handle) /\ local \in [Paths -> Nodes] /\ remote \in [Paths -> Kinds]
  BY DEF Sound, Shape, LocalTree, LocalNodes, RemoteTree
<1>2. CASE UNCHANGED <<local, handle, remote>>
  BY <1>2
<1>3. CASE Kill
  <2>1. \A h \in Handles : handle'[h].path = <<>>
    BY <1>3 DEF Kill, Becomes, Closed
  <2> QED
    BY <2>1, ClosedSeen
<1>4. ASSUME NEW h \in Handles, Release(h) PROVE Seen(local', handle', remote')
  BY <1>4, ReleaseSeen
<1>5. ASSUME NEW h \in Handles, NEW p \in ClientPaths,
             Open(h, p) \/ \E ro \in BOOLEAN : Create(h, p, ro)
      PROVE  Seen(local', handle', remote')
  <2>1. p \in Paths /\ Resolved(p) = p
    BY Lookups, PathSets
  <2>2. CASE UNCHANGED files
    BY <1>2, <2>2 DEF files
  <2>3. ASSUME NEW i \in Inodes, local' = [local EXCEPT ![p] = Node("file", i, <<>>)],
               handle' = [handle EXCEPT ![h] = [path |-> p, ino |-> i]], remote' = remote
        PROVE  Seen(local', handle', remote')
    BY <2>1, <2>3, OpenedSeen
  <2> QED
    BY <1>5, <2>1, <2>2, <2>3 DEF Open, Create
<1>6. ASSUME NEW p \in ClientPaths, NameOp(p) PROVE Seen(local', handle', remote')
  <2>1. p \in Paths
    BY PathSets
  <2>2. ASSUME NEW n, local' = [local EXCEPT ![p] = n], UNCHANGED <<handle, remote>>,
               OpenAt(p) = {}
        PROVE  Seen(local', handle', remote')
    <3>1. \A x \in Paths : x # p => local'[x] = local[x] /\ remote'[x] = remote[x]
      BY <1>1, <2>2
    <3> QED
      BY <2>2, <3>1, OthersSeen
  <2>3. CASE Unlink(p)
    <3>1. ASSUME NEW x \in HiddenPaths, Hide(p, x), local' = Moved(p, x),
                 handle' = Following(p, x), remote' = remote
          PROVE  Seen(local', handle', remote')
      BY <3>1, HideSeen
    <3>2. ASSUME OpenAt(p) = {}, remote' = [remote EXCEPT ![p] = "none"],
                 UNCHANGED <<local, handle>>
          PROVE  Seen(local', handle', remote')
      <4>1. \A x \in Paths : x # p => local'[x] = local[x] /\ remote'[x] = remote[x]
        BY <1>1, <3>2
      <4> QED
        BY <3>2, <4>1, OthersSeen
    <3> QED
      BY <2>2, <2>3, <3>1, <3>2 DEF Unlink, Becomes
  <2>4. CASE Rmdir(p)
    BY <2>1, <2>4 DEF Rmdir, Flat
  <2>5. ASSUME NEW n, MakeLocal(p, n) PROVE Seen(local', handle', remote')
    <3>1. ~HasLocal(p) /\ remote[p] = "none"
      BY <2>1, <2>5, SeenKinds DEF MakeLocal, Absent
    <3>2. \A h \in Handles : handle[h].path \notin SubPaths
      BY <1>1, FlatTree DEF Flat
    <3>3. OpenAt(p) = {}
      BY <2>1, <3>1, <3>2, PathKinds DEF OpenAt, Seen, HasLocal
    <3> QED
      BY <2>2, <2>5, <3>3 DEF MakeLocal
  <2> QED
    BY <1>6, <2>3, <2>4, <2>5 DEF NameOp, Mkdir, Mknod, Symlink, HardLink
<1>7. ASSUME NEW p \in ClientPaths, NEW q \in ClientPaths, Rename(p, q)
      PROVE  Seen(local', handle', remote')
  <2>1. ASSUME NEW l, NEW hs, Renaming(l, hs, p, q), Shape(l, hs),
               \A x \in Paths : l[x].kind # "dir", Seen(l, hs, remote),
               CanRename(l, p, q) => Renames(l, hs, p, q)
        PROVE  Seen(local', handle', remote')
    <3>1. remote' = remote
      BY <1>7 DEF Rename
    <3>2. CASE CanRename(l, p, q)
      <4>1. Seen(RenamedTree(l, p, q), RenamedHandles(hs, p, q), remote)
        BY <2>1, <3>2, RenameSeen
      <4> QED
        BY <2>1, <3>1, <3>2, <4>1 DEF Renaming, Becomes
    <3>3. CASE ~CanRename(l, p, q)
      BY <2>1, <3>1, <3>3 DEF Renaming, Becomes
    <3> QED
      BY <3>2, <3>3
  <2>2. \A x \in Paths : local[x].kind # "dir"
    BY DEF Flat
  <2>3. CASE OpenAt(q) = {}
    <3>1. Renaming(local, handle, p, q)
      BY <1>7, <2>3 DEF Rename
    <3>2. CanRename(local, p, q) => Renames(local, handle, p, q)
      BY <1>7, <2>3, RenamesPlainly
    <3> QED
      BY <1>1, <2>1, <2>2, <3>1, <3>2
  <2>4. CASE OpenAt(q) # {}
    <3>1. PICK x \in HiddenPaths : Hide(q, x) /\ Renaming(Moved(q, x), Following(q, x), p, q)
      BY <1>7, <2>4 DEF Rename
    <3>2. CanRename(Moved(q, x), p, q) => Renames(Moved(q, x), Following(q, x), p, q)
      BY <1>7, <3>1, RenamesOverHidden
    <3>3. Seen(Moved(q, x), Following(q, x), remote)
      BY <3>1, HideSeen
    <3>4. Shape(Moved(q, x), Following(q, x)) /\ \A y \in Paths : Moved(q, x)[y].kind # "dir"
      BY <1>1, <2>2, <3>1, HideFlat
    <3> QED
      BY <2>1, <3>1, <3>2, <3>3, <3>4
  <2> QED
    BY <2>3, <2>4
<1> QED
  BY <1>2, <1>3, <1>4, <1>5, <1>6, <1>7
     DEF Next, StartStep, StartFails, Unmount, StartAgain, Chmod, Becomes, files, vars

\* What is at a path, on this side or else on the other.
Shown(l, r, p) == IF l[p].kind # "none" THEN l[p].kind ELSE r[p]

\* That is what getattr answers where there are no symbolic links, but for what
\* only the server has when there is no session.
LEMMA GetattrShows ==
  Sound /\ ~Uses("symlinks") =>
    \A p \in Paths : Getattr(p) = IF SessionUp \/ HasLocal(p) THEN Shown(local, remote, p)
                                  ELSE "none"
  BY Lookups DEF Getattr, Shown, HasLocal

\* Who has a file open that release can upload finds a file at its name: without
\* directories because it was there and nobody could replace it, and without
\* sharing because the name is that of the very file.
LEMMA OpenShown ==
  ASSUME Sound, ~Uses("symlinks"), SessionUp,
         ~Uses("subdirs") => Flat(local, remote) /\ Seen(local, handle, remote),
         Uses("subdirs") => Owned(local, handle), NEW h \in Handles,
         handle[h].path \in ClientPaths
  PROVE  Shown(local, remote, handle[h].path) = "file"
<1>1. handle[h].path \in Paths /\ handle[h].path # <<>> /\ Shape(local, handle)
  BY PathSets DEF Sound
<1>2. CASE ~Uses("subdirs")
  <2>1. handle[h].path \notin SubPaths
    BY <1>1, <1>2, FlatTree DEF Flat
  <2>2. handle[h].path \in TopPaths
    BY <1>1, <2>1, PathKinds
  <2> QED
    BY <1>2, <2>2 DEF Seen, Shown
<1>3. CASE Uses("subdirs")
  <2>1. local[handle[h].path].ino = handle[h].ino
    BY <1>1, <1>3 DEF Owned
  <2>2. local[handle[h].path].kind = "file"
    BY <1>1, <2>1 DEF Shape, Plain
  <2> QED
    BY <2>2 DEF Shown
<1> QED
  BY <1>2, <1>3

\* release shows the file it uploads just where it was shown before.
LEMMA ReleaseShows ==
  ASSUME Sound, NEW h \in Handles, Release(h),
         SessionUp /\ handle[h].path \in ClientPaths =>
           Shown(local, remote, handle[h].path) = "file",
         NEW p \in ClientPaths
  PROVE  Shown(local', remote', p) = Shown(local, remote, p)
<1> DEFINE q == handle[h].path
<1>1. q = handle[h].path
  OBVIOUS
<1> HIDE DEF q
<1>2. /\ q \in Paths /\ (local' = local \/ local' = [local EXCEPT ![q] = Nothing])
      /\ \A x \in Paths : x # q => remote'[x] = remote[x]
      /\ q \notin HiddenPaths =>
           UNCHANGED <<local, remote>> \/ (SessionUp /\ remote'[q] = "file")
      /\ q \notin HiddenPaths /\ local' = local =>
           UNCHANGED <<local, remote>> \/ local[q].kind = "none"
  BY <1>1, ReleaseAt
<1>3. local \in [Paths -> Nodes] /\ Nothing.kind = "none"
  BY DEF Sound, Shape, LocalTree, LocalNodes, Nothing, Node
<1>4. p \in Paths /\ p \notin HiddenPaths
  BY PathSets
<1>5. CASE p # q
  <2>1. local'[p] = local[p] /\ remote'[p] = remote[p]
    BY <1>2, <1>3, <1>4, <1>5
  <2> QED
    BY <2>1 DEF Shown
<1>6. CASE p = q
  <2>1. CASE UNCHANGED <<local, remote>>
    BY <2>1
  <2>2. CASE ~UNCHANGED <<local, remote>>
    <3>1. SessionUp /\ remote'[p] = "file"
      BY <1>2, <1>4, <1>6, <2>2
    <3>2. local'[p].kind = "none"
      BY <1>2, <1>3, <1>4, <1>6, <2>2
    <3>3. Shown(local, remote, p) = "file"
      BY <1>1, <1>6, <3>1
    <3> QED
      BY <3>1, <3>2, <3>3 DEF Shown
  <2> QED
    BY <2>1, <2>2
<1> QED
  BY <1>5, <1>6

\* open shows the local file it makes where the server's was shown.
LEMMA OpenShows ==
  ASSUME Sound, ~Uses("symlinks"), NEW h \in Handles, NEW q \in ClientPaths, Open(h, q),
         NEW p \in Paths
  PROVE  Shown(local', remote', p) = Shown(local, remote, p)
<1>1. q \in Paths /\ Resolved(q) = q /\ local \in [Paths -> Nodes]
  BY PathSets, Lookups DEF Sound, Shape, LocalTree, LocalNodes
<1>2. CASE UNCHANGED files
  BY <1>2 DEF files
<1>3. ASSUME NEW i, local' = [local EXCEPT ![q] = Node("file", i, <<>>)], remote' = remote
      PROVE  Shown(local', remote', p) = Shown(local, remote, p)
  <2>1. \A x \in Paths : local'[x] = IF x = q THEN Node("file", i, <<>>) ELSE local[x]
    BY <1>1, <1>3
  <2>2. Node("file", i, <<>>).kind = "file"
    BY DEF Node
  <2>3. Getattr(q) = "file" /\ SessionUp
    BY DEF Open
  <2>4. Shown(local, remote, q) = "file"
    BY <1>1, <2>3, SeenKinds DEF Shown, HasLocal
  <2> QED
    BY <1>3, <2>1, <2>2, <2>4 DEF Shown
<1> QED
  BY <1>1, <1>2, <1>3 DEF Open

\* A request that makes or removes a name shows no other client's name anew.
LEMMA NameOpShows ==
  ASSUME Sound, NEW q \in ClientPaths, NameOp(q), NEW p \in ClientPaths, p # q
  PROVE  local'[p] = local[p] /\ remote'[p] = remote[p]
<1>1. local \in [Paths -> Nodes] /\ remote \in [Paths -> Kinds] /\ p \in Paths /\ q \in Paths
      /\ p \notin HiddenPaths /\ Shape(local, handle)
  BY PathSets DEF Sound, Shape, LocalTree, LocalNodes, RemoteTree
<1>2. ASSUME NEW n, local' = [local EXCEPT ![q] = n], remote' = remote
      PROVE  UNCHANGED <<local[p], remote[p]>>
  BY <1>1, <1>2
<1>3. ASSUME remote' = [remote EXCEPT ![q] = "none"], local' = local
      PROVE  UNCHANGED <<local[p], remote[p]>>
  BY <1>1, <1>3
<1>4. ASSUME NEW x \in HiddenPaths, Hide(q, x), local' = Moved(q, x), remote' = remote
      PROVE  UNCHANGED <<local[p], remote[p]>>
  BY <1>1, <1>4, HiddenAt DEF Hide
<1>5. UNCHANGED <<local[p], remote[p]>>
  <2>1. CASE Unlink(q)
    BY <1>2, <1>3, <1>4, <2>1 DEF Unlink, Becomes
  <2>2. CASE Rmdir(q)
    BY <1>2, <2>2 DEF Rmdir
  <2>3. ASSUME NEW n, MakeLocal(q, n) PROVE UNCHANGED <<local[p], remote[p]>>
    BY <1>2, <2>3 DEF MakeLocal
  <2> QED
    BY <2>1, <2>2, <2>3 DEF NameOp, Mkdir, Mknod, Symlink, HardLink
<1> QED
  BY <1>5

\* A rename shows nothing anew but what is below its two names.
LEMMA RenameShows ==
  ASSUME Sound, NEW q \in ClientPaths, NEW r \in ClientPaths, Rename(q, r),
         NEW p \in ClientPaths, ~Under(q, p), ~Under(r, p)
  PROVE  local'[p] = local[p] /\ remote'[p] = remote[p]
<1>1. local \in [Paths -> Nodes] /\ p \in Paths /\ r \in Paths /\ Shape(local, handle)
      /\ p \notin HiddenPaths /\ remote' = remote /\ p # r
  BY PathSets, UnderMeans DEF Sound, Shape, LocalTree, LocalNodes, Rename
<1>2. ASSUME NEW l, l \in [Paths -> Nodes], NEW hs, Renaming(l, hs, q, r), l[p] = local[p]
      PROVE  local'[p] = local[p]
  <2>1. l = [x \in Paths |-> l[x]]
    BY <1>2
  <2> QED
    BY <1>1, <1>2, <2>1, RenamedKeeps
<1>3. CASE OpenAt(r) = {}
  BY <1>1, <1>2, <1>3 DEF Rename
<1>4. CASE OpenAt(r) # {}
  <2>1. PICK x \in HiddenPaths : Hide(r, x) /\ Renaming(Moved(r, x), Following(r, x), q, r)
    BY <1>4 DEF Rename
  <2>2. Moved(r, x) \in [Paths -> Nodes] /\ Moved(r, x)[p] = local[p]
    BY <1>1, <2>1, HiddenAt DEF Hide
  <2>3. local'[p] = local[p]
    BY <1>2, <2>1, <2>2
  <2> QED
    BY <1>1, <2>3
<1> QED
  BY <1>3, <1>4

\* Every step shows each name that it does not name as it was.
LEMMA NextShows ==
  ASSUME Sound, ~Uses("symlinks"), [Next]_vars,
         \A h \in Handles : SessionUp /\ handle[h].path \in ClientPaths =>
                              Shown(local, remote, handle[h].path) = "file",
         NEW p \in ClientPaths, ~Naming(p)
  PROVE  Shown(local', remote', p) = Shown(local, remote, p)
<1>1. p \in Paths
  BY PathSets
<1>2. CASE UNCHANGED <<local, remote>>
  BY <1>2
<1>3. ASSUME NEW h \in Handles, Release(h)
      PROVE  Shown(local', remote', p) = Shown(local, remote, p)
  BY <1>3, ReleaseShows
<1>4. ASSUME NEW h \in Handles, NEW q \in ClientPaths, Open(h, q)
      PROVE  Shown(local', remote', p) = Shown(local, remote, p)
  BY <1>1, <1>4, OpenShows
<1>5. ASSUME NEW h \in Handles, NEW q \in ClientPaths, NEW ro \in BOOLEAN, Create(h, q, ro)
      PROVE  Shown(local', remote', p) = Shown(local, remote, p)
  <2>1. p # q
    BY <1>5 DEF Naming
  <2>2. Resolved(q) = q /\ local \in [Paths -> Nodes]
    BY PathSets, Lookups DEF Sound, Shape, LocalTree, LocalNodes
  <2>3. local'[p] = local[p] /\ remote' = remote
    BY <1>1, <1>5, <2>1, <2>2 DEF Create
  <2> QED
    BY <2>3 DEF Shown
<1>6. ASSUME NEW q \in ClientPaths, NameOp(q)
      PROVE  Shown(local', remote', p) = Shown(local, remote, p)
  BY <1>6, NameOpShows DEF Naming, Shown
<1>7. ASSUME NEW q \in ClientPaths, NEW r \in ClientPaths, Rename(q, r)
      PROVE  Shown(local', remote', p) = Shown(local, remote, p)
  BY <1>7, RenameShows DEF Naming, Shown
<1> QED
  BY <1>2, <1>3, <1>4, <1>5, <1>6, <1>7
     DEF Next, StartStep, StartFails, Unmount, Kill, StartAgain, Chmod, Becomes, files, vars

\* Without a session every step leaves the local side of such a name alone.
LEMMA NextLocal ==
  ASSUME Sound, ~Uses("symlinks"), ~SessionUp, [Next]_vars,
         NEW p \in ClientPaths, ~Naming(p)
  PROVE  local'[p] = local[p]
<1>1. p \in Paths /\ p \notin HiddenPaths /\ local \in [Paths -> Nodes]
  BY PathSets DEF Sound, Shape, LocalTree, LocalNodes
<1>2. ASSUME NEW h \in Handles, Release(h) PROVE local'[p] = local[p]
  <2> DEFINE q == handle[h].path
  <2>1. /\ q \in Paths /\ (local' = local \/ local' = [local EXCEPT ![q] = Nothing])
        /\ q \notin HiddenPaths => UNCHANGED <<local, remote>>
    BY <1>2, ReleaseAt
  <2> QED
    BY <1>1, <2>1
<1>3. ASSUME NEW h \in Handles, NEW q \in ClientPaths, NEW ro \in BOOLEAN, Create(h, q, ro)
      PROVE  local'[p] = local[p]
  <2>1. p # q
    BY <1>3 DEF Naming
  <2>2. Resolved(q) = q
    BY PathSets, Lookups
  <2> QED
    BY <1>1, <1>3, <2>1, <2>2 DEF Create
<1>4. ASSUME NEW q \in ClientPaths, NameOp(q) PROVE local'[p] = local[p]
  BY <1>4, NameOpShows DEF Naming
<1>5. ASSUME NEW q \in ClientPaths, NEW r \in ClientPaths, Rename(q, r)
      PROVE  local'[p] = local[p]
  BY <1>5, RenameShows DEF Naming
<1>6. ASSUME NEW h \in Handles, NEW q \in ClientPaths, Open(h, q) PROVE FALSE
  BY <1>6 DEF Open
<1> QED
  BY <1>2, <1>3, <1>4, <1>5, <1>6
     DEF Next, StartStep, StartFails, Unmount, Kill, StartAgain, Chmod, Becomes, files, vars

\* What has to be known of open files for that.
SeenAlways ==
  ~Uses("symlinks") /\ ~Uses("subdirs") /\ SessionUp => Seen(local, handle, remote)
OwnedAlways == OneAtATime => Owned(local, handle)

\* Nothing is open when a session comes up, and while it is there NextSeen holds.
LEMMA SeenStays == Sound /\ Steady /\ SeenAlways /\ [Next]_vars => SeenAlways'
<1> SUFFICES ASSUME Sound, Steady, SeenAlways, [Next]_vars,
                    ~Uses("symlinks")', ~Uses("subdirs")', SessionUp'
             PROVE  Seen(local, handle, remote)'
  BY DEF SeenAlways
<1>1. ~Uses("symlinks") /\ ~Uses("subdirs")
  BY UsesStay DEF Uses
<1>2. CASE SessionUp
  <2>1. Seen(local', handle', remote')
    BY <1>1, <1>2, NextSeen DEF SeenAlways, Steady, FlatAlways
  <2> QED
    BY <2>1 DEF Seen
<1>3. CASE ~SessionUp
  <2>1. StartStep
    <3>1. ASSUME held' \subseteq held PROVE FALSE
      BY <1>3, <3>1 DEF SessionUp
    <3>2. ASSUME NEW p, NameOp(p) PROVE held' = held
      BY <3>2 DEF NameOp, Unlink, Mkdir, Rmdir, Mknod, Symlink, HardLink, MakeLocal, daemon
    <3>3. ASSUME NEW p, NEW q, Rename(p, q) PROVE held' = held
      BY <3>3 DEF Rename, daemon
    <3>4. ASSUME NEW h, NEW p, Open(h, p) PROVE held' \subseteq held
      BY <3>4 DEF Open
    <3>5. ASSUME NEW h, NEW p, NEW ro, Create(h, p, ro) PROVE held' = held
      BY <3>5 DEF Create, daemon
    <3>6. ASSUME NEW h, Release(h) PROVE held' = held
      BY <3>6 DEF Release, daemon
    <3> QED
      BY <3>1, <3>2, <3>3, <3>4, <3>5, <3>6
         DEF Next, StartFails, Unmount, Kill, StartAgain, Chmod, daemon, vars
  <2>2. ~Serving
    BY <2>1 DEF StartStep, Startup, Serving
  <2>3. \A h \in Handles : handle'[h].path = <<>>
    BY <2>1, <2>2 DEF StartStep, files, Sound, Static, IsOpen
  <2>4. Seen(local', handle', remote')
    BY <2>3, ClosedSeen
  <2> QED
    BY <2>4 DEF Seen
<1> QED
  BY <1>2, <1>3

\* Without symbolic links, and without files opened twice where directories come
\* and go, no step but those that make, remove or rename a name changes what
\* getattr answers there.  The one exception is the session: when it comes up or
\* is freed, names that only the server has appear or vanish.
THEOREM ViewsAreStable == Spec => ViewStable
<1> DEFINE Stable == ~Uses("symlinks") /\ ~({"sharing", "subdirs"} \subseteq uses) =>
                       \A p \in ClientPaths : Getattr(p)' # Getattr(p) =>
                         \/ Naming(p)
                         \/ SessionUp' # SessionUp /\ "none" \in {Getattr(p), Getattr(p)'}
<1>1. Init => SeenAlways /\ OwnedAlways
  BY ClosedSeen DEF Init, SeenAlways, OwnedAlways, Owned, Closed
<1>2. Sound /\ OwnedAlways /\ [Next]_vars => OwnedAlways'
  <2> SUFFICES ASSUME Sound, OwnedAlways, [Next]_vars, OneAtATime' PROVE Owned(local, handle)'
    BY DEF OwnedAlways
  <2>1. Owned(local', handle')
    BY UsesStay, NextOwned DEF OneAtATime, OwnedAlways
  <2> QED
    BY <2>1 DEF Owned
<1>3. (Sound /\ ~Uses("symlinks") =>
         \A p \in Paths : Getattr(p) = IF SessionUp \/ HasLocal(p) THEN Shown(local, remote, p)
                                       ELSE "none")'
  BY GetattrShows, PTL
<1>4. Sound /\ Sound' /\ Steady /\ SeenAlways /\ OwnedAlways /\ [Next]_vars => Stable
  <2> SUFFICES ASSUME Sound, Sound', Steady, SeenAlways, OwnedAlways, [Next]_vars,
                      ~Uses("symlinks"), ~({"sharing", "subdirs"} \subseteq uses),
                      NEW p \in ClientPaths, ~Naming(p), Getattr(p)' # Getattr(p)
               PROVE  SessionUp' # SessionUp /\ "none" \in {Getattr(p), Getattr(p)'}
    OBVIOUS
  <2>1. p \in Paths
    BY PathSets
  <2>2. Getattr(p) = IF SessionUp \/ HasLocal(p) THEN Shown(local, remote, p) ELSE "none"
    BY <2>1, GetattrShows
  <2>3. Getattr(p)' = IF SessionUp' \/ HasLocal(p)' THEN Shown(local', remote', p) ELSE "none"
    <3>1. ~Uses("symlinks")'
      BY UsesStay DEF Uses
    <3>2. \A x \in Paths : Getattr(x)' = IF SessionUp' \/ HasLocal(x)'
                                         THEN Shown(local, remote, x)' ELSE "none"
      BY <1>3, <3>1
    <3> QED
      BY <2>1, <3>2 DEF Shown
  <2>4. Uses("subdirs") => OneAtATime
    BY DEF Uses, OneAtATime
  <2>5. \A h \in Handles : SessionUp /\ handle[h].path \in ClientPaths =>
                             Shown(local, remote, handle[h].path) = "file"
    BY <2>4, OpenShown DEF SeenAlways, OwnedAlways, Steady, FlatAlways
  <2>6. Shown(local', remote', p) = Shown(local, remote, p)
    BY <2>5, NextShows
  <2>7. ~SessionUp => local'[p] = local[p]
    BY NextLocal
  <2>8. SessionUp' # SessionUp
    <3> SUFFICES ASSUME SessionUp' = SessionUp PROVE FALSE
      OBVIOUS
    <3>1. CASE SessionUp
      BY <2>2, <2>3, <2>6, <3>1
    <3>2. CASE ~SessionUp
      BY <2>2, <2>3, <2>6, <2>7, <3>2 DEF HasLocal
    <3> QED
      BY <3>1, <3>2
  <2> QED
    BY <2>2, <2>3, <2>6, <2>8
<1>5. Sound /\ Sound' /\ Steady /\ SeenAlways /\ OwnedAlways /\ [Next]_vars => [Stable]_vars
  BY <1>4
<1> QED
  BY <1>1, <1>2, <1>5, InitSound, NextSound, InitSteady, NextSteady, SeenStays,
     PTL DEF Spec, ViewStable
=============================================================================
