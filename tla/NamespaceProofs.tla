-------------------------- MODULE NamespaceProofs --------------------------
(***************************************************************************)
(* Proofs about ScpfsNamespace for every set of names, handles and habits. *)
(***************************************************************************)
EXTENDS ScpfsNamespace, TLAPS

-----------------------------------------------------------------------------
(* A failed start has freed what it acquired.                              *)

\* What main() holds on the way: all it has acquired so far.  Only a serving
\* daemon may have lost something, the session.
HoldsAll ==
  /\ phase = "down" => held = {}
  /\ phase = "created" => held = {"ssh"}
  /\ phase \in {"connected", "authenticated"} => held = {"ssh", "connection"}
  /\ phase \in {"channel", "initialised"} => held = {"ssh", "connection", "sftp"}
  /\ phase = "allocated" => held = {"ssh", "connection", "sftp", "state"}
  /\ phase = "failed" => held = {}
  /\ phase = "serving" => {"ssh", "connection", "state", "log"} \subseteq held

\* All that main() ever acquires.
LEMMA ResourcesAre ==
  Resources = {"ssh", "connection", "sftp", "state", "log"}
<1>1. DOMAIN Startup = {"down", "created", "connected", "authenticated", "channel",
                        "initialised", "allocated"}
  BY DEF Startup
<1>2. /\ Startup["down"].gets = {"ssh"} /\ Startup["created"].gets = {"connection"}
      /\ Startup["connected"].gets = {} /\ Startup["authenticated"].gets = {"sftp"}
      /\ Startup["channel"].gets = {} /\ Startup["initialised"].gets = {"state"}
      /\ Startup["allocated"].gets = {"log"}
  BY DEF Startup, Step
<1> QED
  BY <1>1, <1>2 DEF Resources

\* The other steps leave main()'s resources alone, but for the session, and do
\* not come back to a phase before serving, but for a new start.
LEMMA OthersHold ==
  ASSUME HoldsAll, NEW h \in Handles, NEW p \in ClientPaths
  PROVE  /\ Open(h, p) => HoldsAll'
         /\ (UNCHANGED daemon => HoldsAll')
<1>1. ASSUME Open(h, p) PROVE HoldsAll'
  <2>1. phase = "serving" /\ phase' = "serving"
    BY <1>1 DEF Open, Serving
  <2>2. held' = held \/ held' = held \ {"sftp"}
    BY <1>1 DEF Open
  <2> QED
    BY <2>1, <2>2 DEF HoldsAll
<1>2. ASSUME UNCHANGED daemon PROVE HoldsAll'
  BY <1>2 DEF daemon, HoldsAll
<1> QED
  BY <1>1, <1>2

\* A step of the start acquires what the next phase holds.
LEMMA StartStepHolds ==
  ASSUME HoldsAll, StartStep PROVE HoldsAll'
<1>1. phase \in {"down", "created", "connected", "authenticated", "channel",
                 "initialised", "allocated"}
  BY DEF StartStep, Startup
<1>2. phase' = Startup[phase].to /\ held' = held \cup Startup[phase].gets
  BY DEF StartStep
<1>3. \/ phase = "down" /\ phase' = "created" /\ held' = held \cup {"ssh"}
      \/ phase = "created" /\ phase' = "connected" /\ held' = held \cup {"connection"}
      \/ phase = "connected" /\ phase' = "authenticated" /\ held' = held
      \/ phase = "authenticated" /\ phase' = "channel" /\ held' = held \cup {"sftp"}
      \/ phase = "channel" /\ phase' = "initialised" /\ held' = held
      \/ phase = "initialised" /\ phase' = "allocated" /\ held' = held \cup {"state"}
      \/ phase = "allocated" /\ phase' = "serving" /\ held' = held \cup {"log"}
  BY <1>1, <1>2 DEF Startup, Step
<1> QED
  BY <1>3 DEF HoldsAll

\* A failure that returns frees exactly what was acquired.
LEMMA StartFailsHolds ==
  ASSUME HoldsAll, StartFails PROVE HoldsAll'
<1>1. phase \in {"down", "created", "connected", "authenticated", "channel",
                 "initialised", "allocated"}
  BY DEF StartFails, Startup
<1>2. phase' = Startup[phase].fails /\ held' = held \ Startup[phase].frees
  BY DEF StartFails
<1>3. \/ phase \in {"initialised", "allocated"} /\ phase' = "aborted"
      \/ phase = "down" /\ phase' = "failed" /\ held' = held \ {}
      \/ phase = "created" /\ phase' = "failed" /\ held' = held \ {"ssh"}
      \/ phase \in {"connected", "authenticated"} /\ phase' = "failed"
         /\ held' = held \ {"connection", "ssh"}
      \/ phase = "channel" /\ phase' = "failed" /\ held' = held \ {"sftp", "connection", "ssh"}
  BY <1>1, <1>2 DEF Startup, Step
<1>4. phase' = "aborted" \/ (phase' = "failed" /\ held' = {})
  BY <1>3 DEF HoldsAll
<1> QED
  BY <1>4 DEF HoldsAll

\* It is so at first, and every step of main() and of its handlers keeps it.
LEMMA InitHolds == Init => HoldsAll
  BY DEF Init, HoldsAll

\* The other handlers do not touch what main() holds.
LEMMA NextHolds == HoldsAll /\ [Next]_vars => HoldsAll'
<1> SUFFICES ASSUME HoldsAll, [Next]_vars PROVE HoldsAll'
  OBVIOUS
<1>1. CASE StartStep
  BY <1>1, StartStepHolds
<1>2. CASE StartFails
  BY <1>2, StartFailsHolds
<1>3. CASE Unmount \/ Kill
  BY <1>3 DEF Unmount, Kill, HoldsAll
<1>4. CASE StartAgain
  BY <1>4 DEF StartAgain, HoldsAll
<1>5. ASSUME NEW h \in Handles, NEW p \in ClientPaths, Open(h, p) PROVE HoldsAll'
  BY <1>5, OthersHold
<1>6. CASE UNCHANGED daemon
  BY <1>6 DEF daemon, HoldsAll
<1>7. ASSUME NEW h \in Handles, Release(h) PROVE UNCHANGED daemon
  BY <1>7 DEF Release
<1>8. ASSUME NEW h \in Handles, NEW p \in ClientPaths, NEW ro, Create(h, p, ro)
      PROVE  UNCHANGED daemon
  BY <1>8 DEF Create
<1>9. ASSUME NEW p, NameOp(p) PROVE UNCHANGED daemon
  BY <1>9 DEF NameOp, Unlink, Mkdir, Rmdir, Mknod, Symlink, HardLink, MakeLocal
<1>10. ASSUME NEW p, Chmod(p) PROVE UNCHANGED daemon
  BY <1>10 DEF Chmod
<1>11. ASSUME NEW p, NEW q, Rename(p, q) PROVE UNCHANGED daemon
  BY <1>11 DEF Rename
<1>12. CASE UNCHANGED vars
  BY <1>12, <1>6 DEF vars, daemon
<1> QED
  BY <1>1, <1>2, <1>3, <1>4, <1>5, <1>6, <1>7, <1>8, <1>9, <1>10, <1>11, <1>12 DEF Next

\* A start that fails and returns has freed the sessions and the connection,
\* and a serving daemon has all main() acquired, but perhaps the session.
THEOREM FailedStartsFree == Spec => []StartupFrees
<1>1. HoldsAll => StartupFrees
  BY ResourcesAre DEF HoldsAll, StartupFrees, Serving
<1> QED
  BY <1>1, InitHolds, NextHolds, PTL DEF Spec

-----------------------------------------------------------------------------
(* No name vanishes that no client removed or renamed.                     *)

\* Both trees are defined on all paths and on nothing else.
Trees == local = [p \in Paths |-> local[p]] /\ remote = [p \in Paths |-> remote[p]]
Somewhere(p) == HasLocal(p) \/ remote[p] # "none"

\* Giving one path another value leaves the others alone.
LEMMA ExceptOne ==
  ASSUME NEW f, f = [p \in Paths |-> f[p]], NEW q, NEW v
  PROVE  LET g == [f EXCEPT ![q] = v] IN
         /\ g = [p \in Paths |-> g[p]]
         /\ \A p \in Paths : g[p] = IF p = q THEN v ELSE f[p]
  OBVIOUS

\* Hiding an open file moves its local copy to a hidden name.
LEMMA MovedTree ==
  ASSUME Trees, NEW q \in ClientPaths, NEW x \in HiddenPaths
  PROVE  LET l == Moved(q, x) IN
         /\ l = [p \in Paths |-> l[p]]
         /\ \A p \in ClientPaths \ {q} : l[p] = local[p]
<1>1. x \in Paths /\ q \in Paths /\ \A p \in ClientPaths : p \in Paths /\ p # x
  BY DEF ClientPaths, Paths
<1> DEFINE l1 == [local EXCEPT ![x] = local[q]]
           l2 == [l1 EXCEPT ![q] = Nothing]
<1>2. /\ l1 = [p \in Paths |-> l1[p]]
      /\ \A p \in Paths : l1[p] = IF p = x THEN local[q] ELSE local[p]
  BY ExceptOne DEF Trees
<1>3. /\ l2 = [p \in Paths |-> l2[p]]
      /\ \A p \in Paths : l2[p] = IF p = q THEN Nothing ELSE l1[p]
  <2> HIDE DEF l1
  <2> QED
    BY <1>2, ExceptOne
<1>4. Moved(q, x) = l2
  BY DEF Moved
<1> HIDE DEF l1, l2
<1> QED
  BY <1>1, <1>2, <1>3, <1>4

\* A path is under itself.
LEMMA UnderSelf ==
  ASSUME NEW q \in ClientPaths PROVE Under(q, q)
<1> DEFINE S == Names \cup Subnames \cup Hidden
<1>1. \/ \E n \in S : q = <<n>>
      \/ \E n, m \in S : q = <<n, m>>
  BY DEF ClientPaths, Paths, TopPaths, SubPaths, HiddenPaths
<1>2. ASSUME NEW n \in S, q = <<n>> PROVE q \in Seq(S)
  <2>1. <<n>> \in Seq(S)
    BY <1>2
  <2> QED
    BY <1>2, <2>1
<1>3. ASSUME NEW n \in S, NEW m \in S, q = <<n, m>> PROVE q \in Seq(S)
  <2>1. <<n, m>> \in Seq(S)
    BY <1>3
  <2> QED
    BY <1>3, <2>1
<1>4. q \in Seq(S)
  BY <1>1, <1>2, <1>3
<1> HIDE DEF S
<1>5. Len(q) \in Nat /\ q = [i \in 1..Len(q) |-> q[i]]
  BY <1>4
<1>6. SubSeq(q, 1, Len(q)) = [i \in 1..Len(q) |-> q[i]]
  BY <1>4
<1> QED
  BY <1>5, <1>6 DEF Under

\* rename(2) leaves alone what is neither below the old nor below the new name.
LEMMA RenamedKeeps ==
  ASSUME NEW l, l = [p \in Paths |-> l[p]], NEW q, NEW r, NEW hs, Renaming(l, hs, q, r)
  PROVE  /\ local' = [p \in Paths |-> local'[p]]
         /\ \A p \in Paths : ~Under(q, p) /\ ~Under(r, p) => local'[p] = l[p]
<1> DEFINE t == RenamedTree(l, q, r)
<1>1. t = [p \in Paths |-> t[p]]
  BY DEF RenamedTree
<1>2. \A p \in Paths : ~Under(q, p) /\ ~Under(r, p) => t[p] = l[p]
  BY DEF RenamedTree
<1>3. local' = t \/ local' = l
  BY DEF Renaming, Becomes
<1> HIDE DEF t
<1> QED
  BY <1>1, <1>2, <1>3

\* What each step leaves of the trees: both stay trees, and p stays somewhere
\* unless the step names it.
Keeps(p) == Trees' /\ (Somewhere(p) /\ ~Naming(p) => Somewhere(p)')

\* A step that leaves both trees alone keeps every name.
LEMMA UnchangedKeeps ==
  ASSUME Trees, UNCHANGED <<local, remote>>, NEW p PROVE Keeps(p)
  BY DEF Trees, Keeps, Somewhere, HasLocal

\* release removes a local copy only after its upload, and libfuse's last unlink
\* is of a hidden name.
LEMMA ReleaseKeeps ==
  ASSUME Trees, NEW h \in Handles, Release(h)
  PROVE  Trees' /\ \A p \in ClientPaths : Keeps(p)
<1> DEFINE q == handle[h].path
           saved == SessionUp /\ RemoteParent(q) /\ remote[q] # "dir"
           r == IF saved THEN [remote EXCEPT ![q] = "file"] ELSE remote
           l == IF saved /\ (local[q].kind = "dir" => Empty(q))
                THEN [local EXCEPT ![q] = Nothing] ELSE local
           last == q \in HiddenPaths /\ OpenAt(q) = {h}
<1>1. /\ remote' = IF last /\ ~ExistsIn(l, q) /\ SessionUp THEN [r EXCEPT ![q] = "none"] ELSE r
      /\ local' = IF last /\ ExistsIn(l, q) THEN [l EXCEPT ![q] = Nothing] ELSE l
  BY DEF Release, Becomes
<1>2. \A p \in ClientPaths : p \in Paths /\ (last => p # q)
  BY DEF ClientPaths
<1>3. /\ l = [x \in Paths |-> l[x]] /\ r = [x \in Paths |-> r[x]]
      /\ \A x \in Paths \ {q} : l[x] = local[x] /\ r[x] = remote[x]
  BY ExceptOne DEF Trees
<1>4. q \in Paths => (l = local /\ r = remote) \/ r[q] = "file"
  BY DEF Trees
<1> HIDE DEF q, saved, r, l, last
<1>5. Trees'
  <2>1. local' = l \/ local' = [l EXCEPT ![q] = Nothing]
    BY <1>1
  <2>2. remote' = r \/ remote' = [r EXCEPT ![q] = "none"]
    BY <1>1
  <2> QED
    BY <1>3, <2>1, <2>2, ExceptOne DEF Trees
<1>6. ASSUME NEW p \in ClientPaths, Somewhere(p) PROVE Somewhere(p)'
  <2>1. CASE p # q
    <3>1. local'[p] = local[p]
      BY <1>1, <1>2, <1>3, <2>1
    <3>2. remote'[p] = remote[p]
      BY <1>1, <1>2, <1>3, <2>1
    <3> QED
      BY <1>6, <3>1, <3>2 DEF Somewhere, HasLocal
  <2>2. CASE p = q
    <3>1. local' = l /\ remote' = r
      BY <1>1, <1>2, <2>2
    <3> QED
      BY <1>2, <1>4, <1>6, <2>2, <3>1 DEF Somewhere, HasLocal
  <2> QED
    BY <2>1, <2>2
<1> QED
  BY <1>5, <1>6 DEF Keeps

\* A step that gives one path q a node that is something.
LEMMA GainKeeps ==
  ASSUME Trees, NEW q, NEW node, node.kind # "none",
         local' = [local EXCEPT ![q] = node], remote' = remote, NEW p \in Paths
  PROVE  Keeps(p)
<1>1. Trees'
  BY ExceptOne DEF Trees
<1>2. local'[p] = IF p = q THEN node ELSE local[p]
  BY ExceptOne DEF Trees
<1> QED
  BY <1>1, <1>2 DEF Keeps, Somewhere, HasLocal

\* open makes at most one local file.
LEMMA OpenKeeps ==
  ASSUME Trees, NEW h \in Handles, NEW q \in ClientPaths, Open(h, q), NEW p \in Paths
  PROVE  Keeps(p)
<1>1. CASE UNCHANGED <<local, remote>>
  BY <1>1, UnchangedKeeps
<1>2. ASSUME NEW i, local' = [local EXCEPT ![Resolved(q)] = Node("file", i, <<>>)],
             remote' = remote
      PROVE  Keeps(p)
  <2>1. Node("file", i, <<>>).kind # "none"
    BY DEF Node
  <2> QED
    BY <1>2, <2>1, GainKeeps
<1>3. \/ UNCHANGED <<local, remote>>
      \/ remote' = remote
         /\ \E i \in Inodes : local' = [local EXCEPT ![Resolved(q)] = Node("file", i, <<>>)]
  BY DEF Open, files
<1> QED
  BY <1>1, <1>2, <1>3

\* create makes one local file.
LEMMA CreateKeeps ==
  ASSUME Trees, NEW h \in Handles, NEW q \in ClientPaths, NEW ro, Create(h, q, ro),
         NEW p \in Paths
  PROVE  Keeps(p)
<1>1. /\ remote' = remote
      /\ \E i \in Inodes : local' = [local EXCEPT ![Resolved(q)] = Node("file", i, <<>>)]
  BY DEF Create
<1>2. PICK i \in Inodes : local' = [local EXCEPT ![Resolved(q)] = Node("file", i, <<>>)]
  BY <1>1
<1>3. Node("file", i, <<>>).kind # "none"
  BY DEF Node
<1> QED
  BY <1>1, <1>2, <1>3, GainKeeps

\* unlink removes, or hides, the name it was given and no other.
LEMMA UnlinkKeeps ==
  ASSUME Trees, NEW q \in ClientPaths, Unlink(q), NEW p \in ClientPaths
  PROVE  Keeps(p)
<1>1. q \in Paths /\ p \in Paths
  BY DEF ClientPaths
<1>2. p = q => Naming(p)
  BY DEF Naming, NameOp
<1>3. ASSUME NEW x \in HiddenPaths, local' = Moved(q, x), remote' = remote PROVE Keeps(p)
  BY <1>1, <1>2, <1>3, MovedTree DEF Keeps, Trees, Somewhere, HasLocal
<1>4. ASSUME local' = [local EXCEPT ![q] = Nothing], remote' = remote PROVE Keeps(p)
  <2>1. Trees' /\ \A x \in Paths : x # q => local'[x] = local[x]
    BY <1>4, ExceptOne DEF Trees
  <2> QED
    BY <1>1, <1>2, <1>4, <2>1 DEF Keeps, Somewhere, HasLocal
<1>5. ASSUME remote' = [remote EXCEPT ![q] = "none"], local' = local PROVE Keeps(p)
  <2>1. Trees' /\ \A x \in Paths : x # q => remote'[x] = remote[x]
    BY <1>5, ExceptOne DEF Trees
  <2> QED
    BY <1>1, <1>2, <1>5, <2>1 DEF Keeps, Somewhere, HasLocal
<1> QED
  BY <1>3, <1>4, <1>5 DEF Unlink, Becomes

\* rmdir removes the name it was given and no other.
LEMMA RmdirKeeps ==
  ASSUME Trees, NEW q \in ClientPaths, Rmdir(q), NEW p \in ClientPaths
  PROVE  Keeps(p)
<1>1. p = q => Naming(p)
  BY DEF Naming, NameOp
<1>2. local' = [local EXCEPT ![q] = Nothing] /\ remote' = remote
  BY DEF Rmdir
<1>3. Trees' /\ \A x \in Paths : x # q => local'[x] = local[x]
  BY <1>2, ExceptOne DEF Trees
<1>4. p \in Paths
  BY DEF ClientPaths
<1> QED
  BY <1>1, <1>2, <1>3, <1>4 DEF Keeps, Somewhere, HasLocal

\* A new local name is something.
LEMMA MakeLocalKeeps ==
  ASSUME Trees, NEW q, NEW node, node.kind # "none", MakeLocal(q, node), NEW p \in Paths
  PROVE  Keeps(p)
  BY GainKeeps DEF MakeLocal

\* The requests that make or remove one name keep the others.
LEMMA NameOpKeeps ==
  ASSUME Trees, NEW q \in ClientPaths, NameOp(q), NEW p \in ClientPaths
  PROVE  Keeps(p)
<1> p \in Paths
  BY DEF ClientPaths
<1>1. CASE Unlink(q)
  BY <1>1, UnlinkKeeps
<1>2. CASE Rmdir(q)
  BY <1>2, RmdirKeeps
<1>3. CASE Mkdir(q)
  <2>1. Dir.kind # "none"
    BY DEF Dir, Node
  <2> QED
    BY <1>3, <2>1, MakeLocalKeeps DEF Mkdir
<1>4. CASE Mknod(q)
  <2>1. PICK i \in Inodes : MakeLocal(q, Node("fifo", i, <<>>))
    BY <1>4 DEF Mknod
  <2>2. Node("fifo", i, <<>>).kind # "none"
    BY DEF Node
  <2> QED
    BY <2>1, <2>2, MakeLocalKeeps
<1>5. ASSUME NEW from \in TopPaths, Symlink(from, q) PROVE Keeps(p)
  <2>1. PICK i \in Inodes : MakeLocal(q, Node("link", i, from))
    BY <1>5 DEF Symlink
  <2>2. Node("link", i, from).kind # "none"
    BY DEF Node
  <2> QED
    BY <2>1, <2>2, MakeLocalKeeps
<1>6. ASSUME NEW from \in ClientPaths, HardLink(from, q) PROVE Keeps(p)
  <2>1. MakeLocal(q, local[from]) /\ local[from].kind # "none"
    BY <1>6 DEF HardLink, HasLocal
  <2> QED
    BY <2>1, MakeLocalKeeps
<1> QED
  BY <1>1, <1>2, <1>3, <1>4, <1>5, <1>6 DEF NameOp

\* rename keeps what is neither below its source nor below its target, even when
\* libfuse has to hide an open target first.
LEMMA RenameKeeps ==
  ASSUME Trees, NEW q \in ClientPaths, NEW r \in ClientPaths, Rename(q, r),
         NEW p \in ClientPaths
  PROVE  Keeps(p)
<1>1. Under(q, p) \/ Under(r, p) => Naming(p)
  BY DEF Naming
<1>2. remote' = remote /\ p \in Paths /\ Under(r, r)
  BY UnderSelf DEF Rename, ClientPaths
<1>3. ASSUME Renaming(local, handle, q, r) PROVE Keeps(p)
  <2>1. /\ local' = [x \in Paths |-> local'[x]]
        /\ \A x \in Paths : ~Under(q, x) /\ ~Under(r, x) => local'[x] = local[x]
    BY <1>3, RenamedKeeps DEF Trees
  <2> QED
    BY <1>1, <1>2, <2>1 DEF Keeps, Trees, Somewhere, HasLocal
<1>4. ASSUME NEW x \in HiddenPaths, Renaming(Moved(r, x), Following(r, x), q, r)
      PROVE  Keeps(p)
  <2> DEFINE l == Moved(r, x)
  <2>1. l = [y \in Paths |-> l[y]] /\ \A y \in ClientPaths : y # r => l[y] = local[y]
    BY MovedTree
  <2> HIDE DEF l
  <2>2. Renaming(l, Following(r, x), q, r)
    BY <1>4 DEF l
  <2>3. /\ local' = [y \in Paths |-> local'[y]]
        /\ \A y \in Paths : ~Under(q, y) /\ ~Under(r, y) => local'[y] = l[y]
    BY <2>1, <2>2, RenamedKeeps
  <2>4. ~Naming(p) => p # r /\ local'[p] = local[p]
    BY <1>1, <1>2, <2>1, <2>3
  <2> QED
    BY <1>2, <2>3, <2>4 DEF Keeps, Trees, Somewhere, HasLocal
<1> QED
  BY <1>3, <1>4 DEF Rename

\* Every step keeps the trees, and every name it does not name.
LEMMA NextKeeps ==
  ASSUME Trees, [Next]_vars, NEW p \in ClientPaths
  PROVE  Keeps(p)
<1>1. p \in Paths
  BY DEF ClientPaths
<1>2. CASE UNCHANGED <<local, remote>>
  BY <1>2, UnchangedKeeps
<1>3. CASE StartStep \/ StartFails \/ Unmount \/ Kill \/ StartAgain
  BY <1>2, <1>3 DEF StartStep, StartFails, Unmount, Kill, StartAgain, files, Becomes
<1>4. ASSUME NEW h \in Handles, Release(h) PROVE Keeps(p)
  BY <1>4, ReleaseKeeps
<1>5. ASSUME NEW h \in Handles, NEW q \in ClientPaths, Open(h, q) PROVE Keeps(p)
  BY <1>1, <1>5, OpenKeeps
<1>6. ASSUME NEW h \in Handles, NEW q \in ClientPaths, NEW ro, Create(h, q, ro)
      PROVE  Keeps(p)
  BY <1>1, <1>6, CreateKeeps
<1>7. ASSUME NEW q \in ClientPaths, NameOp(q) PROVE Keeps(p)
  BY <1>7, NameOpKeeps
<1>8. ASSUME NEW q \in ClientPaths, Chmod(q) PROVE Keeps(p)
  BY <1>2, <1>8 DEF Chmod
<1>9. ASSUME NEW q \in ClientPaths, NEW r \in ClientPaths, Rename(q, r) PROVE Keeps(p)
  BY <1>9, RenameKeeps
<1>10. CASE UNCHANGED vars
  BY <1>2, <1>10 DEF vars
<1> QED
  BY <1>3, <1>4, <1>5, <1>6, <1>7, <1>8, <1>9, <1>10 DEF Next

\* A name never vanishes from both sides unless a client removed or renamed it.
THEOREM NamesAreKept == Spec => NamesKept
<1> DEFINE Kept == \A p \in ClientPaths : (HasLocal(p) \/ remote[p] # "none")
                        /\ ~(HasLocal(p) \/ remote[p] # "none")' => Naming(p)
<1>1. Init => Trees
  BY DEF Init, Trees
<1>2. Trees /\ [Next]_vars => Trees'
  <2> SUFFICES ASSUME Trees, [Next]_vars PROVE Trees'
    OBVIOUS
  <2>1. ASSUME ClientPaths = {} PROVE Trees'
    <3>1. CASE UNCHANGED <<local, remote>>
      BY <3>1 DEF Trees
    <3>2. ASSUME NEW h \in Handles, Release(h) PROVE Trees'
      BY <3>2, ReleaseKeeps
    <3> QED
      BY <2>1, <3>1, <3>2 DEF Next, StartStep, StartFails, Unmount, Kill, StartAgain,
                              files, vars, Becomes
  <2>2. CASE ClientPaths # {}
    BY <2>2, NextKeeps DEF Keeps
  <2> QED
    BY <2>1, <2>2
<1>3. Trees /\ [Next]_vars => [Kept]_vars
  BY NextKeeps DEF Keeps, Somewhere
<1> QED
  BY <1>1, <1>2, <1>3, PTL DEF Spec, NamesKept
=============================================================================
