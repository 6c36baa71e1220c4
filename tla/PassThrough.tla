---------------------------- MODULE PassThrough ----------------------------
(***************************************************************************)
(* What bbfs.c calls itself: a no-op file system, which passes requests to *)
(* the file system below it.  A request takes effect there in one step, as *)
(* one call of the same name would; an open file is the file whose name    *)
(* was opened, whatever becomes of the name; the answer says what happened *)
(* at that step.  Where the call failed the answer is an error, the call's *)
(* own unless writing the log failed too.                                  *)
(***************************************************************************)
EXTENDS HostFiles

CONSTANTS
  Threads, Handles,
  LogErrors  \* errors that writing the log may leave in errno

VARIABLES
  shown,   \* the file system below the mount point
  opened,  \* open files: the inode, 0 if closed
  owed,    \* per thread: a reply not given yet
  reply    \* the reply last given

vars == <<shown, opened, owed, reply>>

Reply(op, on, answer) == [op |-> op, on |-> on, answer |-> answer]
NoReply == Reply("none", <<>>, "none")

\* What the client may be told of a call that ended with answer.
Told(answer) == IF answer \in Errors THEN {answer} \cup LogErrors ELSE {answer}

Init ==
  /\ shown = [at |-> [n \in Names |-> 0], ino |-> [i \in Inodes |-> Unused]]
  /\ opened = [h \in Handles |-> 0]
  /\ owed = [t \in Threads |-> NoReply] /\ reply = NoReply

\* A request takes effect and is answered at once.
Effect(result, now) ==
  /\ opened' = now
  /\ shown' = Reaped(result.fs, {now[h] : h \in Handles})
Serve(op, on, result, now) ==
  /\ reply'.op = op /\ reply'.on = on /\ reply'.answer \in Told(result.answer)
  /\ UNCHANGED owed
  /\ Effect(result, now)
Pass(op, on, result) == Serve(op, on, result, opened)
PassMake(op, on, n, kind, text) ==
  /\ reply'.op = op
  /\ \E i \in Inodes : /\ Has(shown, n) \/ shown.ino[i] = Unused
                       /\ Pass(op, on, Make(shown, n, i, kind, text))

\* Requests on a name.
OnName(n) ==
  \/ Pass("getattr", <<n>>, Lstat(shown, n))
  \/ Pass("readlink", <<n>>, Readlink(shown, n))
  \/ Pass("access", <<n>>, Access(shown, n))
  \/ Pass("statfs", <<n>>, Access(shown, n))
  \/ Pass("unlink", <<n>>, Unlink(shown, n))
  \/ Pass("rmdir", <<n>>, Rmdir(shown, n))
  \/ Pass("truncate", <<n>>, Truncate(shown, n))
  \/ Pass("setattr", <<n>>, SetAttr(shown, n))
  \/ Pass("utime", <<n>>, SetAttr(shown, n))
  \/ Pass("setxattr", <<n>>, Lsetxattr(shown, n))
  \/ Pass("getxattr", <<n>>, Lgetxattr(shown, n))
  \/ Pass("listxattr", <<n>>, Llistxattr(shown, n))
  \/ Pass("removexattr", <<n>>, Lremovexattr(shown, n))
OnTwoNames(p, q) ==
  \/ Pass("rename", <<p, q>>, Rename(shown, p, q))
  \/ Pass("link", <<p, q>>, Link(shown, p, q))
  \/ PassMake("symlink", <<p, q>>, q, "link", p)
Making(n) ==
  \/ PassMake("mknod", <<n>>, n, "file", Blank)
  \/ PassMake("mkfifo", <<n>>, n, "fifo", Blank)
  \/ PassMake("mkdir", <<n>>, n, "dir", Blank)

\* A file is made and the reply given later.
MakeFile(t, n) ==
  /\ owed[t] = NoReply
  /\ owed' = [owed EXCEPT ![t] = Reply("mknod", <<n>>, "ok")] /\ UNCHANGED reply
  /\ \E i \in Inodes : /\ ~Has(shown, n) /\ shown.ino[i] = Unused
                       /\ Effect(Make(shown, n, i, "file", Blank), opened)
Answer(t) ==
  owed[t] # NoReply /\ reply' = owed[t] /\ owed' = [owed EXCEPT ![t] = NoReply]
  /\ UNCHANGED <<shown, opened>>

\* No descriptor is left: an error that changes nothing.
Exhausted(n) ==
  \E op \in {"open", "mknod", "opendir"} : Pass(op, <<n>>, Result("EMFILE", shown))

\* Requests on an open file.
OpenFails(n) ==
  Pass("open", <<n>>, Result(Openable(shown, n), shown)) /\ Openable(shown, n) # "ok"
Open(n, h) ==
  /\ opened[h] = 0
  /\ Serve("open", <<n>>, Result("ok", shown),
           [opened EXCEPT ![h] = shown.at[Followed(shown, n)]])
  /\ Openable(shown, n) = "ok"
OnFile(h) ==
  /\ opened[h] # 0
  /\ \/ Pass("read", <<h>>, Pread(shown, opened[h]))
     \/ \E text \in Contents : Pass("write", <<h>>, Pwrite(shown, opened[h], text))
     \/ Pass("ftruncate", <<h>>, Pwrite(shown, opened[h], Blank))
     \/ Pass("fgetattr", <<h>>, Fstat(shown, opened[h]))
     \/ Pass("fsync", <<h>>, Fsync(shown, opened[h]))
     \/ Pass("flush", <<h>>, Result("ok", shown))
     \/ Serve("release", <<h>>, Result("ok", shown), [opened EXCEPT ![h] = 0])

\* Requests on directories change nothing.  opendir answers whether the call
\* succeeded; what readdir answers is not specified here.
Opendir(n) == Pass("opendir", <<n>>, Result(Listable(shown, n), shown))
OnDirectory ==
  \/ \E op \in {"opendir", "releasedir", "fsyncdir"} : Pass(op, <<>>, Result("ok", shown))
  \/ Pass("opendir", <<>>, Result("EMFILE", shown))
  \/ \E a \in Errors \cup {"ok"} : Pass("readdir", <<>>, Result(a, shown))

Next ==
  \/ \E t \in Threads : Answer(t) \/ \E n \in Names : MakeFile(t, n)
  \/ \E n \in Names : \/ OnName(n) \/ Making(n) \/ Exhausted(n) \/ OpenFails(n) \/ Opendir(n)
                      \/ \E h \in Handles : Open(n, h)
  \/ \E p, q \in Names : OnTwoNames(p, q)
  \/ \E h \in Handles : OnFile(h)
  \/ OnDirectory

Spec == Init /\ [][Next]_vars
=============================================================================
