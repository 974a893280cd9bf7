------------------------------- MODULE FsTree -------------------------------
(***************************************************************************)
(* mkdir_recursive and rmdir_recursive of librustuv (fs.rs).  Each is a    *)
(* sequence of file system calls, and the task blocks in every one of them *)
(* while libuv's thread pool does it: other tasks, and other programs, may *)
(* change the tree between any two calls.                                  *)
(*                                                                         *)
(* A call borrows the event loop of the thread and keeps it until it is    *)
(* answered. When another task of that thread is in such a call, the loop  *)
(* is taken and the call fails with UNKNOWN before it asks for anything.   *)
(*                                                                         *)
(* A path is a sequence of names, <<>> the directory the tasks work in.    *)
(* The file system is a function from paths to what is there.              *)
(***************************************************************************)
EXTENDS Naturals, SequencesExt

CONSTANTS Tasks,       \* tasks of the program, each of which makes at most one call
          Names,       \* names of files and directories
          Loops,       \* event loops, one per thread
          Depth,       \* bound: how deep the tree is
          Plans        \* what may happen, see Plan

Paths == UNION {[1..n -> Names] : n \in 0..Depth}
Kind == {"none", "file", "dir"}
Change == {"create", "mkdir", "remove"}

\* A tree at the start, the arguments each task may give to mkdir_recursive or
\* to rmdir_recursive, what others may do to which paths, and how often. Nobody
\* removes the directory that the tasks work in. The loop each task runs on, and
\* the loops on which more tasks make calls on files.
IsPlan(p) ==
  /\ p.tree \in [Paths -> Kind]
  /\ p.makes \in [Tasks -> SUBSET Paths] /\ p.removes \in [Tasks -> SUBSET (Paths \ {<<>>})]
  /\ \A t \in Tasks : p.makes[t] = {} \/ p.removes[t] = {}
  /\ p.others \subseteq Change \X (Paths \ {<<>>}) /\ p.most \in Nat
  /\ p.on \in [Tasks -> Loops] /\ p.busy \subseteq Loops

FsAssumption == Depth \in Nat /\ \A p \in Plans : IsPlan(p)

VARIABLES plan,     \* one of Plans, for the whole behaviour
          fs,       \* the file system
          pc,       \* the next file system call of each task
          path,     \* its argument
          at,       \* mkdir_recursive: how many components curpath has
          err,      \* mkdir_recursive: mkdir_err
          stack,    \* rmdir_recursive: rm_stack
          todo,     \* rmdir_recursive: the children still to be looked at
          child,    \* rmdir_recursive: the child to unlink
          subdir,   \* rmdir_recursive: has_child_dir
          result,   \* what the call returned
          others,   \* how much others have done
          using,    \* the tasks in a call, each has borrowed its loop
          taken     \* the loops that other tasks have borrowed

local == <<path, at, err, stack, todo, child, subdir>>
vars == <<plan, fs, pc, path, at, err, stack, todo, child, subdir, result, others, using,
          taken>>

Error == {"UNKNOWN", "ENOENT", "ENOTDIR", "EEXIST", "EISDIR", "ENOTEMPTY"}
PC == {"start", "stat", "mkdir", "check", "readdir", "lstat", "unlink", "rmdir", "done"}

Parent(p) == Front(p)
Below(p) == {q \in Paths : Len(q) = Len(p) + 1 /\ SubSeq(q, 1, Len(p)) = p}
Children(p) == {q \in Below(p) : fs[q] # "none"}

(* Whatever there is, the way to it leads through directories. *)
IsTree(t) ==
  /\ t[<<>>] = "dir"
  /\ \A p \in Paths : \A n \in 0..(Len(p) - 1) : t[p] # "none" => t[SubSeq(p, 1, n)] = "dir"

(* Somebody else has borrowed the loop of t. *)
Borrowed(t) == plan.on[t] \in taken \/ \E u \in using \ {t} : plan.on[u] = plan.on[t]

\* Every variable is typed, the file system is a tree, a loop is borrowed once at
\* a time and by a task that is in a call, and rm_stack leads from
\* the argument of rmdir_recursive downwards: below a directory on it are only
\* its siblings and what they contain.
TypeOK ==
  /\ fs \in [Paths -> Kind] /\ IsTree(fs)
  /\ pc \in [Tasks -> PC]
  /\ path \in [Tasks -> Paths]
  /\ at \in [Tasks -> 0..Depth]
  /\ err \in [Tasks -> Error \cup {"none"}]
  /\ stack \in [Tasks -> Seq(Paths)]
  /\ todo \in [Tasks -> SUBSET Paths]
  /\ child \in [Tasks -> Paths]
  /\ subdir \in [Tasks -> BOOLEAN]
  /\ result \in [Tasks -> Error \cup {"none", "Ok"}]
  /\ others \in 0..plan.most
  /\ using \subseteq Tasks /\ taken \subseteq plan.busy
  /\ \A t \in using : pc[t] \notin {"start", "done"} /\ ~Borrowed(t)
  /\ \A t \in Tasks : \A i \in 2..Len(stack[t]) :
       \E j \in 1..(i - 1) : stack[t][j] = Parent(stack[t][i])

Init ==
  /\ plan \in Plans /\ IsTree(plan.tree) /\ fs = plan.tree
  /\ pc = [t \in Tasks |-> "start"]
  /\ path = [t \in Tasks |-> <<>>] /\ at = [t \in Tasks |-> 0]
  /\ err = [t \in Tasks |-> "none"] /\ stack = [t \in Tasks |-> <<>>]
  /\ todo = [t \in Tasks |-> {}] /\ child = [t \in Tasks |-> <<>>]
  /\ subdir = [t \in Tasks |-> FALSE] /\ result = [t \in Tasks |-> "none"]
  /\ others = 0 /\ using = {} /\ taken = {}

-----------------------------------------------------------------------------
(* The file system calls: their errors. *)

\* Why p cannot be looked up: a component is missing or is a file.
LookupError(p) ==
  IF \E n \in 0..(Len(p) - 1) : fs[SubSeq(p, 1, n)] = "file" THEN "ENOTDIR"
  ELSE IF fs[p] = "none" THEN "ENOENT" ELSE "none"

MkdirError(p) ==
  IF fs[p] # "none" THEN "EEXIST"
  ELSE IF fs[Parent(p)] = "dir" THEN "none" ELSE LookupError(p)

ReaddirError(p) == IF fs[p] = "file" THEN "ENOTDIR" ELSE LookupError(p)

UnlinkError(p) == IF fs[p] = "dir" THEN "EISDIR" ELSE LookupError(p)

RmdirError(p) ==
  IF fs[p] = "file" THEN "ENOTDIR"
  ELSE IF Children(p) # {} THEN "ENOTEMPTY" ELSE LookupError(p)

(* The call starts: it borrows the loop and blocks. *)
Borrow(t) ==
  /\ pc[t] \in PC \ {"start", "done"}
  /\ t \notin using /\ ~Borrowed(t)
  /\ using' = using \cup {t}
  /\ UNCHANGED <<fs, pc, local, result, others, taken>>

(* The call is answered and gives the loop back, or fails at once. The      *)
(* request, which the thread pool carries out at some moment of the call,  *)
(* is carried out at its end.                                              *)
Answered(t, call) ==
  /\ pc[t] = call
  /\ t \in using \/ Borrowed(t)
  /\ using' = using \ {t}

\* Its error, when e is that of the request.
Outcome(t, e) == IF t \in using THEN e ELSE "UNKNOWN"

(* mkdir_recursive or rmdir_recursive returns. *)
Return(t, r) ==
  /\ result' = [result EXCEPT ![t] = r]
  /\ pc' = [pc EXCEPT ![t] = "done"]

Goto(t, label) == pc' = [pc EXCEPT ![t] = label] /\ UNCHANGED result

-----------------------------------------------------------------------------
(* mkdir_recursive *)

MkdirRecursive(t) ==
  /\ pc[t] = "start"
  /\ \E p \in plan.makes[t] : path' = [path EXCEPT ![t] = p]
  /\ Goto(t, "stat")
  /\ UNCHANGED <<fs, at, err, stack, todo, child, subdir, others, using, taken>>

(* The component is done: go on with the next one. *)
NextComponent(t) ==
  IF at[t] < Len(path[t])
  THEN at' = [at EXCEPT ![t] = @ + 1] /\ Goto(t, "mkdir")
  ELSE UNCHANGED at /\ Return(t, "Ok")

(* Is it there already? *)
Stat(t) ==
  /\ Answered(t, "stat")
  /\ IF t \in using /\ fs[path[t]] = "dir" THEN UNCHANGED at /\ Return(t, "Ok") ELSE NextComponent(t)
  /\ UNCHANGED <<fs, path, err, stack, todo, child, subdir, others, taken>>

CurPath(t) == SubSeq(path[t], 1, at[t])

Mkdir(t) ==
  /\ Answered(t, "mkdir")
  /\ LET e == Outcome(t, MkdirError(CurPath(t))) IN
       IF e = "none"
       THEN /\ fs' = [fs EXCEPT ![CurPath(t)] = "dir"]
            /\ NextComponent(t)
            /\ UNCHANGED err
       ELSE /\ err' = [err EXCEPT ![t] = e]
            /\ Goto(t, "check")
            /\ UNCHANGED <<fs, at>>
  /\ UNCHANGED <<path, stack, todo, child, subdir, others, taken>>

\* Mutant: a component that exists is an error.
CheckExists(t) ==
  /\ Answered(t, "check")
  /\ Return(t, err[t])
  /\ UNCHANGED <<fs, local, others, taken>>

\* Mutant: whatever exists will do.
CheckAny(t) ==
  /\ Answered(t, "check")
  /\ NextComponent(t)
  /\ UNCHANGED <<fs, path, err, stack, todo, child, subdir, others, taken>>

(* mkdir failed: a directory at curpath is as good. *)
Check(t) ==
  /\ Answered(t, "check")
  /\ LET e == Outcome(t, LookupError(CurPath(t))) IN
       IF e # "none" THEN Return(t, e) /\ UNCHANGED at
       ELSE IF fs[CurPath(t)] = "dir" THEN NextComponent(t)
       ELSE Return(t, err[t]) /\ UNCHANGED at
  /\ UNCHANGED <<fs, path, err, stack, todo, child, subdir, others, taken>>

-----------------------------------------------------------------------------
(* rmdir_recursive *)

RmdirRecursive(t) ==
  /\ pc[t] = "start"
  /\ \E p \in plan.removes[t] : path' = [path EXCEPT ![t] = p] /\ stack' = [stack EXCEPT ![t] = <<p>>]
  /\ Goto(t, "readdir")
  /\ UNCHANGED <<fs, at, err, todo, child, subdir, others, using, taken>>

(* After the children c: another round when there were directories, else    *)
(* the directory itself.                                                   *)
AfterChild(t, c, sub) ==
  /\ todo' = [todo EXCEPT ![t] = c]
  /\ Goto(t, IF c # {} THEN "lstat" ELSE IF sub THEN "readdir" ELSE "rmdir")

Readdir(t) ==
  /\ Answered(t, "readdir")
  /\ LET d == Last(stack[t])
         e == Outcome(t, ReaddirError(d)) IN
       IF e # "none"
       THEN Return(t, e) /\ UNCHANGED todo
       ELSE AfterChild(t, Children(d), FALSE)
  /\ subdir' = [subdir EXCEPT ![t] = FALSE]
  /\ UNCHANGED <<fs, path, at, err, stack, child, others, taken>>

\* Mutant: the flag belongs to the last child only.
LstatLastOnly(t) ==
  /\ Answered(t, "lstat")
  /\ \E c \in todo[t] : LET e == Outcome(t, LookupError(c)) IN
       IF e # "none" THEN Return(t, e) /\ UNCHANGED <<stack, todo, child, subdir>>
       ELSE IF fs[c] = "dir"
       THEN /\ stack' = [stack EXCEPT ![t] = Append(@, c)]
            /\ subdir' = [subdir EXCEPT ![t] = TRUE]
            /\ AfterChild(t, todo[t] \ {c}, TRUE)
            /\ UNCHANGED child
       ELSE /\ child' = [child EXCEPT ![t] = c]
            /\ subdir' = [subdir EXCEPT ![t] = FALSE]
            /\ Goto(t, "unlink")
            /\ UNCHANGED <<stack, todo>>
  /\ UNCHANGED <<fs, path, at, err, others, taken>>

(* A child, in the order readdir gave: a directory is put on the stack,     *)
(* anything else is to be unlinked.                                        *)
Lstat(t) ==
  /\ Answered(t, "lstat")
  /\ \E c \in todo[t] : LET e == Outcome(t, LookupError(c)) IN
       IF e # "none" THEN Return(t, e) /\ UNCHANGED <<stack, todo, child, subdir>>
       ELSE IF fs[c] = "dir"
       THEN /\ stack' = [stack EXCEPT ![t] = Append(@, c)]
            /\ subdir' = [subdir EXCEPT ![t] = TRUE]
            /\ AfterChild(t, todo[t] \ {c}, TRUE)
            /\ UNCHANGED child
       ELSE /\ child' = [child EXCEPT ![t] = c]
            /\ Goto(t, "unlink")
            /\ UNCHANGED <<stack, todo, subdir>>
  /\ UNCHANGED <<fs, path, at, err, others, taken>>

Unlink(t) ==
  /\ Answered(t, "unlink")
  /\ LET c == child[t]
         e == Outcome(t, UnlinkError(c)) IN
       /\ fs' = IF e = "none" THEN [fs EXCEPT ![c] = "none"] ELSE fs
       /\ IF e \in {"none", "ENOENT"}
          THEN AfterChild(t, todo[t] \ {c}, subdir[t])
          ELSE Return(t, e) /\ UNCHANGED todo
  /\ UNCHANGED <<path, at, err, stack, child, subdir, others, taken>>

\* Mutant: a directory that could not be removed is left behind.
RmdirLoose(t) ==
  /\ Answered(t, "rmdir")
  /\ LET d == Last(stack[t])
         e == Outcome(t, RmdirError(d)) IN
       /\ fs' = IF e = "none" THEN [fs EXCEPT ![d] = "none"] ELSE fs
       /\ stack' = [stack EXCEPT ![t] = Front(@)]
       /\ IF Len(stack[t]) > 1 THEN Goto(t, "readdir") ELSE Return(t, "Ok")
  /\ UNCHANGED <<path, at, err, todo, child, subdir, others, taken>>

\* Mutant: the directory stays on the stack.
RmdirKeeps(t) ==
  /\ Answered(t, "rmdir")
  /\ LET d == Last(stack[t])
         e == Outcome(t, RmdirError(d)) IN
       /\ fs' = IF e = "none" THEN [fs EXCEPT ![d] = "none"] ELSE fs
       /\ IF e \in {"none", "ENOENT"} THEN Goto(t, "rmdir") ELSE Return(t, e)
  /\ UNCHANGED <<path, at, err, stack, todo, child, subdir, others, taken>>

(* The directory on top is empty: pop and delete it, and go on with the     *)
(* one below.                                                              *)
Rmdir(t) ==
  /\ Answered(t, "rmdir")
  /\ LET d == Last(stack[t])
         e == Outcome(t, RmdirError(d)) IN
       /\ fs' = IF e = "none" THEN [fs EXCEPT ![d] = "none"] ELSE fs
       /\ stack' = [stack EXCEPT ![t] = Front(@)]
       /\ IF e \notin {"none", "ENOENT"} THEN Return(t, e)
          ELSE IF Len(stack[t]) > 1 THEN Goto(t, "readdir") ELSE Return(t, "Ok")
  /\ UNCHANGED <<path, at, err, todo, child, subdir, others, taken>>

-----------------------------------------------------------------------------
(* Others change the tree: a file or a directory appears, or goes. *)
Other ==
  /\ others < plan.most /\ others' = others + 1
  /\ \E change \in plan.others :
       LET what == change[1]
           p == change[2] IN
       \/ /\ what = "create" /\ MkdirError(p) = "none"
          /\ fs' = [fs EXCEPT ![p] = "file"]
       \/ /\ what = "mkdir" /\ MkdirError(p) = "none"
          /\ fs' = [fs EXCEPT ![p] = "dir"]
       \/ /\ what = "remove" /\ fs[p] # "none" /\ Children(p) = {}
          /\ fs' = [fs EXCEPT ![p] = "none"]
  /\ UNCHANGED <<pc, local, result, using, taken>>

(* Another task of the loop makes a call of its own, or is done with it. *)
OtherCall ==
  /\ \E l \in plan.busy :
       \/ /\ l \notin taken /\ \A t \in using : plan.on[t] # l
          /\ taken' = taken \cup {l}
       \/ l \in taken /\ taken' = taken \ {l}
  /\ UNCHANGED <<fs, pc, local, result, others, using>>

Begin(t) == MkdirRecursive(t) \/ RmdirRecursive(t)

Step(t) == \/ Borrow(t)
           \/ Stat(t) \/ Mkdir(t) \/ Check(t)
           \/ Readdir(t) \/ Lstat(t) \/ Unlink(t) \/ Rmdir(t)

Over == (\A t \in Tasks : pc[t] \in {"start", "done"}) /\ UNCHANGED <<fs, pc, local, result, others, using, taken>>

Next ==
  UNCHANGED plan /\ ((\E t \in Tasks : Begin(t) \/ Step(t)) \/ Other \/ OtherCall \/ Over)

\* libuv's thread pool completes every request; nobody has to call.
Fairness == \A t \in Tasks : WF_vars(UNCHANGED plan /\ Step(t))

Spec == Init /\ [][Next]_vars /\ Fairness

-----------------------------------------------------------------------------
(* Properties *)

Made(t) == pc[t] = "done" /\ plan.makes[t] # {}

\* Nobody removes anything in this plan.
Growing ==
  /\ \A t \in Tasks : plan.removes[t] = {}
  /\ \A o \in plan.others : o[1] # "remove"

\* The thread of t has no other task that makes calls on files.
Private(t) ==
  /\ plan.on[t] \notin plan.busy
  /\ \A u \in Tasks \ {t} : plan.on[u] # plan.on[t]

\* When nothing is removed and no file is in the way at the end, a mkdir_recursive
\* fails only because the loop was taken, in its last mkdir or in the stat that
\* followed, and never on a thread of its own: apart from that, two of them that
\* make the same components at the same time, and others that make some of them,
\* do not disturb each other.
MakesAgree ==
  \A t \in Tasks :
    Growing /\ Made(t) /\ result[t] # "Ok"
      => \/ \E n \in 1..Len(path[t]) : fs[SubSeq(path[t], 1, n)] = "file"
         \/ ~Private(t) /\ "UNKNOWN" \in {err[t], result[t]}

\* When nothing is removed, a mkdir_recursive that returns Ok leaves a directory,
\* whatever was at its path or on the way when it looked.
MadeMeansThere == \A t \in Tasks : Growing /\ Made(t) /\ result[t] = "Ok" => fs[path[t]] = "dir"

\* At the moment a rmdir_recursive returns Ok its directory is gone, whatever
\* others have put into it since it was read.
RemovedMeansGone ==
  [][\A t \in Tasks :
       plan.removes[t] # {} /\ pc[t] # "done" /\ pc'[t] = "done" /\ result'[t] = "Ok"
         => fs'[path[t]] = "none"]_vars

\* A rmdir_recursive of an existing directory that nobody else touches succeeds,
\* whatever is in it, or fails because the loop was taken, which a thread of its
\* own excludes: it comes back to each directory until its subdirectories are gone.
AloneSucceeds ==
  \A t \in Tasks :
    /\ plan.removes[t] # {} /\ plan.tree[path[t]] = "dir"
    /\ others = 0 /\ \A u \in Tasks \ {t} : pc[u] = "start"
    => result[t] \in {"none", "Ok"} \/ (result[t] = "UNKNOWN" /\ ~Private(t))

\* Every call returns, also when others make files and directories, finitely
\* often, where rmdir_recursive has already looked.
CallsReturn == \A t \in Tasks : (pc[t] # "start") ~> (pc[t] = "done")
=============================================================================
