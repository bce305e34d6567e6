--------------------------- MODULE FileTreeProofs ---------------------------
(***************************************************************************)
(* The sandbox holds and descriptors are closed, for any names, any paths  *)
(* of requests and any number of moves of the server's own process.        *)
(***************************************************************************)
EXTENDS FileTree, SequenceTheorems, FiniteSetTheorems, TLAPS

-----------------------------------------------------------------------------
\* Sequences

\* What is left of a sequence from its front.
LEMMA PrefixIsSeq ==
    ASSUME NEW S, NEW s \in Seq(S), NEW n \in Int, n <= Len(s)
    PROVE  SubSeq(s, 1, n) \in Seq(S) /\ (n >= 0 => Len(SubSeq(s, 1, n)) = n)
           /\ \A i \in 1 .. n : SubSeq(s, 1, n)[i] = s[i]
<1>1. CASE n >= 1
    BY <1>1, SubSeqProperties, 1 \in 1 .. Len(s) + 1
<1>2. CASE n < 1
    BY <1>2, SubSeqEmpty, EmptySeq
<1> QED BY <1>1, <1>2

LEMMA FrontIsSeq ==
    ASSUME NEW S, NEW s \in Seq(S)
    PROVE  Front(s) \in Seq(S) /\ (Len(s) >= 1 => Len(Front(s)) = Len(s) - 1)
           /\ \A i \in 1 .. Len(s) - 1 : Front(s)[i] = s[i]
<1> DEFINE n == Len(s) - 1
<1>1. n \in Int /\ n <= Len(s) /\ (Len(s) >= 1 => n >= 0)
    OBVIOUS
<1> HIDE DEF n
<1>2. /\ SubSeq(s, 1, n) \in Seq(S) /\ (n >= 0 => Len(SubSeq(s, 1, n)) = n)
      /\ \A i \in 1 .. n : SubSeq(s, 1, n)[i] = s[i]
    BY <1>1, PrefixIsSeq
<1> QED BY <1>1, <1>2 DEF Front, n

LEMMA LastIsMember ==
    ASSUME NEW S, NEW s \in Seq(S), s # <<>>
    PROVE  Last(s) \in S /\ Len(s) >= 1
BY DEF Last

LEMMA HeadAndTail ==
    ASSUME NEW S, NEW s \in Seq(S), s # <<>>
    PROVE  Head(s) \in S /\ Tail(s) \in Seq(S) /\ Len(Tail(s)) = Len(s) - 1
BY HeadTailProperties

-----------------------------------------------------------------------------
\* The invariant

Inner == Objects \ Outside
Kinds == {"dir", "file", "link", "free"}
FrameSet == [dir : Inner, name : Names \cup {"."}, sort : Kinds, fd : Inner \cup {Nil},
             todo : SUBSET [name : Names, sort : Kinds]]
OpSet == {op \in [call : DOMAIN FirstStep, path : Seq(Names), new : Seq(Names)] :
            op.call = "rename" => op.path # <<>> /\ op.new # <<>>}

\* No entry of an object inside leads to one outside.
TreeInv ==
    /\ entry \in [Objects -> [Names -> Objects \cup {Nil}]]
    /\ \A o \in Inner, n \in Names : entry[o][n] \in Inner \cup {Nil}
    /\ kind \in [Objects -> Kinds] /\ goal \in [Objects -> Goals \cup {Base}]
    /\ \A o \in Outside : kind[o] # "free"

\* The steps an operation begins with once safePath returned, those that go on with
\* its descriptor, and those that work on the stack of directories.
FirstSteps == {"meta", "open", "list", "old", "link", "lstat", "visit", "mkstat", "mkdirat",
               "new", "parent"}
WithDirfd == FirstSteps \cup {"suffix", "renameat", "unlink"}
Walking == {"try", "into", "each", "rmdir", "callback", "descend", "add", "reading"}

JobFields == {"pc", "call", "path", "new", "arg", "then", "at", "rest", "hops", "dirfd", "old",
              "held", "depth", "isdir", "stack", "after", "files"}

Typed(j) ==
    /\ DOMAIN j = JobFields
    /\ j.path \in Seq(Names) /\ j.new \in Seq(Names) /\ j.arg \in Seq(Names) /\ j.rest \in Seq(Names)
    /\ j.dirfd \in Inner \cup {Nil} /\ j.old \in Inner \cup {Nil} /\ j.at \in Objects \cup {Nil}
    /\ j.held \in Int /\ j.files \in Int /\ j.depth \in Int
    /\ j.stack \in Seq(FrameSet) /\ j.after \in Seq(OpSet)
    /\ j.call = "rename" => j.path # <<>> /\ j.new # <<>>

\* The directories below the top of the stack are being read.
Stacked(s) == s # <<>> /\ \A i \in 1 .. Len(s) - 1 : s[i].fd # Nil

\* The directories and files that the deferred calls of an operation close.
Holds(j) == j.held + j.files

\* A descriptor that an operation uses is inside. Rename keeps the first one while
\* it gets the second.
Placed(j) ==
    /\ j.pc \in {"base", "step", "opened"} => j.then \in FirstSteps
    /\ j.pc \in {"step", "opened"} => j.at \in Objects
    /\ j.pc = "step" => j.rest # <<>>
    /\ j.pc \in WithDirfd => j.dirfd \in Inner
    /\ j.then \in {"old", "new"} \/ j.pc \in {"old", "new", "renameat"} => j.call = "rename"
    /\ j.call = "rename" /\ j.then # "old" => j.old \in Inner
    /\ j.pc \in WithDirfd \ {"old"} => j.then # "old"
    /\ j.pc = "suffix" => j.call = "copy"
    /\ j.pc \in Walking => Stacked(j.stack)
    /\ j.pc = "each" => Last(j.stack).fd # Nil
    /\ j.pc \in {"callback", "descend", "add", "reading"} => Last(j.stack).fd = Nil
    /\ j.pc = "idle" => Holds(j) = 0

\* With openat2 a resolution never leaves the base.
Beneath(j) == j.pc \in {"step", "opened"} => j.at \in Inner

\* The descriptors an operation has open besides those its deferred calls close:
\* the ones of a resolution under way, of the directories and of a file being read.
Open(j) ==
    IF j.pc = "step" THEN 1
    ELSE IF j.pc = "opened" THEN 2
    ELSE IF j.pc \in {"each", "reading"} THEN Len(j.stack)
    ELSE IF j.pc \in Walking THEN Len(j.stack) - 1
    ELSE 0

\* The descriptors that somebody knows of.
Known == fds - leaked
Counts == fds \in Int /\ leaked \in Int

FdInv == Counts /\ Known = Holds(job) + Open(job) /\ (openat2 => Beneath(job))

SandboxInv == TreeInv /\ Confined /\ Typed(job) /\ Placed(job) /\ FdInv

USE DEF still, Known, Counts

-----------------------------------------------------------------------------
\* What a value of job is after an assignment

\* Only the fields F differ.
Same(j, k, F) == DOMAIN k = JobFields /\ \A f \in JobFields \ F : k[f] = j[f]

\* The operation is given another label.
LEMMA Labelled ==
    ASSUME NEW j, Typed(j), Placed(j), j.pc \in WithDirfd, NEW k, Same(j, k, {"pc"}),
           k.pc \in WithDirfd \cup {"over", "error"},
           j.pc = "old" => k.pc = "error",
           k.pc \in {"old", "new", "renameat"} => j.call = "rename",
           k.pc = "suffix" => j.call = "copy"
    PROVE  Typed(k) /\ Placed(k) /\ Beneath(k) /\ Open(k) = 0 /\ Holds(k) = Holds(j)
<1>1. Typed(k)
    BY DEF Typed, JobFields, Same
<1>2. Placed(k)
    BY DEF Placed, JobFields, WithDirfd, FirstSteps, Walking, Same
<1> QED BY <1>1, <1>2 DEF JobFields, Same, Beneath, Open, WithDirfd, FirstSteps, Walking, Holds

\* A path is to be resolved.
LEMMA Resolved ==
    ASSUME NEW j, Typed(j), NEW k, Same(j, k, {"pc", "arg", "then"}), k.pc = "base",
           k.arg \in Seq(Names), k.then \in FirstSteps,
           k.then \in {"old", "new"} => j.call = "rename",
           j.call = "rename" /\ k.then # "old" => j.old \in Inner
    PROVE  Typed(k) /\ Placed(k) /\ Beneath(k) /\ Open(k) = 0 /\ Holds(k) = Holds(j)
<1>1. Typed(k)
    BY DEF Typed, JobFields, Same
<1>2. Placed(k)
    BY DEF Placed, JobFields, WithDirfd, FirstSteps, Walking, Same
<1> QED BY <1>1, <1>2 DEF JobFields, Same, Beneath, Open, Walking, Holds

LEMMA IdleIsTyped == Typed(Idle) /\ Placed(Idle) /\ Typed(Finished) /\ Placed(Finished)
                     /\ Holds(Idle) = 0 /\ Holds(Finished) = 0
                     /\ Idle.pc = "idle" /\ Finished.pc = "idle"
<1>1. <<>> \in Seq(Names) /\ <<>> \in Seq(FrameSet) /\ <<>> \in Seq(OpSet)
    BY EmptySeq
<1>2. Typed(Idle) /\ Typed(Finished)
    BY <1>1 DEF Typed, Idle, Finished, JobFields
<1>3. Placed(Idle) /\ Placed(Finished)
    BY DEF Placed, Idle, Finished, WithDirfd, FirstSteps, Walking, Holds
<1> QED BY <1>2, <1>3 DEF Idle, Finished, Holds

\* An operation begins, with the files its request has opened before.
LEMMA Begun ==
    ASSUME NEW op \in OpSet, NEW after \in Seq(OpSet), NEW files \in Int, Begin(op, after, files)
    PROVE  Typed(job') /\ Placed(job') /\ Beneath(job') /\ Open(job') = 0 /\ Holds(job') = files
<1> DEFINE d == IF op.call = "mkdir" THEN Len(op.path) ELSE 0
           j == [Idle EXCEPT !.call = op.call, !.path = op.path, !.new = op.new,
                             !.after = after, !.depth = d, !.files = files]
           label == FirstStep[op.call]
<1>1. /\ op.call \in DOMAIN FirstStep /\ op.path \in Seq(Names) /\ op.new \in Seq(Names)
      /\ op.call = "rename" => op.path # <<>> /\ op.new # <<>>
    BY DEF OpSet
<1>2. label \in FirstSteps /\ (label \in {"old", "new"} => op.call = "rename")
      /\ (op.call = "rename" => label = "old")
    BY <1>1 DEF FirstStep, FirstSteps
<1>3. d \in Int
    BY <1>1
<1>4. /\ j.call = op.call /\ j.path = op.path /\ j.new = op.new
      /\ j.after = after /\ j.depth = d /\ j.files = files
      /\ Same(Idle, j, {"call", "path", "new", "after", "depth", "files"})
    BY DEF Idle, JobFields, Same
<1>5. job' = [j EXCEPT !.pc = "base", !.arg = op.path, !.then = label]
    BY DEF Begin, Resolve
<1> HIDE DEF d, j, label
<1>6. Typed(j) /\ Holds(j) = files
    <2>1. <<>> \in Seq(Names) /\ <<>> \in Seq(FrameSet)
        BY EmptySeq
    <2>2. j.held = 0
        BY <1>4 DEF Idle, JobFields, Same
    <2>3. Typed(j)
        BY <1>1, <1>3, <1>4, <2>1, <2>2, IdleIsTyped DEF Typed, JobFields, Same
    <2> QED BY <1>4, <2>2, <2>3 DEF Holds
<1>7. Same(j, job', {"pc", "arg", "then"}) /\ job'.pc = "base" /\ job'.arg = op.path /\ job'.then = label
    BY <1>4, <1>5 DEF Same, JobFields
<1> QED BY <1>1, <1>2, <1>4, <1>6, <1>7, Resolved

-----------------------------------------------------------------------------
\* The stack of directories

\* The sequence w holds the frame that is to be the second from the top.
LEMMA FrontAndOne ==
    ASSUME NEW s \in Seq(FrameSet), Stacked(s), NEW w \in Seq(FrameSet), Len(w) = 1,
           w[1].fd # Nil, NEW q, q = Front(s) \o w
    PROVE  q \in Seq(FrameSet) /\ Len(q) = Len(s) /\ \A i \in 1 .. Len(s) : q[i].fd # Nil
<1> DEFINE p == Front(s)
<1>1. Len(s) \in Nat /\ Len(s) >= 1
    BY DEF Stacked
<1>2. p \in Seq(FrameSet) /\ Len(p) = Len(s) - 1 /\ \A i \in 1 .. Len(s) - 1 : p[i] = s[i]
    BY <1>1, FrontIsSeq
<1>3. q = p \o w
    OBVIOUS
<1> HIDE DEF p
<1>4. /\ p \o w \in Seq(FrameSet) /\ Len(p \o w) = Len(p) + Len(w)
      /\ \A i \in 1 .. Len(p) + Len(w) : (p \o w)[i] = IF i <= Len(p) THEN p[i] ELSE w[i - Len(p)]
    BY ONLY <1>2, w \in Seq(FrameSet), ConcatProperties
<1>5. Len(p) + Len(w) = Len(s) /\ Len(p) = Len(s) - 1
    BY ONLY <1>1, <1>2, Len(w) = 1
<1>6. /\ q \in Seq(FrameSet) /\ Len(q) = Len(s)
      /\ \A i \in 1 .. Len(s) : q[i] = IF i <= Len(s) - 1 THEN p[i] ELSE w[i - (Len(s) - 1)]
    BY ONLY <1>3, <1>4, <1>5, Zenon
<1>7. \A i \in 1 .. Len(s) : \/ i \in 1 .. Len(s) - 1 /\ i <= Len(s) - 1
                             \/ ~(i <= Len(s) - 1) /\ i - (Len(s) - 1) = 1
    BY ONLY <1>1
<1>8. \A i \in 1 .. Len(s) - 1 : s[i].fd # Nil
    BY DEF Stacked
<1> QED BY ONLY <1>2, <1>6, <1>7, <1>8, w[1].fd # Nil

\* A frame is pushed on one that is being read.
LEMMA Pushed ==
    ASSUME NEW s \in Seq(FrameSet), Stacked(s), NEW w \in Seq(FrameSet), Len(w) = 1,
           w[1].fd # Nil, NEW f \in FrameSet, NEW u, u = Append(Front(s) \o w, f)
    PROVE  u \in Seq(FrameSet) /\ Len(u) = Len(s) + 1 /\ Last(u) = f /\ Stacked(u)
<1> DEFINE q == Front(s) \o w
<1>1. Len(s) \in Nat /\ Len(s) >= 1
    BY DEF Stacked
<1>2. u = Append(q, f)
    OBVIOUS
<1>3. q \in Seq(FrameSet) /\ Len(q) = Len(s) /\ \A i \in 1 .. Len(s) : q[i].fd # Nil
    BY FrontAndOne
<1> HIDE DEF q
<1>4. /\ Append(q, f) \in Seq(FrameSet) /\ Len(Append(q, f)) = Len(q) + 1
      /\ Append(q, f)[Len(q) + 1] = f
      /\ \A i \in 1 .. Len(q) : Append(q, f)[i] = q[i]
    BY ONLY <1>3, f \in FrameSet, AppendProperties
<1>5. /\ u \in Seq(FrameSet) /\ Len(u) = Len(s) + 1 /\ u[Len(s) + 1] = f
      /\ \A i \in 1 .. Len(s) : u[i] = q[i]
    BY ONLY <1>2, <1>3, <1>4, Zenon
<1>6. \A i \in 1 .. Len(u) - 1 : u[i].fd # Nil
    BY ONLY <1>1, <1>3, <1>5
<1>7. u # <<>>
    BY ONLY <1>1, <1>5
<1> QED BY ONLY <1>5, <1>6, <1>7, Zenon DEF Last, Stacked

\* The top is taken off, and another frame is below it.
LEMMA Popped ==
    ASSUME NEW s \in Seq(FrameSet), Stacked(s), Len(s) # 1, NEW u, u = Front(s)
    PROVE  u \in Seq(FrameSet) /\ Len(u) = Len(s) - 1 /\ Stacked(u) /\ Last(u).fd # Nil
<1>1. Len(s) \in Nat /\ Len(s) >= 2
    <2>1. Len(s) \in Nat /\ Len(s) >= 1
        BY DEF Stacked
    <2>2. \A n \in Nat : n >= 1 /\ n # 1 => n >= 2
        OBVIOUS
    <2> QED BY <2>1, <2>2, Zenon
<1>2. u \in Seq(FrameSet) /\ Len(u) = Len(s) - 1 /\ \A i \in 1 .. Len(s) - 1 : u[i] = s[i]
    BY <1>1, FrontIsSeq
<1> QED BY <1>1, <1>2 DEF Last, Stacked

\* The top changes.
LEMMA Replaced ==
    ASSUME NEW s \in Seq(FrameSet), Stacked(s), NEW g \in FrameSet,
           NEW u, u = [s EXCEPT ![Len(s)] = g]
    PROVE  u \in Seq(FrameSet) /\ Len(u) = Len(s) /\ Last(u) = g /\ Stacked(u)
<1>1. Len(s) \in Nat /\ Len(s) >= 1
    BY DEF Stacked
<1> DEFINE n == Len(s)
<1>2. s \in [1 .. n -> FrameSet] /\ n \in 1 .. n /\ n \in Nat
    BY <1>1
<1>3. u = [s EXCEPT ![n] = g]
    OBVIOUS
<1>4. \A i \in 1 .. n - 1 : s[i].fd # Nil
    BY DEF Stacked
<1> HIDE DEF n
<1>5. u \in [1 .. n -> FrameSet] /\ u[n] = g /\ \A i \in 1 .. n : i # n => u[i] = s[i]
    BY ONLY <1>2, <1>3, g \in FrameSet
<1>6. u \in Seq(FrameSet) /\ Len(u) = n
    BY ONLY <1>2, <1>5, SeqDef, LenProperties
<1>7. \A i \in 1 .. n - 1 : i \in 1 .. n /\ i # n
    BY <1>2
<1>8. u # <<>>
    BY ONLY <1>2, <1>6
<1> QED BY ONLY <1>4, <1>5, <1>6, <1>7, <1>8, Zenon DEF Last, Stacked, n

\* A frame alone.
LEMMA Alone ==
    ASSUME NEW f \in FrameSet
    PROVE  <<f>> \in Seq(FrameSet) /\ Len(<<f>>) = 1 /\ Last(<<f>>) = f /\ Stacked(<<f>>)
BY DEF Last, Stacked

\* All directories but the top are being read.
LEMMA BeingRead ==
    ASSUME NEW s \in Seq(FrameSet), Stacked(s), Last(s).fd = Nil
    PROVE  Cardinality({i \in DOMAIN s : s[i].fd # Nil}) = Len(s) - 1
<1>1. Len(s) \in Nat /\ Len(s) >= 1
    BY DEF Stacked
<1>2. {i \in DOMAIN s : s[i].fd # Nil} = 1 .. Len(s) - 1
    <2>1. DOMAIN s = 1 .. Len(s)
        OBVIOUS
    <2>2. s[Len(s)].fd = Nil
        BY DEF Last
    <2>3. \A i \in 1 .. Len(s) - 1 : s[i].fd # Nil
        BY DEF Stacked
    <2>4. \A i \in 1 .. Len(s) : i # Len(s) => i \in 1 .. Len(s) - 1
        BY <1>1
    <2>5. \A i \in 1 .. Len(s) - 1 : i \in 1 .. Len(s)
        BY <1>1
    <2> QED BY ONLY <2>1, <2>2, <2>3, <2>4, <2>5, Zenon
<1> DEFINE n == Len(s) - 1
<1>3. n \in Int /\ n >= 0
    BY <1>1
<1> HIDE DEF n
<1>4. Cardinality(1 .. n) = n
    <2>1. Cardinality(1 .. n) = IF 1 > n THEN 0 ELSE n - 1 + 1
        BY <1>3, FS_Interval
    <2> QED BY <1>3, <2>1
<1> QED BY <1>2, <1>4 DEF n

-----------------------------------------------------------------------------
\* The tree

\* An entry is set or cleared.
LEMMA PutKeeps ==
    ASSUME TreeInv, NEW d, NEW n, NEW o \in Inner \cup {Nil}, Put(d, n, o), UNCHANGED <<kind, goal>>
    PROVE  TreeInv'
<1>1. /\ entry' \in [Objects -> [Names -> Objects \cup {Nil}]]
      /\ \A x \in Inner, m \in Names : entry'[x][m] \in Inner \cup {Nil}
    <2>1. /\ entry \in [Objects -> [Names -> Objects \cup {Nil}]]
          /\ \A x \in Inner, m \in Names : entry[x][m] \in Inner \cup {Nil}
        BY DEF TreeInv
    <2>2. entry' = [entry EXCEPT ![d][n] = o] /\ o \in Objects \cup {Nil}
        BY DEF Put, Inner
    <2>3. entry' \in [Objects -> [Names -> Objects \cup {Nil}]]
        BY ONLY <2>1, <2>2
    <2>4. \A x \in Objects, m \in Names : entry'[x][m] = IF x = d /\ m = n THEN o ELSE entry[x][m]
        BY ONLY <2>1, <2>2
    <2> QED BY <2>1, <2>3, <2>4 DEF Inner
<1> QED BY <1>1 DEF TreeInv

\* A new object is never one that is outside already.
LEMMA MakeAtKeeps ==
    ASSUME TreeInv, NEW d, NEW n, NEW k \in Kinds, NEW g \in Goals \cup {Base}, MakeAt(d, n, k, g)
    PROVE  TreeInv'
<1>1. PICK o \in Objects : /\ Fresh(o) /\ kind' = [kind EXCEPT ![o] = k]
                           /\ goal' = [goal EXCEPT ![o] = g] /\ Put(d, n, o)
    BY DEF MakeAt
<1>2. o \in Inner
    BY <1>1 DEF TreeInv, Fresh, Inner
<1>3. /\ entry' \in [Objects -> [Names -> Objects \cup {Nil}]]
      /\ \A x \in Inner, m \in Names : entry'[x][m] \in Inner \cup {Nil}
    BY <1>1, <1>2 DEF TreeInv, Put, Inner
<1>4. kind' \in [Objects -> Kinds] /\ goal' \in [Objects -> Goals \cup {Base}]
      /\ \A x \in Outside : kind'[x] # "free"
    BY <1>1, <1>2, ObjectsAssumption DEF TreeInv, Inner
<1> QED BY <1>3, <1>4 DEF TreeInv

LEMMA MoveAtKeeps ==
    ASSUME TreeInv, NEW d \in Inner, NEW e \in Inner, NEW n \in Names, NEW m \in Names,
           MoveAt(d, n, e, m), UNCHANGED <<kind, goal>>
    PROVE  TreeInv'
<1>1. entry[d][n] \in Inner \cup {Nil}
    BY DEF TreeInv
<1> DEFINE moved == [entry EXCEPT ![e][m] = entry[d][n]]
           left == [moved EXCEPT ![d][n] = Nil]
<1>2. /\ moved \in [Objects -> [Names -> Objects \cup {Nil}]]
      /\ \A x \in Inner, y \in Names : moved[x][y] \in Inner \cup {Nil}
    BY <1>1 DEF TreeInv, Inner
<1>3. entry' = entry \/ entry' = left
    BY DEF MoveAt
<1> HIDE DEF moved
<1>4. /\ left \in [Objects -> [Names -> Objects \cup {Nil}]]
      /\ \A x \in Inner, y \in Names : left[x][y] \in Inner \cup {Nil}
    BY <1>2 DEF Inner
<1> QED BY <1>3, <1>4 DEF TreeInv

\* What the process reaches from the base is inside.
LEMMA ChildrenInside ==
    ASSUME TreeInv, NEW S, S \subseteq Inner
    PROVE  Children(S) \subseteq Inner
BY DEF TreeInv, Children

LEMMA BelowInside == ASSUME TreeInv PROVE Inside \subseteq Inner
<1> DEFINE c == Children({Base})
           d == Children(c)
<1>1. {Base} \subseteq Inner
    BY ObjectsAssumption DEF Inner
<1>2. c \subseteq Inner
    BY <1>1, ChildrenInside
<1> HIDE DEF c
<1>3. d \subseteq Inner
    BY <1>2, ChildrenInside
<1> HIDE DEF d
<1>4. Children(d) \subseteq Inner
    BY <1>3, ChildrenInside
<1>5. Below(Base) = {Base} \cup c \cup d \cup Children(d)
    BY DEF Below, c, d
<1> QED BY <1>1, <1>2, <1>3, <1>4, <1>5 DEF Inside

\* What the descriptor of safePath and the last name lead to is inside.
LEMMA TargetInside ==
    ASSUME TreeInv, Typed(job), Placed(job), job.pc \in WithDirfd
    PROVE  Target \in Inner \cup {Nil} /\ job.dirfd \in Inner /\ Leaf(job.arg) \in Names \cup {"."}
           /\ (Target = Nil => Leaf(job.arg) \in Names)
<1>1. job.dirfd \in Inner /\ job.arg \in Seq(Names)
    BY DEF Typed, Placed
<1>2. job.arg # <<>> => Leaf(job.arg) \in Names
    BY <1>1, LastIsMember DEF Leaf
<1>3. job.arg = <<>> => Leaf(job.arg) = "."
    BY DEF Leaf
<1> QED BY <1>1, <1>2, <1>3, ObjectsAssumption DEF Target, At, TreeInv, Inner

\* And so is what the top of the stack stands for.
LEMMA FoundInside ==
    ASSUME TreeInv, Typed(job), Placed(job), job.pc \in Walking
    PROVE  /\ job.stack \in Seq(FrameSet) /\ Stacked(job.stack) /\ Top \in FrameSet
           /\ Len(job.stack) \in Nat /\ Len(job.stack) >= 1
           /\ Found \in Inner \cup {Nil} /\ Top.dir \in Inner
<1>1. job.stack \in Seq(FrameSet) /\ Stacked(job.stack)
    BY DEF Typed, Placed
<1>2. Top \in FrameSet /\ Len(job.stack) >= 1
    BY <1>1, LastIsMember DEF Top, Stacked
<1>3. Top.dir \in Inner /\ Top.name \in Names \cup {"."}
    BY <1>2 DEF FrameSet
<1> QED BY <1>1, <1>2, <1>3 DEF Found, At, TreeInv, Inner

LEMMA FrameIsTyped ==
    ASSUME NEW d \in Inner, NEW n \in Names \cup {"."}, NEW k \in Kinds
    PROVE  Frame(d, n, k) \in FrameSet /\ Frame(d, n, k).fd = Nil
BY DEF Frame, FrameSet

LEMMA ReadingIsTyped ==
    ASSUME TreeInv, NEW f \in FrameSet, NEW o \in Inner
    PROVE  Reading(f, o) \in FrameSet /\ Reading(f, o).fd # Nil
<1>1. Listing(o) \in SUBSET [name : Names, sort : Kinds]
    BY DEF Listing, TreeInv, Inner
<1>2. o # Nil
    BY ObjectsAssumption DEF Inner
<1> HIDE DEF Listing
<1> QED BY <1>1, <1>2 DEF Reading, FrameSet

\* Reading or changing an object inside touches nothing outside.
LEMMA TouchInside ==
    ASSUME Confined, NEW S \in SUBSET (Inner \cup {Nil}), Touch(S), UNCHANGED <<openat2, strayed>>
    PROVE  Confined'
BY ObjectsAssumption DEF Touch, Inner, Confined

-----------------------------------------------------------------------------
\* Requests

LEMMA KeptTogether ==
    ASSUME TreeInv', Confined', Typed(job'), Placed(job'), Counts', openat2' = openat2,
           Known' = Holds(job') + Open(job') /\ (openat2 => Beneath(job'))
    PROVE  SandboxInv'
BY DEF SandboxInv, FdInv

LEMMA OpIsTyped ==
    ASSUME NEW call \in DOMAIN FirstStep \ {"rename"}, NEW p \in Seq(Names)
    PROVE  Op(call, p) \in OpSet
<1>1. <<>> \in Seq(Names)
    BY EmptySeq
<1> QED BY <1>1 DEF Op, OpSet

LEMMA MovedIsTyped ==
    ASSUME NEW p \in Paths, NEW q \in NewPaths
    PROVE  Moved(p, q) \in OpSet
BY ObjectsAssumption DEF Moved, OpSet, FirstStep

LEMMA Joined ==
    ASSUME NEW s \in Seq(OpSet), s # <<>>, NEW t \in Seq(OpSet)
    PROVE  s \o t \in Seq(OpSet) /\ s \o t # <<>>
<1>1. s \o t \in Seq(OpSet) /\ Len(s \o t) = Len(s) + Len(t) /\ Len(s) > 0 /\ Len(t) >= 0
    BY ConcatProperties
<1> QED BY <1>1

\* A request begins its first operation; the others follow.
LEMMA Asked ==
    ASSUME SandboxInv, NEW ops \in Seq(OpSet), ops # <<>>, Ask(ops)
    PROVE  SandboxInv'
<1>1. Begin(Head(ops), Tail(ops), 0) /\ job.pc = "idle" /\ UNCHANGED <<tree, touched, still, fds>>
    BY DEF Ask
<1>2. Head(ops) \in OpSet /\ Tail(ops) \in Seq(OpSet)
    BY HeadAndTail
<1>3. Typed(job') /\ Placed(job') /\ Beneath(job') /\ Open(job') = 0 /\ Holds(job') = 0
    BY <1>1, <1>2, Begun, 0 \in Int
<1>4. Holds(job) = 0 /\ Open(job) = 0
    BY <1>1 DEF SandboxInv, Placed, Open, Walking
<1>5. TreeInv' /\ Confined'
    BY <1>1 DEF SandboxInv, TreeInv, tree, Confined
<1>6. Counts' /\ openat2' = openat2 /\ Known' = 0
    BY <1>1, <1>4 DEF SandboxInv, FdInv
<1> QED BY <1>3, <1>5, <1>6, KeptTogether

LEMMA RequestKeeps == ASSUME SandboxInv, Requests PROVE SandboxInv'
<1> DEFINE Ops == Seq(OpSet) \ {<<>>}
<1>1. \A ops \in Ops : Ask(ops) => SandboxInv'
    BY Asked
<1>2. \A c \in DOMAIN FirstStep \ {"rename"}, p \in Seq(Names) : Op(c, p) \in OpSet
    BY OpIsTyped
<1>3. {"meta", "chown", "open", "touch", "create", "identify", "copy", "list", "symlink", "remove",
       "unlink", "archive", "size", "mkdir"} \subseteq DOMAIN FirstStep \ {"rename"}
    BY DEF FirstStep
<1>4. Paths \subseteq Seq(Names) /\ NewPaths \subseteq Seq(Names) /\ <<>> \in Seq(Names)
    BY ObjectsAssumption, EmptySeq
<1>5. \A a \in OpSet : <<a>> \in Ops
    OBVIOUS
<1>6. \A a, b \in OpSet : <<a, b>> \in Ops
    OBVIOUS
<1>7. \A x \in Ops, y \in Seq(OpSet) : x \o y \in Ops
    BY Joined
<1>8. \A p \in Seq(Names), c \in DOMAIN FirstStep \ {"rename"} : <<Op(c, p)>> \in Ops
    BY <1>2, <1>5
<1>9. \A p \in Seq(Names), c, e \in DOMAIN FirstStep \ {"rename"} : <<Op(c, p), Op(e, p)>> \in Ops
    BY <1>2, <1>6
<1>10. <<>> \in Seq(OpSet) /\ Ops \subseteq Seq(OpSet)
    BY EmptySeq
<1> HIDE DEF Ops
<1>11. CASE PostServerChmodFile \/ GetServerFileContents \/ GetServerListDirectory
            \/ PostServerDeleteFiles \/ PostServerCreateDirectory \/ PostServerCopyFile \/ SftpRemove
            \/ ChownRoot \/ DirectorySize \/ StreamArchive
    BY <1>1, <1>3, <1>4, <1>8, <1>11
       DEF PostServerChmodFile, GetServerFileContents, GetServerListDirectory, PostServerDeleteFiles,
           PostServerCreateDirectory, PostServerCopyFile, SftpRemove, ChownRoot, DirectorySize,
           StreamArchive, RemoveAll
<1>12. CASE PostServerWriteFile \/ PostServerUploadFiles \/ Setstat \/ SftpWrite \/ SftpMkdir \/ SftpSymlink
    BY <1>1, <1>3, <1>4, <1>9, <1>12
       DEF PostServerWriteFile, PostServerUploadFiles, Setstat, SftpWrite, SftpMkdir, SftpSymlink, Write
<1>13. CASE PutServerRenameFiles
    BY <1>1, <1>5, <1>13, MovedIsTyped DEF PutServerRenameFiles
<1>14. CASE SftpRename
    BY <1>1, <1>2, <1>3, <1>4, <1>6, <1>14, MovedIsTyped DEF SftpRename
<1>15. CASE PostServerCompressFiles
    <2>1. PICK q \in NewPaths, fits \in BOOLEAN :
            Ask(<<Op("create", q), Op("archive", Front(q))>> \o (IF fits THEN <<>> ELSE <<Op("unlink", q)>>))
        BY <1>15 DEF PostServerCompressFiles
    <2>2. Front(q) \in Seq(Names) /\ q \in Seq(Names)
        BY <1>4, FrontIsSeq
    <2>3. <<Op("create", q), Op("archive", Front(q))>> \in Ops
        BY <1>2, <1>3, <1>6, <2>2
    <2>4. (IF fits THEN <<>> ELSE <<Op("unlink", q)>>) \in Seq(OpSet)
        BY <1>3, <1>8, <1>10, <2>2
    <2> QED BY <1>1, <1>7, <2>1, <2>3, <2>4
<1>16. CASE PostServerDecompressFiles
    <2>1. PICK p \in Paths, q \in NewPaths, single \in BOOLEAN, fits \in BOOLEAN, limited \in BOOLEAN :
            /\ fits \/ limited
            /\ Ask(SpaceAvailableForDecompression(p, limited)
                   \o (IF fits THEN DecompressFile(p, q, single) ELSE <<>>))
        BY <1>16 DEF PostServerDecompressFiles
    <2>2. <<Op("open", p)>> \in Ops /\ <<Op("create", q)>> \in Ops /\ <<Op("meta", q)>> \in Ops
        BY <1>3, <1>4, <1>8
    <2>3. Write(q) \in Ops
        BY <1>3, <1>4, <1>9 DEF Write
    <2>4. ExtractStream(q, single) \in Ops
        BY <1>7, <1>10, <2>2, <2>3 DEF ExtractStream
    <2>5. DecompressFile(p, q, single) \in Ops
        BY <1>7, <1>10, <2>2, <2>4 DEF DecompressFile
    <2>6. CASE limited
        <3>1. SpaceAvailableForDecompression(p, limited) \in Ops
            BY <1>3, <1>4, <1>8, <2>6 DEF SpaceAvailableForDecompression
        <3>2. (IF fits THEN DecompressFile(p, q, single) ELSE <<>>) \in Seq(OpSet)
            BY <1>10, <2>5
        <3> QED BY <1>1, <1>7, <2>1, <3>1, <3>2
    <2>7. CASE ~limited
        <3>1. SpaceAvailableForDecompression(p, limited) = <<>> /\ fits
            BY <2>1, <2>7 DEF SpaceAvailableForDecompression
        <3>2. <<>> \o DecompressFile(p, q, single) = DecompressFile(p, q, single)
            BY <1>10, <2>5, ConcatEmptySeq
        <3> QED BY <1>1, <2>1, <2>5, <3>1, <3>2
    <2> QED BY <2>6, <2>7
<1> QED BY <1>11, <1>12, <1>13, <1>14, <1>15, <1>16 DEF Requests

-----------------------------------------------------------------------------
\* safePath

LEMMA OpenBaseKeeps == ASSUME SandboxInv, OpenBase PROVE SandboxInv'
<1>1. /\ job.pc = "base" /\ fds' = fds + 1 /\ Typed(job) /\ Placed(job) /\ Counts
      /\ UNCHANGED <<openat2, leaked>> /\ Known = Holds(job)
    <2>1. job.pc = "base" /\ Holds(job) \in Int /\ Open(job) = 0
        BY DEF OpenBase, SandboxInv, Typed, Open, Walking, Holds
    <2> QED BY <2>1 DEF OpenBase, SandboxInv, FdInv
<1>2. TreeInv' /\ Confined'
    BY DEF OpenBase, SandboxInv, TreeInv, tree, Confined
<1>3. Base \in Inner /\ Base \in Objects
    BY ObjectsAssumption DEF Inner
<1>4. CASE Len(job.arg) < 2
    <2>1. job' = [job EXCEPT !.pc = job.then, !.dirfd = Base, !.held = @ + 1]
        BY <1>4 DEF OpenBase
    <2>2. /\ Same(job, job', {"pc", "dirfd", "held"})
          /\ job'.pc = job.then /\ job'.dirfd = Base /\ job'.held = job.held + 1
          /\ job'.files = job.files
        BY <1>1, <2>1 DEF Same, JobFields, Typed
    <2>3. Typed(job')
        BY <1>1, <1>3, <2>2 DEF Typed, JobFields, Same
    <2>4. Placed(job')
        BY <1>1, <1>3, <2>2 DEF Placed, JobFields, WithDirfd, FirstSteps, Walking, Same
    <2>5. Open(job') = 0 /\ Beneath(job')
        BY <1>1, <2>2 DEF Placed, Open, Beneath, FirstSteps, Walking
    <2>6. Counts' /\ Known' = Holds(job') + Open(job')
        BY <1>1, <2>2, <2>5, SMTT(30) DEF Typed, Holds
    <2> QED BY <1>1, <1>2, <2>3, <2>4, <2>5, <2>6, KeptTogether
<1>5. CASE ~(Len(job.arg) < 2)
    <2>1. job' = [job EXCEPT !.pc = "step", !.at = Base, !.rest = Front(job.arg), !.hops = 0]
        BY <1>5 DEF OpenBase
    <2>2. /\ Same(job, job', {"pc", "at", "rest", "hops"})
          /\ job'.pc = "step" /\ job'.at = Base /\ job'.rest = Front(job.arg)
        BY <1>1, <2>1 DEF Same, JobFields, Typed
    <2>3. Front(job.arg) \in Seq(Names) /\ Len(Front(job.arg)) >= 1
        <3>1. job.arg \in Seq(Names) /\ Len(job.arg) \in Nat /\ Len(job.arg) >= 2
            BY <1>1, <1>5 DEF Typed
        <3> QED BY <3>1, FrontIsSeq
    <2>4. Front(job.arg) # <<>>
        BY <2>3
    <2>5. Typed(job')
        BY <1>1, <1>3, <2>2, <2>3 DEF Typed, JobFields, Same
    <2>6. Placed(job')
        BY <1>1, <1>3, <2>2, <2>4 DEF Placed, JobFields, WithDirfd, FirstSteps, Walking, Same
    <2>7. Open(job') = 1 /\ Beneath(job') /\ Holds(job') = Holds(job)
        BY <1>3, <2>2 DEF Open, Beneath, Same, JobFields, Holds
    <2>8. Counts' /\ Known' = Holds(job') + Open(job')
        BY <1>1, <2>7 DEF Typed, Holds
    <2> QED BY <1>1, <1>2, <2>5, <2>6, <2>7, <2>8, KeptTogether
<1> QED BY <1>4, <1>5

\* A resolution that failed has closed what it opened.
LEMMA Failed ==
    ASSUME SandboxInv, job.pc \in {"step", "opened"}, NEW why, Fails(why), openat2' = openat2,
           strayed' = strayed,
           \/ job.pc = "step" /\ leaked' = leaked
           \/ job.pc = "opened" /\ leaked' = leaked + 1
    PROVE  SandboxInv'
<1>1. /\ fds' = fds - 1 /\ Typed(job) /\ Placed(job) /\ Counts
      /\ Known = Holds(job) + Open(job) /\ Holds(job) \in Int
    BY DEF Fails, SandboxInv, FdInv, Typed, Holds
<1>2. TreeInv' /\ Confined'
    BY DEF Fails, SandboxInv, TreeInv, tree, Confined
<1>3. job.arg \in Seq(Names) /\ Front(job.arg) \in Seq(Names) /\ job.depth \in Int /\ Len(job.arg) - 1 \in Int
    BY <1>1, FrontIsSeq DEF Typed
<1>4. SUFFICES Typed(job') /\ Placed(job') /\ Beneath(job') /\ Open(job') = 0 /\ Holds(job') = Holds(job)
    <2>1. Known' = Holds(job)
        BY <1>1 DEF Open
    <2>2. Counts'
        BY <1>1
    <2>3. Known' = Holds(job') + Open(job')
        BY <1>1, <1>4, <2>1
    <2> QED BY <1>2, <1>4, <2>2, <2>3, KeptTogether
<1>5. job.call = "rename" /\ job.then # "old" => job.old \in Inner
    BY <1>1 DEF Placed
<1>6. ASSUME NEW j, Same(job, j, {"depth"}), j.depth \in Int, NEW label \in {"mkstat", "parent"},
             job.call = "rename" => job.then # "old",
             Resolve(j, Front(job.arg), label)
      PROVE  Typed(job') /\ Placed(job') /\ Beneath(job') /\ Open(job') = 0 /\ Holds(job') = Holds(job)
    <2>1. Typed(j) /\ j.call = job.call /\ j.old = job.old /\ Holds(j) = Holds(job)
        BY <1>1, <1>6 DEF Typed, Same, JobFields, Holds
    <2>2. Same(j, job', {"pc", "arg", "then"}) /\ job'.pc = "base" /\ job'.arg = Front(job.arg) /\ job'.then = label
        BY <1>6, <2>1 DEF Typed, Same, JobFields, Resolve
    <2>3. label \in FirstSteps /\ label \notin {"old", "new"}
        BY DEF FirstSteps
    <2> QED BY <1>3, <1>5, <1>6, <2>1, <2>2, <2>3, Resolved
<1>7. CASE job.then = "mkstat" /\ job.depth > 1
    <2> DEFINE j == [job EXCEPT !.depth = @ - 1]
    <2>1. Resolve(j, Front(job.arg), "mkstat")
        BY <1>7 DEF Fails
    <2>2. Same(job, j, {"depth"}) /\ j.depth \in Int
        BY <1>1, <1>3 DEF Same, JobFields, Typed
    <2> HIDE DEF j
    <2> QED BY <1>6, <1>7, <2>1, <2>2
<1>8. CASE ~(job.then = "mkstat" /\ job.depth > 1) /\ why = "notexist" /\ Missing /\ job.depth = 0
    <2> DEFINE j == [job EXCEPT !.depth = Len(job.arg) - 1]
    <2>1. Resolve(j, Front(job.arg), "mkstat")
        BY <1>8 DEF Fails
    <2>2. Same(job, j, {"depth"}) /\ j.depth \in Int
        BY <1>1, <1>3 DEF Same, JobFields, Typed
    <2>3. job.call = "rename" => job.then # "old"
        BY <1>8 DEF Missing
    <2> HIDE DEF j
    <2> QED BY <1>6, <2>1, <2>2, <2>3
<1>9. CASE /\ ~(job.then = "mkstat" /\ job.depth > 1) /\ ~(why = "notexist" /\ Missing /\ job.depth = 0)
           /\ why # "notexist" /\ job.call = "remove" /\ job.then = "lstat"
    <2>1. Resolve(job, Front(job.arg), "parent")
        BY <1>9 DEF Fails
    <2>2. Same(job, job, {"depth"})
        BY <1>1 DEF Same, Typed
    <2> QED BY <1>3, <1>6, <1>9, <2>1, <2>2
<1>10. CASE To("error")
    <2>1. Same(job, job', {"pc"}) /\ job'.pc = "error"
        BY <1>1, <1>10 DEF To, Same, Typed, JobFields
    <2>2. Typed(job')
        BY <1>1, <2>1 DEF Typed, Same, JobFields
    <2>3. Placed(job')
        BY <1>1, <2>1 DEF Placed, JobFields, WithDirfd, FirstSteps, Walking, Same
    <2> QED BY <2>1, <2>2, <2>3 DEF Open, Beneath, Same, JobFields, Walking, Holds
<1> QED BY <1>7, <1>8, <1>9, <1>10 DEF Fails

LEMMA StepKeeps == ASSUME SandboxInv, Step PROVE SandboxInv'
<1> DEFINE o == entry[job.at][Head(job.rest)]
           last == Len(job.rest) = 1
           link == o # Nil /\ kind[o] = "link"
           next == IF link THEN goal[o] ELSE o
<1>1. /\ job.pc = "step" /\ Typed(job) /\ Placed(job) /\ TreeInv /\ Confined /\ Counts
      /\ UNCHANGED <<openat2, leaked>> /\ (openat2 => job.at \in Inner)
      /\ Known = Holds(job) + 1 /\ Holds(job) \in Int
    <2>1. job.pc = "step" /\ Open(job) = 1
        BY DEF Step, Open
    <2>2. UNCHANGED <<openat2, leaked>>
        BY DEF Step
    <2>3. Typed(job) /\ Placed(job) /\ TreeInv /\ Confined /\ Counts
          /\ (openat2 => job.at \in Inner)
        BY <2>1 DEF SandboxInv, FdInv, Beneath
    <2>4. Known = Holds(job) + 1
        BY <2>1 DEF SandboxInv, FdInv
    <2>5. Holds(job) \in Int
        BY <2>3 DEF Typed, Holds
    <2> QED BY <2>1, <2>2, <2>3, <2>4, <2>5
<1>2. /\ job.at \in Objects /\ job.rest \in Seq(Names) /\ job.rest # <<>>
      /\ Head(job.rest) \in Names /\ Tail(job.rest) \in Seq(Names) /\ Len(Tail(job.rest)) = Len(job.rest) - 1
      /\ Len(job.rest) \in Nat
    BY <1>1, HeadAndTail DEF Typed, Placed
<1>3. o \in Objects \cup {Nil} /\ (job.at \in Inner => o \in Inner \cup {Nil})
    BY <1>1, <1>2 DEF TreeInv
<1>4. link => goal[o] \in Goals \cup {Base}
    BY <1>1, <1>3 DEF TreeInv
<1>5. ASSUME NEW why, Fails(why)
      PROVE  SandboxInv'
    BY <1>1, <1>5, Failed DEF Fails
<1>6. CASE o = Nil
    BY <1>5, <1>6 DEF Step
<1>7. CASE o # Nil /\ link /\ (last \/ job.hops = MaxHops \/ Leaves(o))
    BY <1>5, <1>7 DEF Step
<1>8. CASE o # Nil /\ ~(link /\ (last \/ job.hops = MaxHops \/ Leaves(o))) /\ link /\ goal[o] \in Names
    <2>1. /\ job' = [job EXCEPT !.hops = @ + 1, !.rest = <<goal[o]>> \o Tail(@)]
          /\ UNCHANGED <<tree, touched, strayed, fds>>
        BY <1>8 DEF Step
    <2> DEFINE r == <<goal[o]>> \o Tail(job.rest)
    <2>2. r \in Seq(Names) /\ r # <<>>
        <3>1. <<goal[o]>> \in Seq(Names) /\ Len(<<goal[o]>>) = 1
            BY <1>8
        <3>2. r \in Seq(Names) /\ Len(r) = 1 + Len(Tail(job.rest)) /\ Len(Tail(job.rest)) \in Nat
            BY <1>2, <3>1, ConcatProperties
        <3> QED BY <3>2
    <2>3. Same(job, job', {"hops", "rest"}) /\ job'.rest = r
        BY <1>1, <2>1 DEF Same, Typed, JobFields
    <2> HIDE DEF r
    <2>4. Typed(job')
        BY <1>1, <2>2, <2>3 DEF Typed, Same, JobFields
    <2>5. Placed(job') /\ job'.pc = "step" /\ job'.at = job.at /\ Holds(job') = Holds(job)
        BY <1>1, <2>2, <2>3 DEF Placed, JobFields, WithDirfd, FirstSteps, Walking, Same, Holds
    <2>6. TreeInv' /\ Confined' /\ fds' = fds
        BY <1>1, <2>1 DEF TreeInv, tree, Confined
    <2>7. Known' = Holds(job') + Open(job') /\ (openat2 => Beneath(job'))
        BY <1>1, <2>5, <2>6 DEF Beneath, Open
    <2> QED BY <1>1, <2>4, <2>5, <2>6, <2>7, KeptTogether
<1>9. CASE /\ o # Nil /\ ~(link /\ (last \/ job.hops = MaxHops \/ Leaves(o))) /\ ~(link /\ goal[o] \in Names)
           /\ ~Dir(next)
    BY <1>5, <1>9 DEF Step
<1>10. CASE /\ o # Nil /\ ~(link /\ (last \/ job.hops = MaxHops \/ Leaves(o))) /\ ~(link /\ goal[o] \in Names)
            /\ Dir(next)
    <2>1. /\ fds' = IF last THEN fds + 1 ELSE fds
          /\ job' = [job EXCEPT !.at = next, !.rest = Tail(@), !.pc = IF last THEN "opened" ELSE "step"]
          /\ strayed' = strayed \cup (IF last THEN {next} \cap Outside ELSE {})
          /\ UNCHANGED <<tree, touched>>
        BY <1>10 DEF Step
    <2>2. next \in Objects
        BY <1>3, <1>4, <1>10, ObjectsAssumption DEF Goals, Outside
    <2>3. openat2 => next \in Inner
        BY <1>1, <1>3, <1>10 DEF Leaves
    <2>4. Same(job, job', {"at", "rest", "pc"}) /\ job'.at = next /\ job'.rest = Tail(job.rest)
          /\ job'.pc = (IF last THEN "opened" ELSE "step")
        BY <1>1, <2>1 DEF Same, Typed, JobFields
    <2>5. ~last => Tail(job.rest) # <<>>
        <3>1. ~last => Len(Tail(job.rest)) # 0
            BY <1>2
        <3> QED BY <3>1
    <2>6. fds' = (IF last THEN fds + 1 ELSE fds)
        BY <2>1
    <2> HIDE DEF next, last
    <2>7. Typed(job')
        BY <1>1, <1>2, <2>2, <2>4 DEF Typed, Same, JobFields
    <2>8. Placed(job') /\ Holds(job') = Holds(job)
        BY <1>1, <2>2, <2>4, <2>5 DEF Placed, JobFields, WithDirfd, FirstSteps, Walking, Same, Holds
    <2>9. TreeInv' /\ Confined'
        BY <1>1, <2>1, <2>3 DEF TreeInv, tree, Confined, Inner
    <2>10. Counts' /\ Known' = Holds(job') + Open(job') /\ (openat2 => Beneath(job'))
        BY <1>1, <2>3, <2>4, <2>6, <2>8 DEF Beneath, Open
    <2> QED BY <1>1, <2>7, <2>8, <2>9, <2>10, KeptTogether
<1> QED BY <1>6, <1>7, <1>8, <1>9, <1>10

LEMMA OpenatKeeps == ASSUME SandboxInv, Openat PROVE SandboxInv'
<1>1. /\ job.pc = "opened" /\ Typed(job) /\ Placed(job) /\ TreeInv /\ Confined /\ Counts
      /\ openat2' = openat2 /\ (openat2 => job.at \in Inner)
      /\ Known = Holds(job) + 2 /\ Holds(job) \in Int
    BY DEF Openat, SandboxInv, FdInv, Open, Beneath, Typed, Holds
<1>2. CASE openat2 \/ (job.at \notin Outside /\ Attached(job.at))
    <2>1. /\ job' = [job EXCEPT !.pc = job.then, !.dirfd = job.at, !.held = @ + 2]
          /\ UNCHANGED <<tree, touched, strayed, fds, leaked>>
        BY <1>2 DEF Openat
    <2>2. job.at \in Inner
        BY <1>1, <1>2 DEF Placed, Inner
    <2>3. /\ Same(job, job', {"pc", "dirfd", "held"})
          /\ job'.pc = job.then /\ job'.dirfd = job.at /\ job'.held = job.held + 2
          /\ job'.files = job.files
        BY <1>1, <2>1 DEF Same, JobFields, Typed
    <2>4. Typed(job')
        BY <1>1, <2>2, <2>3 DEF Typed, JobFields, Same
    <2>5. Placed(job')
        BY <1>1, <2>2, <2>3 DEF Placed, JobFields, WithDirfd, FirstSteps, Walking, Same
    <2>6. Open(job') = 0 /\ Beneath(job')
        BY <1>1, <2>3 DEF Placed, Open, Beneath, FirstSteps, Walking
    <2>7. TreeInv' /\ Confined' /\ fds' = fds
        BY <1>1, <2>1 DEF TreeInv, tree, Confined
    <2>8. Counts' /\ Known' = Holds(job') + Open(job')
        BY <1>1, <2>1, <2>3, <2>6 DEF Typed, Holds
    <2> QED BY <1>1, <2>4, <2>5, <2>6, <2>7, <2>8, KeptTogether
<1>3. CASE ~(openat2 \/ (job.at \notin Outside /\ Attached(job.at)))
    <2>1. Fails(IF job.at \in Outside THEN "badpath" ELSE "notexist") /\ leaked' = leaked + 1
        BY <1>3 DEF Openat
    <2>2. strayed' = strayed
        BY <2>1 DEF Fails
    <2> QED BY <1>1, <2>1, <2>2, Failed
<1> QED BY <1>2, <1>3

LEMMA OverKeeps == ASSUME SandboxInv, Over PROVE SandboxInv'
<1>1. /\ job.pc \in {"over", "error"} /\ Typed(job) /\ Counts /\ End
      /\ UNCHANGED still /\ Open(job) = 0
      /\ job.held \in Int /\ job.files \in Int
    BY DEF Over, SandboxInv, FdInv, Open, Walking, Typed
<1>2. Known = job.held + job.files
    BY <1>1 DEF SandboxInv, FdInv, Holds
<1>3. TreeInv' /\ Confined'
    BY DEF Over, SandboxInv, TreeInv, tree, Confined
<1>4. /\ Typed(job') /\ Placed(job') /\ Beneath(job') /\ Open(job') = 0
      /\ Counts' /\ Known' = Holds(job')
    <2>1. CASE job.pc = "over" /\ job.after # <<>>
        <3>1. Begin(Head(job.after), Tail(job.after), job.files) /\ fds' = fds - job.held
            BY <1>1, <2>1 DEF End
        <3>2. Head(job.after) \in OpSet /\ Tail(job.after) \in Seq(OpSet)
            BY <1>1, <2>1, HeadAndTail DEF Typed
        <3>3. /\ Typed(job') /\ Placed(job') /\ Beneath(job') /\ Open(job') = 0
              /\ Holds(job') = job.files
            BY <1>1, <3>1, <3>2, Begun
        <3> QED BY <1>1, <1>2, <3>1, <3>3
    <2>2. CASE ~(job.pc = "over" /\ job.after # <<>>)
        <3>1. job' = Finished /\ fds' = fds - job.held - job.files
            BY <1>1, <2>2 DEF End
        <3>2. Counts' /\ Known' = 0
            BY <1>1, <1>2, <3>1
        <3> QED BY <3>1, <3>2, IdleIsTyped DEF Beneath, Open, Walking
    <2> QED BY <2>1, <2>2
<1>5. Known' = Holds(job') + Open(job')
    BY <1>1, <1>4
<1> QED BY <1>1, <1>3, <1>4, <1>5, KeptTogether

-----------------------------------------------------------------------------
\* The calls on one entry

\* What holds when an operation has the descriptor of safePath.
Ready == /\ TreeInv /\ Confined /\ Typed(job) /\ Placed(job) /\ Counts
         /\ Holds(job) \in Int /\ job.held \in Int /\ Known = Holds(job)

LEMMA ReadyWithDirfd == ASSUME SandboxInv, job.pc \in WithDirfd PROVE Ready
<1>1. Open(job) = 0
    BY DEF Open, WithDirfd, FirstSteps, Walking
<1>2. Holds(job) \in Int /\ job.held \in Int
    BY DEF SandboxInv, Typed, Holds
<1> QED BY <1>1, <1>2 DEF SandboxInv, FdInv, Ready

\* A step that only sets the label.
LEMMA ToKeeps ==
    ASSUME Ready, job.pc \in WithDirfd, NEW label, To(label), TreeInv', Confined',
           openat2' = openat2, Leak \/ UNCHANGED <<fds, leaked>>,
           label \in WithDirfd \cup {"over", "error"},
           job.pc = "old" => label = "error",
           label \in {"old", "new", "renameat"} => job.call = "rename",
           label = "suffix" => job.call = "copy"
    PROVE  SandboxInv'
<1>1. Same(job, job', {"pc"}) /\ job'.pc = label
    BY DEF Ready, To, Same, Typed, JobFields
<1>2. Typed(job') /\ Placed(job') /\ Beneath(job') /\ Open(job') = 0 /\ Holds(job') = Holds(job)
    BY <1>1, Labelled DEF Ready
<1>3. Counts' /\ openat2' = openat2 /\ Known' = Holds(job') + Open(job')
    BY <1>2 DEF Ready, Leak
<1> QED BY <1>2, <1>3, KeptTogether

LEMMA ChangeAtKeeps == ASSUME SandboxInv, ChangeAt PROVE SandboxInv'
<1>1. job.pc = "meta" /\ job.pc \in WithDirfd /\ UNCHANGED <<still, fds>> /\ UNCHANGED tree
    BY DEF ChangeAt, WithDirfd, FirstSteps
<1>2. Ready
    BY <1>1, ReadyWithDirfd
<1>3. Target \in Inner \cup {Nil}
    BY <1>1, <1>2, TargetInside DEF Ready
<1>4. TreeInv'
    BY <1>1, <1>2 DEF Ready, TreeInv, tree
<1>5. CASE Target = Nil
    <2>1. To("error") /\ Confined'
        BY <1>1, <1>2, <1>5 DEF ChangeAt, Ready, Confined
    <2> QED BY <1>1, <1>2, <1>4, <2>1, ToKeeps
<1>6. CASE Target # Nil
    <2>1. Confined'
        BY <1>1, <1>2, <1>3, <1>6, TouchInside DEF ChangeAt, Ready
    <2>2. To("visit") \/ To("over")
        BY <1>6 DEF ChangeAt
    <2>3. "visit" \in WithDirfd
        BY DEF WithDirfd, FirstSteps
    <2> QED BY <1>1, <1>2, <1>4, <2>1, <2>2, <2>3, ToKeeps
<1> QED BY <1>5, <1>6

\* A step that opens a file sets the label, and what the operation holds.
LEMMA FileOpenKeeps ==
    ASSUME Ready, job.pc = "open", FileOpen, TreeInv', Confined', openat2' = openat2
    PROVE  SandboxInv'
<1>1. job.pc \in WithDirfd /\ "suffix" \in WithDirfd /\ "meta" \in WithDirfd
    BY DEF WithDirfd, FirstSteps
<1>2. CASE /\ fds' = fds + 1 /\ leaked' = leaked
           /\ \E l \in {IF job.call = "copy" THEN "suffix" ELSE "over", "error"} :
                job' = [job EXCEPT !.pc = l, !.files = @ + 1]
    <2>1. PICK l \in {IF job.call = "copy" THEN "suffix" ELSE "over", "error"} :
            job' = [job EXCEPT !.pc = l, !.files = @ + 1]
        BY <1>2
    <2>2. l \in {"suffix", "over", "error"} /\ (l = "suffix" => job.call = "copy")
        BY <2>1
    <2> DEFINE j == [job EXCEPT !.files = @ + 1]
    <2>3. Same(job, j, {"files"}) /\ j.files = job.files + 1 /\ Same(j, job', {"pc"}) /\ job'.pc = l
        BY <2>1 DEF Ready, Same, Typed, JobFields
    <2> HIDE DEF j
    <2>4. Typed(j) /\ Holds(j) = Holds(job) + 1
        BY <2>3 DEF Ready, Typed, Same, JobFields, Holds
    <2>5. Placed(j) /\ j.pc = "open" /\ j.call = job.call
        BY <2>3 DEF Ready, Placed, Same, JobFields, WithDirfd, FirstSteps, Walking
    <2>6. Typed(job') /\ Placed(job') /\ Beneath(job') /\ Open(job') = 0 /\ Holds(job') = Holds(j)
        BY <1>1, <2>2, <2>3, <2>4, <2>5, Labelled
    <2>7. Counts' /\ Known' = Holds(job') + Open(job')
        BY <1>2, <2>4, <2>6 DEF Ready
    <2> QED BY <2>6, <2>7, KeptTogether
<1>3. CASE /\ Leak \/ UNCHANGED <<fds, leaked>>
           /\ To("meta") \/ To("over") \/ To("error")
    BY <1>1, <1>3, ToKeeps
<1> QED BY <1>2, <1>3 DEF FileOpen

LEMMA OpenAtKeeps == ASSUME SandboxInv, OpenAt PROVE SandboxInv'
<1> DEFINE makes == Creates /\ Target = Nil /\ Attached(job.dirfd)
<1>1. job.pc = "open" /\ job.pc \in WithDirfd /\ UNCHANGED <<openat2, strayed>>
    BY DEF OpenAt, WithDirfd, FirstSteps
<1>2. Ready
    BY <1>1, ReadyWithDirfd
<1>3. Target \in Inner \cup {Nil} /\ Opened(Target) \in Inner \cup {Nil} /\ job.dirfd \in Inner
    BY <1>1, <1>2, TargetInside DEF Ready, Opened
<1>4. TreeInv' /\ Confined'
    <2>1. CASE MakeAt(job.dirfd, Leaf(job.arg), "file", Base) /\ Touch({job.dirfd})
        <3>1. TreeInv'
            BY <1>2, <2>1, MakeAtKeeps DEF Ready, Kinds
        <3> QED BY <1>1, <1>2, <1>3, <2>1, <3>1, TouchInside DEF Ready
    <2>2. CASE Touch({Opened(Target)}) /\ UNCHANGED tree
        <3>1. TreeInv'
            BY <1>2, <2>2 DEF Ready, TreeInv, tree
        <3> QED BY <1>1, <1>2, <1>3, <2>2, <3>1, TouchInside DEF Ready
    <2> QED BY <2>1, <2>2 DEF OpenAt
<1>5. \/ FileOpen
      \/ To("error") /\ (UNCHANGED <<fds, leaked>> \/ Leak)
    BY DEF OpenAt
<1>6. CASE FileOpen
    BY <1>1, <1>2, <1>4, <1>6, FileOpenKeeps
<1>7. CASE To("error") /\ (UNCHANGED <<fds, leaked>> \/ Leak)
    BY <1>1, <1>2, <1>4, <1>7, ToKeeps
<1> QED BY <1>5, <1>6, <1>7

LEMMA FindCopySuffixKeeps == ASSUME SandboxInv, FindCopySuffix PROVE SandboxInv'
<1>1. job.pc = "suffix" /\ job.pc \in WithDirfd /\ UNCHANGED <<still, fds>> /\ UNCHANGED <<tree, touched>>
    BY DEF FindCopySuffix, WithDirfd
<1>2. Ready
    BY <1>1, ReadyWithDirfd
<1>3. TreeInv' /\ Confined'
    BY <1>1, <1>2 DEF Ready, TreeInv, tree, Confined
<1>4. CASE To("error")
    BY <1>1, <1>2, <1>3, <1>4, ToKeeps
<1>5. ASSUME NEW n \in Names, job' = [job EXCEPT !.pc = "open", !.call = "paste", !.arg = Append(Front(@), n)]
      PROVE  SandboxInv'
    <2> DEFINE a == Append(Front(job.arg), n)
    <2>1. a \in Seq(Names)
        BY <1>2, FrontIsSeq, AppendProperties DEF Ready, Typed
    <2>2. Same(job, job', {"pc", "call", "arg"}) /\ job'.pc = "open" /\ job'.call = "paste" /\ job'.arg = a
        BY <1>2, <1>5 DEF Ready, Same, Typed, JobFields
    <2> HIDE DEF a
    <2>3. Typed(job')
        BY <1>2, <2>1, <2>2 DEF Ready, Typed, Same, JobFields
    <2>4. Placed(job')
        BY <1>1, <1>2, <2>2 DEF Ready, Placed, Same, JobFields, WithDirfd, FirstSteps, Walking
    <2>5. Beneath(job') /\ Open(job') = 0 /\ Holds(job') = Holds(job)
        BY <2>2 DEF Beneath, Open, Same, JobFields, Walking, Holds
    <2>6. Counts' /\ Known' = Holds(job') + Open(job')
        BY <1>1, <1>2, <2>5 DEF Ready
    <2> QED BY <1>1, <1>3, <2>3, <2>4, <2>5, <2>6, KeptTogether
<1> QED BY <1>4, <1>5 DEF FindCopySuffix

LEMMA SymlinkAtKeeps == ASSUME SandboxInv, SymlinkAt PROVE SandboxInv'
<1>1. job.pc = "link" /\ job.pc \in WithDirfd /\ UNCHANGED <<still, fds>>
    BY DEF SymlinkAt, WithDirfd, FirstSteps
<1>2. Ready
    BY <1>1, ReadyWithDirfd
<1>3. TreeInv' /\ Confined'
    <2>1. CASE UNCHANGED <<tree, touched>>
        BY <1>1, <1>2, <2>1 DEF Ready, TreeInv, tree, Confined
    <2>2. CASE Touch({job.dirfd}) /\ \E g \in Goals : MakeAt(job.dirfd, Leaf(job.arg), "link", g)
        <3>1. TreeInv'
            BY <1>2, <2>2, MakeAtKeeps DEF Ready, Kinds
        <3>2. job.dirfd \in Inner
            BY <1>1, <1>2, TargetInside DEF Ready
        <3> QED BY <1>1, <1>2, <2>2, <3>1, <3>2, TouchInside DEF Ready
    <2> QED BY <2>1, <2>2 DEF SymlinkAt
<1>4. To("over") \/ To("error")
    BY DEF SymlinkAt
<1> QED BY <1>1, <1>2, <1>3, <1>4, ToKeeps

\* A step that goes on with another path.
LEMMA ResolveKeeps ==
    ASSUME Ready, NEW j, Typed(j), NEW path \in Seq(Names), NEW label \in FirstSteps,
           Resolve(j, path, label), TreeInv', Confined', openat2' = openat2, Counts',
           label \in {"old", "new"} => j.call = "rename",
           j.call = "rename" /\ label # "old" => j.old \in Inner,
           Known' = Holds(j)
    PROVE  SandboxInv'
<1>1. Same(j, job', {"pc", "arg", "then"}) /\ job'.pc = "base" /\ job'.arg = path /\ job'.then = label
    BY DEF Resolve, Same, Typed, JobFields
<1>2. Typed(job') /\ Placed(job') /\ Beneath(job') /\ Open(job') = 0 /\ Holds(job') = Holds(j)
    BY <1>1, Resolved
<1>3. Known' = Holds(job') + Open(job')
    <2>1. j.held \in Int
        BY DEF Typed
    <2> QED BY <1>2, <2>1
<1> QED BY <1>2, <1>3, KeptTogether

LEMMA LstatOldKeeps == ASSUME SandboxInv, LstatOld PROVE SandboxInv'
<1>1. job.pc = "old" /\ job.pc \in WithDirfd /\ UNCHANGED <<still, fds>> /\ UNCHANGED <<tree, touched>>
    BY DEF LstatOld, WithDirfd, FirstSteps
<1>2. Ready
    BY <1>1, ReadyWithDirfd
<1>3. TreeInv' /\ Confined'
    BY <1>1, <1>2 DEF Ready, TreeInv, tree, Confined
<1>4. CASE To("error")
    BY <1>1, <1>2, <1>3, <1>4, ToKeeps
<1>5. CASE Resolve([job EXCEPT !.old = job.dirfd], job.new, "new")
    <2> DEFINE j == [job EXCEPT !.old = job.dirfd]
    <2>1. Same(job, j, {"old"}) /\ j.old = job.dirfd
        BY <1>2 DEF Ready, Same, Typed, JobFields
    <2>2. Resolve(j, job.new, "new")
        BY <1>5
    <2> HIDE DEF j
    <2>3. job.dirfd \in Inner /\ job.call = "rename" /\ job.new \in Seq(Names)
        BY <1>1, <1>2 DEF Ready, Placed, Typed
    <2>4. Typed(j) /\ Holds(j) = Holds(job) /\ j.call = "rename" /\ j.old \in Inner
        BY <1>2, <2>1, <2>3 DEF Ready, Typed, Same, JobFields, Holds
    <2>5. "new" \in FirstSteps
        BY DEF FirstSteps
    <2>6. Counts' /\ openat2' = openat2 /\ Known' = Holds(j)
        BY <1>1, <1>2, <2>4 DEF Ready
    <2> QED BY <1>2, <1>3, <2>2, <2>3, <2>4, <2>5, <2>6, ResolveKeeps
<1> QED BY <1>4, <1>5 DEF LstatOld

LEMMA LstatNewKeeps == ASSUME SandboxInv, LstatNew PROVE SandboxInv'
<1>1. job.pc = "new" /\ job.pc \in WithDirfd /\ UNCHANGED <<still, fds>> /\ UNCHANGED <<tree, touched>>
    BY DEF LstatNew, WithDirfd, FirstSteps
<1>2. Ready
    BY <1>1, ReadyWithDirfd
<1>3. TreeInv' /\ Confined'
    BY <1>1, <1>2 DEF Ready, TreeInv, tree, Confined
<1>4. job.call = "rename" /\ "renameat" \in WithDirfd
    BY <1>1, <1>2 DEF Ready, Placed, WithDirfd
<1>5. To("renameat") \/ To("error")
    BY DEF LstatNew
<1> QED BY <1>1, <1>2, <1>3, <1>4, <1>5, ToKeeps

LEMMA RenameAtKeeps == ASSUME SandboxInv, RenameAt PROVE SandboxInv'
<1>1. job.pc = "renameat" /\ job.pc \in WithDirfd /\ UNCHANGED <<still, fds>> /\ UNCHANGED <<kind, goal>>
    BY DEF RenameAt, WithDirfd
<1>2. Ready
    BY <1>1, ReadyWithDirfd
<1>3. job.dirfd \in Inner /\ job.old \in Inner
    BY <1>1, <1>2 DEF Ready, Placed, WithDirfd
<1>4. Leaf(job.path) \in Names /\ Leaf(job.new) \in Names
    <2>1. job.call = "rename"
        BY <1>1, <1>2 DEF Ready, Placed
    <2>2. job.path \in Seq(Names) /\ job.new \in Seq(Names) /\ job.path # <<>> /\ job.new # <<>>
        BY <1>2, <2>1 DEF Ready, Typed
    <2> QED BY <2>2, LastIsMember DEF Leaf
<1> DEFINE old == entry[job.old][Leaf(job.path)]
           new == entry[job.dirfd][Leaf(job.new)]
<1>5. old \in Inner \cup {Nil} /\ new \in Inner \cup {Nil}
    BY <1>2, <1>3, <1>4 DEF Ready, TreeInv
<1>6. TreeInv' /\ Confined'
    <2>1. CASE /\ MoveAt(job.old, Leaf(job.path), job.dirfd, Leaf(job.new))
               /\ Touch({job.old, old, job.dirfd, new})
        <3>1. TreeInv'
            BY <1>1, <1>2, <1>3, <1>4, <2>1, MoveAtKeeps DEF Ready
        <3>2. {job.old, old, job.dirfd, new} \in SUBSET (Inner \cup {Nil})
            BY <1>3, <1>5
        <3> HIDE DEF old, new
        <3> QED BY <1>1, <1>2, <2>1, <3>1, <3>2, TouchInside DEF Ready
    <2>2. CASE UNCHANGED <<entry, touched>>
        BY <1>1, <1>2, <2>2 DEF Ready, TreeInv, Confined
    <2> QED BY <2>1, <2>2 DEF RenameAt
<1>7. To("over") \/ To("error")
    BY DEF RenameAt
<1> QED BY <1>1, <1>2, <1>6, <1>7, ToKeeps

-----------------------------------------------------------------------------
\* mkdirAll and removeAll

\* What safePath returned is closed: the operation holds so many descriptors less.
LEMMA ReleasedIsTyped ==
    ASSUME Ready, job.pc \in WithDirfd \ {"old"}, Close(Here), leaked' = leaked
    PROVE  /\ Typed(Released) /\ Same(job, Released, {"held"}) /\ Counts'
           /\ Known' = Holds(Released)
           /\ Released.call = "rename" => Released.old \in Inner
<1>1. Here \in Int
    BY DEF Here
<1>2. Same(job, Released, {"held"}) /\ Released.held = job.held - Here
    BY DEF Released, Ready, Same, Typed, JobFields
<1>3. Typed(Released)
    BY <1>1, <1>2 DEF Ready, Typed, Same, JobFields
<1>4. fds' = fds - Here /\ Holds(Released) = Holds(job) - Here
    <2>1. Released.files = job.files
        BY <1>2 DEF Same, JobFields
    <2> QED BY <1>1, <1>2, <2>1 DEF Close, Holds, Ready, Typed
<1>5. job.call = "rename" => job.old \in Inner
    BY DEF Ready, Placed
<1>6. Counts' /\ Known' = Holds(Released)
    BY <1>1, <1>2, <1>4 DEF Ready
<1>7. Released.call = job.call /\ Released.old = job.old
    BY <1>2 DEF Same, JobFields
<1> QED BY <1>2, <1>3, <1>5, <1>6, <1>7

\* The operation is over, or failed, with no descriptor but those it holds.
LEMMA EndsHere ==
    ASSUME NEW j, Typed(j), NEW label \in {"over", "error"}, job' = [j EXCEPT !.pc = label],
           TreeInv', Confined', openat2' = openat2, Counts', Known' = Holds(j),
           j.then \in {"old", "new"} => j.call = "rename",
           j.call = "rename" /\ j.then # "old" => j.old \in Inner
    PROVE  SandboxInv'
<1>1. Same(j, job', {"pc"}) /\ job'.pc = label
    BY DEF Same, Typed, JobFields
<1>2. Typed(job')
    BY <1>1 DEF Typed, Same, JobFields
<1>3. Placed(job')
    BY <1>1 DEF Placed, Same, JobFields, WithDirfd, FirstSteps, Walking
<1>4. Beneath(job') /\ Open(job') = 0 /\ Holds(job') = Holds(j) /\ j.held \in Int
    BY <1>1 DEF Beneath, Open, Same, JobFields, Walking, Typed, Holds
<1>5. Known' = Holds(job') + Open(job')
    BY <1>4
<1> QED BY <1>2, <1>3, <1>4, <1>5, KeptTogether

\* The next directory, or the operation that needed them.
LEMMA DeeperKeeps ==
    ASSUME Ready, job.pc \in {"mkstat", "mkdirat"}, Close(Here), Deeper(Released),
           TreeInv', Confined', UNCHANGED <<openat2, leaked>>
    PROVE  SandboxInv'
<1>1. job.pc \in WithDirfd \ {"old"}
    BY DEF WithDirfd, FirstSteps
<1>2. /\ Typed(Released) /\ Same(job, Released, {"held"}) /\ Counts'
      /\ Known' = Holds(Released)
      /\ Released.call = "rename" => Released.old \in Inner
    BY <1>1, ReleasedIsTyped
<1>3. Released.depth = job.depth /\ Released.call = job.call /\ Released.then = job.then
    BY <1>2 DEF Same, JobFields
<1>4. Whole \in Seq(Names)
    BY DEF Ready, Typed, Whole
<1>5. {"mkdirat", "new", "open"} \subseteq FirstSteps
    BY DEF FirstSteps
<1>6. CASE Released.depth < Bound
    <2> DEFINE j == [Released EXCEPT !.depth = @ + 1]
               p == SubSeq(Whole, 1, Released.depth + 1)
    <2>1. Resolve(j, p, "mkdirat")
        BY <1>6 DEF Deeper
    <2>2. p \in Seq(Names)
        <3>1. Released.depth + 1 \in Int /\ Released.depth + 1 <= Len(Whole)
            BY <1>2, <1>4, <1>6 DEF Typed, Bound
        <3> QED BY <1>4, <3>1, PrefixIsSeq
    <2>3. Same(Released, j, {"depth"}) /\ j.depth = Released.depth + 1
        BY <1>2 DEF Same, Typed, JobFields
    <2> HIDE DEF j, p
    <2>4. Typed(j) /\ Holds(j) = Holds(Released) /\ j.call = Released.call /\ j.old = Released.old
        BY <1>2, <2>3 DEF Typed, Same, JobFields, Holds
    <2>5. Known' = Holds(j)
        BY <1>2, <2>4
    <2>6. j.call = "rename" => j.old \in Inner
        BY <1>2, <2>4
    <2> QED BY <1>2, <1>5, <2>1, <2>2, <2>4, <2>5, <2>6, ResolveKeeps
<1>7. CASE ~(Released.depth < Bound) /\ job.call = "mkdir"
    <2>1. job' = [Released EXCEPT !.pc = "over"]
        BY <1>7 DEF Deeper
    <2>2. Released.then \in {"old", "new"} => Released.call = "rename"
        BY <1>3 DEF Ready, Placed
    <2> HIDE DEF Released
    <2> QED BY <1>2, <2>1, <2>2, EndsHere
<1>8. CASE ~(Released.depth < Bound) /\ job.call # "mkdir"
    <2> DEFINE label == IF job.call = "rename" THEN "new" ELSE "open"
    <2>1. Resolve(Released, Whole, label)
        BY <1>8 DEF Deeper
    <2>2. label \in FirstSteps /\ (label \in {"old", "new"} => Released.call = "rename")
        BY <1>3, <1>5
    <2> HIDE DEF label, Released
    <2> QED BY <1>2, <1>4, <2>1, <2>2, ResolveKeeps
<1> QED BY <1>6, <1>7, <1>8

\* mkdirAll fails.
LEMMA ReleasedEnds ==
    ASSUME Ready, job.pc \in WithDirfd \ {"old"}, Close(Here), job' = [Released EXCEPT !.pc = "error"],
           TreeInv', Confined', UNCHANGED <<openat2, leaked>>
    PROVE  SandboxInv'
<1>1. /\ Typed(Released) /\ Same(job, Released, {"held"}) /\ Counts'
      /\ Known' = Holds(Released)
      /\ Released.call = "rename" => Released.old \in Inner
    BY ReleasedIsTyped
<1>2. Released.call = job.call /\ Released.then = job.then
    BY <1>1 DEF Same, JobFields
<1>3. Released.then \in {"old", "new"} => Released.call = "rename"
    BY <1>2 DEF Ready, Placed
<1> HIDE DEF Released
<1> QED BY <1>1, <1>3, EndsHere

LEMMA LstatDirKeeps == ASSUME SandboxInv, LstatDir PROVE SandboxInv'
<1>1. /\ job.pc = "mkstat" /\ job.pc \in WithDirfd \ {"old"} /\ Close(Here)
      /\ UNCHANGED still /\ UNCHANGED <<tree, touched>>
    BY DEF LstatDir, WithDirfd, FirstSteps
<1>2. Ready
    BY <1>1, ReadyWithDirfd
<1>3. TreeInv' /\ Confined'
    BY <1>1, <1>2 DEF Ready, TreeInv, tree, Confined
<1>4. CASE Deeper(Released)
    BY <1>1, <1>2, <1>3, <1>4, DeeperKeeps
<1>5. CASE job' = [Released EXCEPT !.pc = "error"]
    BY <1>1, <1>2, <1>3, <1>5, ReleasedEnds
<1>6. /\ Typed(Released) /\ Same(job, Released, {"held"}) /\ Counts'
      /\ Known' = Holds(Released)
      /\ Released.call = "rename" => Released.old \in Inner
    BY <1>1, <1>2, ReleasedIsTyped
<1>7. job.arg \in Seq(Names) /\ Front(job.arg) \in Seq(Names) /\ {"mkstat", "mkdirat"} \subseteq FirstSteps
    BY <1>2, FrontIsSeq DEF Ready, Typed, FirstSteps
<1>8. CASE Resolve([Released EXCEPT !.depth = @ - 1], Front(job.arg), "mkstat")
    <2> DEFINE j == [Released EXCEPT !.depth = @ - 1]
    <2>1. Resolve(j, Front(job.arg), "mkstat")
        BY <1>8
    <2>2. Same(Released, j, {"depth"}) /\ j.depth = Released.depth - 1
        BY <1>6 DEF Same, Typed, JobFields
    <2> HIDE DEF j
    <2>3. Typed(j) /\ Holds(j) = Holds(Released) /\ j.call = Released.call /\ j.old = Released.old
        BY <1>6, <2>2 DEF Typed, Same, JobFields, Holds
    <2>4. Known' = Holds(j)
        BY <1>6, <2>3
    <2>5. j.call = "rename" => j.old \in Inner
        BY <1>6, <2>3
    <2> QED BY <1>1, <1>2, <1>3, <1>6, <1>7, <2>1, <2>3, <2>4, <2>5, ResolveKeeps
<1>9. CASE Resolve(Released, job.arg, "mkdirat")
    <2> HIDE DEF Released
    <2> QED BY <1>1, <1>2, <1>3, <1>6, <1>7, <1>9, ResolveKeeps
<1> QED BY <1>4, <1>5, <1>8, <1>9 DEF LstatDir

LEMMA MkdirAtKeeps == ASSUME SandboxInv, MkdirAt PROVE SandboxInv'
<1>1. job.pc = "mkdirat" /\ job.pc \in WithDirfd \ {"old"} /\ Close(Here) /\ UNCHANGED still
    BY DEF MkdirAt, WithDirfd, FirstSteps
<1>2. Ready
    BY <1>1, ReadyWithDirfd
<1>3. TreeInv' /\ Confined'
    <2>1. CASE UNCHANGED <<tree, touched>>
        BY <1>1, <1>2, <2>1 DEF Ready, TreeInv, tree, Confined
    <2>2. CASE MakeAt(job.dirfd, Leaf(job.arg), "dir", Base) /\ Touch({job.dirfd})
        <3>1. TreeInv'
            BY <1>2, <2>2, MakeAtKeeps DEF Ready, Kinds
        <3>2. job.dirfd \in Inner
            BY <1>1, <1>2, TargetInside DEF Ready
        <3> QED BY <1>1, <1>2, <2>2, <3>1, <3>2, TouchInside DEF Ready
    <2> QED BY <2>1, <2>2 DEF MkdirAt
<1>4. CASE Deeper(Released)
    BY <1>1, <1>2, <1>3, <1>4, DeeperKeeps
<1>5. CASE job' = [Released EXCEPT !.pc = "error"]
    BY <1>1, <1>2, <1>3, <1>5, ReleasedEnds
<1> QED BY <1>4, <1>5 DEF MkdirAt

LEMMA StatRemoveKeeps == ASSUME SandboxInv, StatRemove PROVE SandboxInv'
<1>1. job.pc = "lstat" /\ job.pc \in WithDirfd /\ UNCHANGED <<still, fds>> /\ UNCHANGED <<tree, touched>>
    BY DEF StatRemove, WithDirfd, FirstSteps
<1>2. Ready
    BY <1>1, ReadyWithDirfd
<1>3. TreeInv' /\ Confined'
    BY <1>1, <1>2 DEF Ready, TreeInv, tree, Confined
<1>4. Same(job, job', {"pc", "isdir"}) /\ job'.pc \in {"over", "unlink"}
    BY <1>2 DEF StatRemove, Ready, Same, Typed, JobFields
<1>5. Typed(job')
    BY <1>2, <1>4 DEF Ready, Typed, Same, JobFields
<1>6. Placed(job')
    BY <1>1, <1>2, <1>4 DEF Ready, Placed, Same, JobFields, WithDirfd, FirstSteps, Walking
<1>7. Beneath(job') /\ Open(job') = 0 /\ Holds(job') = Holds(job)
    BY <1>4 DEF Beneath, Open, Same, JobFields, Walking, Holds
<1>8. Counts' /\ openat2' = openat2 /\ Known' = Holds(job') + Open(job')
    BY <1>1, <1>2, <1>7 DEF Ready
<1> QED BY <1>3, <1>5, <1>6, <1>7, <1>8, KeptTogether

LEMMA RemoveStatKeeps == ASSUME SandboxInv, RemoveStat PROVE SandboxInv'
<1>1. job.pc = "unlink" /\ job.pc \in WithDirfd \ {"old"} /\ UNCHANGED still /\ UNCHANGED <<kind, goal>>
    BY DEF RemoveStat, WithDirfd
<1>2. Ready
    BY <1>1, ReadyWithDirfd
<1>3. Target \in Inner \cup {Nil} /\ job.dirfd \in Inner
    BY <1>1, <1>2, TargetInside DEF Ready
<1>4. TreeInv' /\ Confined'
    <2>1. CASE UNCHANGED <<entry, touched>>
        BY <1>1, <1>2, <2>1 DEF Ready, TreeInv, Confined
    <2>2. CASE Put(job.dirfd, Leaf(job.arg), Nil) /\ Touch({job.dirfd, Target})
        <3>1. TreeInv'
            BY <1>1, <1>2, <2>2, PutKeeps DEF Ready
        <3> QED BY <1>1, <1>2, <1>3, <2>2, <3>1, TouchInside DEF Ready
    <2> QED BY <2>1, <2>2 DEF RemoveStat
<1>5. CASE (To("over") \/ To("error")) /\ UNCHANGED fds
    BY <1>1, <1>2, <1>4, <1>5, ToKeeps
<1>6. CASE Close(Here) /\ Resolve(Released, Front(job.arg), "parent")
    <2>1. /\ Typed(Released) /\ Counts'
          /\ Known' = Holds(Released)
          /\ Released.call = "rename" => Released.old \in Inner
        BY <1>1, <1>2, <1>6, ReleasedIsTyped
    <2>2. Front(job.arg) \in Seq(Names) /\ "parent" \in FirstSteps
        BY <1>2, FrontIsSeq DEF Ready, Typed, FirstSteps
    <2> HIDE DEF Released
    <2> QED BY <1>1, <1>2, <1>4, <1>6, <2>1, <2>2, ResolveKeeps
<1> QED BY <1>5, <1>6 DEF RemoveStat

-----------------------------------------------------------------------------
\* removeAll, walks and listings: the stack of directories

\* A step that gives the operation a stack.
LEMMA WalkKeeps ==
    ASSUME Typed(job), Placed(job), DOMAIN job' = JobFields,
           Same(job, job', {"pc", "stack", "held"}), job'.pc \in Walking, job'.held \in Int,
           job'.stack \in Seq(FrameSet), Stacked(job'.stack),
           job'.pc = "each" => Last(job'.stack).fd # Nil,
           job'.pc \in {"callback", "descend", "add", "reading"} => Last(job'.stack).fd = Nil,
           TreeInv', Confined', openat2' = openat2, Counts',
           Known' = Holds(job') + Open(job')
    PROVE  SandboxInv'
<1>1. Typed(job')
    BY DEF Typed, Same, JobFields
<1>2. Placed(job')
    BY DEF Placed, Same, JobFields, WithDirfd, FirstSteps, Walking
<1>3. Beneath(job')
    BY DEF Beneath, Walking
<1> QED BY <1>1, <1>2, <1>3, KeptTogether

LEMMA OpenOnStack ==
    ASSUME NEW j, j.pc \in Walking
    PROVE  Open(j) = IF j.pc \in {"each", "reading"} THEN Len(j.stack) ELSE Len(j.stack) - 1
BY DEF Open, Walking

\* What holds while a directory is on the stack.
Deep == /\ TreeInv /\ Confined /\ Typed(job) /\ Placed(job) /\ Counts
        /\ Holds(job) \in Int /\ job.held \in Int
        /\ job.stack \in Seq(FrameSet) /\ Stacked(job.stack) /\ Top \in FrameSet
        /\ Len(job.stack) \in Nat /\ Len(job.stack) >= 1
        /\ Found \in Inner \cup {Nil} /\ Top.dir \in Inner
        /\ job.pc \in {"each", "reading"} => Known = Holds(job) + Len(job.stack)
        /\ job.pc \notin {"each", "reading"} => Known = Holds(job) + Len(job.stack) - 1

LEMMA DeepWhileWalking == ASSUME SandboxInv, job.pc \in Walking PROVE Deep
<1>1. TreeInv /\ Confined /\ Typed(job) /\ Placed(job) /\ Counts /\ Holds(job) \in Int /\ job.held \in Int
    BY DEF SandboxInv, FdInv, Typed, Holds
<1>2. /\ job.stack \in Seq(FrameSet) /\ Stacked(job.stack) /\ Top \in FrameSet
      /\ Len(job.stack) \in Nat /\ Len(job.stack) >= 1
      /\ Found \in Inner \cup {Nil} /\ Top.dir \in Inner
    BY <1>1, FoundInside
<1>3. Open(job) = IF job.pc \in {"each", "reading"} THEN Len(job.stack) ELSE Len(job.stack) - 1
    BY OpenOnStack
<1>4. Known = Holds(job) + Open(job)
    BY DEF SandboxInv, FdInv
<1>5. /\ job.pc \in {"each", "reading"} => Known = Holds(job) + Len(job.stack)
      /\ job.pc \notin {"each", "reading"} => Known = Holds(job) + Len(job.stack) - 1
    BY <1>1, <1>2, <1>3, <1>4
<1> QED BY <1>1, <1>2, <1>5 DEF Deep

\* The operation is done with the top: the one below is read on, or it is over.
LEMMA PopKeeps ==
    ASSUME Deep, job.pc \in Walking, Pop, TreeInv', Confined', openat2' = openat2, Counts',
           Known' = Holds(job) + Len(job.stack) - 1
    PROVE  SandboxInv'
<1>1. CASE Len(job.stack) = 1
    <2>1. job' = [job EXCEPT !.stack = <<>>, !.pc = "over"]
        BY <1>1 DEF Pop
    <2> DEFINE j == [job EXCEPT !.stack = <<>>]
    <2>2. Same(job, j, {"stack"}) /\ j.stack = <<>>
        BY DEF Deep, Same, Typed, JobFields
    <2>3. job' = [j EXCEPT !.pc = "over"]
        BY <2>1 DEF Deep, Typed, JobFields
    <2> HIDE DEF j
    <2>4. Typed(j) /\ Holds(j) = Holds(job) /\ j.then = job.then /\ j.call = job.call /\ j.old = job.old
        <3>1. <<>> \in Seq(FrameSet)
            BY EmptySeq
        <3> QED BY <2>2, <3>1 DEF Deep, Typed, Same, JobFields, Holds
    <2>5. /\ j.then \in {"old", "new"} => j.call = "rename"
          /\ j.call = "rename" /\ j.then # "old" => j.old \in Inner
        BY <2>4 DEF Deep, Placed
    <2>6. Known' = Holds(j)
        BY <1>1, <2>4 DEF Deep
    <2> QED BY <2>3, <2>4, <2>5, <2>6, EndsHere
<1>2. CASE Len(job.stack) # 1
    <2>1. job' = [job EXCEPT !.stack = Front(@), !.pc = "each"]
        BY <1>2 DEF Pop
    <2>2. Same(job, job', {"pc", "stack", "held"}) /\ job'.pc = "each" /\ job'.stack = Front(job.stack)
          /\ job'.held = job.held /\ Holds(job') = Holds(job)
        BY <2>1 DEF Deep, Same, Typed, JobFields, Holds
    <2>3. /\ job'.stack \in Seq(FrameSet) /\ Len(job'.stack) = Len(job.stack) - 1
          /\ Stacked(job'.stack) /\ Last(job'.stack).fd # Nil
        BY <1>2, <2>2, Popped DEF Deep
    <2>4. Known' = Holds(job') + Open(job')
        <3>1. Open(job') = Len(job.stack) - 1
            BY <2>2, <2>3, OpenOnStack DEF Walking
        <3> QED BY <2>2, <3>1 DEF Deep
    <2>5. DOMAIN job' = JobFields /\ job'.pc \in Walking
        BY <2>2 DEF Same, Walking
    <2> QED BY <2>2, <2>3, <2>4, <2>5, WalkKeeps DEF Deep
<1> QED BY <1>1, <1>2

\* The operation goes on with the top.
LEMMA OnTop ==
    ASSUME Deep, job.pc \in Walking, NEW label \in {"into", "rmdir", "descend", "add", "reading"},
           To(label), label \in {"descend", "add", "reading"} => Top.fd = Nil,
           label = "reading" => Known' = Holds(job) + Len(job.stack),
           label # "reading" => Known' = Holds(job) + Len(job.stack) - 1,
           TreeInv', Confined', openat2' = openat2, Counts'
    PROVE  SandboxInv'
<1>1. Same(job, job', {"pc", "stack", "held"}) /\ job'.pc = label /\ job'.stack = job.stack
      /\ job'.held = job.held /\ Holds(job') = Holds(job)
    BY DEF To, Deep, Same, Typed, JobFields, Holds
<1>2. Known' = Holds(job') + Open(job')
    <2>1. Open(job') = IF label = "reading" THEN Len(job.stack) ELSE Len(job.stack) - 1
        BY <1>1, OpenOnStack DEF Walking
    <2> QED BY <1>1, <2>1 DEF Deep
<1>3. DOMAIN job' = JobFields /\ job'.pc \in Walking
    BY <1>1 DEF Same, Walking
<1>4. job'.stack \in Seq(FrameSet) /\ Stacked(job'.stack) /\ job'.held \in Int
    BY <1>1 DEF Deep
<1>5. job'.pc \in {"callback", "descend", "add", "reading"} => Last(job'.stack).fd = Nil
    BY <1>1 DEF Top
<1>6. job'.pc # "each"
    BY <1>1
<1> QED BY <1>1, <1>2, <1>3, <1>4, <1>5, <1>6, WalkKeeps DEF Deep

\* The directory on top is opened and read.
LEMMA ReadKeeps ==
    ASSUME Deep, job.pc \in Walking \ {"each", "reading"}, NEW o \in Inner, Touch({o}), fds' = fds + 1,
           job' = [job EXCEPT !.pc = "each", !.stack[Len(job.stack)] = Reading(@, o)],
           UNCHANGED <<tree, still>>
    PROVE  SandboxInv'
<1> DEFINE n == Len(job.stack)
           g == Reading(job.stack[n], o)
           u == [job.stack EXCEPT ![n] = g]
<1>1. Same(job, job', {"pc", "stack", "held"}) /\ job'.pc = "each" /\ job'.held = job.held /\ Holds(job') = Holds(job)
      /\ job'.stack = u
    BY DEF Deep, Same, Typed, JobFields, Holds
<1>2. g \in FrameSet /\ g.fd # Nil
    <2>1. job.stack[n] \in FrameSet
        BY DEF Deep, Top, Last
    <2> HIDE DEF Reading
    <2> QED BY <2>1, ReadingIsTyped DEF Deep
<1> HIDE DEF g
<1>3. u \in Seq(FrameSet) /\ Len(u) = Len(job.stack) /\ Last(u) = g /\ Stacked(u)
    BY <1>2, Replaced DEF Deep
<1> HIDE DEF u
<1>4. Known' = Holds(job') + Open(job')
    <2>1. Open(job') = Len(job.stack)
        <3>1. job'.pc \in Walking
            BY <1>1 DEF Walking
        <3>2. Open(job') = IF job'.pc \in {"each", "reading"} THEN Len(job'.stack) ELSE Len(job'.stack) - 1
            BY ONLY <3>1, OpenOnStack
        <3> QED BY ONLY <1>1, <1>3, <3>2
    <2>2. Known = Holds(job) + Len(job.stack) - 1
          /\ Counts /\ Holds(job) \in Int /\ Len(job.stack) \in Nat
        BY DEF Deep
    <2> QED BY <1>1, <2>1, <2>2
<1>5. DOMAIN job' = JobFields /\ job'.pc \in Walking /\ Counts'
    BY <1>1 DEF Same, Walking, Deep
<1>6. TreeInv'
    BY DEF Deep, TreeInv, tree
<1>7. Confined'
    BY {o} \in SUBSET (Inner \cup {Nil}), TouchInside DEF Deep
<1> QED BY <1>1, <1>2, <1>3, <1>4, <1>5, <1>6, <1>7, WalkKeeps DEF Deep

\* A walk that fails closes the directories it was reading.
LEMMA AbandonKeeps ==
    ASSUME Deep, job.pc \in {"callback", "descend", "add", "reading"}, NEW n \in Int, Abandon(n),
           TreeInv', Confined', openat2' = openat2, leaked' \in Int,
           job.pc = "reading" => n - (leaked' - leaked) = 0 - 1,
           job.pc # "reading" => n - (leaked' - leaked) = 0
    PROVE  SandboxInv'
<1>1. Last(job.stack).fd = Nil
    BY DEF Deep, Placed
<1>2. OpenFrames = Len(job.stack) - 1
    BY <1>1, BeingRead DEF Deep, OpenFrames
<1>3. fds' = fds - (Len(job.stack) - 1) + n /\ job' = [job EXCEPT !.pc = "error", !.stack = <<>>]
    BY <1>2 DEF Abandon
<1>4. Counts' /\ Known' = Holds(job)
    <2>1. /\ job.pc = "reading" => Known = Holds(job) + Len(job.stack)
          /\ job.pc # "reading" => Known = Holds(job) + Len(job.stack) - 1
          /\ Counts /\ Holds(job) \in Int /\ Len(job.stack) \in Nat
        BY DEF Deep
    <2>2. fds' = fds - (Len(job.stack) - 1) + n
        BY <1>3
    <2> DEFINE k == IF job.pc = "reading" THEN 1 ELSE 0
    <2>3. k \in Int /\ n - (leaked' - leaked) = 0 - k
        OBVIOUS
    <2>4. fds - leaked = Holds(job) + Len(job.stack) - 1 + k
        BY <2>1
    <2> HIDE DEF k
    <2>5. fds \in Int /\ leaked \in Int /\ Holds(job) \in Int /\ Len(job.stack) \in Int
        BY ONLY <2>1 DEF Counts
    <2>6. fds' \in Int /\ fds' - leaked' = Holds(job)
        <3>1. PICK m \in Int : m = leaked'
            OBVIOUS
        <3>2. PICK f \in Int, l \in Int, h \in Int, d \in Int, c \in Int :
                f = fds /\ l = leaked /\ h = Holds(job) /\ d = Len(job.stack) /\ c = k
            BY ONLY <2>3, <2>5
        <3>3. f - l = h + d - 1 + c /\ n - (m - l) = 0 - c /\ fds' = f - (d - 1) + n
            BY ONLY <2>2, <2>3, <2>4, <3>1, <3>2
        <3>4. f - (d - 1) + n \in Int /\ (f - (d - 1) + n) - m = h
            BY ONLY <3>3, f \in Int, l \in Int, h \in Int, d \in Int, c \in Int, m \in Int, n \in Int
        <3> QED BY ONLY <3>1, <3>2, <3>3, <3>4
    <2> QED BY ONLY <2>6, leaked' \in Int DEF Known, Counts
<1> DEFINE j == [job EXCEPT !.stack = <<>>]
<1>5. Same(job, j, {"stack"}) /\ j.stack = <<>>
    BY DEF Deep, Same, Typed, JobFields
<1>6. job' = [j EXCEPT !.pc = "error"]
    BY <1>3 DEF Deep, Typed, JobFields
<1> HIDE DEF j
<1>7. Typed(j) /\ Holds(j) = Holds(job) /\ j.then = job.then /\ j.call = job.call /\ j.old = job.old
    <2>1. <<>> \in Seq(FrameSet)
        BY EmptySeq
    <2> QED BY <1>5, <2>1 DEF Deep, Typed, Same, JobFields, Holds
<1>8. /\ j.then \in {"old", "new"} => j.call = "rename"
      /\ j.call = "rename" /\ j.then # "old" => j.old \in Inner
    BY <1>7 DEF Deep, Placed
<1>9. Known' = Holds(j)
    BY <1>4, <1>7
<1> QED BY <1>4, <1>6, <1>7, <1>8, <1>9, EndsHere

LEMMA OpenParentKeeps == ASSUME SandboxInv, OpenParent PROVE SandboxInv'
<1>1. job.pc = "parent" /\ job.pc \in WithDirfd \ {"old"} /\ UNCHANGED <<openat2, strayed>> /\ UNCHANGED tree
    BY DEF OpenParent, WithDirfd, FirstSteps
<1>2. Ready
    BY <1>1, ReadyWithDirfd
<1>3. TreeInv' /\ Confined'
    <2>1. Opened(Target) \in Inner \cup {Nil}
        BY <1>1, <1>2, TargetInside DEF Ready, Opened
    <2>2. UNCHANGED touched \/ Touch({Opened(Target)})
        BY DEF OpenParent
    <2>3. TreeInv'
        BY <1>1, <1>2 DEF Ready, TreeInv, tree
    <2>4. CASE UNCHANGED touched
        BY <1>1, <1>2, <2>3, <2>4 DEF Ready, Confined
    <2>5. CASE Touch({Opened(Target)})
        BY <1>1, <1>2, <2>1, <2>3, <2>5, TouchInside DEF Ready
    <2> QED BY <2>2, <2>4, <2>5
<1>4. CASE To("over") /\ (Leak \/ UNCHANGED <<fds, leaked>>)
    BY <1>1, <1>2, <1>3, <1>4, ToKeeps
<1>5. CASE /\ Dir(Opened(Target)) /\ fds' = fds - Here + 1 /\ leaked' = leaked
           /\ job' = [Released EXCEPT !.pc = "try", !.held = @ + 1,
                                      !.stack = <<Frame(Opened(Target), Leaf(job.path), "dir")>>]
    <2> DEFINE f == Frame(Opened(Target), Leaf(job.path), "dir")
    <2>1. Opened(Target) \in Inner
        <3>1. Target \in Inner \cup {Nil}
            BY <1>1, <1>2, TargetInside DEF Ready
        <3> QED BY <1>5, <3>1 DEF Dir, Opened
    <2>2. Leaf(job.path) \in Names \cup {"."}
        BY <1>2, LastIsMember DEF Leaf, Ready, Typed
    <2>3. f \in FrameSet
        BY <2>1, <2>2, FrameIsTyped DEF Kinds
    <2>4. fds' = fds - Here + 1 /\ job' = [Released EXCEPT !.pc = "try", !.held = @ + 1, !.stack = <<f>>]
        BY <1>5
    <2> HIDE DEF f
    <2>5. Same(job, job', {"pc", "stack", "held"}) /\ DOMAIN job' = JobFields
          /\ job'.pc = "try" /\ job'.stack = <<f>> /\ job'.held = job.held - Here + 1
          /\ job'.files = job.files
        BY <1>2, <2>4 DEF Released, Ready, Same, Typed, JobFields
    <2>6. <<f>> \in Seq(FrameSet) /\ Len(<<f>>) = 1 /\ Stacked(<<f>>)
        BY <2>3, Alone
    <2>7. Here \in Int
        BY DEF Here
    <2>8. job'.pc \in Walking
        BY <2>5 DEF Walking
    <2>9. Open(job') = 0
        <3>1. Open(job') = IF job'.pc \in {"each", "reading"} THEN Len(job'.stack) ELSE Len(job'.stack) - 1
            BY ONLY <2>8, OpenOnStack
        <3> QED BY ONLY <2>5, <2>6, <3>1
    <2>10. Counts' /\ job'.held \in Int /\ Known' = Holds(job') + Open(job')
        <3>1. Counts /\ Known = job.held + job.files /\ job.held \in Int /\ job.files \in Int
            BY <1>2 DEF Ready, Typed, Holds
        <3> QED BY <1>5, <2>5, <2>7, <2>9, <3>1 DEF Holds
    <2> QED BY <1>1, <1>2, <1>3, <2>5, <2>6, <2>8, <2>10, WalkKeeps DEF Ready
<1> QED BY <1>4, <1>5 DEF OpenParent

LEMMA RemoveAllFromKeeps == ASSUME SandboxInv, RemoveAllFrom PROVE SandboxInv'
<1>1. job.pc = "try" /\ job.pc \in Walking /\ UNCHANGED <<still, fds>> /\ UNCHANGED <<kind, goal>>
    BY DEF RemoveAllFrom, Walking
<1>2. Deep
    BY <1>1, DeepWhileWalking
<1>3. Counts' /\ openat2' = openat2 /\ Known' = Holds(job) + Len(job.stack) - 1
    BY <1>1, <1>2 DEF Deep
<1>4. CASE Found # Nil /\ ~Dir(Found)
    <2>1. Put(Top.dir, Top.name, Nil) /\ Touch({Top.dir, Found}) /\ Pop
        BY <1>4 DEF RemoveAllFrom
    <2>2. TreeInv'
        BY <1>1, <1>2, <2>1, PutKeeps DEF Deep
    <2>3. Confined'
        BY <1>1, <1>2, <2>1, TouchInside DEF Deep
    <2> QED BY <1>1, <1>2, <1>3, <2>1, <2>2, <2>3, PopKeeps
<1>5. CASE ~(Found # Nil /\ ~Dir(Found))
    <2>1. UNCHANGED <<entry, touched>> /\ (Pop \/ To("into"))
        BY <1>5 DEF RemoveAllFrom
    <2>2. TreeInv' /\ Confined'
        BY <1>1, <1>2, <2>1 DEF Deep, TreeInv, Confined
    <2> QED BY <1>1, <1>2, <1>3, <2>1, <2>2, PopKeeps, OnTop
<1> QED BY <1>4, <1>5

LEMMA RemoveContentsFromKeeps == ASSUME SandboxInv, RemoveContentsFrom PROVE SandboxInv'
<1>1. job.pc = "into" /\ job.pc \in Walking \ {"each", "reading"} /\ UNCHANGED still /\ UNCHANGED tree
    BY DEF RemoveContentsFrom, Walking
<1>2. Deep
    BY <1>1, DeepWhileWalking
<1>3. CASE Dir(OpenFdAt(Found))
    <2>1. OpenFdAt(Found) \in Inner
        BY <1>2, <1>3 DEF Deep, OpenFdAt, Opened, Dir
    <2>2. /\ fds' = fds + 1 /\ Touch({OpenFdAt(Found)})
          /\ job' = [job EXCEPT !.pc = "each", !.stack[Len(job.stack)] = Reading(@, OpenFdAt(Found))]
        BY <1>3 DEF RemoveContentsFrom
    <2> QED BY <1>1, <1>2, <2>1, <2>2, ReadKeeps
<1>4. CASE ~Dir(OpenFdAt(Found))
    <2>1. UNCHANGED <<fds, touched>> /\ (Pop \/ To("rmdir"))
        BY <1>4 DEF RemoveContentsFrom
    <2>2. TreeInv' /\ Confined'
        BY <1>1, <1>2, <2>1 DEF Deep, TreeInv, tree, Confined
    <2>3. Counts' /\ Known' = Holds(job) + Len(job.stack) - 1
        BY <1>1, <1>2, <2>1 DEF Deep
    <2> QED BY <1>1, <1>2, <2>1, <2>2, <2>3, PopKeeps, OnTop
<1> QED BY <1>3, <1>4

LEMMA EachNameKeeps == ASSUME SandboxInv, EachName PROVE SandboxInv'
<1>1. job.pc = "each" /\ job.pc \in Walking /\ UNCHANGED <<still, fds>> /\ UNCHANGED <<tree, touched>>
    BY DEF EachName, Walking
<1>2. Deep
    BY <1>1, DeepWhileWalking
<1>3. TreeInv' /\ Confined'
    BY <1>1, <1>2 DEF Deep, TreeInv, tree, Confined
<1>4. PICK e \in Top.todo :
        job' = [job EXCEPT !.pc = IF job.call = "remove" THEN "try" ELSE "callback",
                           !.stack = Append(Front(@) \o <<[Top EXCEPT !.todo = @ \ {e}]>>,
                                            Frame(Top.fd, e.name, e.sort))]
    BY DEF EachName
<1> DEFINE t == [Top EXCEPT !.todo = @ \ {e}]
           f == Frame(Top.fd, e.name, e.sort)
           u == Append(Front(job.stack) \o <<t>>, f)
<1>5. Top \in FrameSet /\ Top.fd # Nil
    BY <1>1, <1>2 DEF Deep, Placed, Top
<1>6. Top.fd \in Inner /\ e.name \in Names /\ e.sort \in Kinds
    BY <1>4, <1>5 DEF FrameSet
<1>7. t \in FrameSet /\ t.fd # Nil
    BY <1>5 DEF FrameSet
<1>8. f \in FrameSet /\ f.fd = Nil
    BY <1>6, FrameIsTyped
<1>9. Same(job, job', {"pc", "stack", "held"}) /\ DOMAIN job' = JobFields
      /\ job'.pc \in {"try", "callback"} /\ job'.stack = u /\ job'.held = job.held /\ Holds(job') = Holds(job)
    BY <1>2, <1>4 DEF Deep, Same, Typed, JobFields, Holds
<1> HIDE DEF t, f
<1>10. u \in Seq(FrameSet) /\ Len(u) = Len(job.stack) + 1 /\ Last(u) = f /\ Stacked(u)
    <2>1. job.stack \in Seq(FrameSet) /\ Stacked(job.stack)
        BY <1>2 DEF Deep
    <2> DEFINE w == <<t>>
    <2>2. w \in Seq(FrameSet) /\ Len(w) = 1 /\ w[1].fd # Nil
        BY <1>7
    <2>3. u = Append(Front(job.stack) \o w, f)
        OBVIOUS
    <2> HIDE DEF u, w
    <2>4. f \in FrameSet
        BY <1>8
    <2>5. \A x : x = Append(Front(job.stack) \o w, f) =>
              x \in Seq(FrameSet) /\ Len(x) = Len(job.stack) + 1 /\ Last(x) = f /\ Stacked(x)
        BY ONLY <2>1, <2>2, <2>4, Pushed, Zenon
    <2> QED BY ONLY <2>3, <2>5, Zenon
<1> HIDE DEF u
<1>11. job'.pc \in Walking
    BY <1>9 DEF Walking
<1>12. Open(job') = Len(job.stack)
    <2>1. Open(job') = IF job'.pc \in {"each", "reading"} THEN Len(job'.stack) ELSE Len(job'.stack) - 1
        BY <1>11, OpenOnStack
    <2>2. Len(job.stack) \in Nat
        BY <1>2 DEF Deep
    <2> QED BY <1>9, <1>10, <2>1, <2>2
<1>13. Counts' /\ job'.held \in Int /\ Known' = Holds(job') + Open(job')
    BY <1>1, <1>2, <1>9, <1>12 DEF Deep
<1> QED BY <1>1, <1>2, <1>3, <1>8, <1>9, <1>10, <1>11, <1>13, WalkKeeps DEF Deep

LEMMA CloseDirectoryKeeps == ASSUME SandboxInv, CloseDirectory PROVE SandboxInv'
<1>1. /\ job.pc = "each" /\ job.pc \in Walking /\ UNCHANGED still /\ UNCHANGED <<tree, touched>>
      /\ fds' = fds - 1 /\ (To("rmdir") \/ Pop)
    BY DEF CloseDirectory, Walking, Close
<1>2. Deep
    BY <1>1, DeepWhileWalking
<1>3. TreeInv' /\ Confined'
    BY <1>1, <1>2 DEF Deep, TreeInv, tree, Confined
<1>4. Counts' /\ Known' = Holds(job) + Len(job.stack) - 1
    BY <1>1, <1>2 DEF Deep
<1> QED BY <1>1, <1>2, <1>3, <1>4, PopKeeps, OnTop

LEMMA RemoveDirectoryKeeps == ASSUME SandboxInv, RemoveDirectory PROVE SandboxInv'
<1>1. job.pc = "rmdir" /\ job.pc \in Walking /\ UNCHANGED <<still, fds>> /\ UNCHANGED <<kind, goal>> /\ Pop
    BY DEF RemoveDirectory, Walking
<1>2. Deep
    BY <1>1, DeepWhileWalking
<1>3. Counts' /\ Known' = Holds(job) + Len(job.stack) - 1
    BY <1>1, <1>2 DEF Deep
<1>4. CASE Put(Top.dir, Top.name, Nil) /\ Touch({Top.dir, Found})
    <2>1. TreeInv'
        BY <1>1, <1>2, <1>4, PutKeeps DEF Deep
    <2>2. Confined'
        BY <1>1, <1>2, <1>4, TouchInside DEF Deep
    <2> QED BY <1>1, <1>2, <1>3, <2>1, <2>2, PopKeeps
<1>5. CASE UNCHANGED <<entry, touched>>
    <2>1. TreeInv' /\ Confined'
        BY <1>1, <1>2, <1>5 DEF Deep, TreeInv, Confined
    <2> QED BY <1>1, <1>2, <1>3, <2>1, PopKeeps
<1> QED BY <1>4, <1>5 DEF RemoveDirectory

LEMMA WalkDiratKeeps == ASSUME SandboxInv, WalkDirat PROVE SandboxInv'
<1>1. job.pc = "visit" /\ job.pc \in WithDirfd \ {"old"} /\ UNCHANGED <<still, fds>> /\ UNCHANGED <<tree, touched>>
    BY DEF WalkDirat, WithDirfd, FirstSteps
<1>2. Ready
    BY <1>1, ReadyWithDirfd
<1>3. TreeInv' /\ Confined'
    BY <1>1, <1>2 DEF Ready, TreeInv, tree, Confined
<1>4. CASE To("error") \/ To("over")
    BY <1>1, <1>2, <1>3, <1>4, ToKeeps
<1>5. CASE /\ Target # Nil
           /\ job' = [job EXCEPT !.pc = "callback", !.stack = <<Frame(job.dirfd, Leaf(job.arg), kind[Target])>>]
    <2> DEFINE f == Frame(job.dirfd, Leaf(job.arg), kind[Target])
    <2>1. Target \in Inner /\ job.dirfd \in Inner /\ Leaf(job.arg) \in Names \cup {"."}
        BY <1>1, <1>2, <1>5, TargetInside DEF Ready
    <2>2. kind[Target] \in Kinds
        BY <1>2, <2>1 DEF Ready, TreeInv, Inner
    <2>3. f \in FrameSet /\ f.fd = Nil
        BY <2>1, <2>2, FrameIsTyped
    <2>4. job' = [job EXCEPT !.pc = "callback", !.stack = <<f>>]
        BY <1>5
    <2> HIDE DEF f
    <2>5. Same(job, job', {"pc", "stack", "held"}) /\ DOMAIN job' = JobFields
          /\ job'.pc = "callback" /\ job'.stack = <<f>> /\ job'.held = job.held /\ Holds(job') = Holds(job)
        BY <1>2, <2>4 DEF Ready, Same, Typed, JobFields, Holds
    <2>6. <<f>> \in Seq(FrameSet) /\ Len(<<f>>) = 1 /\ Last(<<f>>) = f /\ Stacked(<<f>>)
        BY <2>3, Alone
    <2>7. job'.pc \in Walking
        BY <2>5 DEF Walking
    <2>8. Open(job') = 0
        <3>1. Open(job') = IF job'.pc \in {"each", "reading"} THEN Len(job'.stack) ELSE Len(job'.stack) - 1
            BY ONLY <2>7, OpenOnStack
        <3> QED BY ONLY <2>5, <2>6, <3>1
    <2>9. Counts' /\ job'.held \in Int /\ Known' = Holds(job') + Open(job')
        BY <1>1, <1>2, <2>5, <2>8 DEF Ready
    <2> QED BY <1>1, <1>2, <1>3, <2>3, <2>5, <2>6, <2>7, <2>9, WalkKeeps DEF Ready
<1> QED BY <1>4, <1>5 DEF WalkDirat

\* The callback is done: a directory is opened next.
LEMMA DescendKeeps ==
    ASSUME Deep, job.pc = "callback", Descend, TreeInv', Confined', UNCHANGED <<openat2, leaked>>
    PROVE  SandboxInv'
<1>1. job.pc \in Walking /\ Top.fd = Nil
    BY DEF Deep, Placed, Walking, Top
<1>2. Counts' /\ Known' = Holds(job) + Len(job.stack) - 1
    BY DEF Deep, Descend
<1>3. To("descend") \/ Pop
    BY DEF Descend
<1> QED BY <1>1, <1>2, <1>3, PopKeeps, OnTop

LEMMA LchownatKeeps == ASSUME SandboxInv, Lchownat PROVE SandboxInv'
<1>1. job.pc = "callback" /\ job.pc \in Walking /\ UNCHANGED still /\ UNCHANGED tree
    BY DEF Lchownat, Walking
<1>2. Deep
    BY <1>1, DeepWhileWalking
<1>3. TreeInv'
    BY <1>1, <1>2 DEF Deep, TreeInv, tree
<1>4. CASE Abandon(0) /\ UNCHANGED touched
    <2>1. Confined'
        BY <1>1, <1>2, <1>4 DEF Deep, Confined
    <2>2. leaked' \in Int /\ leaked' = leaked
        BY <1>1, <1>2 DEF Deep
    <2> QED BY <1>1, <1>2, <1>3, <1>4, <2>1, <2>2, AbandonKeeps
<1>5. CASE Touch({Found}) /\ Descend
    <2>1. Confined'
        BY <1>1, <1>2, <1>5, TouchInside DEF Deep
    <2> QED BY <1>1, <1>2, <1>3, <1>5, <2>1, DescendKeeps
<1> QED BY <1>4, <1>5 DEF Lchownat

LEMMA SizeOfKeeps == ASSUME SandboxInv, SizeOf PROVE SandboxInv'
<1>1. job.pc = "callback" /\ job.pc \in Walking /\ UNCHANGED still /\ UNCHANGED <<tree, touched>>
      /\ (Abandon(0) \/ Descend)
    BY DEF SizeOf, Walking
<1>2. Deep
    BY <1>1, DeepWhileWalking
<1>3. TreeInv' /\ Confined'
    BY <1>1, <1>2 DEF Deep, TreeInv, tree, Confined
<1>4. leaked' \in Int /\ leaked' = leaked
    BY <1>1, <1>2 DEF Deep
<1> QED BY <1>1, <1>2, <1>3, <1>4, AbandonKeeps, DescendKeeps

LEMMA InfoOfKeeps == ASSUME SandboxInv, InfoOf PROVE SandboxInv'
<1>1. job.pc = "callback" /\ job.pc \in Walking /\ UNCHANGED <<openat2, leaked>> /\ UNCHANGED <<tree, touched>>
      /\ strayed' \in {strayed, strayed \cup {WorkDir}}
      /\ ((To("add") /\ UNCHANGED fds) \/ Descend)
    BY DEF InfoOf, Walking
<1>2. Deep
    BY <1>1, DeepWhileWalking
<1>3. TreeInv' /\ Confined'
    BY <1>1, <1>2 DEF Deep, TreeInv, tree, Confined
<1>4. CASE To("add") /\ UNCHANGED fds
    <2>1. Top.fd = Nil
        BY <1>1, <1>2 DEF Deep, Placed, Top
    <2>2. Counts' /\ Known' = Holds(job) + Len(job.stack) - 1
        BY <1>1, <1>2, <1>4 DEF Deep
    <2> QED BY <1>1, <1>2, <1>3, <1>4, <2>1, <2>2, OnTop
<1>5. CASE Descend
    BY <1>1, <1>2, <1>3, <1>5, DescendKeeps
<1> QED BY <1>1, <1>4, <1>5

\* A file is opened to be read.
LEMMA ReadingKeeps ==
    ASSUME Deep, job.pc \in {"callback", "add"}, To("reading"), fds' = fds + 1, leaked' = leaked,
           openat2' = openat2, TreeInv', Confined'
    PROVE  SandboxInv'
<1>1. job.pc \in Walking /\ Top.fd = Nil
    BY DEF Deep, Placed, Walking, Top
<1>2. Counts' /\ Known' = Holds(job) + Len(job.stack)
    BY DEF Deep
<1> QED BY <1>1, <1>2, OnTop

LEMMA AddToArchiveKeeps == ASSUME SandboxInv, AddToArchive PROVE SandboxInv'
<1>1. job.pc = "add" /\ job.pc \in Walking /\ UNCHANGED <<openat2, strayed>> /\ UNCHANGED tree
    BY DEF AddToArchive, Walking
<1>2. Deep
    BY <1>1, DeepWhileWalking
<1>3. TreeInv'
    BY <1>1, <1>2 DEF Deep, TreeInv, tree
<1>4. /\ \/ Pop /\ UNCHANGED <<fds, leaked>>
         \/ Abandon(0) /\ UNCHANGED leaked
         \/ To("reading") /\ fds' = fds + 1 /\ UNCHANGED leaked
         \/ Pop /\ Leak
      /\ UNCHANGED touched \/ Touch({Found})
    BY DEF AddToArchive
<1>5. Confined'
    <2>1. CASE UNCHANGED touched
        BY <1>1, <1>2, <2>1 DEF Deep, Confined
    <2>2. CASE Touch({Found})
        BY <1>1, <1>2, <2>2, TouchInside DEF Deep
    <2> QED BY <1>4, <2>1, <2>2
<1>6. CASE Abandon(0) /\ UNCHANGED leaked
    <2>1. leaked' \in Int /\ leaked' = leaked
        BY <1>2, <1>6 DEF Deep
    <2> QED BY <1>1, <1>2, <1>3, <1>5, <1>6, <2>1, AbandonKeeps
<1>7. CASE Pop /\ (UNCHANGED <<fds, leaked>> \/ Leak)
    <2>1. Counts' /\ Known' = Holds(job) + Len(job.stack) - 1
        BY <1>1, <1>2, <1>7 DEF Deep, Leak
    <2> QED BY <1>1, <1>2, <1>3, <1>5, <1>7, <2>1, PopKeeps
<1>8. CASE To("reading") /\ fds' = fds + 1 /\ UNCHANGED leaked
    BY <1>1, <1>2, <1>3, <1>5, <1>8, ReadingKeeps
<1> QED BY <1>4, <1>6, <1>7, <1>8

LEMMA CloseFileKeeps == ASSUME SandboxInv, CloseFile PROVE SandboxInv'
<1>1. job.pc = "reading" /\ job.pc \in Walking /\ UNCHANGED still /\ UNCHANGED <<tree, touched>>
    BY DEF CloseFile, Walking
<1>2. Deep
    BY <1>1, DeepWhileWalking
<1>3. TreeInv' /\ Confined'
    BY <1>1, <1>2 DEF Deep, TreeInv, tree, Confined
<1>4. CASE Pop /\ fds' = fds - 1
    <2>1. Counts' /\ Known' = Holds(job) + Len(job.stack) - 1
        BY <1>1, <1>2, <1>4 DEF Deep
    <2> QED BY <1>1, <1>2, <1>3, <1>4, <2>1, PopKeeps
<1>5. CASE Abandon(-1)
    <2>1. leaked' \in Int /\ -1 - (leaked' - leaked) = 0 - 1 /\ -1 \in Int
        BY <1>1, <1>2 DEF Deep
    <2> QED BY <1>1, <1>2, <1>3, <1>5, <2>1, AbandonKeeps
<1> QED BY <1>4, <1>5 DEF CloseFile

LEMMA WalkDirKeeps == ASSUME SandboxInv, WalkDir PROVE SandboxInv'
<1>1. job.pc = "descend" /\ job.pc \in Walking \ {"each", "reading"} /\ UNCHANGED still /\ UNCHANGED tree
    BY DEF WalkDir, Walking
<1>2. Deep
    BY <1>1, DeepWhileWalking
<1>3. CASE Dir(Opened(Found))
    <2>1. Opened(Found) \in Inner
        BY <1>2, <1>3 DEF Deep, Opened, Dir
    <2>2. /\ fds' = fds + 1 /\ Touch({Opened(Found)})
          /\ job' = [job EXCEPT !.pc = "each", !.stack[Len(job.stack)] = Reading(@, Opened(Found))]
        BY <1>3 DEF WalkDir
    <2> QED BY <1>1, <1>2, <2>1, <2>2, ReadKeeps
<1>4. CASE ~Dir(Opened(Found))
    <2>1. Abandon(0) /\ UNCHANGED touched /\ leaked' = leaked /\ leaked' \in Int
        BY <1>1, <1>2, <1>4 DEF WalkDir, Deep
    <2>2. TreeInv' /\ Confined'
        BY <1>1, <1>2, <2>1 DEF Deep, TreeInv, tree, Confined
    <2> QED BY <1>1, <1>2, <2>1, <2>2, AbandonKeeps
<1> QED BY <1>3, <1>4

LEMMA ReadDirMapKeeps == ASSUME SandboxInv, ReadDirMap PROVE SandboxInv'
<1>1. job.pc = "list" /\ job.pc \in WithDirfd \ {"old"} /\ UNCHANGED <<openat2, strayed>> /\ UNCHANGED tree
    BY DEF ReadDirMap, WithDirfd, FirstSteps
<1>2. Ready
    BY <1>1, ReadyWithDirfd
<1>3. TreeInv' /\ Confined'
    <2>1. Opened(Target) \in Inner \cup {Nil}
        BY <1>1, <1>2, TargetInside DEF Ready, Opened
    <2>2. UNCHANGED touched \/ Touch({Opened(Target)})
        BY DEF ReadDirMap
    <2>3. TreeInv'
        BY <1>1, <1>2 DEF Ready, TreeInv, tree
    <2>4. CASE UNCHANGED touched
        BY <1>1, <1>2, <2>3, <2>4 DEF Ready, Confined
    <2>5. CASE Touch({Opened(Target)})
        BY <1>1, <1>2, <2>1, <2>3, <2>5, TouchInside DEF Ready
    <2> QED BY <2>2, <2>4, <2>5
<1>4. CASE To("error") /\ (Leak \/ UNCHANGED <<fds, leaked>>)
    BY <1>1, <1>2, <1>3, <1>4, ToKeeps
<1>5. CASE /\ Dir(Opened(Target)) /\ fds' = fds + 1 /\ leaked' = leaked
           /\ job' = [job EXCEPT !.pc = "each",
                     !.stack = <<Reading(Frame(job.dirfd, Leaf(job.arg), "dir"), Opened(Target))>>]
    <2> DEFINE f == Frame(job.dirfd, Leaf(job.arg), "dir")
               g == Reading(f, Opened(Target))
    <2>1. job.dirfd \in Inner /\ Leaf(job.arg) \in Names \cup {"."} /\ Target \in Inner \cup {Nil}
        BY <1>1, <1>2, TargetInside DEF Ready
    <2>2. Opened(Target) \in Inner
        BY <1>5, <2>1 DEF Opened, Dir
    <2>3. f \in FrameSet
        BY <2>1, FrameIsTyped DEF Kinds
    <2>4. job' = [job EXCEPT !.pc = "each", !.stack = <<g>>]
        BY <1>5
    <2> HIDE DEF f
    <2>5. g \in FrameSet /\ g.fd # Nil
        BY <1>2, <2>2, <2>3, ReadingIsTyped DEF Ready
    <2> HIDE DEF g
    <2>6. Same(job, job', {"pc", "stack", "held"}) /\ DOMAIN job' = JobFields
          /\ job'.pc = "each" /\ job'.stack = <<g>> /\ job'.held = job.held /\ Holds(job') = Holds(job)
        BY <1>2, <2>4 DEF Ready, Same, Typed, JobFields, Holds
    <2>7. <<g>> \in Seq(FrameSet) /\ Len(<<g>>) = 1 /\ Last(<<g>>) = g /\ Stacked(<<g>>)
        BY <2>5, Alone
    <2>8. job'.pc \in Walking
        BY <2>6 DEF Walking
    <2>9. Open(job') = 1
        <3>1. Open(job') = IF job'.pc \in {"each", "reading"} THEN Len(job'.stack) ELSE Len(job'.stack) - 1
            BY ONLY <2>8, OpenOnStack
        <3> QED BY ONLY <2>6, <2>7, <3>1
    <2>10. Counts' /\ job'.held \in Int /\ Known' = Holds(job') + Open(job')
        BY <1>2, <1>5, <2>6, <2>9 DEF Ready, Typed
    <2> QED BY <1>1, <1>2, <1>3, <2>5, <2>6, <2>7, <2>8, <2>10, WalkKeeps DEF Ready
<1> QED BY <1>4, <1>5 DEF ReadDirMap

LEMMA ListDirectoryKeeps == ASSUME SandboxInv, ListDirectory PROVE SandboxInv'
<1>1. job.pc = "callback" /\ job.pc \in Walking /\ UNCHANGED <<openat2, strayed>> /\ UNCHANGED tree
    BY DEF ListDirectory, Walking
<1>2. Deep
    BY <1>1, DeepWhileWalking
<1>3. TreeInv'
    BY <1>1, <1>2 DEF Deep, TreeInv, tree
<1>4. /\ \/ Abandon(0) /\ UNCHANGED leaked
         \/ Pop /\ UNCHANGED <<fds, leaked>>
         \/ To("reading") /\ fds' = fds + 1 /\ UNCHANGED leaked
         \/ Abandon(1) /\ leaked' = leaked + 1
      /\ UNCHANGED touched \/ Touch({Found})
    BY DEF ListDirectory
<1>5. Confined'
    <2>1. CASE UNCHANGED touched
        BY <1>1, <1>2, <2>1 DEF Deep, Confined
    <2>2. CASE Touch({Found})
        BY <1>1, <1>2, <2>2, TouchInside DEF Deep
    <2> QED BY <1>4, <2>1, <2>2
<1>6. ASSUME NEW n \in {0, 1}, Abandon(n), leaked' = leaked + n
      PROVE  SandboxInv'
    <2>1. n \in Int /\ leaked' \in Int /\ n - (leaked' - leaked) = 0
        BY <1>2, <1>6 DEF Deep
    <2> QED BY <1>1, <1>2, <1>3, <1>5, <1>6, <2>1, AbandonKeeps
<1>7. CASE Pop /\ UNCHANGED <<fds, leaked>>
    <2>1. Counts' /\ Known' = Holds(job) + Len(job.stack) - 1
        BY <1>1, <1>2, <1>7 DEF Deep
    <2> QED BY <1>1, <1>2, <1>3, <1>5, <1>7, <2>1, PopKeeps
<1>8. CASE To("reading") /\ fds' = fds + 1 /\ UNCHANGED leaked
    BY <1>1, <1>2, <1>3, <1>5, <1>8, ReadingKeeps
<1>9. leaked \in Int /\ leaked + 0 = leaked
    BY <1>2 DEF Deep
<1> QED BY <1>4, <1>6, <1>7, <1>8, <1>9

-----------------------------------------------------------------------------
\* The server's own process

LEMMA ProcessMovesKeeps == ASSUME SandboxInv, ProcessMoves PROVE SandboxInv'
<1>1. /\ UNCHANGED <<touched, still, job, fds>> /\ TreeInv /\ Inside \subseteq Inner
    BY BelowInside DEF ProcessMoves, SandboxInv
<1>2. TreeInv'
    <2>1. CASE \E d, e \in Inside, n, m \in Names : MoveAt(d, n, e, m) /\ UNCHANGED <<kind, goal>>
        BY <1>1, <2>1, MoveAtKeeps
    <2>2. ASSUME NEW d \in Inside, NEW e \in Inside, NEW n \in Names, NEW m \in Names,
                 entry' = [entry EXCEPT ![d][n] = entry[e][m], ![e][m] = entry[d][n]],
                 UNCHANGED <<kind, goal>>
          PROVE  TreeInv'
        <3>1. d \in Inner /\ e \in Inner /\ entry[d][n] \in Inner \cup {Nil} /\ entry[e][m] \in Inner \cup {Nil}
            BY <1>1 DEF TreeInv
        <3> DEFINE half == [entry EXCEPT ![d][n] = entry[e][m]]
                   x == entry[d][n]
        <3>2. /\ half \in [Objects -> [Names -> Objects \cup {Nil}]]
              /\ \A o \in Inner, l \in Names : half[o][l] \in Inner \cup {Nil}
            BY <1>1, <3>1 DEF TreeInv, Inner
        <3>3. entry' = [half EXCEPT ![e][m] = x]
            BY <2>2
        <3>4. x \in Inner \cup {Nil}
            BY <3>1
        <3> HIDE DEF half, x
        <3>5. /\ entry' \in [Objects -> [Names -> Objects \cup {Nil}]]
              /\ \A o \in Inner, l \in Names : entry'[o][l] \in Inner \cup {Nil}
            BY ONLY <3>2, <3>3, <3>4 DEF Inner
        <3> QED BY <1>1, <2>2, <3>5 DEF TreeInv
    <2>3. CASE \E d \in Inside, n \in Names, g \in Goals : MakeAt(d, n, "link", g)
        BY <1>1, <2>3, MakeAtKeeps DEF Kinds
    <2>4. CASE \E d \in Inside, n \in Names : Put(d, n, Nil) /\ UNCHANGED <<kind, goal>>
        BY <1>1, <2>4, PutKeeps
    <2> QED BY <2>1, <2>2, <2>3, <2>4 DEF ProcessMoves
<1> QED BY <1>1, <1>2 DEF SandboxInv, FdInv, Confined

-----------------------------------------------------------------------------
\* The theorems

LEMMA CallKeeps == ASSUME SandboxInv, Calls PROVE SandboxInv'
BY OpenBaseKeeps, StepKeeps, OpenatKeeps, OverKeeps, ChangeAtKeeps, OpenAtKeeps, FindCopySuffixKeeps,
   SymlinkAtKeeps, LstatOldKeeps, LstatNewKeeps, RenameAtKeeps, LstatDirKeeps, MkdirAtKeeps,
   StatRemoveKeeps, RemoveStatKeeps, OpenParentKeeps, RemoveAllFromKeeps, RemoveContentsFromKeeps,
   EachNameKeeps, CloseDirectoryKeeps, RemoveDirectoryKeeps, WalkDiratKeeps, LchownatKeeps, SizeOfKeeps,
   InfoOfKeeps, AddToArchiveKeeps, CloseFileKeeps, WalkDirKeeps, ReadDirMapKeeps, ListDirectoryKeeps
   DEF Calls

LEMMA InitIsConfined == ASSUME TInit PROVE SandboxInv
<1>1. Base \in Inner /\ File \in Inner /\ Link \in Inner /\ Tree[1] \in Inner /\ Tree[2] \in Inner
      /\ Outside \subseteq Objects
    BY ObjectsAssumption DEF Inner
<1>2. /\ entry \in [Objects -> [Names -> Objects \cup {Nil}]]
      /\ \A o \in Inner, n \in Names : entry[o][n] \in Inner \cup {Nil}
    <2>1. PICK first \in {Tree[1], Link}, second \in {Tree[2], Link, Nil}, third \in {File, Link}, spare \in {Nil, Link} :
            entry = [o \in Objects |-> [n \in Names |->
                CASE o = Base /\ n = "a" -> first
                  [] o = Base /\ n = "b" -> spare
                  [] o = Tree[1] /\ n = "b" -> second
                  [] o = Tree[2] /\ n = "a" -> third
                  [] o = OutDir /\ n = "b" -> OutSub
                  [] o = OutSub /\ n = "a" -> OutFile
                  [] OTHER -> Nil]]
        BY DEF TInit
    <2>2. {first, second, third, spare} \subseteq Inner \cup {Nil}
        BY <1>1
    <2>3. {OutSub, OutFile} \subseteq Objects
        BY <1>1 DEF Outside
    <2>4. \A o \in Objects, n \in Names : /\ entry[o][n] \in {first, second, third, spare, Nil, OutSub, OutFile}
                                          /\ o \in Inner => entry[o][n] \in {first, second, third, spare, Nil}
        BY <2>1 DEF Inner, Outside
    <2>5. entry = [o \in Objects |-> [n \in Names |-> entry[o][n]]]
        BY <2>1
    <2>6. \A o \in Objects, n \in Names : entry[o][n] \in Objects \cup {Nil}
        BY <2>2, <2>3, <2>4 DEF Inner
    <2>7. \A o \in Inner, n \in Names : entry[o][n] \in Inner \cup {Nil}
        BY <2>2, <2>4 DEF Inner
    <2> QED BY ONLY <2>5, <2>6, <2>7
<1>3. kind \in [Objects -> Kinds] /\ \A o \in Outside : kind[o] # "free"
    BY <1>1 DEF TInit, Kinds, Outside
<1>4. goal \in [Objects -> Goals \cup {Base}]
    <2>1. OutDir \in Goals
        BY DEF Goals
    <2>2. \E g \in Goals : goal = [o \in Objects |-> g]
        BY <2>1, Zenon DEF TInit
    <2> QED BY <2>2
<1>5. TreeInv
    BY <1>2, <1>3, <1>4 DEF TreeInv
<1>6. Confined /\ job = Idle /\ fds = 0 /\ leaked = 0
    BY DEF TInit, Confined
<1>7. Beneath(Idle) /\ Open(Idle) = 0
    BY IdleIsTyped DEF Beneath, Open, Walking
<1> QED BY <1>5, <1>6, <1>7, IdleIsTyped DEF SandboxInv, FdInv

\* What the operations of the filesystem keep true at every system call: the shape of
\* the tree, where the operation's descriptors are (inside, or not yet checked), and
\* that fds is what the operation holds, has open and has leaked.
THEOREM SandboxInvariant == TreeSpec => []SandboxInv
<1>1. TInit => SandboxInv
    BY InitIsConfined
<1>2. SandboxInv /\ [TNext]_tVars => SandboxInv'
    <2> SUFFICES ASSUME SandboxInv, [TNext]_tVars PROVE SandboxInv'
        OBVIOUS
    <2>1. CASE Requests
        BY <2>1, RequestKeeps
    <2>2. CASE Calls
        BY <2>2, CallKeeps
    <2>3. CASE ProcessMoves
        BY <2>3, ProcessMovesKeeps
    <2>4. CASE UNCHANGED tVars
        BY <2>4 DEF SandboxInv, TreeInv, FdInv, tVars, tree, Confined
    <2> QED BY <2>1, <2>2, <2>3, <2>4 DEF TNext
<1> QED BY <1>1, <1>2, PTL DEF TreeSpec

\* No operation reads or changes an object outside the server's directory, or an entry
\* of a directory outside, whatever the server's process moves and links between its
\* system calls; and with openat2 it opens no directory outside either, but for the
\* daemon's own that a link's target is read in (safePath, openat, removeAll, WalkDirat).
THEOREM SandboxHolds == TreeSpec => []Confined
<1>1. SandboxInv => Confined
    BY DEF SandboxInv
<1> QED BY <1>1, SandboxInvariant, PTL

\* An operation closes every directory and every file it opens, on each of its error
\* paths, but for those it leaks: with and without openat2 (closeFd, the deferred
\* calls, removeContentsFrom and walkDir).
THEOREM DescriptorsAreClosed == TreeSpec => []DescriptorsClosed
<1>1. SandboxInv => DescriptorsClosed
    <2> SUFFICES ASSUME SandboxInv, job.pc = "idle" PROVE fds = leaked
        BY DEF DescriptorsClosed
    <2>1. Holds(job) = 0 /\ Open(job) = 0
        BY DEF SandboxInv, Placed, Open, Walking
    <2> QED BY <2>1 DEF SandboxInv, FdInv
<1> QED BY <1>1, SandboxInvariant, PTL
=============================================================================
