------------------------------ MODULE FileTree ------------------------------
(***************************************************************************)
(* The sandboxed filesystem of the Unix build (internal/ufs) under the     *)
(* file operations of server/filesystem, the API and SFTP: every operation *)
(* resolves a path to the descriptor of its directory (safePath) and then  *)
(* makes *at system calls with the last name, one system call a step, while*)
(* the server's own process moves files about.  A directory tree is a set  *)
(* of objects with named entries; a descriptor is the object it refers to. *)
(* The components of a path are resolved one a step.  A link leads to a    *)
(* sibling or to an absolute path outside the base; ".." targets count as  *)
(* the latter.  fds counts the descriptors of directories and files that   *)
(* are open, leaked those of them that no code closes any more.            *)
(***************************************************************************)
EXTENDS Naturals, FiniteSets, SequencesExt

CONSTANTS
    Names, Objects, Nil,
    Base,           \* the server's directory
    OutDir, OutSub, OutFile,    \* a directory outside, one in it, and a file in that
    WorkDir,        \* the daemon's working directory
    Tree,           \* the directories below the base a server starts with: a then b
    File, Link,     \* its file and its link
    Paths, NewPaths,    \* the paths of requests, and the ones they move files to
    Modes,          \* config.UseOpenat2()
    MaxMoves,       \* bound: changes the server's own process makes
    MaxHops         \* bound: links followed in one resolution (the kernel's is 40)

Outside == {OutDir, OutSub, OutFile}
Goals == {OutDir, OutFile} \cup Names

ASSUME ObjectsAssumption ==
    /\ Outside \subseteq Objects /\ Nil \notin Objects /\ WorkDir \notin Objects
    /\ {Base, File, Link} \subseteq Objects \ Outside /\ Tree \in [{1, 2} -> Objects \ Outside]
    /\ Paths \cup NewPaths \subseteq Seq(Names) \ {<<>>}
    /\ MaxMoves \in Nat /\ MaxHops \in Nat

VARIABLES
    kind, entry, goal,  \* what every object is, its entries, where a link leads
    touched,    \* the objects outside the base an operation has read or changed
    strayed,    \* the directories outside that were opened or looked into by mistake
    openat2,    \* fs.useOpenat2
    job,        \* the operation under way
    fds,        \* the open descriptors
    leaked,     \* those left open when their function returned
    moves

tree == <<kind, entry, goal>>
still == <<openat2, strayed, leaked>>
tVars == <<tree, touched, still, job, fds, moves>>

Idle == [pc |-> "idle", call |-> "none", path |-> <<>>, new |-> <<>>, arg |-> <<>>,
         then |-> "none", at |-> Nil, rest |-> <<>>, hops |-> 0, dirfd |-> Nil, old |-> Nil,
         held |-> 0, depth |-> 0, isdir |-> FALSE, stack |-> <<>>, after |-> <<>>,
         files |-> 0]

\* One request is followed; the process stands for what others do meanwhile.
Finished == [Idle EXCEPT !.call = "done"]

Empty == [n \in Names |-> Nil]

\* Every shape of a path a/b/a: each of its parts is there, missing or a link.
TInit ==
    /\ \E first \in {Tree[1], Link}, second \in {Tree[2], Link, Nil}, third \in {File, Link}, spare \in {Nil, Link} :
        /\ Cardinality({o \in {1, 2, 3} : <<first, second, third>>[o] = Link}) <= 1
        /\ spare = Link => Link \notin {first, second, third}
        /\ first = Link => second = Tree[2]     \* what cannot be reached has one shape
        /\ second # Tree[2] => third = File
        /\ \E g \in (IF Link \in {first, second, third, spare} THEN Goals ELSE {OutDir}) :
                goal = [o \in Objects |-> g]
        /\ entry = [o \in Objects |-> [n \in Names |->
                CASE o = Base /\ n = "a" -> first
                  [] o = Base /\ n = "b" -> spare
                  [] o = Tree[1] /\ n = "b" -> second
                  [] o = Tree[2] /\ n = "a" -> third
                  [] o = OutDir /\ n = "b" -> OutSub
                  [] o = OutSub /\ n = "a" -> OutFile
                  [] OTHER -> Nil]]
    /\ kind = [o \in Objects |->
                IF o \in {Base, OutDir, OutSub} \cup Range(Tree) THEN "dir"
                ELSE IF o \in {File, OutFile} THEN "file"
                ELSE IF o = Link THEN "link" ELSE "free"]
    /\ touched = {} /\ strayed = {} /\ openat2 \in Modes
    /\ job = Idle /\ fds = 0 /\ leaked = 0 /\ moves = 0

-----------------------------------------------------------------------------
\* The kernel: entries, and what one system call does to them.

At(d, n) == IF n = "." THEN d ELSE entry[d][n]
Dir(o) == o # Nil /\ kind[o] = "dir"
Fresh(o) == kind[o] = "free"
Touch(S) == touched' = touched \cup (S \cap Outside)
Attached(o) == o = Base \/ \E d \in Objects, n \in Names : entry[d][n] = o
Bare(o) == entry[o] = Empty

\* The objects below one: trees of the instance are at most three deep.
Children(S) == {entry[o][n] : o \in {x \in S : Dir(x)}, n \in Names} \ {Nil}
Below(o) == LET c == Children({o}) d == Children(c) IN {o} \cup c \cup d \cup Children(d)

Put(d, n, o) == entry' = [entry EXCEPT ![d][n] = o]

\* A new object appears in a directory that still is one.
MakeAt(d, n, k, g) == \E o \in Objects :
    /\ Fresh(o) /\ (\A x \in Objects : Fresh(x) => o = CHOOSE y \in Objects : Fresh(y))
    /\ kind' = [kind EXCEPT ![o] = k] /\ goal' = [goal EXCEPT ![o] = g]
    /\ Put(d, n, o)

\* unlinkat: a directory only with AT_REMOVEDIR, and only an empty one.
Unlinks(d, n, rmdir) == LET o == entry[d][n] IN
    o # Nil /\ IF kind[o] = "dir" THEN rmdir /\ Bare(o) ELSE ~rmdir

\* renameat: over an entry of the same sort, and never into itself.
Renames(d, n, e, m) == LET o == entry[d][n] p == entry[e][m] IN
    /\ o # Nil /\ (Dir(o) => e \notin Below(o))
    /\ p # Nil => IF Dir(o) THEN Dir(p) /\ Bare(p) ELSE ~Dir(p)
MoveAt(d, n, e, m) ==
    entry' = IF d = e /\ n = m THEN entry
             ELSE [entry EXCEPT ![e][m] = entry[d][n], ![d][n] = Nil]

-----------------------------------------------------------------------------
\* Requests, and the end of one: its deferred calls close what it holds.

To(label) == job' = [job EXCEPT !.pc = label]

\* safePath(path), and where the operation goes on with the descriptor.
Resolve(j, path, label) == job' = [j EXCEPT !.pc = "base", !.arg = path, !.then = label]

\* One operation of the filesystem, and the step it begins with.
Op(call, path) == [call |-> call, path |-> path, new |-> <<>>]
FirstStep == [meta |-> "meta", chown |-> "meta", open |-> "open", touch |-> "open",
              create |-> "open", identify |-> "open", copy |-> "open", list |-> "list", rename |-> "old",
              symlink |-> "link", remove |-> "lstat", unlink |-> "lstat",
              archive |-> "visit", size |-> "visit", mkdir |-> "mkstat"]

Begin(op, after, files) ==
    Resolve([Idle EXCEPT !.call = op.call, !.path = op.path, !.new = op.new, !.after = after,
                         !.depth = IF op.call = "mkdir" THEN Len(op.path) ELSE 0,
                         !.files = files],
            op.path, FirstStep[op.call])

\* The deferred calls close the directories that are held; a request whose operation
\* succeeded goes on with its next one.  Its last operation closes the files too.
End ==
    IF job.pc = "over" /\ job.after # <<>>
    THEN fds' = fds - job.held /\ Begin(Head(job.after), Tail(job.after), job.files)
    ELSE fds' = fds - job.held - job.files /\ job' = Finished

\* A request is a sequence of operations.
Ask(ops) ==
    /\ job.pc = "idle" /\ job.call = "none" /\ Begin(Head(ops), Tail(ops), 0)
    /\ UNCHANGED <<tree, touched, still, fds, moves>>

PostServerChmodFile == \E p \in Paths : Ask(<<Op("meta", p)>>)
GetServerFileContents == \E p \in Paths : Ask(<<Op("open", p)>>)
GetServerListDirectory == \E p \in Paths \cup {<<>>} : Ask(<<Op("list", p)>>)

\* Filesystem.Write touches the file and chowns it.
Write(p) == <<Op("touch", p), Op("meta", p)>>
PostServerWriteFile == \E p \in Paths : Ask(Write(p))
PostServerUploadFiles == \E p \in Paths : Ask(Write(p))

Moved(p, q) == [call |-> "rename", path |-> p, new |-> q]
PutServerRenameFiles == \E p \in Paths, q \in NewPaths : Ask(<<Moved(p, q)>>)
RemoveAll(p) == <<Op("remove", p)>>
PostServerDeleteFiles == \E p \in Paths : Ask(RemoveAll(p))
PostServerCreateDirectory == \E p \in NewPaths : Ask(<<Op("mkdir", p)>>)
PostServerCopyFile == \E p \in Paths : Ask(<<Op("copy", p)>>)

\* The archive is created in the directory it is made of; one that does not fit is
\* removed again.
PostServerCompressFiles == \E q \in NewPaths, fits \in BOOLEAN :
    Ask(<<Op("create", q), Op("archive", Front(q))>> \o (IF fits THEN <<>> ELSE <<Op("unlink", q)>>))

\* What an archive holds is written with its times, a compressed file in place.
ExtractStream(q, single) == IF single THEN <<Op("create", q)>> ELSE Write(q) \o <<Op("meta", q)>>

DecompressFile(p, q, single) == <<Op("open", p)>> \o ExtractStream(q, single)

\* A server with a disk limit has what the archive holds added up first.
SpaceAvailableForDecompression(p, limited) == IF limited THEN <<Op("identify", p)>> ELSE <<>>
PostServerDecompressFiles == \E p \in Paths, q \in NewPaths, single, fits, limited \in BOOLEAN :
    /\ fits \/ limited
    /\ Ask(SpaceAvailableForDecompression(p, limited)
           \o (IF fits THEN DecompressFile(p, q, single) ELSE <<>>))

\* SFTP: what was changed or made is chowned.
Setstat == \E p \in Paths : Ask(<<Op("meta", p), Op("chown", p)>>)
SftpWrite == \E p \in Paths : Ask(<<Op("touch", p), Op("chown", p)>>)
SftpRename == \E p \in Paths, q \in NewPaths : Ask(<<Moved(p, q), Op("chown", q)>>)
SftpMkdir == \E p \in NewPaths : Ask(<<Op("mkdir", p), Op("chown", p)>>)
SftpSymlink == \E q \in NewPaths : Ask(<<Op("symlink", q), Op("chown", q)>>)
SftpRemove == \E p \in Paths : Ask(RemoveAll(p))

\* The whole directory: permissions before a boot, the disk usage, a backup.
ChownRoot == Ask(<<Op("chown", <<>>)>>)
DirectorySize == Ask(<<Op("size", <<>>)>>)
StreamArchive == Ask(<<Op("archive", <<>>)>>)

-----------------------------------------------------------------------------
\* safePath: the base is opened, then the directory part is resolved below it.

OpenBase ==
    /\ job.pc = "base" /\ fds' = fds + 1
    /\ job' = IF Len(job.arg) < 2
              THEN [job EXCEPT !.pc = job.then, !.dirfd = Base, !.held = @ + 1]
              ELSE [job EXCEPT !.pc = "step", !.at = Base, !.rest = Front(job.arg), !.hops = 0]
    /\ UNCHANGED <<tree, touched, still, moves>>

\* The directory the operation creates when a path leads nowhere.
Missing == job.call = "touch" \/ (job.call = "rename" /\ job.then = "new")

\* openat failed: closeFd closes the base.  Lstat failed: mkdirAll goes on with the
\* parent.  A missing directory is created once.  removeAll goes on when Remove
\* failed for any other reason; else the operation is over.
Fails(why) ==
    /\ fds' = fds - 1
    /\ IF job.then = "mkstat" /\ job.depth > 1
       THEN Resolve([job EXCEPT !.depth = @ - 1], Front(job.arg), "mkstat")
       ELSE IF why = "notexist" /\ Missing /\ job.depth = 0
       THEN Resolve([job EXCEPT !.depth = Len(job.arg) - 1], Front(job.arg), "mkstat")
       ELSE IF why # "notexist" /\ job.call = "remove" /\ job.then = "lstat"
       THEN Resolve(job, Front(job.arg), "parent")
       ELSE To("error")
    /\ UNCHANGED <<tree, touched, strayed>>

\* A plausible mistake: openat2 without RESOLVE_BENEATH.
LeavesUnnoticed(o) == FALSE

\* RESOLVE_BENEATH refuses a link that leads out of the base; openat follows it.
Leaves(o) == openat2 /\ goal[o] \notin Names

\* The next component; O_NOFOLLOW holds for the last one only, which is opened.
Step ==
    /\ job.pc = "step"
    /\ LET o == entry[job.at][Head(job.rest)] last == Len(job.rest) = 1
           link == o # Nil /\ kind[o] = "link"
           next == IF link THEN goal[o] ELSE o IN
        IF o = Nil THEN Fails("notexist")
        ELSE IF link /\ (last \/ job.hops = MaxHops \/ Leaves(o)) THEN Fails("notdir")
        ELSE IF link /\ goal[o] \in Names
        THEN /\ job' = [job EXCEPT !.hops = @ + 1, !.rest = <<goal[o]>> \o Tail(@)]
             /\ UNCHANGED <<tree, touched, strayed, fds>>
        ELSE IF ~Dir(next) THEN Fails("notdir")
        ELSE /\ fds' = IF last THEN fds + 1 ELSE fds
             /\ strayed' = strayed \cup (IF last THEN {next} \cap Outside ELSE {})
             /\ job' = [job EXCEPT !.at = next, !.rest = Tail(@), !.pc = IF last THEN "opened" ELSE "step"]
             /\ UNCHANGED <<tree, touched>>
    /\ UNCHANGED <<openat2, leaked, moves>>

\* Without openat2 the path of the descriptor must be below the base and exist; the
\* descriptor that fails this is returned with the error, and stays open.
Openat ==
    /\ job.pc = "opened"
    /\ IF openat2 \/ (job.at \notin Outside /\ Attached(job.at))
       THEN /\ job' = [job EXCEPT !.pc = job.then, !.dirfd = job.at, !.held = @ + 2]
            /\ UNCHANGED <<tree, touched, strayed, fds, leaked>>
       ELSE Fails(IF job.at \in Outside THEN "badpath" ELSE "notexist") /\ leaked' = leaked + 1
    /\ UNCHANGED <<openat2, moves>>

Over ==
    /\ job.pc \in {"over", "error"} /\ End
    /\ UNCHANGED <<tree, touched, still, moves>>

Leaf(p) == IF p = <<>> THEN "." ELSE Last(p)
Target == At(job.dirfd, Leaf(job.arg))

-----------------------------------------------------------------------------
\* The calls on one entry.

\* fchmodat, fchownat and utimensat, all with AT_SYMLINK_NOFOLLOW; Chown walks on.
ChangeAt ==
    /\ job.pc = "meta"
    /\ IF Target = Nil THEN To("error") /\ UNCHANGED touched
       ELSE To(IF job.call = "chown" THEN "visit" ELSE "over") /\ Touch({Target})
    /\ UNCHANGED <<tree, still, fds, moves>>

\* openat of the last name: a link is not followed.
Opened(o) == IF o # Nil /\ kind[o] = "link" THEN Nil ELSE o

\* A descriptor that nothing closes.
Leak == fds' = fds + 1 /\ leaked' = leaked + 1

\* The file is open.  A deferred call closes it when the request ends at the latest,
\* but Copy's target and the archive that is only looked through stay open (unless
\* that is no archive) until the garbage collector finds them.  Without openat2 an
\* open file whose name is gone when its path is looked up is an error, and stays.
\* Copy goes on with the name of the copy, which it chowns.
FileOpen ==
    \/ /\ job.call \notin {"paste", "identify"} /\ fds' = fds + 1 /\ UNCHANGED leaked
       /\ \E l \in {IF job.call = "copy" THEN "suffix" ELSE "over", "error"} :
            job' = [job EXCEPT !.pc = l, !.files = @ + 1]
    \/ job.call = "paste" /\ Leak /\ To("meta")
    \/ job.call = "identify" /\ Leak /\ \E l \in {"over", "error"} : To(l)
    \/ job.call = "identify" /\ To("error") /\ UNCHANGED <<fds, leaked>>
    \/ ~openat2 /\ Leak /\ To("error")

Creates == job.call \in {"touch", "create", "paste"}

OpenAt ==
    /\ job.pc = "open"
    /\ LET o == Opened(Target)
           makes == Creates /\ Target = Nil /\ Attached(job.dirfd) IN
        /\ \/ makes /\ MakeAt(job.dirfd, Leaf(job.arg), "file", Base) /\ Touch({job.dirfd})
           \/ ~makes /\ Touch({o}) /\ UNCHANGED tree
        /\ IF makes \/ (o # Nil /\ ~Dir(o)) THEN FileOpen
           ELSE To("error") /\ \/ UNCHANGED <<fds, leaked>>
                               \/ ~openat2 /\ o # Nil /\ ~Creates /\ Leak
    /\ UNCHANGED <<openat2, strayed, moves>>

\* The first name that is free in the same directory.
FindCopySuffix ==
    /\ job.pc = "suffix"
    /\ \/ \E n \in Names :
            /\ entry[job.dirfd][n] = Nil
            /\ job' = [job EXCEPT !.pc = "open", !.call = "paste", !.arg = Append(Front(@), n)]
       \/ (\A n \in Names : entry[job.dirfd][n] # Nil) /\ To("error")
    /\ UNCHANGED <<tree, touched, still, fds, moves>>

SymlinkAt ==
    /\ job.pc = "link"
    /\ IF Target = Nil /\ Attached(job.dirfd)
       THEN /\ To("over") /\ Touch({job.dirfd})
            /\ \E g \in Goals : MakeAt(job.dirfd, Leaf(job.arg), "link", g)
       ELSE To("error") /\ UNCHANGED <<tree, touched>>
    /\ UNCHANGED <<still, fds, moves>>

\* Rename looks at the old name, resolves the new path, looks at the new name.
LstatOld ==
    /\ job.pc = "old"
    /\ IF Target = Nil THEN To("error")
       ELSE Resolve([job EXCEPT !.old = job.dirfd], job.new, "new")
    /\ UNCHANGED <<tree, touched, still, fds, moves>>

LstatNew ==
    /\ job.pc = "new"
    /\ To(IF Target = Nil THEN "renameat" ELSE "error")
    /\ UNCHANGED <<tree, touched, still, fds, moves>>

RenameAt ==
    /\ job.pc = "renameat"
    /\ IF Renames(job.old, Leaf(job.path), job.dirfd, Leaf(job.new)) /\ Attached(job.dirfd)
       THEN /\ MoveAt(job.old, Leaf(job.path), job.dirfd, Leaf(job.new)) /\ To("over")
            /\ Touch({job.old, entry[job.old][Leaf(job.path)],
                      job.dirfd, entry[job.dirfd][Leaf(job.new)]})
       ELSE UNCHANGED <<entry, touched>> /\ To("error")
    /\ UNCHANGED <<kind, goal, still, fds, moves>>

-----------------------------------------------------------------------------
\* mkdirAll of the first depth names: up to a directory that exists, then down.

Close(n) == fds' = fds - n
Whole == IF job.call = "rename" THEN job.new ELSE job.path
Bound == Len(Whole) - (IF job.call = "mkdir" THEN 0 ELSE 1)

\* Stat follows the link.
StatDir(o) == Dir(IF o # Nil /\ kind[o] = "link"
                  THEN IF goal[o] \in Names THEN entry[job.dirfd][goal[o]] ELSE goal[o]
                  ELSE o)

\* The descriptors of this safePath; the ones of Rename's first path stay.
Here == IF Len(job.arg) < 2 THEN 1 ELSE 2
Released == [job EXCEPT !.held = @ - Here]

\* The directory of that depth exists: the next one, or what needed them.
Deeper(j) ==
    IF j.depth < Bound THEN Resolve([j EXCEPT !.depth = @ + 1], SubSeq(Whole, 1, j.depth + 1), "mkdirat")
    ELSE IF job.call = "mkdir" THEN job' = [j EXCEPT !.pc = "over"]
    ELSE Resolve(j, Whole, IF job.call = "rename" THEN "new" ELSE "open")

LstatDir ==
    /\ job.pc = "mkstat" /\ Close(Here)
    /\ IF StatDir(Target) THEN Deeper(Released)
       ELSE IF Target # Nil THEN job' = [Released EXCEPT !.pc = "error"]
       ELSE IF job.depth > 1 THEN Resolve([Released EXCEPT !.depth = @ - 1], Front(job.arg), "mkstat")
       ELSE Resolve(Released, job.arg, "mkdirat")
    /\ UNCHANGED <<tree, touched, still, moves>>

MkdirAt ==
    /\ job.pc = "mkdirat" /\ Close(Here)
    /\ IF Target = Nil /\ Attached(job.dirfd)
       THEN /\ MakeAt(job.dirfd, Leaf(job.arg), "dir", Base) /\ Touch({job.dirfd})
            /\ Deeper(Released)
       ELSE /\ UNCHANGED <<tree, touched>>
            /\ IF Dir(Target) THEN Deeper(Released) ELSE job' = [Released EXCEPT !.pc = "error"]
    /\ UNCHANGED <<still, moves>>

-----------------------------------------------------------------------------
\* removeAll: Quota.Remove (RemoveStat), then from the parent directory down.

\* A directory that is read gives the names in it, each with its sort.
Frame(d, n, k) == [dir |-> d, name |-> n, sort |-> k, fd |-> Nil, todo |-> {}]
Listing(o) == {[name |-> n, sort |-> kind[entry[o][n]]] : n \in {m \in Names : entry[o][m] # Nil}}
Reading(f, o) == [f EXCEPT !.fd = o, !.todo = Listing(o)]
Top == Last(job.stack)
Found == At(Top.dir, Top.name)
Frames(s) == job' = [job EXCEPT !.stack = s]
Pop == IF Len(job.stack) = 1 THEN job' = [job EXCEPT !.stack = <<>>, !.pc = "over"]
       ELSE job' = [job EXCEPT !.stack = Front(@), !.pc = "each"]

StatRemove ==
    /\ job.pc = "lstat"
    /\ job' = [job EXCEPT !.pc = IF Target = Nil THEN "over" ELSE "unlink", !.isdir = Dir(Target)]
    /\ UNCHANGED <<tree, touched, still, fds, moves>>

RemoveStat ==
    /\ job.pc = "unlink"
    /\ IF Target = Nil THEN To("over") /\ UNCHANGED <<entry, touched, fds>>
       ELSE IF Unlinks(job.dirfd, Leaf(job.arg), job.isdir)
       THEN /\ Put(job.dirfd, Leaf(job.arg), Nil) /\ Touch({job.dirfd, Target})
            /\ To("over") /\ UNCHANGED fds
       ELSE /\ UNCHANGED <<entry, touched>>
            /\ IF job.call = "unlink" THEN To("error") /\ UNCHANGED fds
               ELSE Close(Here) /\ Resolve(Released, Front(job.arg), "parent")
    /\ UNCHANGED <<kind, goal, still, moves>>

\* Open(parentDir): its own safePath is closed, the directory stays open.
OpenParent ==
    /\ job.pc = "parent"
    /\ \/ /\ Dir(Opened(Target)) /\ Touch({Opened(Target)})
          /\ fds' = fds - Here + 1 /\ UNCHANGED leaked
          /\ job' = [Released EXCEPT !.pc = "try", !.held = @ + 1,
                                     !.stack = <<Frame(Opened(Target), Leaf(job.path), "dir")>>]
       \/ ~openat2 /\ Dir(Opened(Target)) /\ Touch({Opened(Target)}) /\ Leak /\ To("over")
       \/ ~Dir(Opened(Target)) /\ To("over") /\ UNCHANGED <<touched, fds, leaked>>
    /\ UNCHANGED <<tree, openat2, strayed, moves>>

\* removeAllFrom: unlinkat, and for a directory its contents first.
RemoveAllFrom ==
    /\ job.pc = "try"
    /\ IF Found # Nil /\ ~Dir(Found)
       THEN Put(Top.dir, Top.name, Nil) /\ Touch({Top.dir, Found}) /\ Pop
       ELSE UNCHANGED <<entry, touched>> /\ IF Found = Nil THEN Pop ELSE To("into")
    /\ UNCHANGED <<kind, goal, still, fds, moves>>

\* openFdAt of removeAll, also with O_NOFOLLOW.
OpenFdAt(o) == Opened(o)

\* removeContentsFrom reads the names, or cannot: then rmdir is tried all the same.
RemoveContentsFrom ==
    /\ job.pc = "into"
    /\ IF Dir(OpenFdAt(Found))
       THEN /\ fds' = fds + 1 /\ Touch({OpenFdAt(Found)})
            /\ job' = [job EXCEPT !.pc = "each", !.stack[Len(job.stack)] = Reading(@, OpenFdAt(Found))]
       ELSE UNCHANGED <<fds, touched>> /\ (IF Found = Nil THEN Pop ELSE To("rmdir"))
    /\ UNCHANGED <<tree, still, moves>>

\* The next name of the directory on top, for removeAll, a walk or a listing.
EachName ==
    /\ job.pc = "each" /\ Top.todo # {}
    /\ \E e \in Top.todo :
        job' = [job EXCEPT !.pc = IF job.call = "remove" THEN "try" ELSE "callback",
                           !.stack = Append(Front(@) \o <<[Top EXCEPT !.todo = @ \ {e}]>>,
                                            Frame(Top.fd, e.name, e.sort))]
    /\ UNCHANGED <<tree, touched, still, fds, moves>>

\* A plausible mistake: the directory that was read is not closed.
CloseDirectoryForgotten ==
    /\ job.pc = "each" /\ Top.todo = {}
    /\ IF job.call = "remove" THEN To("rmdir") ELSE Pop
    /\ UNCHANGED <<tree, touched, still, fds, moves>>

\* The directory has been read to its end.
CloseDirectory ==
    /\ job.pc = "each" /\ Top.todo = {}
    /\ Close(1)
    /\ IF job.call = "remove" THEN To("rmdir") ELSE Pop
    /\ UNCHANGED <<tree, touched, still, moves>>

RemoveDirectory ==
    /\ job.pc = "rmdir"
    /\ IF Found # Nil /\ Unlinks(Top.dir, Top.name, TRUE)
       THEN Put(Top.dir, Top.name, Nil) /\ Touch({Top.dir, Found}) ELSE UNCHANGED <<entry, touched>>
    /\ Pop
    /\ UNCHANGED <<kind, goal, still, fds, moves>>

-----------------------------------------------------------------------------
\* WalkDirat: a callback for every entry, then a directory is opened and read.  What
\* an entry is was read with its name.

\* Descriptors of the directories being read: an error closes them all, and the
\* number of files opened is n.
OpenFrames == Cardinality({i \in DOMAIN job.stack : job.stack[i].fd # Nil})
Abandon(n) == fds' = fds - OpenFrames + n /\ job' = [job EXCEPT !.pc = "error", !.stack = <<>>]
Descend == UNCHANGED fds /\ IF Top.sort = "dir" THEN To("descend") ELSE Pop

WalkDirat ==
    /\ job.pc = "visit"
    /\ IF Target = Nil THEN To("error")
       ELSE IF job.call = "chown" /\ ~Dir(Target) THEN To("over")
       ELSE job' = [job EXCEPT !.pc = "callback", !.stack = <<Frame(job.dirfd, Leaf(job.arg), kind[Target])>>]
    /\ UNCHANGED <<tree, touched, still, fds, moves>>

\* Chown: lchownat.
Lchownat ==
    /\ job.pc = "callback" /\ job.call = "chown"
    /\ IF Found = Nil THEN Abandon(0) /\ UNCHANGED touched ELSE Touch({Found}) /\ Descend
    /\ UNCHANGED <<tree, still, moves>>

\* DirectorySize: lstatat of what was a file.
SizeOf ==
    /\ job.pc = "callback" /\ job.call = "size"
    /\ IF Top.sort = "file" /\ Found = Nil THEN Abandon(0) ELSE Descend
    /\ UNCHANGED <<tree, touched, still, moves>>

\* The archive's callback passes by directories, and what is gone.  The target of a
\* link is read by its bare name, which is one of the daemon's working directory; a
\* link of which it finds no target is left out.  A file is opened and copied.
InfoOf ==
    /\ job.pc = "callback" /\ job.call = "archive"
    /\ LET sort == IF Top.sort = "dir" \/ Found = Nil THEN "none" ELSE kind[Found] IN
        /\ IF sort = "file" THEN To("add") /\ UNCHANGED fds ELSE Descend
        /\ strayed' = strayed \cup (IF sort = "link" THEN {WorkDir} ELSE {})
    /\ UNCHANGED <<tree, touched, openat2, leaked, moves>>

AddToArchive ==
    /\ job.pc = "add"
    /\ \/ Found = Nil /\ Pop /\ UNCHANGED <<fds, touched, leaked>>
       \/ Found # Nil /\ Opened(Found) = Nil /\ Abandon(0) /\ UNCHANGED <<touched, leaked>>
       \/ /\ Opened(Found) # Nil /\ Touch({Found})
          /\ \/ To("reading") /\ fds' = fds + 1 /\ UNCHANGED leaked
             \/ ~openat2 /\ Pop /\ Leak
    /\ UNCHANGED <<tree, openat2, strayed, moves>>

\* The file is closed, whether it could be copied into the archive or not.
CloseFile ==
    /\ job.pc = "reading"
    /\ (Pop /\ fds' = fds - 1) \/ (job.call = "archive" /\ Abandon(-1))
    /\ UNCHANGED <<tree, touched, still, moves>>

WalkDir ==
    /\ job.pc = "descend"
    /\ IF Dir(Opened(Found))
       THEN /\ fds' = fds + 1 /\ Touch({Opened(Found)})
            /\ job' = [job EXCEPT !.pc = "each", !.stack[Len(job.stack)] = Reading(@, Opened(Found))]
       ELSE Abandon(0) /\ UNCHANGED touched
    /\ UNCHANGED <<tree, still, moves>>

-----------------------------------------------------------------------------
\* A listing: the directory is read, each entry looked at, a file opened for its type.

ReadDirMap ==
    /\ job.pc = "list"
    /\ \/ /\ Dir(Opened(Target)) /\ Touch({Opened(Target)})
          /\ fds' = fds + 1 /\ UNCHANGED leaked
          /\ job' = [job EXCEPT !.pc = "each",
                    !.stack = <<Reading(Frame(job.dirfd, Leaf(job.arg), "dir"), Opened(Target))>>]
       \/ ~openat2 /\ Dir(Opened(Target)) /\ Touch({Opened(Target)}) /\ Leak /\ To("error")
       \/ ~Dir(Opened(Target)) /\ To("error") /\ UNCHANGED <<fds, touched, leaked>>
    /\ UNCHANGED <<tree, openat2, strayed, moves>>

ListDirectory ==
    /\ job.pc = "callback" /\ job.call = "list"
    /\ \/ /\ Found = Nil \/ (Top.sort = "file" /\ Opened(Found) = Nil)
          /\ Abandon(0) /\ UNCHANGED <<touched, leaked>>
       \/ Found # Nil /\ Top.sort # "file" /\ Pop /\ UNCHANGED <<fds, touched, leaked>>
       \/ /\ Opened(Found) # Nil /\ Top.sort = "file" /\ Touch({Found})
          /\ \/ To("reading") /\ fds' = fds + 1 /\ UNCHANGED leaked
             \/ ~openat2 /\ Abandon(1) /\ leaked' = leaked + 1
    /\ UNCHANGED <<tree, openat2, strayed, moves>>

-----------------------------------------------------------------------------
\* The server's own process, confined to the base: it moves, links and removes.
Inside == Below(Base) \cap {o \in Objects : Dir(o)}

ProcessMoves ==
    /\ job.pc # "idle" /\ moves < MaxMoves /\ moves' = moves + 1
    /\ \/ \E d, e \in Inside, n, m \in Names :
            /\ Renames(d, n, e, m) /\ MoveAt(d, n, e, m)
            /\ UNCHANGED <<kind, goal>>
       \/ \E d, e \in Inside, n, m \in Names :     \* RENAME_EXCHANGE of a link
            /\ entry[d][n] # Nil /\ kind[entry[d][n]] = "link"
            /\ entry[e][m] # Nil /\ d \notin Below(entry[e][m])
            /\ entry' = [entry EXCEPT ![d][n] = entry[e][m], ![e][m] = entry[d][n]]
            /\ UNCHANGED <<kind, goal>>
       \/ \E d \in Inside, n \in Names, g \in Goals : entry[d][n] = Nil /\ MakeAt(d, n, "link", g)
       \/ \E d \in Inside, n \in Names :
            /\ Unlinks(d, n, Dir(entry[d][n])) /\ Put(d, n, Nil)
            /\ UNCHANGED <<kind, goal>>
    /\ UNCHANGED <<touched, still, job, fds>>

Requests ==
    \/ PostServerChmodFile \/ GetServerFileContents \/ GetServerListDirectory \/ PostServerWriteFile
    \/ PostServerUploadFiles \/ PutServerRenameFiles \/ PostServerDeleteFiles \/ PostServerCreateDirectory \/ PostServerCopyFile
    \/ PostServerCompressFiles \/ PostServerDecompressFiles
    \/ Setstat \/ SftpWrite \/ SftpRename \/ SftpMkdir \/ SftpSymlink \/ SftpRemove
    \/ ChownRoot \/ DirectorySize \/ StreamArchive

Calls == \/ OpenBase \/ Step \/ Openat \/ Over \/ ChangeAt \/ OpenAt \/ FindCopySuffix \/ SymlinkAt
         \/ LstatOld \/ LstatNew \/ RenameAt \/ LstatDir \/ MkdirAt
         \/ StatRemove \/ RemoveStat \/ OpenParent \/ RemoveAllFrom \/ RemoveContentsFrom
         \/ EachName \/ CloseDirectory \/ RemoveDirectory
         \/ WalkDirat \/ Lchownat \/ SizeOf \/ InfoOf \/ AddToArchive \/ CloseFile \/ WalkDir
         \/ ReadDirMap \/ ListDirectory

TNext == Requests \/ Calls \/ ProcessMoves

TreeSpec == TInit /\ [][TNext]_tVars

-----------------------------------------------------------------------------
(* No operation reads, lists, changes or removes anything outside the      *)
(* server's directory, nor an entry of a directory outside, however the    *)
(* server's process moves directories and links between the system calls   *)
(* of an operation (NewUnixFS: "Symlinks pointing outside BasePath are     *)
(* checked and prevented from enabling an escape"; safePath, openat,       *)
(* openFdAt).  With openat2 no directory outside is even opened; without   *)
(* it, openat opens one and gives it up when it looks at its path.  Two    *)
(* looks outside are left: a Stat that follows a link learns what sort of  *)
(* object it leads to, and the archive reads the target of a link in the   *)
(* daemon's working directory (archive.go:285).                            *)
Confined == touched = {} /\ (openat2 => strayed \subseteq {WorkDir})

(* A request that is over has closed every directory and every file it     *)
(* opened, on all its error paths (the closeFd of safePath and TouchPath,  *)
(* Rename's second path, removeContentsFrom, walkDir, the deferred Close), *)
(* but for those counted in leaked: the target of Copy                     *)
(* (filesystem.go:364), the file of archiverFileSystem (compress.go:56)    *)
(* and, without openat2, a descriptor that failed the check of openat.     *)
DescriptorsClosed == job.pc = "idle" => fds = leaked
=============================================================================
