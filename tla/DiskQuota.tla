------------------------------ MODULE DiskQuota ------------------------------
(***************************************************************************)
(* The disk accounting of one server: the operations that change its files *)
(* and the cached usage they keep (server/filesystem, internal/ufs, the    *)
(* writes of sftp/handler.go), on the Windows build, where a file with an  *)
(* open handle cannot be removed.  Each goroutine works on one file and    *)
(* repeats its operation; a file that does not exist has size 0.  The many *)
(* write calls of one copy or of one archive are one step.                 *)
(***************************************************************************)
EXTENDS QuotaMath, FiniteSets

CONSTANTS
    Sessions,   \* SFTP handles: Filewrite, WriteAt and Close
    Uploads,    \* Filesystem.Write: API uploads, downloads, restored files
    Copies,     \* Filesystem.Copy
    Archives,   \* Filesystem.CompressFiles
    Deletes,    \* Filesystem.Delete of a file
    Scans,      \* the background lookups HasSpaceAvailable(true) starts
    Files,
    Target,     \* the file each goroutine writes or removes
    Source,     \* the file each copy reads
    Limit,      \* the server's disk limit; 0 for none
    MaxSize,    \* bound: the largest file
    Checking,   \* disk_check_interval is not 0: there are lookups
    Scanned,    \* the first lookup is over
    Expiring,   \* the cached usage gets older than disk_check_interval
    Playing,    \* the game server's process runs, and writes its files itself
    None

Actors == Sessions \cup Uploads \cup Copies \cup Archives \cup Deletes \cup Scans
FileOps == Actors \ Scans
Sizes == 0 .. MaxSize

ASSUME LimitAssumption == Limit \in 0 .. MaxInt /\ MaxSize \in Nat /\ MaxSize <= MaxInt
ASSUME FilesAssumption == IsFiniteSet(Files)
ASSUME TargetAssumption == Target \in [FileOps -> Files] /\ Source \in [Copies -> Files]
ASSUME ModeAssumption ==
    /\ Checking \in BOOLEAN /\ Scanned \in BOOLEAN /\ Expiring \in BOOLEAN /\ Playing \in BOOLEAN
    /\ Scanned => Checking
ASSUME NoneAssumption == None \notin Actors

VARIABLES
    there,      \* the files that exist
    size,       \* their sizes
    usage,      \* Quota.usage
    mu,         \* the goroutine that holds fs.mu
    lookup,     \* fs.lookupInProgress
    fresh,      \* fs.lastLookupTime is within disk_check_interval
    playing,    \* the game server's process runs
    pc,         \* where each goroutine is
    cur,        \* currentSize, and quotaFile.size
    off,        \* where a WriteAt begins
    len,        \* how much it, an upload or a copy is to write
    got,        \* the size one has to account for when it is over
    left,       \* the entries a lookup has still to visit
    sum         \* the sizes it has added up

disk == <<there, size>>
locals == <<cur, off, len, got, left, sum>>
vars == <<disk, usage, mu, lookup, fresh, playing, pc, locals>>

Labels == {"idle", "scan", "walk", "store", "room", "stat", "open", "ready", "reserve",
           "grow", "write", "settle", "close", "check", "touch", "copy", "count",
           "fit", "add", "remove", "uncount"}

\* The labels at which a goroutine holds a handle of its file.
HandleOpen == {"ready", "reserve", "grow", "write", "settle", "copy", "count", "fit", "add"}
Busy(f) == \E a \in FileOps : Target[a] = f /\ pc[a] \in HandleOpen

Bigger(x, y) == IF x > y THEN x ELSE y

\* The bytes of files of the sizes h: <<f, i>> is byte i of file f.
Bytes(h) == {b \in Files \X (1 .. MaxSize) : b[2] <= h[b[1]]}
Total == Cardinality(Bytes(size))

TypeOK ==
    /\ there \subseteq Files /\ size \in [Files -> Sizes]
    /\ usage \in 0 .. MaxInt
    /\ mu \in Actors \cup {None}
    /\ lookup \in BOOLEAN /\ fresh \in BOOLEAN /\ playing \in BOOLEAN
    /\ pc \in [Actors -> Labels]
    /\ cur \in [Actors -> Sizes] /\ off \in [Actors -> Sizes] /\ len \in [Actors -> Sizes]
    /\ got \in [Actors -> Int64]
    /\ left \in [Actors -> SUBSET Files] /\ sum \in [Actors -> 0 .. MaxInt]

\* A server that is within its limit, before or after its first lookup.
Init ==
    /\ size \in [Files -> Sizes] /\ (Limit = 0 \/ Total <= Limit)
    /\ there = {f \in Files : size[f] > 0}
    /\ usage \in {u \in 0 .. MaxInt : u = IF Scanned THEN Total ELSE 0}
    /\ mu = None /\ lookup = FALSE /\ fresh = Scanned /\ playing = Playing
    /\ pc = [a \in Actors |-> "idle"]
    /\ cur = [a \in Actors |-> 0] /\ off = [a \in Actors |-> 0] /\ len = [a \in Actors |-> 0]
    /\ got = [a \in Actors |-> 0]
    /\ left = [a \in Actors |-> {}] /\ sum = [a \in Actors |-> 0]

Go(a, l) == pc' = [pc EXCEPT ![a] = l]

\* The operation is over and its local variables are gone.
Finish(a) ==
    /\ Go(a, "idle")
    /\ cur' = [cur EXCEPT ![a] = 0] /\ off' = [off EXCEPT ![a] = 0]
    /\ len' = [len EXCEPT ![a] = 0] /\ got' = [got EXCEPT ![a] = 0]
    /\ UNCHANGED <<left, sum>>

Add(i) == usage' = AddResult(usage, i)

-----------------------------------------------------------------------------
\* Lookups: DiskUsage and updateCachedDiskUsage.

\* DiskUsage(true) finds the cache expired and no lookup under way: the statistics of
\* a running server ask, and users do (a start, a decompression, a transfer).
StartScan(a) ==
    /\ pc[a] = "idle" /\ a \in Scans
    /\ Checking /\ ~fresh /\ ~lookup
    /\ Go(a, "scan")
    /\ UNCHANGED <<disk, usage, mu, lookup, fresh, playing, locals>>

\* The lock is taken, the flag set and the directory read.
BeginScan(a) ==
    /\ pc[a] = "scan" /\ mu = None
    /\ mu' = a /\ lookup' = TRUE
    /\ left' = [left EXCEPT ![a] = there]
    /\ Go(a, "walk")
    /\ UNCHANGED <<disk, usage, fresh, playing, cur, off, len, got, sum>>

\* The next entry is added; one that is gone by now ends the walk with an error.
Walk(a) ==
    /\ pc[a] = "walk"
    /\ \E f \in left[a] :
        /\ left' = [left EXCEPT ![a] = IF f \in there THEN @ \ {f} ELSE {}]
        /\ sum' = [sum EXCEPT ![a] = @ + size[f]]
    /\ UNCHANGED <<disk, usage, mu, lookup, fresh, playing, pc, cur, off, len, got>>

\* Also after an error: lastLookupTime.Set.
Stamp(a) ==
    /\ pc[a] = "walk" /\ left[a] = {}
    /\ fresh' = TRUE
    /\ Go(a, "store")
    /\ UNCHANGED <<disk, usage, mu, lookup, playing, locals>>

\* A plausible mistake: the size that was looked up is not stored.
StoreForgotten(a) ==
    /\ pc[a] = "store"
    /\ mu' = None /\ lookup' = FALSE
    /\ Go(a, IF a \in Scans THEN "idle" ELSE "room")
    /\ sum' = IF a \in Scans THEN [sum EXCEPT ![a] = 0] ELSE sum
    /\ UNCHANGED <<disk, usage, fresh, playing, cur, off, len, got, left>>

\* SetUsage, and the lock and the flag are given back.
StoreUsage(a) ==
    /\ pc[a] = "store"
    /\ usage' = sum[a] /\ mu' = None /\ lookup' = FALSE
    /\ IF a \in Scans THEN Go(a, "idle") /\ sum' = [sum EXCEPT ![a] = 0]
       ELSE Go(a, "room") /\ UNCHANGED sum
    /\ UNCHANGED <<disk, fresh, playing, cur, off, len, got, left>>

\* disk_check_interval passes.
Expire ==
    /\ Expiring /\ fresh
    /\ fresh' = FALSE
    /\ UNCHANGED <<disk, usage, mu, lookup, playing, pc, locals>>

-----------------------------------------------------------------------------
\* SFTP: Filewrite, then quotaFile's WriteAt and Close.

\* Filewrite asks HasSpaceAvailable(false), which looks an expired usage up itself,
\* and takes it for 0 where there are no lookups.
Filewrite(a) ==
    /\ pc[a] = "idle" /\ a \in Sessions
    /\ IF fresh \/ ~Checking
       THEN Go(a, "room") /\ sum' = [sum EXCEPT ![a] = IF Checking THEN usage ELSE 0]
       ELSE Go(a, "scan") /\ UNCHANGED sum
    /\ UNCHANGED <<disk, usage, mu, lookup, fresh, playing, cur, off, len, got, left>>

\* Denied when over the limit, or when the volume is low whatever the limit.
CheckRoom(a) ==
    /\ pc[a] = "room"
    /\ \/ HasSpace(Limit, sum[a]) /\ Go(a, "stat")
       \/ Go(a, "idle")
    /\ sum' = [sum EXCEPT ![a] = 0]
    /\ UNCHANGED <<disk, usage, mu, lookup, fresh, playing, cur, off, len, got, left>>

\* Filesystem.Touch: the size before the file is truncated ...
StatTouch(a) ==
    /\ pc[a] = "stat"
    /\ cur' = [cur EXCEPT ![a] = size[Target[a]]]
    /\ Go(a, "open")
    /\ UNCHANGED <<disk, usage, mu, lookup, fresh, playing, off, len, got, left, sum>>

\* ... is what quotaFile starts from.
OpenTouch(a) ==
    /\ pc[a] = "open"
    /\ \/ /\ there' = there \cup {Target[a]} /\ size' = [size EXCEPT ![Target[a]] = 0]
          /\ Go(a, "ready") /\ UNCHANGED locals
       \/ Finish(a) /\ UNCHANGED disk
    /\ UNCHANGED <<usage, mu, lookup, fresh, playing>>

Growth(a) == off[a] + len[a] - cur[a]

\* A plausible mistake: only the growth of the first write is reserved.
WriteAtUnreserved(a, o, n) ==
    /\ pc[a] = "ready" /\ o + n <= MaxSize
    /\ off' = [off EXCEPT ![a] = o] /\ len' = [len EXCEPT ![a] = n]
    /\ Go(a, IF o = 0 /\ n > cur[a] THEN "reserve" ELSE "write")
    /\ UNCHANGED <<disk, usage, mu, lookup, fresh, playing, cur, got, left, sum>>

\* A write that does not go past quotaFile.size reserves nothing.
WriteAt(a, o, n) ==
    /\ pc[a] = "ready" /\ o + n <= MaxSize
    /\ off' = [off EXCEPT ![a] = o] /\ len' = [len EXCEPT ![a] = n]
    /\ Go(a, IF o + n > cur[a] THEN "reserve" ELSE "write")
    /\ UNCHANGED <<disk, usage, mu, lookup, fresh, playing, cur, got, left, sum>>

EndWrite(a) == off' = [off EXCEPT ![a] = 0] /\ len' = [len EXCEPT ![a] = 0]

\* A plausible mistake: the limit is compared with the usage before the growth.
ReserveLate(a) ==
    /\ pc[a] = "reserve" /\ mu = None
    /\ IF HasSpace(Limit, usage)
       THEN mu' = a /\ Go(a, "grow") /\ UNCHANGED <<off, len>>
       ELSE Go(a, "ready") /\ EndWrite(a) /\ UNCHANGED mu
    /\ UNCHANGED <<disk, usage, lookup, fresh, playing, cur, got, left, sum>>

\* reserveDisk takes the lock and asks CanFit ...
Reserve(a) ==
    /\ pc[a] = "reserve" /\ mu = None
    /\ IF CanFit(Limit, usage, Growth(a))
       THEN mu' = a /\ Go(a, "grow") /\ UNCHANGED <<off, len>>
       ELSE Go(a, "ready") /\ EndWrite(a) /\ UNCHANGED mu
    /\ UNCHANGED <<disk, usage, lookup, fresh, playing, cur, got, left, sum>>

\* ... and adds the growth to the usage.
AddGrowth(a) ==
    /\ pc[a] = "grow"
    /\ Add(Growth(a)) /\ mu' = None
    /\ Go(a, "write")
    /\ UNCHANGED <<disk, lookup, fresh, playing, locals>>

\* n bytes are written, fewer than asked when the write fails; what was reserved
\* and not used is owed to the usage.
WriteBytes(a, n) ==
    LET end == IF n > 0 THEN Bigger(cur[a], off[a] + n) ELSE cur[a]
    IN  /\ pc[a] = "write" /\ n <= len[a]
        /\ size' = IF n > 0 THEN [size EXCEPT ![Target[a]] = Bigger(@, off[a] + n)] ELSE size
        /\ cur' = [cur EXCEPT ![a] = end]
        /\ IF off[a] + len[a] > end
           THEN got' = [got EXCEPT ![a] = end - (off[a] + len[a])] /\ Go(a, "settle")
           ELSE Go(a, "ready") /\ UNCHANGED got
        /\ EndWrite(a)
        /\ UNCHANGED <<there, usage, mu, lookup, fresh, playing, left, sum>>

\* adjustDisk after a short write.
Settle(a) ==
    /\ pc[a] = "settle" /\ mu = None
    /\ Add(got[a])
    /\ got' = [got EXCEPT ![a] = 0]
    /\ Go(a, "ready")
    /\ UNCHANGED <<disk, mu, lookup, fresh, playing, cur, off, len, left, sum>>

\* Close measures the file ...
Close(a) ==
    /\ pc[a] = "ready"
    /\ got' = [got EXCEPT ![a] = size[Target[a]] - cur[a]]
    /\ Go(a, "close")
    /\ UNCHANGED <<disk, usage, mu, lookup, fresh, playing, cur, off, len, left, sum>>

\* ... and corrects the usage by the difference.
CloseAdjust(a) ==
    /\ pc[a] = "close" /\ (mu = None \/ got[a] = 0)
    /\ Add(got[a])
    /\ Finish(a)
    /\ UNCHANGED <<disk, mu, lookup, fresh, playing>>

-----------------------------------------------------------------------------
\* Filesystem.Write and Filesystem.Copy: a check, a write and an Add, no lock.

StatWrite(a, n) ==
    /\ pc[a] = "idle" /\ a \in Uploads
    /\ cur' = [cur EXCEPT ![a] = size[Target[a]]] /\ len' = [len EXCEPT ![a] = n]
    /\ Go(a, "check")
    /\ UNCHANGED <<disk, usage, mu, lookup, fresh, playing, off, got, left, sum>>

\* The name of the copy is one that is not taken.
StatCopy(a) ==
    /\ pc[a] = "idle" /\ a \in Copies
    /\ Source[a] \in there /\ Target[a] \notin there
    /\ len' = [len EXCEPT ![a] = size[Source[a]]]
    /\ Go(a, "check")
    /\ UNCHANGED <<disk, usage, mu, lookup, fresh, playing, cur, off, got, left, sum>>

CheckFit(a) ==
    /\ pc[a] = "check"
    /\ IF CanFit(Limit, usage, len[a] - cur[a])
       THEN Go(a, "touch") /\ UNCHANGED locals
       ELSE Finish(a)
    /\ UNCHANGED <<disk, usage, mu, lookup, fresh, playing>>

\* Write truncates the file, Copy opens what it takes for a new one.
TouchTarget(a) ==
    /\ pc[a] = "touch"
    /\ \/ /\ there' = there \cup {Target[a]}
          /\ size' = IF a \in Uploads THEN [size EXCEPT ![Target[a]] = 0] ELSE size
          /\ Go(a, "copy") /\ UNCHANGED locals
       \/ Finish(a) /\ UNCHANGED disk
    /\ UNCHANGED <<usage, mu, lookup, fresh, playing>>

\* A plausible mistake: what was announced is accounted, not what was copied.
CopyAnnounced(a, n) ==
    /\ pc[a] = "copy" /\ n <= len[a]
    /\ size' = [size EXCEPT ![Target[a]] = Bigger(@, n)]
    /\ got' = [got EXCEPT ![a] = len[a] - cur[a]]
    /\ Go(a, "count")
    /\ UNCHANGED <<there, usage, mu, lookup, fresh, playing, cur, off, len, left, sum>>

\* n bytes are copied, fewer than announced when the source ends or fails.
CopyBytes(a, n) ==
    /\ pc[a] = "copy" /\ n <= len[a]
    /\ size' = [size EXCEPT ![Target[a]] = Bigger(@, n)]
    /\ got' = [got EXCEPT ![a] = n - cur[a]]
    /\ Go(a, "count")
    /\ UNCHANGED <<there, usage, mu, lookup, fresh, playing, cur, off, len, left, sum>>

CountBytes(a) ==
    /\ pc[a] = "count"
    /\ Add(got[a])
    /\ Finish(a)
    /\ UNCHANGED <<disk, mu, lookup, fresh, playing>>

-----------------------------------------------------------------------------
\* CompressFiles: the archive is written first and judged afterwards.

\* An archive whose stream fails is left behind and not counted.  Its name tells
\* the time, and is not taken.
StreamArchive(a, n) ==
    /\ pc[a] = "idle" /\ a \in Archives /\ Target[a] \notin there
    /\ there' = there \cup {Target[a]} /\ size' = [size EXCEPT ![Target[a]] = n]
    /\ \/ got' = [got EXCEPT ![a] = n] /\ Go(a, "fit")
       \/ UNCHANGED <<got, pc>>
    /\ UNCHANGED <<usage, mu, lookup, fresh, playing, cur, off, len, left, sum>>

\* The Remove of an archive that does not fit fails: its handle is still open.
JudgeArchive(a) ==
    /\ pc[a] = "fit"
    /\ IF CanFit(Limit, usage, got[a]) THEN Go(a, "add") /\ UNCHANGED locals ELSE Finish(a)
    /\ UNCHANGED <<disk, usage, mu, lookup, fresh, playing>>

AddArchive(a) ==
    /\ pc[a] = "add"
    /\ Add(got[a])
    /\ Finish(a)
    /\ UNCHANGED <<disk, mu, lookup, fresh, playing>>

-----------------------------------------------------------------------------
\* Delete: Quota.Remove by way of RemoveStat.

StatRemove(a) ==
    /\ pc[a] = "idle" /\ a \in Deletes
    /\ Target[a] \in there
    /\ cur' = [cur EXCEPT ![a] = size[Target[a]]]
    /\ Go(a, "remove")
    /\ UNCHANGED <<disk, usage, mu, lookup, fresh, playing, off, len, got, left, sum>>

Remove(a) ==
    LET f == Target[a]
    IN  /\ pc[a] = "remove"
        /\ IF f \in there /\ ~Busy(f)
           THEN there' = there \ {f} /\ size' = [size EXCEPT ![f] = 0]
                /\ Go(a, "uncount") /\ UNCHANGED locals
           ELSE Finish(a) /\ UNCHANGED disk
        /\ UNCHANGED <<usage, mu, lookup, fresh, playing>>

Uncount(a) ==
    /\ pc[a] = "uncount"
    /\ Add(-cur[a])
    /\ Finish(a)
    /\ UNCHANGED <<disk, mu, lookup, fresh, playing>>

-----------------------------------------------------------------------------

\* The game server writes its files without asking anyone, until it stops.
GameWrite(f, n) ==
    /\ playing /\ f \in there
    /\ size' = [size EXCEPT ![f] = n]
    /\ UNCHANGED <<there, usage, mu, lookup, fresh, playing, pc, locals>>

GameStop ==
    /\ playing /\ playing' = FALSE
    /\ UNCHANGED <<disk, usage, mu, lookup, fresh, pc, locals>>

\* What users begin, and what a client does with an open handle.
Ask(a) ==
    \/ Filewrite(a) \/ StatCopy(a) \/ StatRemove(a) \/ Close(a)
    \/ \E n \in Sizes : StatWrite(a, n) \/ StreamArchive(a, n)
    \/ \E o \in Sizes, n \in Sizes \ {0} : WriteAt(a, o, n)

\* What a goroutine then does of itself.
Step(a) ==
    \/ BeginScan(a) \/ Walk(a) \/ Stamp(a) \/ StoreUsage(a)
    \/ CheckRoom(a) \/ StatTouch(a) \/ OpenTouch(a)
    \/ Reserve(a) \/ AddGrowth(a) \/ Settle(a) \/ CloseAdjust(a)
    \/ CheckFit(a) \/ TouchTarget(a) \/ CountBytes(a)
    \/ JudgeArchive(a) \/ AddArchive(a) \/ Remove(a) \/ Uncount(a)
    \/ \E n \in Sizes : WriteBytes(a, n) \/ CopyBytes(a, n)

Next ==
    \/ \E a \in Actors : StartScan(a) \/ Ask(a) \/ Step(a)
    \/ Expire \/ GameStop
    \/ \E f \in Files, n \in Sizes : GameWrite(f, n)

Spec == Init /\ [][Next]_vars

\* Goroutines run, time passes, and the statistics of a running server ask for its
\* usage; users need not ask for anything, and the game server need not stop.
Fairness ==
    /\ \A a \in Actors : WF_vars(Step(a))
    /\ \A a \in Scans : WF_vars(playing /\ StartScan(a))
    /\ WF_vars(Expire)
FairSpec == Spec /\ Fairness

-----------------------------------------------------------------------------

\* No operation on the files is under way and the game server is stopped.
Quiet == ~playing /\ \A a \in FileOps : pc[a] = "idle"

\* The reservations of SFTP writes (reserveDisk) keep the accounted usage within
\* the limit, whatever the interleaving of writes, short writes, closes and
\* deletions of different files.
UsageWithinLimit == Limit > 0 => usage <= Limit

\* The files never take more than what is accounted: a byte is reserved before
\* it is written and given back only after it is gone.
UsageCovers == Total <= usage

\* When no operation is under way the usage is what the files take.
UsageExact == Quiet => usage = Total

\* Whatever races, failed archives and the game server did to the usage, a lookup sets
\* it right for good once nothing is written any more (updateCachedDiskUsage), on a server
\* that goes on running: a stopped one has no statistics, and nobody may ever ask.
UsageConverges ==
    /\ <>[](playing /\ \A a \in FileOps : pc[a] = "idle")
    /\ <>[][UNCHANGED disk]_vars
    => <>[](usage = Total)

=============================================================================
