------------------------------ MODULE Backups ------------------------------
(* One backup of a server: generated on the disk, uploaded in parts when the  *)
(* adapter is s3, reported to the panel, and deleted on request. A            *)
(* file is the number of bytes it has; a part is the range of bytes that the  *)
(* endpoint took. The panel and the S3 endpoint are external: a report or its *)
(* answer may be lost, and an endpoint may fail before or after it has read   *)
(* the body of a request.                                                     *)
EXTENDS Naturals, Sequences

CONSTANTS
    Sizes,      \* bound: the sizes an archive may have
    PartSizes,  \* bound: the part sizes the panel may ask for
    MaxRetries, \* bound: the attempts that fit in the minute of the backoff
    NoFile

ASSUME SizesAreNat == Sizes \cup PartSizes \subseteq Nat \ {0} /\ MaxRetries \in Nat
ASSUME NoFileIsNone == NoFile \notin Nat

VARIABLES
    adapter,        \* "wings" or "s3"
    size, partSize, \* of the archive, and of a part as the panel says
    file,           \* the bytes of the archive on the disk, or NoFile
    bPc,            \* the goroutine of Server.Backup
    part,           \* the part that is uploaded, from 0
    offset,         \* how far the archive has been read
    left,           \* what the body of the request still has
    tries,
    parts,          \* uploadedParts: the ranges the endpoint took
    verdict,        \* what the panel believes: "none", "success" or "failure"
    lost,           \* a report was taken but its answer was lost
    deleted,        \* the backup was deleted on request
    kept            \* history: the file was not readable or not removable

bVars == <<adapter, size, partSize, file, bPc, part, offset, left, tries, parts,
           verdict, lost, deleted, kept>>
upVars == <<part, offset, left, tries, parts>>

BInit ==
    /\ adapter \in {"wings", "s3"} /\ size \in Sizes /\ partSize \in PartSizes
    /\ file = NoFile /\ bPc = "generate"
    /\ part = 0 /\ offset = 0 /\ left = 0 /\ tries = 0 /\ parts = <<>>
    /\ verdict = "none" /\ lost = FALSE /\ deleted = FALSE /\ kept = FALSE

\* The panel hands out one upload link per part.
PartCount == (size + partSize - 1) \div partSize

-----------------------------------------------------------------------------

\* The archive is created; one that fails stays on the disk as far as it came.
CreateArchive ==
    /\ bPc = "generate"
    /\ file' = IF file = NoFile THEN 0 ELSE file + 1
    /\ bPc' = IF file' < size THEN "generate" ELSE IF adapter = "s3" THEN "part" ELSE "details"
    /\ UNCHANGED <<adapter, size, partSize, upVars, verdict, lost, deleted, kept>>

ArchiveFails ==
    /\ bPc = "generate" /\ bPc' = "failed"
    /\ UNCHANGED <<adapter, size, partSize, file, upVars, verdict, lost, deleted, kept>>

\* A plausible mistake: the remainder, which is nothing for a whole last part.
SizeOfPartModulo(i) == IF i + 1 < PartCount THEN partSize ELSE size % partSize

\* Every part but the last has the size the panel asked for.
SizeOfPart(i) == IF i + 1 < PartCount THEN partSize ELSE size - i * partSize

\* The request for a part; its body is limited to the size of the part.
BeginPart ==
    /\ bPc = "part"
    /\ IF part = PartCount
       THEN bPc' = "details" /\ UNCHANGED <<left, tries>>
       ELSE bPc' = "put" /\ left' = SizeOfPart(part) /\ tries' = 0
    /\ UNCHANGED <<adapter, size, partSize, file, part, offset, parts, verdict, lost, deleted, kept>>

\* What can be read of the body: no more than the archive has.
Readable == IF left <= size - offset THEN left ELSE size - offset

\* The body is not rewound: it can be sent once. The client refuses to send one
\* that is shorter than its content length.
TakePart ==
    /\ bPc = "put" /\ left = SizeOfPart(part) /\ Readable = left
    /\ parts' = Append(parts, <<offset, offset + left>>)
    /\ part' = part + 1 /\ offset' = offset + left /\ left' = 0 /\ bPc' = "part"
    /\ UNCHANGED <<adapter, size, partSize, file, tries, verdict, lost, deleted, kept>>

\* The endpoint is not reached, or answers 5xx when it has read the body, or the
\* body is short: the attempt is repeated after a while.
RetryPart ==
    /\ bPc = "put" /\ tries < MaxRetries /\ tries' = tries + 1
    /\ \/ UNCHANGED <<offset, left>>
       \/ offset' = offset + Readable /\ left' = left - Readable
    /\ UNCHANGED <<adapter, size, partSize, file, bPc, part, parts, verdict, lost, deleted, kept>>

\* A 4xx answer, a cancelled context or the end of the minute.
FailPart ==
    /\ bPc = "put" /\ bPc' = "failed"
    /\ UNCHANGED <<adapter, size, partSize, file, upVars, verdict, lost, deleted, kept>>

\* os.Remove, whose error nobody looks at.
RemoveArchive ==
    \/ file' = NoFile /\ UNCHANGED kept
    \/ file # NoFile /\ kept' = TRUE /\ UNCHANGED file

\* The checksum and the size are read from the disk, which may fail although the
\* archive is there; the s3 adapter's deferred Remove follows.
GenerateReturns(dropped) ==
    /\ bPc \in {"details", "failed"}
    /\ bPc' \in IF bPc = "details" /\ file # NoFile THEN {"succeeded", "notify"} ELSE {"notify"}
    /\ IF dropped THEN RemoveArchive
       ELSE UNCHANGED file /\ kept' = (kept \/ (bPc = "details" /\ bPc' = "notify" /\ file # NoFile))
    /\ UNCHANGED <<adapter, size, partSize, upVars, verdict, lost, deleted>>

\* A plausible mistake: the local copy is removed only after an upload.
DetailsKeepCopy == GenerateReturns(adapter = "s3" /\ bPc = "details")

\* Generate returns; the local copy of an upload is removed on every path.
Details == GenerateReturns(adapter = "s3")

\* The panel takes the report or not, and its answer arrives or not.
Told(v, acked) ==
    \/ verdict' = v /\ lost' = ~acked
    \/ ~acked /\ UNCHANGED <<verdict, lost>>

NotifyFailure ==
    /\ bPc = "notify" /\ bPc' = "ended"
    /\ \E acked \in BOOLEAN : Told("failure", acked)
    /\ UNCHANGED <<adapter, size, partSize, file, upVars, deleted, kept>>

\* Without the panel's answer the archive is removed from the disk.
NotifySuccess ==
    /\ bPc = "succeeded" /\ bPc' = "ended"
    /\ \E acked \in BOOLEAN :
        Told("success", acked) /\ IF acked THEN UNCHANGED <<file, kept>> ELSE RemoveArchive
    /\ UNCHANGED <<adapter, size, partSize, upVars, deleted>>

-----------------------------------------------------------------------------

\* DELETE on the backup: located on the disk and removed, unless it is open.
DeleteBackup ==
    /\ bPc \notin {"generate", "part", "put"} /\ file # NoFile /\ file' = NoFile /\ deleted' = TRUE
    /\ UNCHANGED <<adapter, size, partSize, bPc, upVars, verdict, lost, kept>>

BackupStep ==
    \/ CreateArchive \/ ArchiveFails \/ BeginPart \/ TakePart \/ RetryPart \/ FailPart
    \/ Details \/ NotifyFailure \/ NotifySuccess

BNext == BackupStep \/ DeleteBackup

BackupSpec == BInit /\ [][BNext]_bVars

BFairness == WF_bVars(BackupStep)

-----------------------------------------------------------------------------
(* Properties *)

\* The ranges follow each other from the first byte on, and none is empty.
Chained(ps) ==
    /\ ps # <<>> => ps[1][1] = 0
    /\ \A i \in 1 .. Len(ps) : ps[i][1] < ps[i][2]
    /\ \A i \in 1 .. Len(ps) - 1 : ps[i][2] = ps[i + 1][1]

Covers(ps) == ps # <<>> /\ Chained(ps) /\ ps[Len(ps)][2] = size

\* An upload that the panel takes for a success consists of parts that follow
\* each other without a gap and make up the whole archive, whatever was sent
\* again (generateRemoteRequest, uploadPart).
UploadExact == adapter = "s3" /\ verdict = "success" => Covers(parts)

\* When the goroutine is done, the disk holds a whole local archive, or the copy
\* of an upload, that the panel has not acknowledged only if reading its details
\* or removing it failed; and the panel believes in a local archive that is not
\* there only if it was deleted on request or the answer to the report was lost,
\* since the archive is removed then (Server.Backup, Generate).
DiskAgrees ==
    bPc = "ended" =>
        /\ adapter = "s3" /\ file # NoFile => kept
        /\ adapter = "wings" /\ file = size /\ ~(verdict = "success" /\ ~lost) => kept
        /\ adapter = "wings" /\ verdict = "success" /\ file # size => deleted \/ lost

=============================================================================
