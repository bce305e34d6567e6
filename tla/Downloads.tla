----------------------------- MODULE Downloads -----------------------------
(***************************************************************************)
(* Downloads of remote files (router/downloader, the pull endpoints of     *)
(* router/router_server_files.go): the two caches that track them, the     *)
(* limit of a server, their cancellation.  The content and the disk usage  *)
(* are those of Filesystem.Write (DiskQuota).                              *)
(***************************************************************************)
EXTENDS FiniteSets, Naturals

CONSTANTS
    Pulls,          \* the requests, by the identifier each gets
    Owners,
    OwnerOf,        \* the server of each
    Slots           \* simultaneous downloads a server may have (3)

ASSUME PullsAssumption == OwnerOf \in [Pulls -> Owners] /\ Slots \in Nat

VARIABLES
    downloadCache,  \* the identifiers that are tracked
    serverCache,    \* how often the list of each server names each (its order is not used)
    dpc,            \* where each request is
    canCancel,      \* the downloads whose cancelFunc is set
    stopped,        \* the ones whose context is cancelled
    caller          \* the deletions between Cancel's two steps

lVars == <<downloadCache, serverCache, dpc, canCancel, stopped, caller>>

LInit ==
    /\ downloadCache = {} /\ serverCache = [s \in Owners |-> [d \in Pulls |-> 0]]
    /\ dpc = [d \in Pulls |-> "idle"]
    /\ canCancel = {} /\ stopped = {} /\ caller = {}

Goes(d, label) == dpc' = [dpc EXCEPT ![d] = label]
ByServer(s) == {d \in downloadCache : serverCache[s][d] > 0}

\* The checks of postServerPullRemoteFile: room on the disk, and a free slot.
PostServerPullRemoteFile(d) ==
    /\ dpc[d] = "idle"
    /\ \E room \in BOOLEAN :
        Goes(d, IF room /\ Cardinality(ByServer(OwnerOf[d])) < Slots THEN "admitted" ELSE "refused")
    /\ UNCHANGED <<downloadCache, serverCache, canCancel, stopped, caller>>

\* New tracks it; the request answers, or waits in the foreground.
Track(d) ==
    /\ dpc[d] = "admitted" /\ Goes(d, "tracked")
    /\ downloadCache' = downloadCache \cup {d}
    /\ serverCache' = [serverCache EXCEPT ![OwnerOf[d]][d] = @ + 1]
    /\ UNCHANGED <<canCancel, stopped, caller>>

Execute(d) ==
    /\ dpc[d] = "tracked" /\ Goes(d, "asking")
    /\ canCancel' = canCancel \cup {d}
    /\ UNCHANGED <<downloadCache, serverCache, stopped, caller>>

\* The request fails, also for an address that is not public, a status other than
\* 200 or a response without a length, or the file is written.
Responds(d) ==
    /\ dpc[d] = "asking"
    /\ Goes(d, "cancel") \/ (d \notin stopped /\ Goes(d, "writing"))
    /\ UNCHANGED <<downloadCache, serverCache, canCancel, stopped, caller>>

\* Write ends, with an error when the context ended first.
WriteEnds(d) ==
    /\ dpc[d] = "writing" /\ Goes(d, "cancel")
    /\ UNCHANGED <<downloadCache, serverCache, canCancel, stopped, caller>>

\* A plausible mistake: the list of the server keeps the identifier.
UntrackHalf(d) ==
    /\ downloadCache' = downloadCache \ {d} /\ UNCHANGED serverCache

\* Downloader.remove
Untrack(d) ==
    /\ downloadCache' = downloadCache \ {d}
    /\ serverCache' = IF d \in downloadCache
                      THEN [serverCache EXCEPT ![OwnerOf[d]][d] = 0]
                      ELSE serverCache

\* The deferred Cancel of Execute.
CancelOwn(d) ==
    /\ dpc[d] = "cancel" /\ Goes(d, "ended")
    /\ stopped' = stopped \cup {d} /\ Untrack(d)
    /\ UNCHANGED <<canCancel, caller>>

\* deleteServerPullRemoteFile: a tracked download is cancelled, then forgotten.
DeleteServerPullRemoteFile(d) ==
    /\ d \in downloadCache /\ d \notin caller
    /\ stopped' = IF d \in canCancel THEN stopped \cup {d} ELSE stopped
    /\ caller' = caller \cup {d}
    /\ UNCHANGED <<downloadCache, serverCache, dpc, canCancel>>
ForgetDownload(d) ==
    /\ d \in caller /\ caller' = caller \ {d} /\ Untrack(d)
    /\ UNCHANGED <<dpc, canCancel, stopped>>

LNext == \E d \in Pulls :
    \/ PostServerPullRemoteFile(d) \/ Track(d) \/ Execute(d) \/ Responds(d) \/ WriteEnds(d)
    \/ CancelOwn(d) \/ DeleteServerPullRemoteFile(d) \/ ForgetDownload(d)

PullSpec == LInit /\ [][LNext]_lVars

-----------------------------------------------------------------------------
(* A download that is over holds no slot of its server, and the two caches *)
(* name the same downloads, on every path through Execute and whatever     *)
(* deletions come between (Execute: "Once completed the download will be   *)
(* removed from the cache"; track, remove).                                *)
SlotsFreed ==
    /\ \A d \in Pulls : dpc[d] = "ended" => d \notin downloadCache
    /\ \A s \in Owners, d \in Pulls :
        serverCache[s][d] = IF d \in downloadCache /\ OwnerOf[d] = s THEN 1 ELSE 0

=============================================================================
