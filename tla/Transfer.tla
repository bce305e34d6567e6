------------------------------ MODULE Transfer ------------------------------
(* The transfer of one server between two nodes: the source streams the       *)
(* archive and its checksum to the target in one request, the target reports  *)
(* the outcome to the panel before it answers, and the source reports only    *)
(* failures. Either side may be cancelled or crash, the connection may break  *)
(* and a report to the panel, or its answer, may be lost. The panel is not    *)
(* part of the repository: it may ask again while it knows no outcome, takes  *)
(* the first report it gets, removes the server from the source after a       *)
(* success and from the target after a failure.                               *)

EXTENDS Naturals

CONSTANT MaxAttempts    \* bound: the requests the source makes, one after the other

ASSUME AttemptAssumption == MaxAttempts \in Nat

\* No request is 0; of the target's instances of the server, 0 is one made at its start.
Attempts == 1 .. MaxAttempts
NoAttempt == 0

\* The server's data: ordinary files, the files of the egg's deny list, and what no
\* archive holds (empty directories, sockets, links that cannot be read).
Data == {"plain", "denied", "special"}

VARIABLES
    panel,      \* "pending", "moved" or "failed"
    wire,       \* how much of a request's body was sent; "broken" when cut
    resp,       \* the target's answer: "none", "ok" or "error"
    req,        \* the request of the current transfer of the source
    srcPc, srcFlag, srcFiles,   \* PushArchiveToTarget, transferring, the data
    srcStop,                    \* the context of the outgoing transfer is cancelled
    stuck,                      \* the streaming goroutine waits to pass on its error
    dstPc, of,                  \* postTransfers, and the transfer a request works on
    got,                        \* the archive was read, and its hash: "good" or "bad"
    verified, successful,
    incoming,                   \* the transfer the target knows of
    dstFlag, dstTracked,        \* instances of the server: transferring, in the manager
    dstStop,                    \* the transfers that are cancelled
    dstFiles, wiping,           \* the data, and a goroutine that removes it
    crossed     \* history: a transfer began when the target was not done with an earlier one

srcVars == <<req, srcPc, srcFlag, srcFiles, srcStop, stuck, crossed>>
reqVars == <<dstPc, of, got, verified, successful>>
dstVars == <<reqVars, incoming, dstFlag, dstTracked, dstStop, dstFiles, wiping>>
trVars  == <<panel, wire, resp, srcVars, dstVars>>

TrInit ==
    /\ panel = "pending" /\ req = NoAttempt
    /\ wire = [r \in Attempts |-> "none"] /\ resp = [r \in Attempts |-> "none"]
    /\ srcPc = "idle" /\ srcFlag = FALSE /\ srcFiles = Data /\ srcStop = FALSE
    /\ stuck = FALSE /\ crossed = FALSE
    /\ dstPc = [r \in Attempts |-> "idle"] /\ of = [r \in Attempts |-> NoAttempt]
    /\ got = [r \in Attempts |-> "none"]
    /\ verified = [r \in Attempts |-> FALSE] /\ successful = [r \in Attempts |-> FALSE]
    /\ incoming = NoAttempt /\ dstFlag = {} /\ dstTracked = {} /\ dstStop = {}
    /\ dstFiles = {} /\ wiping = FALSE

\* A report to the panel: taken or refused, and its answer seen or lost.
\* The first report counts.
SetTransferStatus(outcome, acked) ==
    \/ panel = "pending" /\ panel' = outcome
    \/ ~acked /\ UNCHANGED panel

-----------------------------------------------------------------------------
(* The source *)

AtWork(r) == dstPc[r] \notin {"idle", "ended"}

\* The flag is tested and set in the handler.
PostServerTransfer(r) ==
    /\ srcPc \in {"idle", "ended"} /\ panel = "pending" /\ ~srcFlag
    /\ wire[r] = "none" /\ \A q \in Attempts : q < r => wire[q] # "none"
    /\ req' = r /\ srcFlag' = TRUE /\ srcPc' = "halt" /\ srcStop' = FALSE /\ stuck' = FALSE
    /\ crossed' = (crossed \/ wiping \/ \E q \in Attempts : AtWork(q))
    /\ UNCHANGED <<panel, wire, resp, srcFiles, dstVars>>

\* The server has to stop within 15 seconds; the transfer is then outgoing.
HaltSource ==
    /\ srcPc = "halt"
    /\ \/ srcPc' = "archive" /\ UNCHANGED srcFlag
       \/ srcPc' = "ended" /\ srcFlag' = FALSE
    /\ UNCHANGED <<panel, wire, resp, req, srcFiles, srcStop, stuck, crossed, dstVars>>

Outgoing == srcPc \in {"archive", "sending", "failed"}

\* DELETE /transfer on the source.
CancelOutgoing ==
    /\ Outgoing /\ srcFlag /\ srcStop' = TRUE
    /\ UNCHANGED <<panel, wire, resp, req, srcPc, srcFlag, srcFiles, stuck, crossed, dstVars>>

\* The disk usage is looked up and the request begins.
OpenStream ==
    /\ srcPc = "archive"
    /\ \/ srcPc' = "sending" /\ wire' = [wire EXCEPT ![req] = "open"]
       \/ srcPc' = "failed" /\ UNCHANGED wire
    /\ UNCHANGED <<panel, resp, req, srcFlag, srcFiles, srcStop, stuck, crossed, dstVars>>

After == [open |-> "archive", archive |-> "checksum", checksum |-> "closed"]

\* The goroutine writes the archive, the checksum and the end of the body. An
\* error of the archive is offered on errChan, which is read after the answer.
StreamPart ==
    /\ srcPc = "sending" /\ wire[req] \in DOMAIN After /\ ~stuck /\ ~srcStop
    /\ \/ wire' = [wire EXCEPT ![req] = After[@]] /\ UNCHANGED stuck
       \/ wire[req] = "open" /\ stuck' = TRUE /\ UNCHANGED wire
    /\ UNCHANGED <<panel, resp, req, srcPc, srcFlag, srcFiles, srcStop, crossed, dstVars>>

\* A plausible mistake: the request is made without the transfer's context.
RequestReturnsDeaf ==
    /\ srcPc = "sending"
    /\ \/ resp[req] = "ok" /\ srcPc' = "success"
       \/ (resp[req] = "error" \/ wire[req] = "broken") /\ srcPc' = "failed"
    /\ UNCHANGED <<panel, wire, resp, req, srcFlag, srcFiles, srcStop, stuck, crossed, dstVars>>

\* The request returns: an answer, a broken connection or the cancelled context.
RequestReturns ==
    /\ srcPc = "sending"
    /\ \/ resp[req] = "ok" /\ srcPc' = "success" /\ UNCHANGED wire
       \/ resp[req] = "error" /\ srcPc' = "failed" /\ UNCHANGED wire
       \/ wire[req] = "broken" /\ srcPc' = "failed" /\ UNCHANGED wire
       \/ srcStop /\ srcPc' = "failed" /\ wire' = [wire EXCEPT ![req] = "broken"]
    /\ UNCHANGED <<panel, resp, req, srcFlag, srcFiles, srcStop, stuck, crossed, dstVars>>

\* A plausible mistake: the flag is left to the panel.
SourceFailsKeeps ==
    /\ srcPc = "failed" /\ srcPc' = "ended" /\ UNCHANGED srcFlag
    /\ \E acked \in BOOLEAN : SetTransferStatus("failed", acked)
    /\ UNCHANGED <<wire, resp, req, srcFiles, srcStop, stuck, crossed, dstVars>>

\* notifyPanelOfFailure: the flag is cleared whether or not the panel heard.
SourceFails ==
    /\ srcPc = "failed" /\ srcPc' = "ended" /\ srcFlag' = FALSE
    /\ \E acked \in BOOLEAN : SetTransferStatus("failed", acked)
    /\ UNCHANGED <<wire, resp, req, srcFiles, srcStop, stuck, crossed, dstVars>>

\* The daemon of the source dies.
SourceCrashes ==
    /\ srcPc \notin {"idle", "ended"}
    /\ srcPc' = "ended" /\ srcFlag' = FALSE /\ stuck' = FALSE
    /\ wire' = IF wire[req] = "none" THEN wire ELSE [wire EXCEPT ![req] = "broken"]
    /\ UNCHANGED <<panel, resp, req, srcFiles, srcStop, crossed, dstVars>>

-----------------------------------------------------------------------------
(* The target *)

\* The request is answered, unless nobody listens.
Answer(r, a) == resp' = IF wire[r] = "broken" THEN resp ELSE [resp EXCEPT ![r] = a]

\* postTransfers: a request for a server whose transfer is under way works on that.
AcceptTransfer(r) ==
    /\ dstPc[r] = "idle" /\ wire[r] \notin {"none", "broken"}
    /\ IF incoming = NoAttempt
       THEN dstPc' = [dstPc EXCEPT ![r] = "build"] /\ of' = [of EXCEPT ![r] = r]
       ELSE dstPc' = [dstPc EXCEPT ![r] = "reading"] /\ of' = [of EXCEPT ![r] = incoming]
    /\ UNCHANGED <<panel, wire, resp, srcVars, got, verified, successful, incoming, dstFlag,
                   dstTracked, dstStop, dstFiles, wiping>>

\* The handler returns, and what was its own is gone.
HandlerEnds(r) ==
    /\ dstPc' = [dstPc EXCEPT ![r] = "ended"] /\ of' = [of EXCEPT ![r] = NoAttempt]
    /\ got' = [got EXCEPT ![r] = "none"]
    /\ verified' = [verified EXCEPT ![r] = FALSE] /\ successful' = [successful EXCEPT ![r] = FALSE]
    /\ dstStop' = {s \in dstStop : \E q \in Attempts \ {r} : of[q] = s}

\* Otherwise the server is put together, flagged and tracked. When that fails the
\* handler reports for a server it does not have, and panics.
BuildServer(r) ==
    /\ dstPc[r] = "build"
    /\ \/ /\ dstPc' = [dstPc EXCEPT ![r] = "reading"]
          /\ dstFlag' = dstFlag \cup {r} /\ dstTracked' = dstTracked \cup {r}
          /\ incoming' = r
          /\ UNCHANGED resp
          /\ UNCHANGED <<of, got, verified, successful, dstStop>>
       \/ HandlerEnds(r) /\ Answer(r, "error") /\ UNCHANGED <<dstFlag, dstTracked, incoming>>
    /\ UNCHANGED <<panel, wire, srcVars, dstFiles, wiping>>

\* DELETE /transfers on the target.
CancelIncoming ==
    /\ incoming # NoAttempt /\ dstTracked \cap dstFlag # {}
    /\ dstStop' = dstStop \cup {incoming}
    /\ UNCHANGED <<panel, wire, resp, srcVars, reqVars, incoming, dstFlag, dstTracked, dstFiles, wiping>>

\* What an archive of the data holds, and what its extraction writes.
Archived(data) == data \ {"special"}
Extracted(data) == data \ {"denied"}

\* The archive is extracted while it is read, and hashed. Bytes that were changed on
\* the way leave some files wrong, and a failing extraction some missing.
ReadArchive(r) ==
    /\ dstPc[r] = "reading" /\ got[r] = "none" /\ of[r] \notin dstStop
    /\ \/ /\ wire[r] \in {"archive", "checksum", "closed"}
          /\ \/ got' = [got EXCEPT ![r] = "good"] /\ dstFiles' = Extracted(Archived(srcFiles))
             \/ got' = [got EXCEPT ![r] = "bad"] /\ dstFiles' = {}
          /\ UNCHANGED dstPc
       \/ dstPc' = [dstPc EXCEPT ![r] = "deferred"] /\ dstFiles' = {} /\ UNCHANGED got
    /\ UNCHANGED <<panel, wire, resp, srcVars, of, verified, successful, incoming, dstFlag,
                   dstTracked, dstStop, wiping>>

\* A plausible mistake: the checksum is taken as it comes.
ReadChecksumUnread(r) ==
    /\ dstPc[r] = "reading" /\ got[r] # "none" /\ ~verified[r] /\ of[r] \notin dstStop
    /\ wire[r] \in {"checksum", "closed"}
    /\ verified' = [verified EXCEPT ![r] = TRUE]
    /\ UNCHANGED <<panel, wire, resp, srcVars, dstPc, of, got, successful, incoming, dstFlag,
                   dstTracked, dstStop, dstFiles, wiping>>

\* The checksum that follows is compared with the hash.
ReadChecksum(r) ==
    /\ dstPc[r] = "reading" /\ got[r] # "none" /\ ~verified[r] /\ of[r] \notin dstStop
    /\ wire[r] \in {"checksum", "closed"}
    /\ IF got[r] = "good"
       THEN verified' = [verified EXCEPT ![r] = TRUE] /\ UNCHANGED dstPc
       ELSE dstPc' = [dstPc EXCEPT ![r] = "deferred"] /\ UNCHANGED verified
    /\ UNCHANGED <<panel, wire, resp, srcVars, of, got, successful, incoming, dstFlag,
                   dstTracked, dstStop, dstFiles, wiping>>

\* The body ends, is cut, or the transfer is cancelled: what was verified goes on.
LeaveLoop(r) ==
    /\ dstPc[r] = "reading"
    /\ \/ (of[r] \in dstStop \/ (wire[r] = "closed" /\ verified[r]))
          /\ dstPc' = [dstPc EXCEPT ![r] = IF verified[r] THEN "environment" ELSE "deferred"]
       \/ wire[r] = "broken" /\ dstPc' = [dstPc EXCEPT ![r] = "deferred"]
    /\ UNCHANGED <<panel, wire, resp, srcVars, of, got, verified, successful, incoming, dstFlag,
                   dstTracked, dstStop, dstFiles, wiping>>

CreateTargetEnvironment(r) ==
    /\ dstPc[r] = "environment" /\ dstPc' = [dstPc EXCEPT ![r] = "deferred"]
    /\ \E ok \in BOOLEAN : successful' = [successful EXCEPT ![r] = ok]
    /\ UNCHANGED <<panel, wire, resp, srcVars, of, got, verified, incoming, dstFlag,
                   dstTracked, dstStop, dstFiles, wiping>>

\* The deferred function: there is no incoming transfer any more, and after a failure
\* no instance of the server.
ForgetTransfer(r) ==
    /\ dstPc[r] = "deferred" /\ dstPc' = [dstPc EXCEPT ![r] = "report"]
    /\ incoming' = NoAttempt
    /\ dstTracked' = IF successful[r] THEN dstTracked ELSE {}
    /\ UNCHANGED <<panel, wire, resp, srcVars, of, got, verified, successful, dstFlag, dstStop,
                   dstFiles, wiping>>

\* The panel is told, and the request answered. The flag is cleared only when the
\* panel answered; a failed transfer's files are removed when it did not.
ReportTransfer(r) ==
    /\ dstPc[r] = "report" /\ HandlerEnds(r)
    /\ \E acked \in BOOLEAN :
        /\ SetTransferStatus(IF successful[r] THEN "moved" ELSE "failed", acked)
        /\ dstFlag' = IF acked THEN dstFlag \ {of[r]} ELSE dstFlag
        /\ wiping' = (wiping \/ (~acked /\ ~successful[r]))
    /\ Answer(r, IF successful[r] THEN "ok" ELSE "error")
    /\ UNCHANGED <<wire, srcVars, incoming, dstTracked, dstFiles>>

\* The goroutine that removes the files of a failed transfer.
WipeFiles ==
    /\ wiping /\ wiping' = FALSE /\ dstFiles' = {}
    /\ UNCHANGED <<panel, wire, resp, srcVars, reqVars, incoming, dstFlag, dstTracked, dstStop>>

\* After a restart the target has the servers the panel assigns to it.
TargetCrashes ==
    /\ wiping \/ \E r \in Attempts : AtWork(r)
    /\ dstPc' = [r \in Attempts |-> IF AtWork(r) THEN "ended" ELSE dstPc[r]]
    /\ of' = [r \in Attempts |-> NoAttempt] /\ got' = [r \in Attempts |-> "none"]
    /\ verified' = [r \in Attempts |-> FALSE] /\ successful' = [r \in Attempts |-> FALSE]
    /\ wire' = [r \in Attempts |-> IF AtWork(r) THEN "broken" ELSE wire[r]]
    /\ incoming' = NoAttempt /\ dstFlag' = {} /\ dstStop' = {} /\ wiping' = FALSE
    /\ dstTracked' = IF panel = "moved" THEN {NoAttempt} ELSE {}
    /\ UNCHANGED <<panel, resp, srcVars, dstFiles>>

-----------------------------------------------------------------------------
(* The network and the panel *)

ConnectionBreaks(r) ==
    /\ wire[r] \notin {"none", "broken"} /\ wire' = [wire EXCEPT ![r] = "broken"]
    /\ UNCHANGED <<panel, resp, srcVars, dstVars>>

PanelRemovesFromSource ==
    /\ panel = "moved" /\ srcFiles # {} /\ srcPc \in {"ended", "success"}
    /\ srcFiles' = {} /\ srcPc' = "ended" /\ srcFlag' = FALSE
    /\ UNCHANGED <<panel, wire, resp, req, srcStop, stuck, crossed, dstVars>>

PanelRemovesFromTarget ==
    /\ panel = "failed" /\ dstTracked # {} /\ \A r \in Attempts : ~AtWork(r)
    /\ dstTracked' = {} /\ dstFiles' = {} /\ dstFlag' = {}
    /\ UNCHANGED <<panel, wire, resp, srcVars, reqVars, incoming, dstStop, wiping>>

SourceStep ==
    \/ HaltSource \/ OpenStream \/ StreamPart \/ RequestReturns \/ SourceFails

TargetStep ==
    \/ WipeFiles
    \/ \E r \in Attempts :
        \/ AcceptTransfer(r) \/ BuildServer(r) \/ ReadArchive(r) \/ ReadChecksum(r) \/ LeaveLoop(r)
        \/ CreateTargetEnvironment(r) \/ ForgetTransfer(r) \/ ReportTransfer(r)

TrNext ==
    \/ SourceStep \/ CancelOutgoing \/ SourceCrashes
    \/ TargetStep \/ CancelIncoming \/ TargetCrashes
    \/ \E r \in Attempts : PostServerTransfer(r) \/ ConnectionBreaks(r)
    \/ PanelRemovesFromSource \/ PanelRemovesFromTarget

TransferSpec == TrInit /\ [][TrNext]_trVars

-----------------------------------------------------------------------------
(* Properties *)

\* The places and contents of a transfer, and its flags.
TrPlaces ==
    /\ panel \in {"pending", "moved", "failed"}
    /\ wire \in [Attempts -> {"none", "open", "archive", "checksum", "closed", "broken"}]
    /\ resp \in [Attempts -> {"none", "ok", "error"}]
    /\ srcPc \in {"idle", "halt", "archive", "sending", "success", "failed", "ended"}
    /\ dstPc \in [Attempts -> {"idle", "build", "reading", "environment", "deferred", "report", "ended"}]
    /\ got \in [Attempts -> {"none", "good", "bad"}]
    /\ req \in Attempts \cup {NoAttempt} /\ (srcPc # "idle" => req # NoAttempt)
    /\ incoming \in Attempts \cup {NoAttempt} /\ of \in [Attempts -> Attempts \cup {NoAttempt}]

TrFlags ==
    /\ srcFlag \in BOOLEAN /\ srcStop \in BOOLEAN /\ stuck \in BOOLEAN /\ crossed \in BOOLEAN
    /\ srcFiles \subseteq Data /\ dstFiles \subseteq Data /\ wiping \in BOOLEAN
    /\ verified \in [Attempts -> BOOLEAN] /\ successful \in [Attempts -> BOOLEAN]
    /\ dstFlag \subseteq Attempts \cup {NoAttempt} /\ dstTracked \subseteq Attempts \cup {NoAttempt}
    /\ dstStop \subseteq Attempts

TrTypeOK == TrPlaces /\ TrFlags

\* Wherever the panel believes the server to be, its ordinary files are there in full: on
\* the target only after a verified archive, on the source, with all other data, until
\* then. And the target offers the server only once the panel has moved it. What the
\* archive or the extraction leaves out is lost with the source's copy; and nothing is
\* claimed of a transfer that began when the target was not done with an earlier one.
NoDataLoss ==
    ~crossed =>
        /\ IF panel = "moved" THEN "plain" \in dstFiles ELSE srcFiles = Data
        /\ dstTracked \subseteq dstFlag \/ panel = "moved"

\* A transfer that failed for the panel leaves the server usable on the source
\* when the source's goroutine is done, whoever failed or cancelled first.
FailureFreesSource ==
    ~crossed /\ panel = "failed" /\ srcPc \in {"success", "ended"} => ~srcFlag

\* A cancelled outgoing transfer comes to an end: the server is free again, even
\* if the goroutine that streams the archive waits for ever to pass on its error,
\* unless the target has already answered that it has everything.
CancelFrees == srcStop ~> ~srcFlag \/ srcPc = "success"

=============================================================================
