--------------------------- MODULE DeliveryProofs ---------------------------
(***************************************************************************)
(* What is handed over is not lost: the files of a server that moves to    *)
(* another node, whoever fails, is cancelled or crashes, and the activity  *)
(* log, for any entries, keys, caps and chunks.                            *)
(***************************************************************************)
EXTENDS Transfer, Activity, TLAPS

-----------------------------------------------------------------------------
\* Transfer

\* What a handler of the target has: only a good hash is verified, only a verified
\* archive makes it successful, and it answers when it is over.
HandlerInv ==
    \A r \in Attempts :
        /\ dstPc[r] = "environment" => verified[r]
        /\ verified[r] => got[r] = "good"
        /\ successful[r] => verified[r]
        /\ got[r] = "good" => AtWork(r)
        /\ resp[r] # "none" => dstPc[r] = "ended"
        /\ wire[r] = "none" => dstPc[r] = "idle"

\* The source has one request under way: an earlier one never reaches the target any more.
SourceInv ==
    /\ panel # "moved" => srcFiles = Data
    /\ srcPc = "success" => resp[req] = "ok"
    /\ srcPc = "ended" => ~srcFlag
    /\ srcPc = "idle" => req = NoAttempt
    /\ srcPc \in {"halt", "archive"} => wire[req] = "none"
    /\ srcPc \in {"failed", "ended"} => wire[req] \in {"none", "broken"} \/ dstPc[req] = "ended"
    /\ \A r \in Attempts \ {req} : wire[r] \in {"none", "broken"} \/ dstPc[r] = "ended"

\* When no transfer began too early, the target is at work on the source's request only,
\* and the panel knows what became of that one.
AloneInv ==
    ~crossed =>
        /\ \A r \in Attempts : AtWork(r) => r = req /\ panel # "moved" /\ ~wiping
        /\ \A r \in Attempts : got[r] = "good" => "plain" \in dstFiles
        /\ \A r \in Attempts : dstPc[r] = "report" /\ ~successful[r] => dstTracked = {}
        /\ wiping => req # NoAttempt /\ dstPc[req] = "ended"
        /\ panel = "moved" =>
            req # NoAttempt /\ dstPc[req] = "ended" /\ ~wiping /\ "plain" \in dstFiles
        /\ panel = "failed" =>
            srcPc = "ended" \/ (req # NoAttempt /\ dstPc[req] = "ended" /\ resp[req] # "ok")
        /\ dstTracked \subseteq dstFlag \/ panel = "moved"

TransferInv == TrTypeOK /\ HandlerInv /\ SourceInv /\ AloneInv

\* No step takes a variable out of its type.
LEMMA TransferPlaces ==
    ASSUME TrPlaces, [TrNext]_trVars
    PROVE  TrPlaces'
<1> USE AttemptAssumption DEF TrPlaces, srcVars, reqVars, dstVars, Attempts, NoAttempt
<1>1. CASE HaltSource BY <1>1 DEF HaltSource
<1>2. CASE CancelOutgoing BY <1>2 DEF CancelOutgoing
<1>3. CASE OpenStream BY <1>3 DEF OpenStream
<1>4. CASE StreamPart BY <1>4 DEF StreamPart, After
<1>5. CASE RequestReturns BY <1>5 DEF RequestReturns
<1>6. CASE SourceFails BY <1>6 DEF SourceFails, SetTransferStatus
<1>7. CASE SourceCrashes BY <1>7 DEF SourceCrashes
<1>8. CASE WipeFiles BY <1>8 DEF WipeFiles
<1>9. CASE CancelIncoming BY <1>9 DEF CancelIncoming
<1>10. CASE TargetCrashes BY <1>10 DEF TargetCrashes
<1>11. CASE PanelRemovesFromSource BY <1>11 DEF PanelRemovesFromSource
<1>12. CASE PanelRemovesFromTarget BY <1>12 DEF PanelRemovesFromTarget
<1>13. ASSUME NEW r \in Attempts, PostServerTransfer(r) PROVE TrPlaces'
    BY <1>13 DEF PostServerTransfer
<1>14. ASSUME NEW r \in Attempts, ConnectionBreaks(r) PROVE TrPlaces'
    BY <1>14 DEF ConnectionBreaks
<1>15. ASSUME NEW r \in Attempts, AcceptTransfer(r) PROVE TrPlaces'
    BY <1>15 DEF AcceptTransfer
<1>16. ASSUME NEW r \in Attempts, BuildServer(r) PROVE TrPlaces'
    BY <1>16 DEF BuildServer, HandlerEnds, Answer
<1>17. ASSUME NEW r \in Attempts, ReadArchive(r) PROVE TrPlaces'
    BY <1>17 DEF ReadArchive, Extracted, Archived
<1>18. ASSUME NEW r \in Attempts, ReadChecksum(r) PROVE TrPlaces'
    BY <1>18 DEF ReadChecksum
<1>19. ASSUME NEW r \in Attempts, LeaveLoop(r) PROVE TrPlaces'
    BY <1>19 DEF LeaveLoop
<1>20. ASSUME NEW r \in Attempts, CreateTargetEnvironment(r) PROVE TrPlaces'
    BY <1>20 DEF CreateTargetEnvironment
<1>21. ASSUME NEW r \in Attempts, ForgetTransfer(r) PROVE TrPlaces'
    BY <1>21 DEF ForgetTransfer
<1>22. ASSUME NEW r \in Attempts, ReportTransfer(r) PROVE TrPlaces'
    BY <1>22 DEF ReportTransfer, HandlerEnds, Answer, SetTransferStatus
<1>23. CASE UNCHANGED trVars BY <1>23 DEF trVars
<1> QED BY <1>1, <1>2, <1>3, <1>4, <1>5, <1>6, <1>7, <1>8, <1>9, <1>10, <1>11, <1>12, <1>13,
           <1>14, <1>15, <1>16, <1>17, <1>18, <1>19, <1>20, <1>21, <1>22, <1>23
           DEF TrNext, SourceStep, TargetStep

LEMMA TransferFlags ==
    ASSUME TrPlaces, TrFlags, [TrNext]_trVars
    PROVE  TrFlags'
<1>0. 0 \notin Attempts
    BY DEF Attempts
<1> USE <1>0 DEF TrFlags, srcVars, reqVars, dstVars, NoAttempt
<1>1. CASE HaltSource BY <1>1 DEF HaltSource
<1>2. CASE CancelOutgoing BY <1>2 DEF CancelOutgoing
<1>3. CASE OpenStream BY <1>3 DEF OpenStream
<1>4. CASE StreamPart BY <1>4 DEF StreamPart, After
<1>5. CASE RequestReturns BY <1>5 DEF RequestReturns
<1>6. CASE SourceFails BY <1>6 DEF SourceFails, SetTransferStatus
<1>7. CASE SourceCrashes BY <1>7 DEF SourceCrashes
<1>8. CASE WipeFiles BY <1>8 DEF WipeFiles
<1>9. CASE CancelIncoming BY <1>9 DEF CancelIncoming, TrPlaces
<1>10. CASE TargetCrashes BY <1>10 DEF TargetCrashes
<1>11. CASE PanelRemovesFromSource BY <1>11 DEF PanelRemovesFromSource
<1>12. CASE PanelRemovesFromTarget BY <1>12 DEF PanelRemovesFromTarget
<1>13. ASSUME NEW r \in Attempts, PostServerTransfer(r) PROVE TrFlags'
    BY <1>13 DEF PostServerTransfer
<1>14. ASSUME NEW r \in Attempts, ConnectionBreaks(r) PROVE TrFlags'
    BY <1>14 DEF ConnectionBreaks
<1>15. ASSUME NEW r \in Attempts, AcceptTransfer(r) PROVE TrFlags'
    BY <1>15 DEF AcceptTransfer
<1>16. ASSUME NEW r \in Attempts, BuildServer(r) PROVE TrFlags'
    <2>1. /\ dstFlag' \subseteq Attempts \cup {0} /\ dstTracked' \subseteq Attempts \cup {0}
          /\ dstStop' \subseteq Attempts
        BY <1>16 DEF BuildServer, HandlerEnds
    <2>2. /\ verified' \in [Attempts -> BOOLEAN] /\ successful' \in [Attempts -> BOOLEAN]
        <3>1. CASE HandlerEnds(r) BY <3>1, Zenon DEF HandlerEnds
        <3>2. CASE UNCHANGED <<verified, successful>> BY <3>2
        <3> QED BY <1>16, <3>1, <3>2 DEF BuildServer
    <2> QED BY <1>16, <2>1, <2>2 DEF BuildServer
<1>17. ASSUME NEW r \in Attempts, ReadArchive(r) PROVE TrFlags'
    BY <1>17 DEF ReadArchive, Extracted, Archived
<1>18. ASSUME NEW r \in Attempts, ReadChecksum(r) PROVE TrFlags'
    BY <1>18 DEF ReadChecksum
<1>19. ASSUME NEW r \in Attempts, LeaveLoop(r) PROVE TrFlags'
    BY <1>19 DEF LeaveLoop
<1>20. ASSUME NEW r \in Attempts, CreateTargetEnvironment(r) PROVE TrFlags'
    BY <1>20 DEF CreateTargetEnvironment
<1>21. ASSUME NEW r \in Attempts, ForgetTransfer(r) PROVE TrFlags'
    BY <1>21 DEF ForgetTransfer
<1>22. ASSUME NEW r \in Attempts, ReportTransfer(r) PROVE TrFlags'
    BY <1>22 DEF ReportTransfer, HandlerEnds, Answer, SetTransferStatus
<1>23. CASE UNCHANGED trVars BY <1>23 DEF trVars
<1> QED BY <1>1, <1>2, <1>3, <1>4, <1>5, <1>6, <1>7, <1>8, <1>9, <1>10, <1>11, <1>12, <1>13,
           <1>14, <1>15, <1>16, <1>17, <1>18, <1>19, <1>20, <1>21, <1>22, <1>23
           DEF TrNext, SourceStep, TargetStep

\* Every step keeps what the handlers know ...
LEMMA HandlersKeep ==
    ASSUME TransferInv, [TrNext]_trVars
    PROVE  HandlerInv'
<1> USE DEF TransferInv, TrTypeOK, TrPlaces, TrFlags, HandlerInv, AtWork, srcVars, reqVars, dstVars
<1>1. CASE HaltSource BY <1>1 DEF HaltSource
<1>2. CASE CancelOutgoing BY <1>2 DEF CancelOutgoing
<1>3. CASE OpenStream BY <1>3 DEF OpenStream
<1>4. CASE StreamPart BY <1>4 DEF StreamPart, After
<1>5. CASE RequestReturns BY <1>5 DEF RequestReturns
<1>6. CASE SourceFails BY <1>6 DEF SourceFails, SetTransferStatus
<1>7. CASE SourceCrashes BY <1>7 DEF SourceCrashes
<1>8. CASE WipeFiles BY <1>8 DEF WipeFiles
<1>9. CASE CancelIncoming BY <1>9 DEF CancelIncoming
<1>10. CASE TargetCrashes BY <1>10 DEF TargetCrashes
<1>11. CASE PanelRemovesFromSource BY <1>11 DEF PanelRemovesFromSource
<1>12. CASE PanelRemovesFromTarget BY <1>12 DEF PanelRemovesFromTarget
<1>13. ASSUME NEW r \in Attempts, PostServerTransfer(r) PROVE HandlerInv'
    BY <1>13 DEF PostServerTransfer
<1>14. ASSUME NEW r \in Attempts, ConnectionBreaks(r) PROVE HandlerInv'
    BY <1>14 DEF ConnectionBreaks
<1>15. ASSUME NEW r \in Attempts, AcceptTransfer(r) PROVE HandlerInv'
    BY <1>15 DEF AcceptTransfer
<1>16. ASSUME NEW r \in Attempts, BuildServer(r) PROVE HandlerInv'
    BY <1>16 DEF BuildServer, HandlerEnds, Answer
<1>17. ASSUME NEW r \in Attempts, ReadArchive(r) PROVE HandlerInv'
    BY <1>17 DEF ReadArchive, Extracted, Archived
<1>18. ASSUME NEW r \in Attempts, ReadChecksum(r) PROVE HandlerInv'
    BY <1>18 DEF ReadChecksum
<1>19. ASSUME NEW r \in Attempts, LeaveLoop(r) PROVE HandlerInv'
    BY <1>19 DEF LeaveLoop
<1>20. ASSUME NEW r \in Attempts, CreateTargetEnvironment(r) PROVE HandlerInv'
    BY <1>20 DEF CreateTargetEnvironment
<1>21. ASSUME NEW r \in Attempts, ForgetTransfer(r) PROVE HandlerInv'
    BY <1>21 DEF ForgetTransfer
<1>22. ASSUME NEW r \in Attempts, ReportTransfer(r) PROVE HandlerInv'
    BY <1>22 DEF ReportTransfer, HandlerEnds, Answer, SetTransferStatus
<1>23. CASE UNCHANGED trVars BY <1>23 DEF trVars
<1> QED BY <1>1, <1>2, <1>3, <1>4, <1>5, <1>6, <1>7, <1>8, <1>9, <1>10, <1>11, <1>12, <1>13,
           <1>14, <1>15, <1>16, <1>17, <1>18, <1>19, <1>20, <1>21, <1>22, <1>23
           DEF TrNext, SourceStep, TargetStep

\* ... where the source's request is ...
LEMMA SourceKeeps ==
    ASSUME TransferInv, [TrNext]_trVars
    PROVE  SourceInv'
<1>0. 0 \notin Attempts
    BY DEF Attempts
<1> USE <1>0 DEF TransferInv, TrTypeOK, TrPlaces, HandlerInv, SourceInv, AtWork, NoAttempt, srcVars, reqVars, dstVars
<1>1. CASE HaltSource BY <1>1 DEF HaltSource
<1>2. CASE CancelOutgoing BY <1>2 DEF CancelOutgoing
<1>3. CASE OpenStream BY <1>3 DEF OpenStream
<1>4. CASE StreamPart BY <1>4 DEF StreamPart, After
<1>5. CASE RequestReturns BY <1>5 DEF RequestReturns
<1>6. CASE SourceFails BY <1>6 DEF SourceFails, SetTransferStatus
<1>7. CASE SourceCrashes BY <1>7 DEF SourceCrashes
<1>8. CASE WipeFiles BY <1>8 DEF WipeFiles
<1>9. CASE CancelIncoming BY <1>9 DEF CancelIncoming
<1>10. CASE TargetCrashes
    <2>1. \A q \in Attempts : /\ wire'[q] \in {wire[q], "broken"}
                              /\ dstPc[q] = "ended" => dstPc'[q] = "ended"
        BY <1>10 DEF TargetCrashes
    <2>2. UNCHANGED <<panel, resp, srcVars>>
        BY <1>10 DEF TargetCrashes
    <2>3. srcPc \in {"halt", "archive"} => wire'[req] = "none"
        BY <1>10 DEF TargetCrashes
    <2> QED BY <2>1, <2>2, <2>3
<1>11. CASE PanelRemovesFromSource BY <1>11 DEF PanelRemovesFromSource
<1>12. CASE PanelRemovesFromTarget BY <1>12 DEF PanelRemovesFromTarget
<1>13. ASSUME NEW r \in Attempts, PostServerTransfer(r) PROVE SourceInv'
    <2>1. /\ srcPc' = "halt" /\ req' = r /\ wire[r] = "none" /\ panel = "pending"
          /\ UNCHANGED <<panel, wire, resp, srcFiles, dstPc>>
        BY <1>13 DEF PostServerTransfer
    <2>2. ASSUME NEW q \in Attempts \ {r} PROVE wire[q] \in {"none", "broken"} \/ dstPc[q] = "ended"
        BY <1>13, <2>2 DEF PostServerTransfer
    <2> QED BY <2>1, <2>2
<1>14. ASSUME NEW r \in Attempts, ConnectionBreaks(r) PROVE SourceInv'
    BY <1>14 DEF ConnectionBreaks
<1>15. ASSUME NEW r \in Attempts, AcceptTransfer(r) PROVE SourceInv'
    BY <1>15 DEF AcceptTransfer
<1>16. ASSUME NEW r \in Attempts, BuildServer(r) PROVE SourceInv'
    BY <1>16 DEF BuildServer, HandlerEnds, Answer
<1>17. ASSUME NEW r \in Attempts, ReadArchive(r) PROVE SourceInv'
    BY <1>17 DEF ReadArchive, Extracted, Archived
<1>18. ASSUME NEW r \in Attempts, ReadChecksum(r) PROVE SourceInv'
    BY <1>18 DEF ReadChecksum
<1>19. ASSUME NEW r \in Attempts, LeaveLoop(r) PROVE SourceInv'
    BY <1>19 DEF LeaveLoop
<1>20. ASSUME NEW r \in Attempts, CreateTargetEnvironment(r) PROVE SourceInv'
    BY <1>20 DEF CreateTargetEnvironment
<1>21. ASSUME NEW r \in Attempts, ForgetTransfer(r) PROVE SourceInv'
    BY <1>21 DEF ForgetTransfer
<1>22. ASSUME NEW r \in Attempts, ReportTransfer(r) PROVE SourceInv'
    BY <1>22 DEF ReportTransfer, HandlerEnds, Answer, SetTransferStatus
<1>23. CASE UNCHANGED trVars BY <1>23 DEF trVars
<1> QED BY <1>1, <1>2, <1>3, <1>4, <1>5, <1>6, <1>7, <1>8, <1>9, <1>10, <1>11, <1>12, <1>13,
           <1>14, <1>15, <1>16, <1>17, <1>18, <1>19, <1>20, <1>21, <1>22, <1>23
           DEF TrNext, SourceStep, TargetStep

\* ... and that the target works on nothing else.
LEMMA AloneKeeps ==
    ASSUME TransferInv, [TrNext]_trVars
    PROVE  AloneInv'
<1>0. 0 \notin Attempts
    BY DEF Attempts
<1> USE <1>0 DEF TransferInv, TrTypeOK, TrPlaces, TrFlags, HandlerInv, SourceInv, AloneInv, AtWork, NoAttempt, Data,
           srcVars, reqVars, dstVars
<1>1. CASE HaltSource BY <1>1 DEF HaltSource
<1>2. CASE CancelOutgoing BY <1>2 DEF CancelOutgoing
<1>3. CASE OpenStream BY <1>3 DEF OpenStream
<1>4. CASE StreamPart BY <1>4 DEF StreamPart, After
<1>5. CASE RequestReturns BY <1>5 DEF RequestReturns
<1>6. CASE SourceFails BY <1>6 DEF SourceFails, SetTransferStatus
<1>7. CASE SourceCrashes BY <1>7 DEF SourceCrashes
<1>8. CASE WipeFiles BY <1>8 DEF WipeFiles
<1>9. CASE CancelIncoming BY <1>9 DEF CancelIncoming
<1>10. CASE TargetCrashes BY <1>10 DEF TargetCrashes
<1>11. CASE PanelRemovesFromSource BY <1>11 DEF PanelRemovesFromSource
<1>12. CASE PanelRemovesFromTarget BY <1>12 DEF PanelRemovesFromTarget
<1>13. ASSUME NEW r \in Attempts, PostServerTransfer(r) PROVE AloneInv'
    BY <1>13 DEF PostServerTransfer
<1>14. ASSUME NEW r \in Attempts, ConnectionBreaks(r) PROVE AloneInv'
    BY <1>14 DEF ConnectionBreaks
<1>15. ASSUME NEW r \in Attempts, AcceptTransfer(r) PROVE AloneInv'
    BY <1>15 DEF AcceptTransfer
<1>16. ASSUME NEW r \in Attempts, BuildServer(r) PROVE AloneInv'
    BY <1>16 DEF BuildServer, HandlerEnds, Answer
<1>17. ASSUME NEW r \in Attempts, ReadArchive(r) PROVE AloneInv'
    BY <1>17 DEF ReadArchive, Extracted, Archived
<1>18. ASSUME NEW r \in Attempts, ReadChecksum(r) PROVE AloneInv'
    BY <1>18 DEF ReadChecksum
<1>19. ASSUME NEW r \in Attempts, LeaveLoop(r) PROVE AloneInv'
    BY <1>19 DEF LeaveLoop
<1>20. ASSUME NEW r \in Attempts, CreateTargetEnvironment(r) PROVE AloneInv'
    BY <1>20 DEF CreateTargetEnvironment
<1>21. ASSUME NEW r \in Attempts, ForgetTransfer(r) PROVE AloneInv'
    BY <1>21 DEF ForgetTransfer
<1>22. ASSUME NEW r \in Attempts, ReportTransfer(r) PROVE AloneInv'
    BY <1>22 DEF ReportTransfer, HandlerEnds, Answer, SetTransferStatus
<1>23. CASE UNCHANGED trVars BY <1>23 DEF trVars
<1> QED BY <1>1, <1>2, <1>3, <1>4, <1>5, <1>6, <1>7, <1>8, <1>9, <1>10, <1>11, <1>12, <1>13,
           <1>14, <1>15, <1>16, <1>17, <1>18, <1>19, <1>20, <1>21, <1>22, <1>23
           DEF TrNext, SourceStep, TargetStep

LEMMA TransferAlways == TransferSpec => []TransferInv
<1>0. 0 \notin Attempts
    BY DEF Attempts
<1>1. ASSUME TrInit PROVE TransferInv
    <2>1. TrPlaces
        BY <1>1 DEF TrInit, TrPlaces, NoAttempt
    <2>2. verified \in [Attempts -> BOOLEAN] /\ successful \in [Attempts -> BOOLEAN]
        BY <1>1, Zenon DEF TrInit
    <2>3. TrFlags
        BY <1>1, <2>2 DEF TrInit, TrFlags
    <2>4. HandlerInv /\ SourceInv /\ AloneInv
        BY <1>0, <1>1 DEF TrInit, HandlerInv, SourceInv, AloneInv, AtWork, NoAttempt
    <2> QED BY <2>1, <2>3, <2>4 DEF TransferInv, TrTypeOK
<1>2. TransferInv /\ [TrNext]_trVars => TransferInv'
    BY TransferPlaces, TransferFlags, HandlersKeep, SourceKeeps, AloneKeeps DEF TransferInv, TrTypeOK
<1> QED BY <1>1, <1>2, PTL DEF TransferSpec

\* The ordinary files are where the panel believes the server to be, complete, and the
\* target offers the server only after the panel moved it (postTransfers,
\* PushArchiveToTarget), for any number of attempts none of which began before the target
\* was done with the one before it.
THEOREM TransferKeepsFiles == TransferSpec => []NoDataLoss
<1>1. TransferInv => NoDataLoss
    BY DEF TransferInv, SourceInv, AloneInv, NoDataLoss
<1> QED BY <1>1, TransferAlways, PTL

\* A transfer the panel knows to have failed leaves the source's server usable
\* once its goroutine is done (notifyPanelOfFailure), under the same condition.
THEOREM TransferFailureIsHarmless == TransferSpec => []FailureFreesSource
<1>1. TransferInv => FailureFreesSource
    BY DEF TransferInv, SourceInv, AloneInv, FailureFreesSource
<1> QED BY <1>1, TransferAlways, PTL

\* Every variable of a transfer keeps its type, through every step of both nodes,
\* the network and the panel.
THEOREM TransferTyped == TransferSpec => []TrTypeOK
<1>1. TransferInv => TrTypeOK
    BY DEF TransferInv
<1> QED BY <1>1, TransferAlways, PTL

-----------------------------------------------------------------------------
\* The activity log

\* A job deletes only what its request held, and from then on only what the panel
\* received.
ActivityInv ==
    /\ jPc \in [Jobs -> {"idle", "fetch", "send", "delete"}]
    /\ DOMAIN batch = Jobs /\ DOMAIN ids = Jobs
    /\ \A j \in Jobs : ids[j] \subseteq batch[j]
    /\ \A j \in Jobs : jPc[j] = "delete" => ids[j] \subseteq delivered
    /\ NoActivityLost

\* A page of a query holds rows of the table.
LEMMA PageWithin == \A S, o, k : Page(S, o, k) \subseteq S
BY DEF Page

LEMMA ActivityKept == ActivityInv /\ [ANext]_aVars => ActivityInv'
<1> SUFFICES ASSUME ActivityInv, [ANext]_aVars PROVE ActivityInv'
    OBVIOUS
<1> USE DEF ActivityInv, NoActivityLost
<1>1. ASSUME NEW e \in Entries, SaveActivity(e) PROVE ActivityInv'
    BY <1>1 DEF SaveActivity
<1>2. ASSUME NEW j \in Jobs, RunJob(j) PROVE ActivityInv'
    BY <1>2 DEF RunJob
<1>3. CASE FetchActivity
    <2> DEFINE rows == Page(RowsOf("activity"), 0, SendCount)
               good == rows \ BadAddress
    <2> HIDE DEF rows, good
    <2>0. "activity" \in Jobs
        BY DEF Jobs
    <2>1. /\ stored' = stored \ (rows \cap BadAddress)
          /\ batch' = [batch EXCEPT !["activity"] = good]
          /\ ids' = [ids EXCEPT !["activity"] = good]
          /\ jPc' = [jPc EXCEPT !["activity"] = IF good = {} THEN "idle" ELSE "send"]
          /\ UNCHANGED <<saved, delivered, read, faults>>
        BY <1>3 DEF FetchActivity, rows, good
    <2> QED BY <2>0, <2>1
<1>4. CASE FetchSftp
    <2> DEFINE rows == Page(RowsOf("sftp"), read, SendCount)
               in   == Admitted({Key[e] : e \in batch["sftp"]}, rows)
    <2> HIDE DEF rows, in
    <2>0. "sftp" \in Jobs
        BY DEF Jobs
    <2>1. /\ batch' = [batch EXCEPT !["sftp"] = @ \cup in]
          /\ ids' = [ids EXCEPT !["sftp"] = @ \cup in]
          /\ jPc' = [jPc EXCEPT !["sftp"] =
                IF in # {} THEN "fetch" ELSE IF batch["sftp"] = {} THEN "idle" ELSE "send"]
          /\ UNCHANGED <<saved, stored, delivered, faults>>
        BY <1>4 DEF FetchSftp, rows, in
    <2> QED BY <2>0, <2>1
<1>5. ASSUME NEW j \in Jobs, SendAcked(j) PROVE ActivityInv'
    BY <1>5 DEF SendAcked
<1>6. ASSUME NEW j \in Jobs, SendFails(j) PROVE ActivityInv'
    BY <1>6 DEF SendFails
<1>7. ASSUME NEW j \in Jobs, DeleteChunk(j) PROVE ActivityInv'
    <2> DEFINE now == Page(ids[j], 0, Chunk)
    <2> HIDE DEF now
    <2>1. now \subseteq ids[j]
        BY PageWithin DEF now
    <2>2. /\ jPc[j] = "delete"
          /\ stored' = stored \ now
          /\ ids' = [ids EXCEPT ![j] = @ \ now]
          /\ jPc' = IF ids[j] = now THEN [jPc EXCEPT ![j] = "idle"] ELSE jPc
          /\ UNCHANGED <<saved, delivered, batch, read, faults>>
        BY <1>7 DEF DeleteChunk, now
    <2> QED BY <2>1, <2>2
<1>8. ASSUME NEW j \in Jobs, QueryFails(j) PROVE ActivityInv'
    BY <1>8 DEF QueryFails
<1>9. CASE CronCrash
    BY <1>9 DEF CronCrash
<1>10. CASE UNCHANGED aVars
    BY <1>10 DEF aVars
<1> QED BY <1>1, <1>2, <1>3, <1>4, <1>5, <1>6, <1>7, <1>8, <1>9, <1>10 DEF ANext, JobStep

\* An entry leaves the table only when the panel has it, or its address cannot be
\* used, for any table, any caps and however often runs are repeated, lost or
\* interrupted (activityCron, sftpCron).
THEOREM ActivityIsDelivered == ActivitySpec => []NoActivityLost
<1>1. AInit => ActivityInv
    BY DEF AInit, ActivityInv, NoActivityLost
<1>2. ActivityInv => NoActivityLost
    BY DEF ActivityInv
<1> QED BY <1>1, <1>2, ActivityKept, PTL DEF ActivitySpec

=============================================================================
