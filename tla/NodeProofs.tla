----------------------------- MODULE NodeProofs -----------------------------
(***************************************************************************)
(* The components of a node that keep their own state: SFTP sessions,      *)
(* downloads, the configuration, Docker, backups and the reboot of the     *)
(* daemon, each for any number of clients, servers, sizes and attempts.    *)
(***************************************************************************)
EXTENDS Sftp, Downloads, NodeConfig, Docker, Backups, Daemon, TLAPS

-----------------------------------------------------------------------------
\* SFTP sessions

\* A session that serves watches a context that was made, and one that nobody
\* cancelled is still the one in the bag.
SessionInv ==
    /\ made \in Nat
    /\ items \in [Users -> Nat] /\ ctx \in [Sessions -> Nat]
    /\ DOMAIN spc = Sessions
    /\ \A s \in Sessions : spc[s] = "serving" => ctx[s] # NoContext
    /\ SessionsReachable

LEMMA SessionStep == SessionInv /\ [SNext]_sVars => SessionInv'
<1> SUFFICES ASSUME SessionInv, [SNext]_sVars PROVE SessionInv'
    OBVIOUS
<1> USE SftpAssumption DEF SessionInv, SessionsReachable, Done, NoContext, bag, session, mode
<1>1. ASSUME NEW s \in Sessions, MakeCredentialsRequest(s) \/ AcceptInbound(s) PROVE SessionInv'
    BY <1>1 DEF MakeCredentialsRequest, AcceptInbound
<1>2. ASSUME NEW s \in Sessions, Handle(s) PROVE SessionInv'
    BY <1>2 DEF Handle, Context
<1>3. ASSUME NEW s \in Sessions, Terminated(s) \/ ClientLeaves(s) \/ Disconnects(s)
      PROVE  SessionInv'
    BY <1>3 DEF Terminated, ClientLeaves, Disconnects, Ends
<1>4. ASSUME NEW s \in Sessions,
             Filewrite(s) \/ WriteAt(s) \/ CloseHandle(s) \/ Fileread(s) \/ Filelist(s) \/ Filecmd(s)
      PROVE  SessionInv'
    BY <1>4 DEF Filewrite, WriteAt, CloseHandle, Fileread, Filelist, Filecmd, sVars
<1>5. ASSUME NEW u \in Users, DeauthorizeUser(u) PROVE SessionInv'
    BY <1>5 DEF DeauthorizeUser
<1>6. CASE SetProtected \/ ClearProtected \/ Sync
    BY <1>6 DEF SetProtected, ClearProtected, Sync
<1>7. CASE CancelAll
    BY <1>7 DEF CancelAll
<1>8. CASE CleanupForDestroy
    BY <1>8 DEF CleanupForDestroy
<1>9. CASE UNCHANGED sVars
    BY <1>9 DEF sVars
<1> QED BY <1>1, <1>2, <1>3, <1>4, <1>5, <1>6, <1>7, <1>8, <1>9 DEF SNext

\* Every session that serves can be ended by the next cancellation of its user or
\* of all users, for any sessions and users (ContextBag, Handle of sftp/server.go).
THEOREM EverySessionCanBeEnded == SftpSpec => []SessionsReachable
<1>1. SInit => SessionInv
    BY DEF SInit, SessionInv, SessionsReachable, NoContext
<1>2. SessionInv => SessionsReachable
    BY DEF SessionInv
<1> QED BY <1>1, <1>2, SessionStep, PTL DEF SftpSpec

-----------------------------------------------------------------------------
\* Downloads

\* What is tracked is under way, and each list names what is tracked once.
PullInv ==
    /\ downloadCache \subseteq Pulls /\ caller \subseteq Pulls
    /\ DOMAIN dpc = Pulls
    /\ serverCache \in [Owners -> [Pulls -> Nat]]
    /\ \A d \in downloadCache : dpc[d] \in {"tracked", "asking", "writing", "cancel"}
    /\ \A s \in Owners, d \in Pulls :
        serverCache[s][d] = IF d \in downloadCache /\ OwnerOf[d] = s THEN 1 ELSE 0

LEMMA UntrackKeeps ==
    ASSUME PullInv, NEW d \in Pulls, Untrack(d)
    PROVE  /\ downloadCache' = downloadCache \ {d}
           /\ serverCache' \in [Owners -> [Pulls -> Nat]]
           /\ \A s \in Owners, e \in Pulls :
                serverCache'[s][e] = IF e \in downloadCache' /\ OwnerOf[e] = s THEN 1 ELSE 0
BY PullsAssumption DEF PullInv, Untrack

LEMMA PullStep == PullInv /\ [LNext]_lVars => PullInv'
<1> SUFFICES ASSUME PullInv, [LNext]_lVars PROVE PullInv'
    OBVIOUS
<1> USE PullsAssumption DEF PullInv, Goes
<1>1. ASSUME NEW d \in Pulls, PostServerPullRemoteFile(d) PROVE PullInv'
    BY <1>1 DEF PostServerPullRemoteFile
<1>2. ASSUME NEW d \in Pulls, Track(d) PROVE PullInv'
    BY <1>2 DEF Track
<1>3. ASSUME NEW d \in Pulls, Execute(d) \/ Responds(d) \/ WriteEnds(d) PROVE PullInv'
    BY <1>3 DEF Execute, Responds, WriteEnds
<1>4. ASSUME NEW d \in Pulls, CancelOwn(d) PROVE PullInv'
    BY <1>4, UntrackKeeps DEF CancelOwn
<1>5. ASSUME NEW d \in Pulls, DeleteServerPullRemoteFile(d) PROVE PullInv'
    BY <1>5 DEF DeleteServerPullRemoteFile
<1>6. ASSUME NEW d \in Pulls, ForgetDownload(d) PROVE PullInv'
    BY <1>6, UntrackKeeps DEF ForgetDownload
<1>7. CASE UNCHANGED lVars
    BY <1>7 DEF lVars
<1> QED BY <1>1, <1>2, <1>3, <1>4, <1>5, <1>6, <1>7 DEF LNext

\* A download that is over holds no slot of its server and both caches agree, for
\* any downloads, servers and slots (Execute, Cancel, track, remove).
THEOREM DownloadsGiveBack == PullSpec => []SlotsFreed
<1>1. LInit => PullInv
    BY DEF LInit, PullInv
<1>2. PullInv => SlotsFreed
    BY DEF PullInv, SlotsFreed
<1> QED BY <1>1, <1>2, PullStep, PTL DEF PullSpec

-----------------------------------------------------------------------------
\* The configuration

\* What an update builds is a configuration from the moment its key and its
\* certificate are settled, and in the file before it is applied; updates do not
\* outlive the daemon.
ConfigInv ==
    /\ mem \in Config \cup {NoConfig} /\ disk \in Files \cup {NoConfig}
    /\ shared \in Lists /\ (disk # NoConfig => ByValue(disk) \in written)
    /\ DOMAIN uPc = Updates /\ DOMAIN uCfg = Updates
    /\ \A u \in Updates :
        /\ uPc[u] \in {"keepkey", "keepcert", "write", "set"} => mem # NoConfig
        /\ uPc[u] = "keepkey" =>
            uCfg[u] \in [auth : Auths, key : {LetsEncrypt}, cert : {LetsEncrypt}, live : Auths]
        /\ uPc[u] = "keepcert" =>
            uCfg[u] \in [auth : Auths, key : Keys, cert : {LetsEncrypt}, live : Auths]
        /\ uPc[u] \in {"write", "set"} => uCfg[u] \in Config
        /\ uPc[u] = "set" => ByValue(uCfg[u]) \in written
    /\ RunsWhatWasWritten

LEMMA ConfigKept == ConfigInv /\ [CNext]_cVars => ConfigInv'
<1> SUFFICES ASSUME ConfigInv, [CNext]_cVars PROVE ConfigInv'
    OBVIOUS
<1> USE NoConfigIsNone DEF ConfigInv, RunsWhatWasWritten, ByValue, Config, Files
<1>1. CASE FromFile
    BY <1>1 DEF FromFile, SetConfig
<1>2. CASE ConfigCrash
    BY <1>2 DEF ConfigCrash
<1>3. ASSUME NEW u \in Updates, KeepKey(u) PROVE ConfigInv'
    <2>1. mem \in Config /\ uCfg'[u] = [uCfg[u] EXCEPT !.key = mem.key]
        BY <1>3 DEF KeepKey
    <2>2. uCfg'[u] \in [auth : Auths, key : Keys, cert : {LetsEncrypt}, live : Auths]
        BY <1>3, <2>1 DEF KeepKey
    <2> QED BY <1>3, <2>2 DEF KeepKey
<1>9. ASSUME NEW u \in Updates, KeepCertificate(u) PROVE ConfigInv'
    <2>1. mem \in Config /\ uCfg'[u] = [uCfg[u] EXCEPT !.cert = mem.cert]
        BY <1>9 DEF KeepCertificate
    <2>2. uCfg'[u] \in Config
        BY <1>9, <2>1 DEF KeepCertificate
    <2> QED BY <1>9, <2>2 DEF KeepCertificate
<1>4. ASSUME NEW u \in Updates, ApplyConfig(u) PROVE ConfigInv'
    BY <1>4 DEF ApplyConfig, SetConfig
<1>5. ASSUME NEW u \in Updates, NEW ok \in BOOLEAN, WriteToDisk(u, ok) PROVE ConfigInv'
    BY <1>5 DEF WriteToDisk, WriteConfig
<1>6. ASSUME NEW u \in Updates, NEW a \in Auths, NEW k \in Keys \cup {LetsEncrypt}, NEW l \in Lists,
             UpdateConfiguration(u, a, k, l)
      PROVE  ConfigInv'
    BY <1>6 DEF UpdateConfiguration
<1>8. ASSUME NEW u \in Updates, NEW l \in Lists, BindFails(u, l) PROVE ConfigInv'
    BY <1>8 DEF BindFails
<1>7. CASE UNCHANGED cVars
    BY <1>7 DEF cVars
<1> QED BY <1>1, <1>2, <1>3, <1>4, <1>5, <1>6, <1>7, <1>8, <1>9 DEF CNext

\* Of the fields held by value, the daemon runs only with what was on disk first,
\* with a key and a certificate of its own, and signs with the token it checks, for
\* any updates, tokens and keys and whatever becomes of the shared maps
\* (postUpdateConfiguration, WriteToDisk, Set).
THEOREM ConfigIsWrittenFirst == ConfigSpec => []RunsWhatWasWritten
<1>1. CInit => ConfigInv
    BY NoConfigIsNone DEF CInit, ConfigInv, RunsWhatWasWritten, ByValue, Files
<1>2. ConfigInv => RunsWhatWasWritten
    BY DEF ConfigInv
<1> QED BY <1>1, <1>2, ConfigKept, PTL DEF ConfigSpec

-----------------------------------------------------------------------------
\* Docker

\* Until a native stop has taken a stream from its reader, the reader that lives
\* is the one whose stream is set.
ReaderInv ==
    /\ DOMAIN rPc = Readers /\ stream \in Readers \cup {Nobody} /\ missed \in BOOLEAN
    /\ ~missed => \A r \in Readers : rPc[r] # "none" <=> stream = r

LEMMA ReaderStep == ReaderInv /\ [KNext]_kVars => ReaderInv'
<1> SUFFICES ASSUME ReaderInv, [KNext]_kVars PROVE ReaderInv'
    OBVIOUS
<1> USE NobodyIsOutside DEF ReaderInv, readVars
<1>1. ASSUME NEW a \in Actors, NEW req \in {"start", "stop", "restart", "kill", "halt"}, Request(a, req)
      PROVE  ReaderInv'
    BY <1>1 DEF Request
<1>2. ASSUME NEW a \in Actors,
             \/ StartInspect(a) \/ RemoveContainer(a) \/ Create(a) \/ ContainerStart(a)
             \/ StartFailed(a) \/ StopSet(a) \/ StopBy(a) \/ SendCommand(a) \/ SignalStop(a)
             \/ ContainerStop(a) \/ StopGone(a)
             \/ ContainerWait(a) \/ SignalContainer(a) \/ ContainerKill(a) \/ TerminateMark(a)
      PROVE  ReaderInv'
    BY <1>2 DEF StartInspect, RemoveContainer, Create, ContainerStart, StartFailed, StopSet,
                StopBy, SendCommand, SignalStop, ContainerStop, StopGone,
                ContainerWait, SignalContainer, ContainerKill, TerminateMark
<1>3. ASSUME NEW a \in Actors, StopUnset(a) PROVE ReaderInv'
    BY <1>3 DEF StopUnset
<1>4. ASSUME NEW a \in Actors, Attach(a) PROVE ReaderInv'
    BY <1>4 DEF Attach
<1>5. CASE Exits \/ Destroy
    BY <1>5 DEF Exits, Destroy
<1>6. ASSUME NEW r \in Readers,
             ReaderBegins(r) \/ ConsoleDone(r) \/ ScanEnds(r) \/ ReaderOffline(r) \/ ReaderClears(r)
      PROVE  ReaderInv'
    BY <1>6 DEF ReaderBegins, ConsoleDone, ScanEnds, ReaderOffline, ReaderClears
<1>7. CASE UNCHANGED kVars
    BY <1>7 DEF kVars
<1> QED BY <1>1, <1>2, <1>3, <1>4, <1>5, <1>6, <1>7 DEF KNext

\* One goroutine at a time reads the console, the stream that is set is its own and
\* it starts on a stream that is set, for any number of power actions, with the lock
\* and without, and every stop configuration, until a native stop that finds no
\* container clears the stream of a later one (Attach, Start, Stop of
\* environment/docker).
THEOREM ConsoleHasOneReader == DockerSpec => []OneReader
<1>1. KInit => ReaderInv
    BY NobodyIsOutside DEF KInit, ReaderInv
<1>2. ReaderInv => OneReader
    BY DEF ReaderInv, OneReader
<1> QED BY <1>1, <1>2, ReaderStep, PTL DEF DockerSpec

\* Starts, stops and restarts hold the lock from the request on, kills and the
\* daemon's own stops never start;
\* a restart that is past its stop finds no running container.
RestartInv ==
    /\ DOMAIN aPc = Actors /\ DOMAIN aReq = Actors
    /\ \A a \in Actors :
        /\ aPc[a] = "idle" => aReq[a] = "none"
        /\ aPc[a] # "idle" => aReq[a] \in {"start", "stop", "restart", "kill", "halt"}
        /\ aReq[a] \in {"kill", "halt"} =>
             aPc[a] \notin {"inspect", "remove", "create", "attach", "adopt", "run", "failed"}
        /\ aReq[a] \in {"start", "stop", "restart"} => owner = a
        /\ aReq[a] = "restart" => aPc[a] # "adopt" /\ (aPc[a] \in {"mark", "inspect"} => ~Running)

LEMMA RestartStep == RestartInv /\ [KNext]_kVars => RestartInv'
<1> SUFFICES ASSUME RestartInv, [KNext]_kVars PROVE RestartInv'
    OBVIOUS
<1> USE NobodyIsOutside DEF RestartInv, Running, Goto, Return, Stopped, Locked, ctrVars
<1>1. ASSUME NEW a \in Actors, NEW req \in {"start", "stop", "restart", "kill", "halt"}, Request(a, req)
      PROVE  RestartInv'
    BY <1>1 DEF Request
<1>2. ASSUME NEW a \in Actors, StartInspect(a) PROVE RestartInv'
    BY <1>2 DEF StartInspect
<1>3. ASSUME NEW a \in Actors, RemoveContainer(a) \/ Create(a) PROVE RestartInv'
    BY <1>3 DEF RemoveContainer, Create
<1>4. ASSUME NEW a \in Actors, Attach(a) PROVE RestartInv'
    BY <1>4 DEF Attach
<1>5. ASSUME NEW a \in Actors, ContainerStart(a) PROVE RestartInv'
    BY <1>5 DEF ContainerStart
<1>6. ASSUME NEW a \in Actors, StartFailed(a) \/ StopSet(a) PROVE RestartInv'
    BY <1>6 DEF StartFailed, StopSet
<1>7. ASSUME NEW a \in Actors, StopBy(a) \/ SendCommand(a) \/ StopUnset(a) \/ StopGone(a)
      PROVE  RestartInv'
    BY <1>7 DEF StopBy, SendCommand, StopUnset, StopGone
<1>14. ASSUME NEW a \in Actors, SignalStop(a) PROVE RestartInv'
    BY <1>14 DEF SignalStop, StopErr
<1>15. ASSUME NEW a \in Actors, ContainerStop(a) PROVE RestartInv'
    BY <1>15 DEF ContainerStop, StopErr
<1>8. ASSUME NEW a \in Actors, ContainerWait(a) PROVE RestartInv'
    BY <1>8 DEF ContainerWait
<1>9. ASSUME NEW a \in Actors, SignalContainer(a) PROVE RestartInv'
    BY <1>9 DEF SignalContainer
<1>16. ASSUME NEW a \in Actors, ContainerKill(a) PROVE RestartInv'
    BY <1>16 DEF ContainerKill
<1>10. ASSUME NEW a \in Actors, TerminateMark(a) PROVE RestartInv'
    BY <1>10 DEF TerminateMark
<1>11. CASE Exits \/ Destroy
    BY <1>11 DEF Exits, Destroy
<1>12. ASSUME NEW r \in Readers,
              ReaderBegins(r) \/ ConsoleDone(r) \/ ScanEnds(r) \/ ReaderOffline(r) \/ ReaderClears(r)
       PROVE  RestartInv'
    BY <1>12 DEF ReaderBegins, ConsoleDone, ScanEnds, ReaderOffline, ReaderClears
<1>13. CASE UNCHANGED kVars
    BY <1>13 DEF kVars
<1> QED BY <1>1, <1>2, <1>3, <1>4, <1>5, <1>6, <1>7, <1>14, <1>15, <1>8, <1>9, <1>16, <1>10, <1>11,
        <1>12, <1>13
        DEF KNext

\* The start that follows the stop of a restart never adopts the container it was
\* to stop, for any number of power actions and stop configurations
\* (HandlePowerAction, WaitForStop, Start of environment/docker/power.go).
THEOREM RestartsAreFresh == DockerSpec => []RestartIsFresh
<1>1. KInit => RestartInv
    BY DEF KInit, RestartInv
<1>2. RestartInv => RestartIsFresh
    BY DEF RestartInv, RestartIsFresh
<1> QED BY <1>1, <1>2, RestartStep, PTL DEF DockerSpec

-----------------------------------------------------------------------------
\* Backups

\* The division rounds up: the parts before the last fit with room to spare, and
\* all of them take the whole archive.
LEMMA RoundedUp ==
    ASSUME NEW n \in Nat \ {0}, NEW k \in Nat \ {0}
    PROVE  LET c == (n + k - 1) \div k
           IN  c \in Nat \ {0} /\ (c - 1) * k < n
<1> DEFINE c == (n + k - 1) \div k
<1>1. c \in Nat /\ c * k <= n + k - 1 /\ n + k - 1 < (c + 1) * k
    OBVIOUS
<1>2. (c - 1) * k = c * k - k /\ (c + 1) * k = c * k + k
    BY <1>1
<1> QED BY <1>1, <1>2

\* Where the first i parts end.
EndOf(i) == IF i < PartCount THEN i * partSize ELSE size

\* Each part has bytes and ends where the next one begins, none beyond the archive.
LEMMA PartEnds ==
    ASSUME size \in Nat \ {0}, partSize \in Nat \ {0}
    PROVE  /\ PartCount \in Nat \ {0} /\ EndOf(0) = 0 /\ EndOf(PartCount) = size
           /\ \A i \in Nat : i < PartCount =>
                /\ EndOf(i) \in Nat /\ EndOf(i + 1) \in Nat /\ SizeOfPart(i) \in Nat \ {0}
                /\ EndOf(i) + SizeOfPart(i) = EndOf(i + 1) /\ EndOf(i + 1) <= size
<1> DEFINE c == PartCount
<1>1. c \in Nat \ {0} /\ (c - 1) * partSize < size
    BY RoundedUp DEF PartCount
<1>2. EndOf(0) = 0 /\ EndOf(c) = size
    BY <1>1 DEF EndOf
<1>3. ASSUME NEW i \in Nat, i < c
      PROVE  /\ EndOf(i) \in Nat /\ EndOf(i + 1) \in Nat /\ SizeOfPart(i) \in Nat \ {0}
             /\ EndOf(i) + SizeOfPart(i) = EndOf(i + 1) /\ EndOf(i + 1) <= size
    <2> HIDE DEF c
    <2>1. i * partSize \in Nat /\ (i + 1) * partSize = i * partSize + partSize
        OBVIOUS
    <2>2. i * partSize < size
        <3>1. (c - 1) * partSize = i * partSize + (c - 1 - i) * partSize
            BY <1>1, <1>3
        <3>2. (c - 1 - i) * partSize >= 0
            BY <1>1, <1>3
        <3> QED BY <1>1, <2>1, <3>1, <3>2
    <2>3. CASE i + 1 < c
        <3>1. (c - 1) * partSize = (i + 1) * partSize + (c - 2 - i) * partSize
            BY <1>1, <1>3
        <3>2. (c - 2 - i) * partSize >= 0
            BY <1>1, <1>3, <2>3
        <3>3. (i + 1) * partSize < size
            BY <1>1, <2>1, <3>1, <3>2
        <3> QED BY <1>1, <1>3, <2>1, <2>2, <2>3, <3>3 DEF EndOf, SizeOfPart, c
    <2>4. CASE i + 1 = c
        BY <1>1, <1>3, <2>1, <2>2, <2>4 DEF EndOf, SizeOfPart, c
    <2> QED BY <1>1, <1>3, <2>3, <2>4
<1> QED BY <1>1, <1>2, <1>3

\* A part that begins where the last one ended makes the chain longer.
LEMMA ChainGrows ==
    ASSUME NEW ps \in Seq(Nat \X Nat), NEW a \in Nat, NEW b \in Nat, a < b, Chained(ps),
           IF Len(ps) = 0 THEN a = 0 ELSE ps[Len(ps)][2] = a
    PROVE  LET qs == Append(ps, <<a, b>>)
           IN  /\ qs \in Seq(Nat \X Nat) /\ Len(qs) = Len(ps) + 1
               /\ Chained(qs) /\ qs[Len(ps) + 1][2] = b
<1> DEFINE qs == Append(ps, <<a, b>>)
           n == Len(ps)
<1>1. n \in Nat /\ qs \in Seq(Nat \X Nat) /\ Len(qs) = n + 1
    OBVIOUS
<1>2. /\ qs[n + 1][1] = a /\ qs[n + 1][2] = b
      /\ \A i \in 1 .. n : qs[i][1] = ps[i][1] /\ qs[i][2] = ps[i][2]
    OBVIOUS
<1>0. IF n = 0 THEN a = 0 ELSE ps[n][2] = a
    OBVIOUS
<1>6. /\ ps # <<>> => ps[1][1] = 0
      /\ \A i \in 1 .. n : ps[i][1] < ps[i][2]
      /\ \A i \in 1 .. n - 1 : ps[i][2] = ps[i + 1][1]
    BY DEF Chained
<1>7. n # 0 => ps # <<>>
    OBVIOUS
<1> HIDE DEF qs, n
<1>3. qs[1][1] = 0
    <2>1. CASE n = 0
        BY <1>0, <1>2, <2>1
    <2>2. CASE n > 0
        BY <1>1, <1>2, <1>6, <1>7, <2>2
    <2> QED BY <1>1, <2>1, <2>2
<1>4. ASSUME NEW i \in 1 .. n + 1 PROVE qs[i][1] < qs[i][2]
    <2>1. CASE i = n + 1
        BY <1>2, <2>1
    <2>2. CASE i \in 1 .. n
        BY <1>2, <1>6, <2>2
    <2> QED BY <1>1, <2>1, <2>2
<1>5. ASSUME NEW i \in 1 .. n PROVE qs[i][2] = qs[i + 1][1]
    <2>1. CASE i = n
        <3>1. n # 0 /\ n \in 1 .. n
            BY <1>1, <2>1
        <3>2. ps[n][2] = a
            BY ONLY <1>0, <3>1
        <3>3. qs[n][2] = ps[n][2] /\ qs[n + 1][1] = a
            BY ONLY <1>2, <3>1
        <3> QED BY ONLY <2>1, <3>2, <3>3
    <2>2. CASE i \in 1 .. n - 1
        <3>1. i \in 1 .. n /\ i + 1 \in 1 .. n
            BY <1>1, <2>2
        <3> QED BY <1>2, <1>6, <2>2, <3>1
    <2> QED BY <1>1, <2>1, <2>2
<1> QED BY <1>1, <1>2, <1>3, <1>4, <1>5 DEF Chained, qs, n

\* The parts that were taken end where the parts before the current one end; a
\* body that was read in part has moved on by as much as it has lost, so that the
\* next attempt, which needs all of it, is made only when nothing was read.
UploadInv ==
    /\ size \in Nat \ {0} /\ partSize \in Nat \ {0}
    /\ part \in 0 .. PartCount /\ offset \in Nat /\ left \in Nat
    /\ parts \in Seq(Nat \X Nat) /\ Len(parts) = part
    /\ Chained(parts) /\ (part > 0 => parts[part][2] = EndOf(part))
    /\ bPc = "generate" => part = 0 /\ offset = 0
    /\ bPc = "part" => offset = EndOf(part)
    /\ bPc = "put" => part < PartCount /\ offset + left = EndOf(part + 1)
    /\ adapter = "s3" /\ (bPc \in {"details", "succeeded"} \/ verdict = "success")
        => part = PartCount

LEMMA UploadStep == UploadInv /\ [BNext]_bVars => UploadInv'
<1> SUFFICES ASSUME UploadInv, [BNext]_bVars PROVE UploadInv'
    OBVIOUS
<1>0. UNCHANGED <<size, partSize>> /\ PartCount' = PartCount /\ \A i : EndOf(i)' = EndOf(i)
    <2>1. UNCHANGED <<size, partSize>>
        BY DEF BNext, BackupStep, CreateArchive, ArchiveFails, BeginPart, TakePart, RetryPart,
               FailPart, Details, GenerateReturns, NotifyFailure, NotifySuccess, DeleteBackup, bVars
    <2> QED BY <2>1 DEF PartCount, EndOf
<1>1. /\ PartCount \in Nat \ {0} /\ EndOf(0) = 0 /\ EndOf(PartCount) = size
      /\ \A i \in Nat : i < PartCount =>
           /\ EndOf(i) \in Nat /\ EndOf(i + 1) \in Nat /\ SizeOfPart(i) \in Nat \ {0}
           /\ EndOf(i) + SizeOfPart(i) = EndOf(i + 1) /\ EndOf(i + 1) <= size
    BY PartEnds DEF UploadInv
<1>2. CASE CreateArchive
    BY <1>0, <1>1, <1>2 DEF CreateArchive, upVars, UploadInv
<1>3. CASE ArchiveFails \/ FailPart
    BY <1>0, <1>3 DEF ArchiveFails, FailPart, upVars, UploadInv
<1>4. CASE BeginPart
    BY <1>0, <1>1, <1>4 DEF BeginPart, UploadInv
<1>5. CASE TakePart
    <2> DEFINE p == <<offset, offset + left>>
    <2>1. part \in Nat /\ part < PartCount /\ left = SizeOfPart(part) /\ left \in Nat \ {0}
        BY <1>1, <1>5 DEF TakePart, UploadInv
    <2>2. offset \in Nat /\ offset = EndOf(part) /\ offset + left = EndOf(part + 1)
        BY <1>1, <1>5, <2>1 DEF TakePart, UploadInv
    <2>3. /\ parts' = Append(parts, p) /\ part' = part + 1
          /\ bPc' = "part" /\ offset' = offset + left /\ left' = 0 /\ UNCHANGED <<adapter, verdict>>
        BY <1>5 DEF TakePart
    <2>4. /\ parts \in Seq(Nat \X Nat) /\ Len(parts) = part /\ Chained(parts)
          /\ IF part = 0 THEN offset = 0 ELSE parts[part][2] = offset
        BY <1>1, <2>1, <2>2 DEF UploadInv
    <2>5. /\ parts' \in Seq(Nat \X Nat) /\ Len(parts') = part + 1 /\ Chained(parts')
          /\ parts'[part + 1][2] = offset + left
        BY <2>1, <2>2, <2>3, <2>4, ChainGrows
    <2>6. part' \in 0 .. PartCount /\ offset' \in Nat /\ left' \in Nat
        BY <1>1, <2>1, <2>2, <2>3
    <2>7. adapter = "s3" => verdict # "success"
        BY <2>1 DEF UploadInv
    <2>8. EndOf(part)' = offset + left
        BY <1>0, <2>2, <2>3
    <2> QED BY <1>0, <2>3, <2>5, <2>6, <2>7, <2>8 DEF UploadInv
<1>6. CASE RetryPart
    <2>1. offset' \in Nat /\ left' \in Nat /\ offset' + left' = offset + left
        <3>1. size \in Nat /\ offset \in Nat /\ left \in Nat
            BY DEF UploadInv
        <3>2. \/ offset' = offset /\ left' = left
              \/ offset' = offset + Readable /\ left' = left - Readable
            BY <1>6 DEF RetryPart
        <3>3. CASE left <= size - offset
            <4>1. Readable = left
                BY <3>3 DEF Readable
            <4> QED BY ONLY <3>1, <3>2, <4>1
        <3>4. CASE ~(left <= size - offset)
            <4>1. Readable = size - offset
                BY <3>4 DEF Readable
            <4>2. offset + Readable = size /\ left - Readable = offset + left - size
                  /\ offset + left - size \in Nat
                BY ONLY <3>1, <3>4, <4>1
            <4> QED BY ONLY <3>1, <3>2, <4>2
        <3> QED BY <3>3, <3>4
    <2>2. bPc = "put" /\ UNCHANGED <<bPc, part, parts, adapter, verdict>>
        BY <1>6 DEF RetryPart
    <2>3. part < PartCount /\ offset + left = EndOf(part + 1)
        BY <2>2 DEF UploadInv
    <2>4. PartCount' = PartCount /\ EndOf(part)' = EndOf(part) /\ EndOf(part + 1)' = EndOf(part + 1)
          /\ Chained(parts)' = Chained(parts)
        BY ONLY <1>0, <2>2 DEF Chained, EndOf, PartCount
    <2>5. /\ size' \in Nat \ {0} /\ partSize' \in Nat \ {0}
          /\ part' \in 0 .. PartCount' /\ offset' \in Nat /\ left' \in Nat
          /\ parts' \in Seq(Nat \X Nat) /\ Len(parts') = part'
        BY <1>0, <2>1, <2>2, <2>4 DEF UploadInv
    <2>6. Chained(parts)' /\ (part' > 0 => parts'[part'][2] = EndOf(part)')
        BY <2>2, <2>4 DEF UploadInv
    <2>7. adapter' = "s3" => verdict' # "success"
        BY <2>2, <2>3 DEF UploadInv
    <2> QED BY <2>1, <2>2, <2>3, <2>4, <2>5, <2>6, <2>7 DEF UploadInv
<1>7. CASE Details
    BY <1>0, <1>7 DEF Details, GenerateReturns, upVars, UploadInv
<1>8. CASE NotifyFailure
    BY <1>0, <1>8 DEF NotifyFailure, Told, upVars, UploadInv
<1>9. CASE NotifySuccess
    BY <1>0, <1>9 DEF NotifySuccess, Told, upVars, UploadInv
<1>10. CASE DeleteBackup
    BY <1>0, <1>10 DEF DeleteBackup, upVars, UploadInv
<1>11. CASE UNCHANGED bVars
    BY <1>0, <1>11 DEF bVars, UploadInv
<1> QED BY <1>2, <1>3, <1>4, <1>5, <1>6, <1>7, <1>8, <1>9, <1>10, <1>11 DEF BNext, BackupStep

\* An upload the panel takes for a success holds the archive without a gap, for
\* every size of an archive and of its parts and every number of attempts
\* (generateRemoteRequest, uploadPart).
THEOREM UploadsAreExact == BackupSpec => []UploadExact
<1>1. BInit => UploadInv
    <2> SUFFICES ASSUME BInit PROVE UploadInv
        OBVIOUS
    <2>1. size \in Nat \ {0} /\ partSize \in Nat \ {0}
        BY SizesAreNat DEF BInit
    <2> QED BY <2>1, PartEnds DEF BInit, UploadInv, Chained
<1>2. UploadInv => UploadExact
    <2> SUFFICES ASSUME UploadInv, adapter = "s3", verdict = "success" PROVE Covers(parts)
        BY DEF UploadExact
    <2>1. part = PartCount /\ PartCount \in Nat \ {0} /\ EndOf(PartCount) = size
        BY PartEnds DEF UploadInv
    <2> QED BY <2>1 DEF UploadInv, Covers
<1> QED BY <1>1, <1>2, UploadStep, PTL DEF BackupSpec

\* A local archive is whole from the details on, unless it was deleted meanwhile,
\* and one that failed is not, unless its details could not be read; an upload has
\* left no copy once Generate returned, unless it could not be removed.
FileInv ==
    /\ adapter \in {"wings", "s3"} /\ size \in Nat \ {0} /\ file \in Nat \cup {NoFile}
    /\ bPc # "ended" => verdict = "none" /\ ~lost
    /\ bPc = "generate" => file = NoFile \/ file < size
    /\ bPc \in {"part", "put"} => adapter = "s3"
    /\ bPc \in {"part", "put", "details"} \/ (bPc = "succeeded" /\ adapter = "wings")
        => file = size \/ (file = NoFile /\ deleted)
    /\ bPc \in {"failed", "notify"} /\ adapter = "wings" => file # size \/ kept
    /\ bPc \in {"succeeded", "notify"} /\ adapter = "s3" => file = NoFile \/ kept
    /\ DiskAgrees

LEMMA FileStep == FileInv /\ [BNext]_bVars => FileInv'
<1> SUFFICES ASSUME FileInv, [BNext]_bVars PROVE FileInv'
    OBVIOUS
<1> USE NoFileIsNone DEF FileInv, DiskAgrees, upVars
<1>1. CASE CreateArchive
    BY <1>1 DEF CreateArchive
<1>2. CASE ArchiveFails \/ FailPart
    BY <1>2 DEF ArchiveFails, FailPart
<1>3. CASE BeginPart \/ TakePart \/ RetryPart
    BY <1>3 DEF BeginPart, TakePart, RetryPart
<1>4. CASE Details
    BY <1>4 DEF Details, GenerateReturns, RemoveArchive
<1>5. CASE NotifyFailure
    BY <1>5 DEF NotifyFailure, Told
<1>6. CASE NotifySuccess
    BY <1>6 DEF NotifySuccess, RemoveArchive, Told
<1>7. CASE DeleteBackup
    BY <1>7 DEF DeleteBackup
<1>8. CASE UNCHANGED bVars
    BY <1>8 DEF bVars
<1> QED BY <1>1, <1>2, <1>3, <1>4, <1>5, <1>6, <1>7, <1>8 DEF BNext, BackupStep

\* When the goroutine of a backup is done, an archive or copy that the panel has not
\* acknowledged is left only by an error of Details or Remove, and an archive the
\* panel believes in is missing only if it was deleted or the answer was lost, for
\* every size (Server.Backup, Generate, the deferred Remove).
THEOREM BackupsAgreeWithPanel == BackupSpec => []DiskAgrees
<1>1. BInit => FileInv
    BY SizesAreNat, NoFileIsNone DEF BInit, FileInv, DiskAgrees
<1>2. FileInv => DiskAgrees
    BY DEF FileInv
<1> QED BY <1>1, <1>2, FileStep, PTL DEF BackupSpec

-----------------------------------------------------------------------------
\* The reboot of the daemon

BootStates == {"wait", "up", "down", "failed"}

DaemonTyped ==
    /\ dPc \in {"down", "load", "boot", "serve"}
    /\ env \in [Servers -> States] /\ snap \in [Servers -> States \cup {"unread"}]
    /\ statesFile \in [Servers -> States \cup {"none", "torn"}]
    /\ states \in [Servers -> States \cup {"none", "torn"}]
    /\ boot \in [Servers -> BootStates] /\ expect \in [Servers -> {"up", "down", "any"}]
    /\ fresh \subseteq Servers /\ alive \subseteq Servers /\ tracked \subseteq Servers

\* What the file says of a server that is as it was saved agrees with what the
\* server is or has to come back as; until it is brought back, what is expected
\* of it follows from its container, the file and then the file's copy.
Saved(s) == statesFile[s] \in {"running", "starting"}
RebootInv ==
    /\ dPc \in {"down", "load"} => boot = [s \in Servers |-> "wait"] /\ snap = Unread
    /\ dPc = "boot" => \A s \in Servers : boot[s] = "wait" => s \in tracked
    /\ dPc = "serve" => \A s \in Servers : boot[s] # "wait"
    /\ \A s \in Servers :
        /\ Settled(s) /\ env[s] = "offline" => s \notin alive
        /\ Settled(s) /\ s \in fresh =>
            /\ Power(s) = "up" => Saved(s)
            /\ Power(s) = "down" => ~Saved(s)
        /\ boot[s] = "wait" /\ s \in fresh =>
            /\ expect[s] = "up" => Saved(s)
            /\ expect[s] = "down" => ~Saved(s)
            /\ expect[s] # "any"
        /\ dPc \in {"down", "load"} =>
            /\ expect[s] = "up" => s \in alive \/ Saved(s)
            /\ expect[s] = "down" => s \notin alive /\ ~Saved(s)
        /\ dPc = "boot" /\ boot[s] = "wait" =>
            /\ expect[s] = "up" => s \in alive \/ WasUp(s)
            /\ expect[s] = "down" => s \notin alive /\ ~WasUp(s)
        /\ boot[s] # "wait" =>
            /\ expect[s] = "up" => boot[s] \in {"up", "failed"}
            /\ expect[s] = "down" => boot[s] \in {"down", "failed"}

\* The last page is the last page: every server is on one up to it.
LEMMA EveryServerIsListed == \A s \in Servers : PageOf[s] \in 1 .. LastPage
<1> DEFINE P == {PageOf[s] : s \in Servers}
<1>1. PICK l \in Servers : \A s \in Servers : PageOf[s] <= PageOf[l]
    BY ThereIsALastPage
<1>2. PageOf[l] \in P /\ \A s \in Servers : PageOf[s] <= PageOf[l]
    BY <1>1
<1>3. LastPage \in P /\ \A s \in Servers : PageOf[s] <= LastPage
    BY <1>2 DEF LastPage
<1> QED BY <1>3, PagesStartAtOne

\* Every variable of the daemon keeps its type.
LEMMA DaemonTypes == DaemonTyped /\ [DNext]_dVars => DaemonTyped'
<1> SUFFICES ASSUME DaemonTyped, [DNext]_dVars PROVE DaemonTyped'
    OBVIOUS
<1> USE DEF DaemonTyped, States, BootStates
<1>1. CASE StartDaemon \/ GetServersFails \/ Serve \/ WriteStates
    BY <1>1 DEF StartDaemon, GetServersFails, Serve, WriteStates, NoEntry, Unread, Torn
<1>2. CASE Crash
    BY <1>2 DEF Crash, NoEntry, Unread, Torn, Was, Power
<1>3. ASSUME NEW p \in 1 .. LastPage, GetServersPage(p) PROVE DaemonTyped'
    BY <1>3 DEF GetServersPage
<1>4. ASSUME NEW broken \in SUBSET Servers, InitServers(broken) PROVE DaemonTyped'
    BY <1>4 DEF InitServers, NoEntry
<1>5. ASSUME NEW s \in Servers,
             \/ BootSkipped(s) \/ BootStart(s) \/ BootStartFails(s) \/ BootAttach(s)
             \/ BootOffline(s) \/ BootInspectFails(s)
      PROVE  DaemonTyped'
    BY <1>5 DEF BootSkipped, BootStart, BootStartFails, BootAttach, BootOffline, BootInspectFails, Booted
<1>6. ASSUME NEW s \in Servers, PowerStart(s) \/ MarkRunning(s) \/ PowerStop(s) \/ ProcessExits(s)
      PROVE  DaemonTyped'
    BY <1>6 DEF PowerStart, MarkRunning, PowerStop, ProcessExits, Change
<1>7. ASSUME NEW s \in Servers, ReadState(s) PROVE DaemonTyped'
    BY <1>7 DEF ReadState
<1>8. CASE UNCHANGED dVars
    BY <1>8 DEF dVars
<1> QED BY <1>1, <1>2, <1>3, <1>4, <1>5, <1>6, <1>7, <1>8 DEF DNext

LEMMA RebootStep == DaemonTyped /\ RebootInv /\ [DNext]_dVars => RebootInv'
<1> SUFFICES ASSUME DaemonTyped, RebootInv, [DNext]_dVars PROVE RebootInv'
    OBVIOUS
<1> USE DEF DaemonTyped, RebootInv, States, BootStates, WasUp, Saved, Settled, Power
<1>1. CASE StartDaemon
    BY <1>1 DEF StartDaemon, Unread
<1>2. CASE GetServersFails
    BY <1>2 DEF GetServersFails
<1>3. CASE Serve
    BY <1>3 DEF Serve
<1>4. CASE WriteStates
    BY <1>4 DEF WriteStates, Unread, Torn, Followed
<1>5. CASE Crash
    BY <1>5 DEF Crash, Unread, Torn, Was
<1>6. ASSUME NEW p \in 1 .. LastPage, GetServersPage(p) PROVE RebootInv'
    BY <1>6 DEF GetServersPage
<1>7. ASSUME NEW broken \in SUBSET Servers, InitServers(broken) PROVE RebootInv'
    BY <1>7, EveryServerIsListed DEF InitServers, NoEntry, Torn, Unread
<1>8. ASSUME NEW s \in Servers, BootSkipped(s) PROVE RebootInv'
    BY <1>8 DEF BootSkipped, Booting, Booted
<1>9. ASSUME NEW s \in Servers, BootStart(s) PROVE RebootInv'
    BY <1>9 DEF BootStart, Booting, Booted
<1>10. ASSUME NEW s \in Servers, BootStartFails(s) PROVE RebootInv'
    BY <1>10 DEF BootStartFails, Booting, Booted
<1>11. ASSUME NEW s \in Servers, BootAttach(s) PROVE RebootInv'
    BY <1>11 DEF BootAttach, Booting, Booted
<1>12. ASSUME NEW s \in Servers, BootOffline(s) PROVE RebootInv'
    BY <1>12 DEF BootOffline, Booting, Booted
<1>13. ASSUME NEW s \in Servers, BootInspectFails(s) PROVE RebootInv'
    BY <1>13 DEF BootInspectFails, Booting, Booted
<1>14. ASSUME NEW s \in Servers, PowerStart(s) \/ MarkRunning(s) \/ PowerStop(s) \/ ProcessExits(s)
       PROVE  RebootInv'
    BY <1>14 DEF PowerStart, MarkRunning, PowerStop, ProcessExits, Change, Followed
<1>15. ASSUME NEW s \in Servers, ReadState(s) PROVE RebootInv'
    BY <1>15 DEF ReadState, Followed
<1>16. CASE UNCHANGED dVars
    BY <1>16 DEF dVars
<1> QED BY <1>1, <1>2, <1>3, <1>4, <1>5, <1>6, <1>7, <1>8, <1>9, <1>10, <1>11, <1>12, <1>13,
           <1>14, <1>15, <1>16 DEF DNext

\* After a crash at any point a server comes back as it was, if the last save that
\* was written had it so or its container lives on, for any number of servers,
\* pages, crashes and failed saves (rootCmdRun, PersistStates, ReadStates).
THEOREM RebootRestoresPower == DaemonSpec => []PowerSurvivesReboot
<1>1. DInit => DaemonTyped /\ RebootInv
    BY DEF DInit, DaemonTyped, RebootInv, Saved, Settled, Power, States, BootStates, Unread, NoEntry
<1>2. RebootInv => PowerSurvivesReboot
    BY DEF RebootInv, PowerSurvivesReboot
<1> QED BY <1>1, <1>2, DaemonTypes, RebootStep, PTL DEF DaemonSpec

=============================================================================
