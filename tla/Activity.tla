------------------------------ MODULE Activity ------------------------------
(* The activity log: entries are stored in the local database and sent to the *)
(* panel by two cron jobs, one that sends them as they are and one that       *)
(* merges SFTP entries; what was sent is then deleted in chunks. A request is *)
(* repeated by the client, its answer may be lost, a query may fail and the   *)
(* daemon may crash at any point.                                             *)
EXTENDS Naturals, FiniteSets, FiniteSetsExt

CONSTANTS
    Entries,    \* the entries users may cause, identified by their row id
    Key,        \* Entries -> what SFTP entries are merged by, or Plain
    Plain,
    BadAddress, \* entries whose address cannot be parsed
    SendCount,  \* activity_send_count: rows per query, merged entries per request
    Chunk,      \* rows per deletion
    MaxFaults   \* bound: failed queries and crashes of the daemon

ASSUME CapsArePositive == SendCount \in Nat \ {0} /\ Chunk \in Nat \ {0} /\ MaxFaults \in Nat
ASSUME RowsAreNat == Entries \subseteq Nat

Jobs == {"activity", "sftp"}

VARIABLES
    saved,      \* history: the entries that were ever stored
    stored,     \* the rows of the table
    delivered,  \* what the panel has received
    jPc,        \* the run of a job: idle, fetch, send or delete
    batch,      \* what the request holds
    ids,        \* the rows still to delete afterwards
    read,       \* the offset of the SFTP job's next query
    faults

aVars == <<saved, stored, delivered, jPc, batch, ids, read, faults>>

AInit ==
    /\ saved = {} /\ stored = {} /\ delivered = {} /\ faults = 0
    /\ jPc = [j \in Jobs |-> "idle"] /\ read = 0
    /\ batch = [j \in Jobs |-> {}] /\ ids = [j \in Jobs |-> {}]

RowsOf(j) == {e \in stored : (Key[e] # Plain) <=> (j = "sftp")}

\* The k rows from offset o in the order of the query: activity rows by id, SFTP
\* rows by event; the entries of the instance are numbered in that order.
Page(S, o, k) == {e \in S : Cardinality({f \in S : f < e}) \in o .. o + k - 1}

-----------------------------------------------------------------------------

\* SaveActivity, in a goroutine of its own.
SaveActivity(e) ==
    /\ e \notin saved
    /\ saved' = saved \cup {e} /\ stored' = stored \cup {e}
    /\ UNCHANGED <<delivered, jPc, batch, ids, read, faults>>

\* The scheduler starts a job; one that still runs is skipped (SwapIf).
RunJob(j) ==
    /\ jPc[j] = "idle" /\ jPc' = [jPc EXCEPT ![j] = "fetch"]
    /\ batch' = [batch EXCEPT ![j] = {}] /\ ids' = [ids EXCEPT ![j] = {}]
    /\ read' = IF j = "sftp" THEN 0 ELSE read
    /\ UNCHANGED <<saved, stored, delivered, faults>>

\* Rows with a bad address are deleted unsent, the others make up the request.
FetchActivity ==
    /\ jPc["activity"] = "fetch"
    /\ LET rows == Page(RowsOf("activity"), 0, SendCount)
           good == rows \ BadAddress
       IN  /\ stored' = stored \ (rows \cap BadAddress)
           /\ batch' = [batch EXCEPT !["activity"] = good]
           /\ ids' = [ids EXCEPT !["activity"] = good]
           /\ jPc' = [jPc EXCEPT !["activity"] = IF good = {} THEN "idle" ELSE "send"]
    /\ UNCHANGED <<saved, delivered, read, faults>>

\* The keys a page adds to those of the map, in order, up to the cap.
Admitted(keys, rows) ==
    {e \in rows : Key[e] \in keys \/ Cardinality(keys \cup {Key[f] : f \in {g \in rows : g <= e}}) <= SendCount}

\* A plausible mistake: every row that was read is deleted, those beyond the cap too.
FetchSftpAll ==
    /\ jPc["sftp"] = "fetch"
    /\ LET rows == Page(RowsOf("sftp"), read, SendCount)
           in   == Admitted({Key[e] : e \in batch["sftp"]}, rows)
       IN  /\ batch' = [batch EXCEPT !["sftp"] = @ \cup in]
           /\ ids' = [ids EXCEPT !["sftp"] = @ \cup rows]
           /\ read' = read + Cardinality(rows)
           /\ jPc' = [jPc EXCEPT !["sftp"] =
                IF in # {} THEN "fetch" ELSE IF batch["sftp"] = {} THEN "idle" ELSE "send"]
    /\ UNCHANGED <<saved, stored, delivered, faults>>

\* Pages are read as long as they add something. Rows stored meanwhile shift the
\* pages. A row beyond the cap is left for the next run.
FetchSftp ==
    /\ jPc["sftp"] = "fetch"
    /\ LET rows == Page(RowsOf("sftp"), read, SendCount)
           in   == Admitted({Key[e] : e \in batch["sftp"]}, rows)
       IN  /\ batch' = [batch EXCEPT !["sftp"] = @ \cup in]
           /\ ids' = [ids EXCEPT !["sftp"] = @ \cup in]
           /\ read' = read + Cardinality(rows)
           /\ jPc' = [jPc EXCEPT !["sftp"] =
                IF in # {} THEN "fetch" ELSE IF batch["sftp"] = {} THEN "idle" ELSE "send"]
    /\ UNCHANGED <<saved, stored, delivered, faults>>

\* SendActivityLogs through the client's retries: the panel answers 2xx.
SendAcked(j) ==
    /\ jPc[j] = "send" /\ jPc' = [jPc EXCEPT ![j] = "delete"]
    /\ delivered' = delivered \cup batch[j]
    /\ UNCHANGED <<saved, stored, batch, ids, read, faults>>

\* A plausible mistake: the job's running flag is not reset on the error path.
SendFailsFlagged(j) ==
    /\ jPc[j] = "send" /\ jPc' = [jPc EXCEPT ![j] = "skipped"]
    /\ delivered' \in {delivered, delivered \cup batch[j]}
    /\ UNCHANGED <<saved, stored, batch, ids, read, faults>>

\* The panel cannot be reached or refuses, or it has stored the entries and the
\* answer is lost: the run ends with an error and keeps its rows.
SendFails(j) ==
    /\ jPc[j] = "send" /\ jPc' = [jPc EXCEPT ![j] = "idle"]
    /\ delivered' \in {delivered, delivered \cup batch[j]}
    /\ UNCHANGED <<saved, stored, batch, ids, read, faults>>

DeleteChunk(j) ==
    /\ jPc[j] = "delete"
    /\ LET now == Page(ids[j], 0, Chunk)
       IN  /\ stored' = stored \ now
           /\ ids' = [ids EXCEPT ![j] = @ \ now]
           /\ jPc' = IF ids[j] = now THEN [jPc EXCEPT ![j] = "idle"] ELSE jPc
    /\ UNCHANGED <<saved, delivered, batch, read, faults>>

\* A query fails, and the run with it.
QueryFails(j) ==
    /\ faults < MaxFaults /\ faults' = faults + 1
    /\ jPc[j] \in {"fetch", "delete"} /\ jPc' = [jPc EXCEPT ![j] = "idle"]
    /\ UNCHANGED <<saved, stored, delivered, batch, ids, read>>

\* The daemon dies; the table stays.
CronCrash ==
    /\ faults < MaxFaults /\ faults' = faults + 1
    /\ jPc' = [j \in Jobs |-> "idle"]
    /\ UNCHANGED <<saved, stored, delivered, batch, ids, read>>

\* What a job does by itself once it is started.
JobStep(j) ==
    \/ DeleteChunk(j)
    \/ j = "activity" /\ FetchActivity
    \/ j = "sftp" /\ FetchSftp

ANext ==
    \/ \E e \in Entries : SaveActivity(e)
    \/ \E j \in Jobs : RunJob(j) \/ JobStep(j) \/ SendAcked(j) \/ SendFails(j) \/ QueryFails(j)
    \/ CronCrash

ActivitySpec == AInit /\ [][ANext]_aVars

-----------------------------------------------------------------------------
(* Properties *)

\* An entry leaves the table only when the panel has it (or its address was
\* unusable), whatever is repeated, lost, merged or interrupted.
NoActivityLost == \A e \in saved \ stored : e \in delivered \/ e \in BadAddress

\* If the panel answers again and again and the database and the daemon stop
\* failing, a table with entries is emptied: every entry is sent and deleted in
\* the end, also those that the cap postponed. (Users cause finitely many here.)
ActivityDrains == stored # {} ~> stored = {}

=============================================================================
