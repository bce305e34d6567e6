----------------------------- MODULE NodeConfig -----------------------------
(* The daemon's configuration: a global object, read as copies, and a file.   *)
(* The panel updates both by a request; two requests may be handled at once,  *)
(* a write may fail and the daemon may die while it truncates the file. A     *)
(* copy is shallow: the maps of the configuration, and the slices as long as  *)
(* they fit their array, are the same ones in every copy.                     *)
EXTENDS Naturals

CONSTANTS
    Updates,    \* requests of the panel
    Auths,      \* tokens of the node
    Keys,       \* locations of the key and the certificate
    LetsEncrypt,\* the location the panel sends by default
    Lists,      \* contents of the maps and slices
    Ignore,     \* ignore_panel_config_updates
    NoConfig

ASSUME KeysAreOwn == LetsEncrypt \notin Keys

\* Auth is what the file holds, live the token that requests are checked against.
Config == [auth : Auths, key : Keys, cert : Keys, live : Auths]
Files == [auth : Auths, key : Keys, cert : Keys, lists : Lists]

ASSUME NoConfigIsNone == NoConfig \notin Config \cup Files

VARIABLES
    disk,       \* the file; or nothing usable
    mem,        \* the running configuration, or NoConfig while the daemon is down
    shared,     \* the maps and slices that it shares with its copies
    jwt,        \* the token GetJwtAlgorithm signs with
    uPc, uCfg,  \* an update: its step, and the configuration it builds
    written     \* history: the fields held by value of what the file has held

cVars == <<disk, mem, shared, jwt, uPc, uCfg, written>>

ByValue(c) == <<c.auth, c.key, c.cert>>

CInit ==
    /\ disk \in {f \in Files : f.key = f.cert} /\ written = {ByValue(disk)}
    /\ mem = NoConfig /\ jwt \in Auths /\ shared \in Lists
    /\ uPc = [u \in Updates |-> "new"] /\ uCfg = [u \in Updates |-> NoConfig]

\* Set: the token of the file counts where none is given, and the algorithm
\* follows the token.
SetConfig(c) == mem' = c /\ jwt' = c.live

\* FromFile; a file without a token and the panel's address ends the boot.
FromFile ==
    /\ mem = NoConfig /\ disk # NoConfig
    /\ SetConfig([auth |-> disk.auth, key |-> disk.key, cert |-> disk.cert, live |-> disk.auth])
    /\ shared' = disk.lists
    /\ UNCHANGED <<disk, uPc, uCfg, written>>

\* postUpdateConfiguration starts from a copy of the running configuration; its
\* live token is not part of the request. What is decoded into maps and slices
\* is decoded into those of the running configuration.
UpdateConfiguration(u, auth, key, lists) ==
    /\ mem # NoConfig /\ uPc[u] = "new"
    /\ IF Ignore
       THEN uPc' = [uPc EXCEPT ![u] = "done"] /\ UNCHANGED <<uCfg, shared>>
       ELSE /\ uCfg' = [uCfg EXCEPT ![u] =
                  [auth |-> auth, key |-> key, cert |-> key, live |-> mem.live]]
            /\ uPc' = [uPc EXCEPT ![u] = IF key = LetsEncrypt THEN "keepkey" ELSE "write"]
            /\ shared' = lists
    /\ UNCHANGED <<disk, mem, jwt, written>>

\* BindJSON fails half way: the request ends, what was decoded stays.
BindFails(u, lists) ==
    /\ ~Ignore /\ mem # NoConfig /\ uPc[u] = "new" /\ shared' = lists
    /\ uPc' = [uPc EXCEPT ![u] = "done"]
    /\ UNCHANGED <<disk, mem, jwt, uCfg, written>>

\* The default locations are replaced by those of the configurations that run
\* now, of the key's and then of the certificate's.
KeepKey(u) ==
    /\ uPc[u] = "keepkey"
    /\ uCfg' = [uCfg EXCEPT ![u].key = mem.key]
    /\ uPc' = [uPc EXCEPT ![u] = "keepcert"]
    /\ UNCHANGED <<disk, mem, shared, jwt, written>>

KeepCertificate(u) ==
    /\ uPc[u] = "keepcert"
    /\ uCfg' = [uCfg EXCEPT ![u].cert = mem.cert]
    /\ uPc' = [uPc EXCEPT ![u] = "write"]
    /\ UNCHANGED <<disk, mem, shared, jwt, written>>

\* os.WriteFile may fail before or after it has truncated the file.
WriteConfig(u, ok) ==
    /\ uPc[u] = "write"
    /\ disk' \in IF ok THEN {[auth |-> uCfg[u].auth, key |-> uCfg[u].key, cert |-> uCfg[u].cert,
                              lists |-> shared]}
                      ELSE {disk, NoConfig}
    /\ written' = IF ok THEN written \cup {ByValue(uCfg[u])} ELSE written
    /\ UNCHANGED <<mem, shared, jwt, uCfg>>

\* A plausible mistake: an error of the write is not returned.
WriteToDiskUnchecked(u, ok) == WriteConfig(u, ok) /\ uPc' = [uPc EXCEPT ![u] = "set"]

\* WriteToDisk, one at a time (_writeLock).
WriteToDisk(u, ok) == WriteConfig(u, ok) /\ uPc' = [uPc EXCEPT ![u] = IF ok THEN "set" ELSE "done"]

ApplyConfig(u) ==
    /\ uPc[u] = "set" /\ SetConfig(uCfg[u])
    /\ uPc' = [uPc EXCEPT ![u] = "done"]
    /\ UNCHANGED <<disk, shared, uCfg, written>>

\* The daemon dies; os.WriteFile may have truncated the file.
ConfigCrash ==
    /\ mem # NoConfig /\ mem' = NoConfig
    /\ disk' \in {disk} \cup IF \E u \in Updates : uPc[u] = "write" THEN {NoConfig} ELSE {}
    /\ uPc' = [u \in Updates |-> IF uPc[u] = "new" THEN "new" ELSE "done"]
    /\ UNCHANGED <<shared, jwt, uCfg, written>>

CNext ==
    \/ FromFile \/ ConfigCrash
    \/ \E u \in Updates :
         \/ KeepKey(u) \/ KeepCertificate(u) \/ ApplyConfig(u)
         \/ \E ok \in BOOLEAN : WriteToDisk(u, ok)
         \/ \E l \in Lists : BindFails(u, l)
         \/ \E a \in Auths, k \in Keys \cup {LetsEncrypt}, l \in Lists :
              UpdateConfiguration(u, a, k, l)

ConfigSpec == CInit /\ [][CNext]_cVars

-----------------------------------------------------------------------------
(* Properties *)

\* Of the fields held by value, the daemon never runs with a combination that was
\* not on disk first, and never with the panel's default key or certificate,
\* however updates interleave, fail or are cut short; tokens are signed with the
\* token that requests must carry (postUpdateConfiguration, WriteToDisk, Set).
\* Nothing of the kind holds of maps and slices.
RunsWhatWasWritten ==
    mem # NoConfig =>
        ByValue(mem) \in written /\ {mem.key, mem.cert} \subseteq Keys /\ jwt = mem.live

=============================================================================
