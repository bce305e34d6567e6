-------------------------------- MODULE Sftp --------------------------------
(***************************************************************************)
(* The SFTP sessions of one server (sftp/server.go, sftp/handler.go) and   *)
(* the bag of contexts that ends them (system/context_bag.go): a session   *)
(* asks the panel for its permissions and then serves one channel after    *)
(* another, each with the context of its user and until the client closes  *)
(* it or the context is cancelled.                                         *)
(* What a request does to the files is the subject of FileTree, what it    *)
(* does to the disk usage that of DiskQuota; here a request is admitted or *)
(* refused, and only the handle of a file that is written stays.           *)
(***************************************************************************)
EXTENDS Naturals

CONSTANTS
    Sessions, Users,
    User,           \* the user of each session
    Grants,         \* sets of permissions the panel may give
    ReadOnly,       \* config.System.Sftp.ReadOnly
    MaxContexts,    \* bound: contexts ever created
    MaxCuts         \* bound: deauthorizations, installations and suspensions

Contexts == 1 .. MaxContexts
NoContext == 0

ASSUME SftpAssumption ==
    /\ User \in [Sessions -> Users] /\ ReadOnly \in BOOLEAN
    /\ MaxContexts \in Nat /\ MaxCuts \in Nat

VARIABLES
    items,      \* ContextBag.items
    cancelled,  \* the contexts that were cancelled
    made,       \* how many were created
    spc,        \* "off", "authenticated", "handler", "serving"
    perms,      \* Handler.permissions
    ctx,        \* the context a session watches
    handle,     \* the sessions with a file open for writing
    suspended, protected, gone,
    cut,        \* whether a CancelAll is due
    cuts

bag == <<items, cancelled, made>>
session == <<spc, perms, ctx, handle>>
mode == <<suspended, protected, gone>>
sVars == <<bag, session, mode, cut, cuts>>

SInit ==
    /\ items = [u \in Users |-> NoContext] /\ cancelled = {} /\ made = 0
    /\ spc = [s \in Sessions |-> "off"] /\ perms = [s \in Sessions |-> {}]
    /\ ctx = [s \in Sessions |-> NoContext] /\ handle = {}
    /\ suspended = FALSE /\ protected = FALSE /\ gone = FALSE
    /\ cut = FALSE /\ cuts = 0

-----------------------------------------------------------------------------
\* A session begins and ends.

\* makeCredentialsRequest: the panel's permissions of this moment are kept.
MakeCredentialsRequest(s) ==
    /\ spc[s] = "off"
    /\ \E g \in Grants : perms' = [perms EXCEPT ![s] = g]
    /\ spc' = [spc EXCEPT ![s] = "authenticated"]
    /\ UNCHANGED <<bag, ctx, handle, mode, cut, cuts>>

\* AcceptInbound takes the next channel of the connection, finds the server among
\* the manager's, and Handle makes a handler; without the server it waits for
\* another channel.
AcceptInbound(s) ==
    /\ spc[s] = "authenticated" /\ ~gone
    /\ spc' = [spc EXCEPT ![s] = "handler"]
    /\ UNCHANGED <<bag, perms, ctx, handle, mode, cut, cuts>>

\* The client's connection ends, or the handler cannot be made.
Disconnects(s) ==
    /\ spc[s] \in {"authenticated", "handler"}
    /\ spc' = [spc EXCEPT ![s] = "off"] /\ perms' = [perms EXCEPT ![s] = {}]
    /\ UNCHANGED <<bag, ctx, handle, mode, cut, cuts>>

\* A plausible mistake: every session gets a context of its own.
ContextAnew(s) ==
    /\ made < MaxContexts /\ made' = made + 1
    /\ items' = [items EXCEPT ![User[s]] = made']
    /\ ctx' = [ctx EXCEPT ![s] = made']

\* ContextBag.Context: the sessions of a user share one.
Context(s) ==
    IF items[User[s]] # NoContext
    THEN ctx' = [ctx EXCEPT ![s] = items[User[s]]] /\ UNCHANGED <<items, made>>
    ELSE /\ made < MaxContexts /\ made' = made + 1
         /\ items' = [items EXCEPT ![User[s]] = made']
         /\ ctx' = [ctx EXCEPT ![s] = made']

Handle(s) ==
    /\ spc[s] = "handler" /\ Context(s)
    /\ spc' = [spc EXCEPT ![s] = "serving"]
    /\ UNCHANGED <<cancelled, perms, handle, mode, cut, cuts>>

Done(s) == gone \/ ctx[s] \in cancelled

\* The goroutine that watches the context, or the client's end of file, closes the
\* channel. The connection stays, with the permissions it was given, and the loop
\* of AcceptInbound takes its next channel.
Ends(s) ==
    /\ spc' = [spc EXCEPT ![s] = "authenticated"]
    /\ ctx' = [ctx EXCEPT ![s] = NoContext] /\ handle' = handle \ {s}
    /\ UNCHANGED <<bag, perms, mode, cut, cuts>>
Terminated(s) == spc[s] = "serving" /\ Done(s) /\ Ends(s)
ClientLeaves(s) == spc[s] = "serving" /\ Ends(s)

-----------------------------------------------------------------------------
\* Requests of a session that serves.

Can(s, permission) ==
    /\ spc[s] = "serving" /\ ~suspended /\ ~protected
    /\ {permission, "*"} \cap perms[s] # {}

\* A new file needs file.create, one that exists file.update.
Filewrite(s) ==
    /\ ~ReadOnly /\ (Can(s, "file.create") \/ Can(s, "file.update"))
    /\ handle' = handle \cup {s}
    /\ UNCHANGED <<bag, spc, perms, ctx, mode, cut, cuts>>

\* WriteAt looks at the protected state again; the handle is closed by the client.
WriteAt(s) ==
    /\ spc[s] = "serving" /\ s \in handle /\ ~protected
    /\ UNCHANGED sVars
CloseHandle(s) ==
    /\ spc[s] = "serving" /\ s \in handle /\ handle' = handle \ {s}
    /\ UNCHANGED <<bag, spc, perms, ctx, mode, cut, cuts>>

\* Fileread, Filelist and the methods of Filecmd leave nothing behind here.
Fileread(s) == Can(s, "file.read-content") /\ UNCHANGED sVars
Filelist(s) == Can(s, "file.read") /\ UNCHANGED sVars
Filecmd(s) ==
    /\ ~ReadOnly /\ (\E p \in {"file.create", "file.update", "file.delete"} : Can(s, p))
    /\ UNCHANGED sVars

-----------------------------------------------------------------------------
\* What ends sessions.

Cut == cuts < MaxCuts /\ cuts' = cuts + 1

\* postDeauthorizeUser: ContextBag.Cancel for one user.
DeauthorizeUser(u) ==
    /\ Cut
    /\ cancelled' = cancelled \cup ({items[u]} \ {NoContext})
    /\ items' = [items EXCEPT ![u] = NoContext]
    /\ UNCHANGED <<made, session, mode, cut>>

\* An installation, a transfer or a restoration: the flag first, then CancelAll.
SetProtected ==
    /\ Cut /\ ~protected /\ ~cut /\ protected' = TRUE /\ cut' = TRUE
    /\ UNCHANGED <<bag, session, suspended, gone>>
ClearProtected ==
    /\ protected /\ ~cut /\ protected' = FALSE
    /\ UNCHANGED <<bag, session, suspended, gone, cut, cuts>>

\* A sync adopts the panel's suspension, and a suspended server cancels all.
Sync ==
    /\ Cut /\ ~cut
    /\ suspended' \in BOOLEAN /\ cut' = suspended'
    /\ UNCHANGED <<bag, session, protected, gone>>

CancelAll ==
    /\ cut /\ cut' = FALSE
    /\ cancelled' = (cancelled \cup {items[u] : u \in Users}) \ {NoContext}
    /\ items' = [u \in Users |-> NoContext]
    /\ UNCHANGED <<made, session, mode, cuts>>

\* The server's context is the parent of them all.
CleanupForDestroy ==
    /\ ~gone /\ gone' = TRUE
    /\ UNCHANGED <<bag, session, suspended, protected, cut, cuts>>

SNext ==
    \/ \E s \in Sessions :
        \/ MakeCredentialsRequest(s) \/ AcceptInbound(s) \/ Handle(s)
        \/ Terminated(s) \/ ClientLeaves(s) \/ Disconnects(s)
        \/ Filewrite(s) \/ WriteAt(s) \/ CloseHandle(s)
        \/ Fileread(s) \/ Filelist(s) \/ Filecmd(s)
    \/ \E u \in Users : DeauthorizeUser(u)
    \/ SetProtected \/ ClearProtected \/ Sync \/ CancelAll \/ CleanupForDestroy

SftpSpec == SInit /\ [][SNext]_sVars

-----------------------------------------------------------------------------
(* Every channel that serves can still be ended: the context it watches is *)
(* cancelled already or is the one the bag holds for its user, so that the *)
(* next deauthorization, installation or suspension reaches it, whatever   *)
(* sessions began and ended between the cancellations (ContextBag: "This   *)
(* context is shared between all callers until the cancel function is      *)
(* called").                                                               *)
SessionsReachable ==
    \A s \in Sessions : spc[s] = "serving" => Done(s) \/ items[User[s]] = ctx[s]
=============================================================================
