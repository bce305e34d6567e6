-------------------------------- MODULE MCNode --------------------------------
(* The components of a node that share no state with each other, checked by  *)
(* one run: focus says which of them a behaviour is about, the others stay as *)
(* they were.                                                                *)
EXTENDS Backups, Daemon, NodeConfig, Docker, FileTree, Sftp, Downloads, Transfer

CONSTANTS o1, o2, o3, x1, x2, a1, a2

\* The servers are on two pages of the panel's list.
Pages == [s \in Servers |-> IF s = x1 THEN 1 ELSE 2]

\* One user has two sessions.
UserOf == [s \in Sessions |-> "u"]

\* Two downloads of one server, one of another.
Puller == [d \in Pulls |-> IF d = 3 THEN x2 ELSE x1]

Dirs == <<"d1", "d2">>
RequestPaths == {<<"a">>, <<"a", "b">>, <<"a", "b", "a">>}
NewRequestPaths == {<<"b">>, <<"a", "b", "b">>, <<"b", "b", "a">>}

\* The goroutines of power actions are interchangeable.
Alike == Permutations({a1, a2})

VARIABLE focus

Components == {"backup", "daemon", "config", "docker", "files", "sftp", "pull", "transfer"}
vars == <<focus, bVars, dVars, cVars, kVars, tVars, sVars, lVars, trVars>>

\* What a component starts with when the behaviour is about another one.
StillBackup == adapter = "wings" /\ size = 1 /\ partSize = 1
StillConfig == jwt = disk.auth /\ shared = disk.lists /\ disk = CHOOSE d \in Files : d.key = d.cert
StillDocker == ctr = "absent"
StillFiles ==
    /\ openat2 /\ goal[Link] = OutDir
    /\ entry[Base]["a"] = Link /\ entry[Tree[1]]["b"] = Tree[2] /\ entry[Tree[2]]["a"] = File

Init ==
    /\ focus \in Components
    /\ DInit /\ SInit /\ LInit /\ TrInit
    /\ BInit /\ (focus # "backup" => StillBackup)
    /\ CInit /\ (focus # "config" => StillConfig)
    /\ KInit /\ (focus # "docker" => StillDocker)
    /\ TInit /\ (focus # "files" => StillFiles)

Others(c) ==
    /\ focus = c /\ UNCHANGED focus
    /\ c # "backup"   => UNCHANGED bVars
    /\ c # "daemon"   => UNCHANGED dVars
    /\ c # "config"   => UNCHANGED cVars
    /\ c # "docker"   => UNCHANGED kVars
    /\ c # "files"    => UNCHANGED tVars
    /\ c # "sftp"     => UNCHANGED sVars
    /\ c # "pull"     => UNCHANGED lVars
    /\ c # "transfer" => UNCHANGED trVars

Next ==
    \/ focus = "backup"   /\ BNext  /\ Others("backup")
    \/ focus = "daemon"   /\ DNext  /\ Others("daemon")
    \/ focus = "config"   /\ CNext  /\ Others("config")
    \/ focus = "docker"   /\ KNext  /\ Others("docker")
    \/ focus = "files"    /\ TNext  /\ Others("files")
    \/ focus = "sftp"     /\ SNext  /\ Others("sftp")
    \/ focus = "pull"     /\ LNext  /\ Others("pull")
    \/ focus = "transfer" /\ TrNext /\ Others("transfer")

Spec == Init /\ [][Next]_vars

=============================================================================
