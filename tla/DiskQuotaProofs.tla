--------------------------- MODULE DiskQuotaProofs ---------------------------
(***************************************************************************)
(* The reservations of SFTP writes keep the usage within the limit, and    *)
(* the usage covers what the files take and is exact at rest, for any      *)
(* number of handles, uploads, copies, deletions and files.                *)
(***************************************************************************)
EXTENDS DiskQuota, QuotaMathProofs, FiniteSetTheorems

\* Every byte is written by an SFTP handle, no two handles are of the same file,
\* and the usage that was looked up first does not expire.
OnlySftp ==
    /\ Limit > 0 /\ Scanned = TRUE /\ Expiring = FALSE /\ Playing = FALSE
    /\ Uploads = {} /\ Copies = {} /\ Archives = {} /\ Scans = {}
    /\ Sessions \cap Deletes = {}
    /\ \A a, b \in Sessions : Target[a] = Target[b] => a = b

Open == {"ready", "reserve", "grow", "write", "settle"}

\* What holds of a goroutine at its label.
Here(a) ==
    /\ a \in Sessions => pc[a] \in Open \cup {"idle", "room", "stat", "open", "close"}
    /\ a \in Deletes => pc[a] \in {"idle", "remove", "uncount"}
    /\ pc[a] \in Open => size[Target[a]] <= cur[a]
    /\ pc[a] \in {"reserve", "grow"} => Growth(a) > 0
    /\ off[a] + len[a] <= MaxSize
    /\ pc[a] = "grow" => mu = a /\ usage + Growth(a) <= Limit
    /\ pc[a] \in {"settle", "close"} => got[a] <= 0

\* The inductive invariant: a handle's quotaFile.size covers its file, a growth
\* that passed CanFit still fits while fs.mu is held, and a correction is never
\* positive.
ResInv ==
    /\ TypeOK
    /\ fresh = TRUE /\ playing = FALSE
    /\ usage <= Limit
    /\ \A a \in Actors : Here(a)

\* A correction that is not positive never raises the usage.
LEMMA AddDown ==
    ASSUME NEW u \in 0 .. MaxInt, NEW i \in Int64, i <= 0
    PROVE  AddResult(u, i) \in 0 .. MaxInt /\ AddResult(u, i) <= u
<1>1. AddResult(u, i) = Clamp(u + i)
    BY AddClamps
<1> QED BY <1>1, MaxIntAssumption DEF Clamp, Int64, MinInt

\* A growth that fits is added exactly.
LEMMA AddUp ==
    ASSUME NEW u \in 0 .. MaxInt, NEW i \in 1 .. MaxInt, u + i <= Limit
    PROVE  AddResult(u, i) \in 0 .. MaxInt /\ AddResult(u, i) = u + i
<1>1. AddResult(u, i) = Clamp(u + i)
    BY AddClamps, MaxIntAssumption DEF Int64, MinInt
<1> QED BY <1>1, MaxIntAssumption, LimitAssumption DEF Clamp

\* Only handles and deletions act.
LEMMA TwoKinds == OnlySftp => Actors = Sessions \cup Deletes /\ FileOps = Actors
BY DEF OnlySftp, Actors, FileOps

\* The initial state is within its limit, and nothing is open.
LEMMA InitRes == OnlySftp /\ Init => ResInv
<1> SUFFICES ASSUME OnlySftp, Init PROVE ResInv
    OBVIOUS
<1> USE MaxIntAssumption, LimitAssumption, TargetAssumption, TwoKinds
<1>1. fresh = TRUE /\ playing = FALSE /\ lookup = FALSE
    BY DEF OnlySftp, Init
<1>2. usage <= Limit
    BY DEF OnlySftp, Init
<1>3. ASSUME NEW a \in Actors PROVE Here(a)
    BY DEF Here, Init, Open, Sizes
<1>4. TypeOK
    <2>1. /\ 0 \in Sizes /\ 0 \in Int64 /\ 0 \in 0 .. MaxInt
          /\ usage \in 0 .. MaxInt /\ "idle" \in Labels
        BY DEF Init, Sizes, Int64, MinInt, Labels
    <2>2. there \subseteq Files /\ size \in [Files -> Sizes] /\ mu \in Actors \cup {None}
        BY DEF Init
    <2>3. pc \in [Actors -> Labels] /\ left \in [Actors -> SUBSET Files]
        BY <2>1, Zenon DEF Init
    <2>4. /\ cur \in [Actors -> Sizes] /\ off \in [Actors -> Sizes]
          /\ len \in [Actors -> Sizes]
          /\ got \in [Actors -> Int64] /\ sum \in [Actors -> 0 .. MaxInt]
        BY <2>1, Zenon DEF Init
    <2> QED BY <1>1, <2>1, <2>2, <2>3, <2>4, Zenon DEF TypeOK
<1> QED BY <1>1, <1>2, <1>3, <1>4 DEF ResInv

\* A step of another goroutine: the local variables and the label of b are left
\* alone, and neither its file nor the usage grows behind its back.
Spares(b) ==
    /\ pc'[b] = pc[b] /\ cur'[b] = cur[b] /\ off'[b] = off[b]
    /\ len'[b] = len[b] /\ got'[b] = got[b]
    /\ pc[b] \in Open => size'[Target[b]] <= size[Target[b]]
    /\ pc[b] = "grow" => mu' = mu /\ usage' <= usage

\* What holds of a goroutine goes on holding when another one spares it.
LEMMA OtherHere ==
    ASSUME NEW b \in Actors, Here(b), TypeOK, TypeOK', Target[b] \in Files, Spares(b)
    PROVE  Here(b)'
<1> USE LimitAssumption, MaxIntAssumption DEF TypeOK, Sizes, Spares
<1>1. Growth(b)' = Growth(b) /\ Growth(b) \in Int
    BY DEF Growth
<1>2. pc[b] \in Open => (size[Target[b]] <= cur[b])'
    BY DEF Here
<1>3. pc[b] = "grow" => (mu = b /\ usage + Growth(b) <= Limit)'
    BY <1>1 DEF Here
<1> QED BY <1>1, <1>2, <1>3 DEF Here

\* What a step of a goroutine has to show.
LEMMA Combine ==
    ASSUME OnlySftp, ResInv, NEW a \in Actors,
           TypeOK', fresh' = TRUE, playing' = FALSE, usage' <= Limit,
           Here(a)', \A b \in Actors \ {a} : Spares(b)
    PROVE  ResInv'
<1>1. ASSUME NEW b \in Actors, b # a PROVE Here(b)'
    BY <1>1, OtherHere, TwoKinds, TargetAssumption DEF ResInv
<1> QED BY <1>1 DEF ResInv

\* A step of a goroutine preserves the invariant.
LEMMA StepRes ==
    ASSUME OnlySftp, ResInv, NEW a \in Actors, Ask(a) \/ Step(a) \/ StartScan(a)
    PROVE  ResInv'
<1> USE MaxIntAssumption, LimitAssumption
<1>1. TypeOK /\ fresh = TRUE /\ playing = FALSE /\ usage <= Limit
    BY DEF ResInv
<1>2. Here(a) /\ a \in Sessions \cup Deletes /\ Sessions \cap Deletes = {}
    BY TwoKinds DEF ResInv, OnlySftp
<1>3. /\ pc[a] \in {"idle", "room", "stat", "open", "ready", "reserve", "grow", "write",
                    "settle", "close", "remove", "uncount"}
      /\ pc[a] \in {"remove", "uncount"} => a \in Deletes
      /\ pc[a] \in Open \cup {"room", "stat", "open", "close"} => a \in Sessions
    BY <1>2 DEF Here, Open
<1>4. \A b \in Actors : Here(b) /\ Target[b] \in Files
    BY TwoKinds, TargetAssumption DEF ResInv
<1>5. a \in Sessions => \A b \in Sessions \ {a} : Target[b] # Target[a]
    BY DEF OnlySftp
<1>6. \A b \in Actors : pc[b] \in Open => b \in Sessions
    BY <1>4, TwoKinds DEF Here, Open
<1>7. \A b \in Actors : pc[b] = "grow" => mu = b
    BY <1>4 DEF Here
<1>8. None \notin Actors
    BY NoneAssumption
<1>9. /\ cur[a] \in 0 .. MaxSize /\ off[a] \in 0 .. MaxSize /\ len[a] \in 0 .. MaxSize
      /\ got[a] \in Int64 /\ usage \in 0 .. MaxInt
      /\ \A f \in Files : size[f] \in 0 .. MaxSize
    BY <1>1 DEF TypeOK, Sizes
<1>10. /\ 0 \in Sizes /\ 0 \in Int64 /\ 0 \in 0 .. MaxInt
       /\ \A x, y \in 0 .. MaxSize : x - y \in Int64
       /\ \A x \in 0 .. MaxSize : -x \in Int64
    BY DEF Sizes, Int64, MinInt
<1>11. Growth(a) = off[a] + len[a] - cur[a]
    BY DEF Growth
<1>12. CASE Filewrite(a)
    <2>1. TypeOK'
        BY <1>12, <1>1, <1>3, <1>4, <1>9, <1>10
           DEF Filewrite, Go, TypeOK, Labels, disk, locals
    <2>2. fresh' = TRUE /\ playing' = FALSE /\ usage' <= Limit
        BY <1>12, <1>1, <1>9 DEF Filewrite, disk, locals
    <2>3. Here(a)'
        BY <1>12, <1>1, <1>2, <1>3, <1>4, <1>9, <1>11, <2>1
           DEF Filewrite, Go, Here, Growth, Open, TypeOK, disk, locals
    <2>4. ASSUME NEW b \in Actors \ {a} PROVE Spares(b)
        BY <1>12, <1>1, <1>4, <1>5, <1>6, <1>7, <1>8, <1>9
           DEF Filewrite, Go, TypeOK, Open, Spares, disk, locals
    <2> QED BY <2>1, <2>2, <2>3, <2>4, Combine
<1>13. CASE CheckRoom(a)
    <2>1. TypeOK'
        BY <1>13, <1>1, <1>3, <1>4, <1>9, <1>10
           DEF CheckRoom, Go, TypeOK, Labels, disk, locals
    <2>2. fresh' = TRUE /\ playing' = FALSE /\ usage' <= Limit
        BY <1>13, <1>1, <1>9 DEF CheckRoom, disk, locals
    <2>3. Here(a)'
        BY <1>13, <1>1, <1>2, <1>3, <1>4, <1>9, <1>11, <2>1
           DEF CheckRoom, Go, Here, Growth, Open, TypeOK, disk, locals
    <2>4. ASSUME NEW b \in Actors \ {a} PROVE Spares(b)
        BY <1>13, <1>1, <1>4, <1>5, <1>6, <1>7, <1>8, <1>9
           DEF CheckRoom, Go, TypeOK, Open, Spares, disk, locals
    <2> QED BY <2>1, <2>2, <2>3, <2>4, Combine
<1>14. CASE StatTouch(a)
    <2>1. TypeOK'
        BY <1>14, <1>1, <1>3, <1>4, <1>9, <1>10
           DEF StatTouch, Go, TypeOK, Labels, disk, locals
    <2>2. fresh' = TRUE /\ playing' = FALSE /\ usage' <= Limit
        BY <1>14, <1>1, <1>9 DEF StatTouch, disk, locals
    <2>3. Here(a)'
        BY <1>14, <1>1, <1>2, <1>3, <1>4, <1>9, <1>11, <2>1
           DEF StatTouch, Go, Here, Growth, Open, TypeOK, disk, locals
    <2>4. ASSUME NEW b \in Actors \ {a} PROVE Spares(b)
        BY <1>14, <1>1, <1>4, <1>5, <1>6, <1>7, <1>8, <1>9
           DEF StatTouch, Go, TypeOK, Open, Spares, disk, locals
    <2> QED BY <2>1, <2>2, <2>3, <2>4, Combine
<1>15. CASE OpenTouch(a)
    <2>1. TypeOK'
        BY <1>15, <1>1, <1>3, <1>4, <1>9, <1>10
           DEF OpenTouch, Finish, Go, TypeOK, Labels, disk, locals
    <2>2. fresh' = TRUE /\ playing' = FALSE /\ usage' <= Limit
        BY <1>15, <1>1, <1>9 DEF OpenTouch, Finish, disk, locals
    <2>3. Here(a)'
        BY <1>15, <1>1, <1>2, <1>3, <1>4, <1>9, <1>11, <2>1
           DEF OpenTouch, Finish, Go, Here, Growth, Open, TypeOK, disk, locals
    <2>4. ASSUME NEW b \in Actors \ {a} PROVE Spares(b)
        BY <1>15, <1>1, <1>4, <1>5, <1>6, <1>7, <1>8, <1>9
           DEF OpenTouch, Finish, Go, TypeOK, Open, Spares, disk, locals
    <2> QED BY <2>1, <2>2, <2>3, <2>4, Combine
<1>16. CASE \E o \in Sizes, n \in Sizes \ {0} : WriteAt(a, o, n)
    <2>1. TypeOK'
        BY <1>16, <1>1, <1>3, <1>4, <1>9, <1>10
           DEF WriteAt, Sizes, Go, TypeOK, Labels, disk, locals
    <2>2. fresh' = TRUE /\ playing' = FALSE /\ usage' <= Limit
        BY <1>16, <1>1, <1>9 DEF WriteAt, Sizes, disk, locals
    <2>3. Here(a)'
        BY <1>16, <1>1, <1>2, <1>3, <1>4, <1>9, <1>11, <2>1
           DEF WriteAt, Sizes, Go, Here, Growth, Open, TypeOK, disk, locals
    <2>4. ASSUME NEW b \in Actors \ {a} PROVE Spares(b)
        BY <1>16, <1>1, <1>4, <1>5, <1>6, <1>7, <1>8, <1>9
           DEF WriteAt, Sizes, Go, TypeOK, Open, Spares, disk, locals
    <2> QED BY <2>1, <2>2, <2>3, <2>4, Combine
<1>17. CASE Reserve(a)
    <2>1. Growth(a) \in 1 .. MaxInt /\ Limit \in 1 .. MaxInt
        BY <1>17, <1>2, <1>9, <1>11 DEF Reserve, Here, OnlySftp
    <2>2. CanFit(Limit, usage, Growth(a)) => usage + Growth(a) <= Limit
        BY <2>1, <1>9, CanFitExact
    <2>3. TypeOK'
        BY <1>17, <2>1, <2>2, <1>1, <1>3, <1>4, <1>9, <1>10
           DEF Reserve, EndWrite, Go, TypeOK, Labels, disk, locals
    <2>4. fresh' = TRUE /\ playing' = FALSE /\ usage' <= Limit
        BY <1>17, <2>1, <2>2, <1>1, <1>9 DEF Reserve, EndWrite, disk, locals
    <2>5. Here(a)'
        BY <1>17, <2>1, <2>2, <1>1, <1>2, <1>3, <1>4, <1>9, <1>11, <2>3
           DEF Reserve, EndWrite, Go, Here, Growth, Open, TypeOK, disk, locals
    <2>6. ASSUME NEW b \in Actors \ {a} PROVE Spares(b)
        BY <1>17, <2>1, <2>2, <1>1, <1>4, <1>5, <1>6, <1>7, <1>8, <1>9
           DEF Reserve, EndWrite, Go, TypeOK, Open, Spares, disk, locals
    <2> QED BY <2>3, <2>4, <2>5, <2>6, Combine
<1>18. CASE AddGrowth(a)
    <2>1. Growth(a) \in 1 .. MaxInt /\ usage + Growth(a) <= Limit
        BY <1>18, <1>2, <1>9, <1>11 DEF AddGrowth, Here
    <2>2. usage' \in 0 .. MaxInt /\ usage' <= Limit
        BY <1>18, <2>1, <1>9, AddUp DEF AddGrowth, Add
    <2>3. TypeOK'
        BY <1>18, <2>1, <2>2, <1>1, <1>3, <1>4, <1>9, <1>10
           DEF AddGrowth, Add, Go, TypeOK, Labels, disk, locals
    <2>4. fresh' = TRUE /\ playing' = FALSE /\ usage' <= Limit
        BY <1>18, <2>1, <2>2, <1>1, <1>9 DEF AddGrowth, Add, disk, locals
    <2>5. Here(a)'
        BY <1>18, <2>1, <2>2, <1>1, <1>2, <1>3, <1>4, <1>9, <1>11, <2>3
           DEF AddGrowth, Add, Go, Here, Growth, Open, TypeOK, disk, locals
    <2>6. ASSUME NEW b \in Actors \ {a} PROVE Spares(b)
        BY <1>18, <2>1, <2>2, <1>1, <1>4, <1>5, <1>6, <1>7, <1>8, <1>9
           DEF AddGrowth, Add, Go, TypeOK, Open, Spares, disk, locals
    <2> QED BY <2>3, <2>4, <2>5, <2>6, Combine
<1>19. CASE \E n \in Sizes : WriteBytes(a, n)
    <2>1. PICK n \in Sizes : WriteBytes(a, n)
        BY <1>19
    <2>2. off[a] + n \in 0 .. MaxSize /\ off[a] + len[a] \in 0 .. MaxSize
        BY <1>2, <1>9, <2>1 DEF Here, WriteBytes, Sizes
    <2>3. /\ Bigger(cur[a], off[a] + n) \in Sizes
          /\ \A f \in Files : Bigger(size[f], off[a] + n) \in Sizes
        BY <1>9, <2>2 DEF Bigger, Sizes
    <2>4. size' \in [Files -> Sizes] /\ cur' \in [Actors -> Sizes]
        BY <1>1, <1>4, <2>1, <2>3 DEF WriteBytes, TypeOK
    <2>5. got' \in [Actors -> Int64]
        BY <1>1, <1>9, <1>10, <2>1, <2>2, <2>3 DEF WriteBytes, TypeOK, Sizes
    <2>6. TypeOK'
        BY <1>19, <2>1, <2>2, <2>4, <2>5, <1>1, <1>3, <1>4, <1>9, <1>10
           DEF WriteBytes, EndWrite, Sizes, Bigger, Go, TypeOK, Labels, disk,
               locals
    <2>7. fresh' = TRUE /\ playing' = FALSE /\ usage' <= Limit
        BY <1>19, <2>1, <2>2, <2>4, <2>5, <1>1, <1>9
           DEF WriteBytes, EndWrite, Sizes, Bigger, disk, locals
    <2>8. Here(a)'
        BY <1>19, <2>1, <2>2, <2>4, <2>5, <1>1, <1>2, <1>3, <1>4, <1>9, <1>11, <2>6
           DEF WriteBytes, EndWrite, Sizes, Bigger, Go, Here, Growth, Open,
               TypeOK, disk, locals
    <2>9. ASSUME NEW b \in Actors \ {a} PROVE Spares(b)
        BY <1>19, <2>1, <2>2, <2>4, <2>5, <1>1, <1>4, <1>5, <1>6, <1>7, <1>8, <1>9
           DEF WriteBytes, EndWrite, Sizes, Bigger, Go, TypeOK, Open, Spares,
               disk, locals
    <2> QED BY <2>6, <2>7, <2>8, <2>9, Combine
<1>20. CASE Settle(a)
    <2>1. usage' \in 0 .. MaxInt /\ usage' <= usage
        BY <1>20, <1>2, <1>9, AddDown DEF Settle, Add, Here
    <2>2. TypeOK'
        BY <1>20, <2>1, <1>1, <1>3, <1>4, <1>9, <1>10
           DEF Settle, Add, Go, TypeOK, Labels, disk, locals
    <2>3. fresh' = TRUE /\ playing' = FALSE /\ usage' <= Limit
        BY <1>20, <2>1, <1>1, <1>9 DEF Settle, Add, disk, locals
    <2>4. Here(a)'
        BY <1>20, <2>1, <1>1, <1>2, <1>3, <1>4, <1>9, <1>11, <2>2
           DEF Settle, Add, Go, Here, Growth, Open, TypeOK, disk, locals
    <2>5. ASSUME NEW b \in Actors \ {a} PROVE Spares(b)
        BY <1>20, <2>1, <1>1, <1>4, <1>5, <1>6, <1>7, <1>8, <1>9
           DEF Settle, Add, Go, TypeOK, Open, Spares, disk, locals
    <2> QED BY <2>2, <2>3, <2>4, <2>5, Combine
<1>21. CASE Close(a)
    <2>1. TypeOK'
        BY <1>21, <1>1, <1>3, <1>4, <1>9, <1>10
           DEF Close, Go, TypeOK, Labels, disk, locals
    <2>2. fresh' = TRUE /\ playing' = FALSE /\ usage' <= Limit
        BY <1>21, <1>1, <1>9 DEF Close, disk, locals
    <2>3. Here(a)'
        BY <1>21, <1>1, <1>2, <1>3, <1>4, <1>9, <1>11, <2>1
           DEF Close, Go, Here, Growth, Open, TypeOK, disk, locals
    <2>4. ASSUME NEW b \in Actors \ {a} PROVE Spares(b)
        BY <1>21, <1>1, <1>4, <1>5, <1>6, <1>7, <1>8, <1>9
           DEF Close, Go, TypeOK, Open, Spares, disk, locals
    <2> QED BY <2>1, <2>2, <2>3, <2>4, Combine
<1>22. CASE CloseAdjust(a)
    <2>1. usage' \in 0 .. MaxInt /\ usage' <= usage
        BY <1>22, <1>2, <1>9, AddDown DEF CloseAdjust, Add, Here
    <2>2. TypeOK'
        BY <1>22, <2>1, <1>1, <1>3, <1>4, <1>9, <1>10
           DEF CloseAdjust, Finish, Go, TypeOK, Labels, disk, locals
    <2>3. fresh' = TRUE /\ playing' = FALSE /\ usage' <= Limit
        BY <1>22, <2>1, <1>1, <1>9 DEF CloseAdjust, Finish, disk, locals
    <2>4. Here(a)'
        BY <1>22, <2>1, <1>1, <1>2, <1>3, <1>4, <1>9, <1>11, <2>2
           DEF CloseAdjust, Finish, Go, Here, Growth, Open, TypeOK, disk,
               locals
    <2>5. ASSUME NEW b \in Actors \ {a} PROVE Spares(b)
        BY <1>22, <2>1, <1>1, <1>4, <1>5, <1>6, <1>7, <1>8, <1>9
           DEF CloseAdjust, Finish, Go, TypeOK, Open, Spares, disk, locals
    <2> QED BY <2>2, <2>3, <2>4, <2>5, Combine
<1>23. CASE StatRemove(a)
    <2>1. TypeOK'
        BY <1>23, <1>1, <1>3, <1>4, <1>9, <1>10
           DEF StatRemove, Go, TypeOK, Labels, disk, locals
    <2>2. fresh' = TRUE /\ playing' = FALSE /\ usage' <= Limit
        BY <1>23, <1>1, <1>9 DEF StatRemove, disk, locals
    <2>3. Here(a)'
        BY <1>23, <1>1, <1>2, <1>3, <1>4, <1>9, <1>11, <2>1
           DEF StatRemove, Go, Here, Growth, Open, TypeOK, disk, locals
    <2>4. ASSUME NEW b \in Actors \ {a} PROVE Spares(b)
        BY <1>23, <1>1, <1>4, <1>5, <1>6, <1>7, <1>8, <1>9
           DEF StatRemove, Go, TypeOK, Open, Spares, disk, locals
    <2> QED BY <2>1, <2>2, <2>3, <2>4, Combine
<1>24. CASE Remove(a)
    <2>1. TypeOK'
        BY <1>24, <1>1, <1>3, <1>4, <1>9, <1>10
           DEF Remove, Finish, Go, TypeOK, Labels, disk, locals
    <2>2. fresh' = TRUE /\ playing' = FALSE /\ usage' <= Limit
        BY <1>24, <1>1, <1>9 DEF Remove, Finish, disk, locals
    <2>3. Here(a)'
        BY <1>24, <1>1, <1>2, <1>3, <1>4, <1>9, <1>11, <2>1
           DEF Remove, Finish, Go, Here, Growth, Open, TypeOK, disk, locals
    <2>4. ASSUME NEW b \in Actors \ {a} PROVE Spares(b)
        BY <1>24, <1>1, <1>4, <1>5, <1>6, <1>7, <1>8, <1>9
           DEF Remove, Finish, Go, TypeOK, Open, Spares, disk, locals
    <2> QED BY <2>1, <2>2, <2>3, <2>4, Combine
<1>25. CASE Uncount(a)
    <2>1. usage' \in 0 .. MaxInt /\ usage' <= usage
        BY <1>25, <1>9, <1>10, AddDown DEF Uncount, Add
    <2>2. TypeOK'
        BY <1>25, <2>1, <1>1, <1>3, <1>4, <1>9, <1>10
           DEF Uncount, Finish, Go, TypeOK, Labels, disk, locals
    <2>3. fresh' = TRUE /\ playing' = FALSE /\ usage' <= Limit
        BY <1>25, <2>1, <1>1, <1>9 DEF Uncount, Finish, disk, locals
    <2>4. Here(a)'
        BY <1>25, <2>1, <1>1, <1>2, <1>3, <1>4, <1>9, <1>11, <2>2
           DEF Uncount, Finish, Go, Here, Growth, Open, TypeOK, disk, locals
    <2>5. ASSUME NEW b \in Actors \ {a} PROVE Spares(b)
        BY <1>25, <2>1, <1>1, <1>4, <1>5, <1>6, <1>7, <1>8, <1>9
           DEF Uncount, Finish, Go, TypeOK, Open, Spares, disk, locals
    <2> QED BY <2>2, <2>3, <2>4, <2>5, Combine
<1>26. QED
    BY <1>1, <1>2, <1>3, <1>12, <1>13, <1>14, <1>15, <1>16, <1>17, <1>18, <1>19, <1>20, <1>21, <1>22, <1>23, <1>24, <1>25
           DEF Ask, Step, OnlySftp, Filewrite, StatCopy, StatWrite,
               StreamArchive, StartScan,
           BeginScan, Walk, Stamp, StoreUsage, CheckFit, TouchTarget, CopyBytes, CountBytes,
           JudgeArchive, AddArchive

\* Every step preserves the invariant.
LEMMA NextRes == OnlySftp /\ ResInv /\ [Next]_vars => ResInv'
<1> SUFFICES ASSUME OnlySftp, ResInv, [Next]_vars PROVE ResInv'
    OBVIOUS
<1>1. CASE \E a \in Actors : StartScan(a) \/ Ask(a) \/ Step(a)
    BY <1>1, StepRes
<1>2. CASE Expire \/ GameStop \/ \E f \in Files, n \in Sizes : GameWrite(f, n)
    BY <1>2 DEF Expire, GameStop, GameWrite, ResInv, OnlySftp
<1>3. CASE UNCHANGED vars
    BY <1>3 DEF vars, disk, locals, ResInv, TypeOK, Here, Growth
<1> QED BY <1>1, <1>2, <1>3 DEF Next

\* While SFTP handles of different files are all that writes, reserveDisk keeps
\* the accounted usage within the limit, for every number of handles, deletions
\* and files, and every field keeps its type.
THEOREM ReservationsBound ==
    ASSUME OnlySftp
    PROVE  Spec => [](TypeOK /\ UsageWithinLimit)
<1>1. ResInv => TypeOK /\ UsageWithinLimit
    BY DEF ResInv, UsageWithinLimit
<1>2. Init => ResInv
    BY InitRes
<1>3. ResInv /\ [Next]_vars => ResInv'
    BY NextRes
<1> QED BY <1>1, <1>2, <1>3, PTL DEF Spec

-----------------------------------------------------------------------------
\* What the files take: the cardinality of the set of their bytes, which is their
\* sum without a recursion over the files.

\* The bytes of one file.
Column(f, n) == {f} \X (1 .. n)

\* They are as many as its size.
LEMMA ColumnSize ==
    ASSUME NEW f, NEW n \in Nat
    PROVE  IsFiniteSet(Column(f, n)) /\ Cardinality(Column(f, n)) = n
<1>1. IsFiniteSet({f}) /\ Cardinality({f}) = 1
    BY FS_Singleton
<1>2. IsFiniteSet(1 .. n) /\ Cardinality(1 .. n) = n
    BY FS_Interval
<1>3. IsFiniteSet(Column(f, n)) /\ Cardinality(Column(f, n)) = Cardinality({f}) * Cardinality(1 .. n)
    BY <1>1, <1>2, FS_Product DEF Column
<1> QED BY <1>1, <1>2, <1>3

\* The bytes of all files are finitely many, and no more than the largest files have.
LEMMA BytesCount ==
    ASSUME NEW h
    PROVE  /\ IsFiniteSet(Bytes(h)) /\ Cardinality(Bytes(h)) \in Nat
           /\ Cardinality(Files) \in Nat /\ Cardinality(Bytes(h)) <= Cardinality(Files) * MaxSize
<1>1. IsFiniteSet(1 .. MaxSize) /\ Cardinality(1 .. MaxSize) = MaxSize
    BY FS_Interval, LimitAssumption
<1>2. IsFiniteSet(Files \X (1 .. MaxSize))
      /\ Cardinality(Files \X (1 .. MaxSize)) = Cardinality(Files) * Cardinality(1 .. MaxSize)
    BY <1>1, FS_Product, FilesAssumption
<1>3. Bytes(h) \in SUBSET (Files \X (1 .. MaxSize))
    BY DEF Bytes
<1>4. IsFiniteSet(Bytes(h)) /\ Cardinality(Bytes(h)) <= Cardinality(Files \X (1 .. MaxSize))
    BY <1>2, <1>3, FS_Subset
<1> QED BY <1>1, <1>2, <1>4, FS_CardinalityType, FilesAssumption

\* One file's size changes: the total changes by as much.
LEMMA BytesMove ==
    ASSUME NEW h \in [Files -> Sizes], NEW k \in [Files -> Sizes], NEW f \in Files,
           \A g \in Files \ {f} : k[g] = h[g]
    PROVE  Cardinality(Bytes(k)) = Cardinality(Bytes(h)) - h[f] + k[f]
<1> DEFINE rest == {b \in Bytes(h) : b[1] # f}
<1>1. h[f] \in Nat /\ k[f] \in Nat /\ h[f] <= MaxSize /\ k[f] <= MaxSize /\ MaxSize \in Nat
    BY LimitAssumption DEF Sizes
<1>2. ASSUME NEW p \in [Files -> Sizes], \A g \in Files \ {f} : p[g] = h[g]
      PROVE  Cardinality(Bytes(p)) = Cardinality(rest) + p[f]
    <2>1. p[f] \in Nat /\ p[f] <= MaxSize
        BY LimitAssumption DEF Sizes
    <2>2. Bytes(p) = rest \cup Column(f, p[f])
        <3>1. ASSUME NEW b \in Bytes(p) PROVE b \in rest \cup Column(f, p[f])
            BY <1>2, <2>1 DEF Bytes, Column
        <3>2. ASSUME NEW b \in rest PROVE b \in Bytes(p)
            BY <1>2 DEF Bytes
        <3>3. ASSUME NEW b \in Column(f, p[f]) PROVE b \in Bytes(p)
            BY <2>1, LimitAssumption DEF Bytes, Column
        <3> QED BY <3>1, <3>2, <3>3
    <2>3. rest \cap Column(f, p[f]) = {}
        BY DEF Column
    <2>4. IsFiniteSet(rest)
        <3>1. rest \in SUBSET Bytes(h)
            OBVIOUS
        <3> QED BY <3>1, BytesCount, FS_Subset
    <2> HIDE DEF rest
    <2>5. Cardinality(rest \cup Column(f, p[f]))
            = Cardinality(rest) + Cardinality(Column(f, p[f])) - Cardinality({})
        BY <2>1, <2>3, <2>4, ColumnSize, FS_Union
    <2>6. Cardinality(rest) \in Nat
        BY <2>4, FS_CardinalityType
    <2> QED BY <2>1, <2>2, <2>5, <2>6, ColumnSize, FS_EmptySet
<1>3. Cardinality(Bytes(h)) = Cardinality(rest) + h[f]
    BY <1>2
<1>4. Cardinality(Bytes(k)) = Cardinality(rest) + k[f]
    BY <1>2
<1>5. Cardinality(rest) \in Nat
    <2>1. rest \in SUBSET Bytes(h)
        OBVIOUS
    <2> QED BY <2>1, BytesCount, FS_Subset, FS_CardinalityType
<1> HIDE DEF rest
<1> QED BY <1>1, <1>3, <1>4, <1>5

\* Smaller files take less.
LEMMA BytesLess ==
    ASSUME NEW h \in [Files -> Sizes], NEW k \in [Files -> Sizes], \A f \in Files : h[f] <= k[f]
    PROVE  Cardinality(Bytes(h)) <= Cardinality(Bytes(k))
<1>1. ASSUME NEW b \in Bytes(h) PROVE b \in Bytes(k)
    <2>1. b \in Files \X (1 .. MaxSize) /\ b[1] \in Files /\ b[2] \in Nat /\ b[2] <= h[b[1]]
        BY DEF Bytes
    <2>2. h[b[1]] \in Nat /\ k[b[1]] \in Nat /\ h[b[1]] <= k[b[1]]
        BY <2>1, LimitAssumption DEF Sizes
    <2>3. b[2] <= k[b[1]]
        BY <2>1, <2>2
    <2> QED BY <2>1, <2>3 DEF Bytes
<1>2. Bytes(h) \in SUBSET Bytes(k)
    BY <1>1
<1> QED BY <1>2, BytesCount, FS_Subset


-----------------------------------------------------------------------------
\* The usage is exact

\* Every file is written by one goroutine, or only removed; no lookup is made and
\* all files at their largest stay below the largest integer.
OneWriterEach ==
    /\ Scanned = TRUE /\ Expiring = FALSE /\ Playing = FALSE
    /\ Archives = {} /\ Scans = {}
    /\ Sessions \cap (Uploads \cup Copies \cup Deletes) = {}
    /\ Uploads \cap (Copies \cup Deletes) = {} /\ Copies \cap Deletes = {}
    /\ \A a, b \in FileOps : Target[a] = Target[b] => a = b \/ (a \in Deletes /\ b \in Deletes)
    /\ Cardinality(Files) * MaxSize <= MaxInt

\* The usage follows the change of one file's share exactly.
LEMMA Charge ==
    ASSUME OneWriterEach, NEW h \in [Files -> Sizes], usage = Cardinality(Bytes(h)),
           NEW f \in Files, NEW i \in Int, h[f] + i \in Sizes
    PROVE  \E k \in [Files -> Sizes] :
             /\ k[f] = h[f] + i /\ \A g \in Files \ {f} : k[g] = h[g]
             /\ AddResult(usage, i) = Cardinality(Bytes(k))
<1> DEFINE k == [h EXCEPT ![f] = h[f] + i]
<1>1. k \in [Files -> Sizes] /\ k[f] = h[f] + i /\ \A g \in Files \ {f} : k[g] = h[g]
    OBVIOUS
<1> HIDE DEF k
<1>2. h[f] \in Sizes
    OBVIOUS
<1>3. Cardinality(Bytes(k)) = Cardinality(Bytes(h)) - h[f] + k[f]
    BY <1>1, BytesMove
<1>4. Cardinality(Bytes(k)) = usage + i /\ usage \in Nat
    BY <1>1, <1>2, <1>3, BytesCount, LimitAssumption DEF Sizes
<1>5. Cardinality(Bytes(k)) \in 0 .. MaxInt /\ usage \in 0 .. MaxInt
    <2>1. Cardinality(Bytes(k)) \in Nat /\ Cardinality(Bytes(k)) <= Cardinality(Files) * MaxSize
        BY BytesCount
    <2>2. Cardinality(Bytes(h)) \in Nat /\ Cardinality(Bytes(h)) <= Cardinality(Files) * MaxSize
        BY BytesCount
    <2>3. Cardinality(Files) * MaxSize \in Nat /\ Cardinality(Files) * MaxSize <= MaxInt
        BY BytesCount, LimitAssumption DEF OneWriterEach
    <2> QED BY <2>1, <2>2, <2>3, MaxIntAssumption
<1>6. i \in Int64
    BY <1>2, LimitAssumption, MaxIntAssumption DEF Sizes, Int64, MinInt
<1>7. AddResult(usage, i) = Clamp(usage + i)
    BY <1>5, <1>6, AddClamps
<1>8. Clamp(usage + i) = usage + i
    BY <1>4, <1>5, MaxIntAssumption DEF Clamp
<1> QED BY <1>1, <1>4, <1>7, <1>8

\* The labels at which a file's share of the usage is not its size.
Engaged == {"ready", "reserve", "grow", "write", "settle", "close", "copy", "count", "uncount"}

\* Where a goroutine of each kind can be.
Places(a) ==
    /\ a \in Sessions => pc[a] \in {"idle", "room", "stat", "open", "ready", "reserve", "grow",
                                    "write", "settle", "close"}
    /\ a \in Uploads \cup Copies => pc[a] \in {"idle", "check", "touch", "copy", "count"}
    /\ a \in Deletes => pc[a] \in {"idle", "remove", "uncount"}

\* The share of its file that a goroutine has still to settle.
Owes(a, h) ==
    LET t == Target[a]
    IN  /\ a \in Copies => cur[a] = 0
        /\ pc[a] \in {"open", "check", "touch"} => cur[a] = size[t]
        /\ pc[a] \in {"reserve", "grow"} => cur[a] < off[a] + len[a]
        /\ pc[a] \in {"reserve", "grow", "write"} => off[a] + len[a] <= MaxSize
        /\ pc[a] \in {"ready", "reserve", "grow"} => h[t] = cur[a] /\ size[t] <= cur[a]
        /\ pc[a] \in {"ready", "reserve", "grow", "write", "settle", "copy"} => t \in there
        /\ pc[a] = "write" => h[t] = Bigger(cur[a], off[a] + len[a]) /\ size[t] <= cur[a]
        /\ pc[a] = "settle" => h[t] + got[a] = cur[a] /\ size[t] <= cur[a] /\ got[a] <= 0
        /\ pc[a] = "close" => h[t] + got[a] = size[t] /\ got[a] <= 0
        /\ pc[a] = "copy" => h[t] = cur[a] /\ size[t] = 0
        /\ pc[a] = "count" => h[t] + got[a] = size[t]
        /\ pc[a] = "remove" /\ t \in there => cur[a] = size[t]
        /\ pc[a] = "uncount" =>
            /\ h[t] = cur[a] /\ t \notin there
            /\ \A b \in Deletes : Target[b] = t /\ pc[b] = "uncount" => b = a

\* No lookup comes due and the game server is stopped; the fields have their types.
Typed ==
    /\ fresh = TRUE /\ playing = FALSE
    /\ size \in [Files -> Sizes]
    /\ pc \in [Actors -> Labels]
    /\ cur \in [Actors -> Sizes] /\ off \in [Actors -> Sizes] /\ len \in [Actors -> Sizes]
    /\ got \in [Actors -> Int64]

\* The usage is the sum of shares h: a file that nobody is engaged with has its size.
Account(h) ==
    /\ usage = Cardinality(Bytes(h))
    /\ \A f \in Files :
        /\ f \notin there => size[f] = 0
        /\ (\A a \in Actors : Target[a] = f => pc[a] \notin Engaged) => h[f] = size[f]
    /\ \A a \in Actors : Places(a) /\ Owes(a, h)

\* The inductive invariant: there are such shares.
AccInv == Typed /\ \E h \in [Files -> Sizes] : Account(h)

\* A step of a, which may change its own file and share, and no other goroutine.
Alone(a) ==
    \A b \in Actors \ {a} :
        pc'[b] = pc[b] /\ cur'[b] = cur[b] /\ off'[b] = off[b] /\ len'[b] = len[b] /\ got'[b] = got[b]

\* Every goroutine has a file.
LEMMA FileOpsAll == OneWriterEach => FileOps = Actors /\ \A a \in Actors : Target[a] \in Files
BY TargetAssumption DEF OneWriterEach, FileOps

\* What a step of a has to show: its own file and share may change, nobody else's, and a
\* deletion that shares the file has not removed it.
LEMMA Keeps ==
    ASSUME OneWriterEach, Typed, NEW h \in [Files -> Sizes], Account(h), NEW a \in Actors,
           NEW k \in [Files -> Sizes], usage' = Cardinality(Bytes(k)), Alone(a), Typed',
           \A f \in Files \ {Target[a]} :
              k[f] = h[f] /\ size'[f] = size[f] /\ (f \in there' <=> f \in there),
           Target[a] \notin there' => size'[Target[a]] = 0,
           \/ pc'[a] \in Engaged \/ k[Target[a]] = size'[Target[a]]
           \/ /\ pc[a] \notin Engaged
              /\ k[Target[a]] = h[Target[a]] /\ size'[Target[a]] = size[Target[a]],
           \A b \in Deletes \ {a} : Target[b] = Target[a] =>
             \/ /\ k[Target[a]] = h[Target[a]] /\ size'[Target[a]] = size[Target[a]]
                /\ (Target[a] \in there' <=> Target[a] \in there) /\ pc'[a] # "uncount"
             \/ pc[b] # "uncount" /\ Target[a] \notin there',
           Places(a)', Owes(a, k)'
    PROVE  AccInv'
<1> USE DEF Account
<1> DEFINE t == Target[a]
<1>1. t \in Files /\ \A b \in Actors : Target[b] \in Files
    BY FileOpsAll
<1>2. \A b \in Actors \ {a} : Target[b] = t => a \in Deletes /\ b \in Deletes
    BY FileOpsAll DEF OneWriterEach
<1>3. ASSUME NEW b \in Actors \ {a} PROVE Places(b)'
    BY DEF Places, Alone
<1>4. ASSUME NEW b \in Actors \ {a}, Target[b] # t PROVE Owes(b, k)'
    <2>1. Owes(b, h) /\ Target[b] \in Files
        BY <1>1
    <2>2. \A c \in Deletes : Target[c] = Target[b] /\ pc'[c] = "uncount" => pc[c] = "uncount"
        BY <1>4 DEF Alone, Actors
    <2> QED BY <1>1, <1>4, <2>1, <2>2 DEF Owes, Alone
<1>5. ASSUME NEW b \in Actors \ {a}, Target[b] = t PROVE Owes(b, k)'
    <2>1. Owes(b, h) /\ b \in Deletes /\ a \in Deletes /\ pc[b] \in {"idle", "remove", "uncount"}
        BY <1>2, <1>5 DEF Places
    <2>2. b \notin Copies
        BY <2>1 DEF OneWriterEach
    <2>3. pc'[b] \in {"idle", "remove", "uncount"} /\ pc'[b] = pc[b] /\ cur'[b] = cur[b]
        BY <2>1 DEF Alone
    <2>4. CASE pc[b] = "uncount"
        <3>1. k[t] = h[t] /\ t \notin there' /\ pc'[a] # "uncount"
            BY <1>5, <2>1, <2>4 DEF Owes
        <3>2. \A c \in Deletes : Target[c] = t /\ pc'[c] = "uncount" => pc[c] = "uncount"
            BY <3>1 DEF Alone, Actors
        <3> QED BY <1>5, <2>1, <2>2, <2>3, <2>4, <3>1, <3>2 DEF Owes
    <2>5. CASE pc[b] # "uncount"
        BY <1>5, <2>1, <2>2, <2>3, <2>5 DEF Owes
    <2> QED BY <2>4, <2>5
<1>6. ASSUME NEW f \in Files, f # t
      PROVE  /\ f \notin there' => size'[f] = 0
             /\ (\A b \in Actors : Target[b] = f => pc'[b] \notin Engaged) => k[f] = size'[f]
    BY <1>6 DEF Alone
<1>7. (\A b \in Actors : Target[b] = t => pc'[b] \notin Engaged) => k[t] = size'[t]
    BY <1>1 DEF Alone
<1>8. Account(k)'
    <2>1. \A f \in Files : /\ f \notin there' => size'[f] = 0
                           /\ (\A b \in Actors : Target[b] = f => pc'[b] \notin Engaged) => k[f] = size'[f]
        BY <1>6, <1>7
    <2>2. \A b \in Actors : Places(b)' /\ Owes(b, k)'
        BY <1>3, <1>4, <1>5
    <2> QED BY <2>1, <2>2
<1> QED BY <1>8 DEF AccInv

\* A step of a that changes nothing but its own local variables ...
LEMMA LocalKeeps ==
    ASSUME OneWriterEach, Typed, NEW h \in [Files -> Sizes], Account(h), NEW a \in Actors,
           UNCHANGED <<there, size, usage>>, Alone(a), Typed',
           pc'[a] \in Engaged \/ pc[a] \notin Engaged, pc'[a] # "uncount",
           Places(a)', Owes(a, h)'
    PROVE  AccInv'
<1>1. usage' = Cardinality(Bytes(h)) /\ Target[a] \in Files
    BY FileOpsAll DEF Account
<1>2. Target[a] \notin there' => size'[Target[a]] = 0
    BY <1>1 DEF Account
<1> QED BY <1>1, <1>2, Keeps

\* ... and one that settles what a goroutine that is alone with its file owes.
LEMMA SettleKeeps ==
    ASSUME OneWriterEach, Typed, NEW h \in [Files -> Sizes], Account(h), NEW a \in Actors \ Deletes,
           UNCHANGED <<there, size>>, Alone(a), Typed',
           NEW i \in Int, h[Target[a]] + i \in Sizes, usage' = AddResult(usage, i),
           pc'[a] \in Engaged \/ size[Target[a]] = h[Target[a]] + i,
           Places(a)',
           \A k \in [Files -> Sizes] : k[Target[a]] = h[Target[a]] + i => Owes(a, k)'
    PROVE  AccInv'
<1>1. Target[a] \in Files
    BY FileOpsAll
<1>2. PICK k \in [Files -> Sizes] :
        /\ k[Target[a]] = h[Target[a]] + i /\ \A g \in Files \ {Target[a]} : k[g] = h[g]
        /\ AddResult(usage, i) = Cardinality(Bytes(k))
    BY <1>1, Charge DEF Account
<1>3. Target[a] \notin there' => size'[Target[a]] = 0
    BY <1>1 DEF Account
<1>4. \A b \in Deletes \ {a} : Target[b] # Target[a]
    BY FileOpsAll DEF OneWriterEach, Actors
<1> QED BY <1>2, <1>3, <1>4, Keeps

\* The steps that only look at the files, or check the limit.
LEMMA LocalStep ==
    ASSUME OneWriterEach, Typed, NEW h \in [Files -> Sizes], Account(h), NEW a \in Actors,
           \/ Filewrite(a) \/ CheckRoom(a) \/ StatTouch(a) \/ Reserve(a) \/ Close(a)
           \/ StatCopy(a) \/ CheckFit(a) \/ StatRemove(a)
           \/ \E n \in Sizes : StatWrite(a, n)
           \/ \E o \in Sizes, n \in Sizes \ {0} : WriteAt(a, o, n)
    PROVE  AccInv'
<1>1. Places(a) /\ Owes(a, h) /\ Target[a] \in Files /\ (a \in Copies => Source[a] \in Files)
    BY FileOpsAll, TargetAssumption DEF Account
<1>2. /\ 0 \in Sizes /\ 0 \in Int64 /\ \A x, y \in Sizes : x - y \in Int64
      /\ \A f \in Files : size[f] \in Sizes
      /\ cur[a] \in Sizes /\ off[a] \in Sizes /\ len[a] \in Sizes /\ got[a] \in Int64
    BY LimitAssumption, MaxIntAssumption DEF Typed, Sizes, Int64, MinInt
<1>3. UNCHANGED <<there, size, usage, fresh, playing>>
    BY DEF Filewrite, CheckRoom, StatTouch, Reserve, Close, StatCopy, CheckFit, StatRemove,
           StatWrite, WriteAt, disk
<1>4. Typed'
    BY <1>1, <1>2, <1>3 DEF Typed, Labels, Filewrite, CheckRoom, StatTouch, Reserve, Close, StatCopy,
       CheckFit, StatRemove, StatWrite, WriteAt, Go, Finish, EndWrite, locals
<1>5. Alone(a)
    BY DEF Alone, Typed, Filewrite, CheckRoom, StatTouch, Reserve, Close, StatCopy, CheckFit, StatRemove,
           StatWrite, WriteAt, Go, Finish, EndWrite, locals
<1>6. /\ pc'[a] \in Engaged \/ pc[a] \notin Engaged
      /\ pc'[a] # "uncount"
    BY <1>1 DEF Typed, Engaged, Filewrite, CheckRoom, StatTouch, Reserve, Close, StatCopy, CheckFit,
           StatRemove, StatWrite, WriteAt, Go, Finish
<1>7. Places(a)'
    <2>1. CASE Filewrite(a)
        BY <1>1, <2>1 DEF Places, Typed, OneWriterEach, Actors, Filewrite, Go, Finish
    <2>2. CASE CheckRoom(a)
        BY <1>1, <2>2 DEF Places, Typed, OneWriterEach, Actors, CheckRoom, Go, Finish
    <2>3. CASE StatTouch(a)
        BY <1>1, <2>3 DEF Places, Typed, OneWriterEach, Actors, StatTouch, Go, Finish
    <2>4. CASE Reserve(a)
        BY <1>1, <2>4 DEF Places, Typed, OneWriterEach, Actors, Reserve, Go, Finish
    <2>5. CASE Close(a)
        BY <1>1, <2>5 DEF Places, Typed, OneWriterEach, Actors, Close, Go, Finish
    <2>6. CASE StatCopy(a)
        BY <1>1, <2>6 DEF Places, Typed, OneWriterEach, Actors, StatCopy, Go, Finish
    <2>7. CASE CheckFit(a)
        BY <1>1, <2>7 DEF Places, Typed, OneWriterEach, Actors, CheckFit, Go, Finish
    <2>8. CASE StatRemove(a)
        BY <1>1, <2>8 DEF Places, Typed, OneWriterEach, Actors, StatRemove, Go, Finish
    <2>9. CASE \E n \in Sizes : StatWrite(a, n)
        BY <1>1, <2>9 DEF Places, Typed, OneWriterEach, Actors, StatWrite, Go, Finish
    <2>10. CASE \E o \in Sizes, n \in Sizes \ {0} : WriteAt(a, o, n)
        BY <1>1, <2>10 DEF Places, Typed, OneWriterEach, Actors, WriteAt, Go, Finish
    <2>11. QED
        BY <2>1, <2>2, <2>3, <2>4, <2>5, <2>6, <2>7, <2>8, <2>9, <2>10
<1>8. Owes(a, h)'
    <2> DEFINE t == Target[a]
    <2>1. size'[t] = size[t] /\ (t \in there' <=> t \in there)
        BY <1>3
    <2>2. a \in Copies /\ t \notin there => size[t] = 0
        BY <1>1 DEF Account
    <2>3. /\ a \in Copies => cur[a] = 0
          /\ a \in Sessions \cup Uploads \cup Deletes => a \notin Copies
        BY <1>1 DEF Owes, OneWriterEach
    <2>4. CASE Filewrite(a)
        BY <1>1, <2>1, <2>4 DEF Owes, Filewrite, Go, Typed
    <2>5. CASE CheckRoom(a)
        BY <1>1, <2>1, <2>5 DEF Owes, CheckRoom, Go, Typed
    <2>6. CASE StatTouch(a)
        BY <1>1, <2>1, <2>3, <2>6 DEF Owes, Places, StatTouch, Go, Typed, OneWriterEach, Actors
    <2>7. CASE Reserve(a)
        BY <1>1, <1>2, <2>1, <2>7 DEF Owes, Reserve, EndWrite, Go, Typed, Bigger, Sizes
    <2>8. CASE Close(a)
        BY <1>1, <1>2, <2>1, <2>8, LimitAssumption DEF Owes, Close, Go, Typed, Sizes
    <2>9. CASE StatCopy(a)
        BY <1>1, <2>1, <2>2, <2>9 DEF Owes, StatCopy, Go, Typed
    <2>10. CASE CheckFit(a)
        BY <1>1, <2>1, <2>10 DEF Owes, CheckFit, Finish, Go, Typed, locals
    <2>11. CASE StatRemove(a)
        BY <1>1, <2>1, <2>3, <2>11 DEF Owes, StatRemove, Go, Typed
    <2>12. CASE \E n \in Sizes : StatWrite(a, n)
        BY <1>1, <2>1, <2>3, <2>12 DEF Owes, StatWrite, Go, Typed
    <2>13. CASE \E o \in Sizes, n \in Sizes \ {0} : WriteAt(a, o, n)
        BY <1>1, <1>2, <2>1, <2>13, LimitAssumption DEF Owes, WriteAt, Go, Typed, Bigger, Sizes
    <2> QED BY <2>4, <2>5, <2>6, <2>7, <2>8, <2>9, <2>10, <2>11, <2>12, <2>13
<1> QED BY <1>3, <1>4, <1>5, <1>6, <1>7, <1>8, LocalKeeps

\* A step that changes the file of a and not the usage.
LEMMA FileStep ==
    ASSUME OneWriterEach, Typed, NEW h \in [Files -> Sizes], Account(h), NEW a \in Actors,
           \/ OpenTouch(a) \/ TouchTarget(a) \/ Remove(a)
           \/ \E n \in Sizes : WriteBytes(a, n) \/ CopyBytes(a, n)
    PROVE  AccInv'
<1> DEFINE t == Target[a]
<1>1. Places(a) /\ Owes(a, h) /\ t \in Files /\ usage = Cardinality(Bytes(h))
    BY FileOpsAll DEF Account
<1>2. /\ 0 \in Sizes /\ 0 \in Int64 /\ \A x, y \in Sizes : x - y \in Int64 /\ Bigger(x, y) \in Sizes
      /\ size[t] \in Sizes
      /\ cur[a] \in Sizes /\ off[a] \in Sizes /\ len[a] \in Sizes /\ got[a] \in Int64
    BY <1>1, LimitAssumption, MaxIntAssumption DEF Typed, Sizes, Int64, MinInt, Bigger
<1>3. /\ size[t] \in Nat /\ cur[a] \in Nat /\ off[a] \in Nat /\ len[a] \in Nat /\ MaxSize \in Nat
       /\ cur[a] <= MaxSize /\ size[t] <= MaxSize
    <2>1. size[t] \in Sizes /\ cur[a] \in Sizes /\ off[a] \in Sizes /\ len[a] \in Sizes
        BY <1>1 DEF Typed
    <2> QED BY ONLY <2>1, LimitAssumption DEF Sizes
<1>4. UNCHANGED <<usage, fresh, playing>>
    BY DEF OpenTouch, TouchTarget, Remove, WriteBytes, CopyBytes
<1>5. /\ a \in Copies => cur[a] = 0
      /\ a \in Sessions \cup Uploads \cup Deletes => a \notin Copies
      /\ a \in Copies => a \notin Uploads
    BY <1>1 DEF Owes, OneWriterEach
<1>6. Alone(a)
    BY DEF Alone, Typed, OpenTouch, TouchTarget, Remove, WriteBytes, CopyBytes, Go, Finish, EndWrite, locals
<1>7. CASE (OpenTouch(a) \/ TouchTarget(a) \/ Remove(a)) /\ Finish(a) /\ UNCHANGED disk
    <2>1. UNCHANGED <<there, size>> /\ pc'[a] = "idle" /\ cur'[a] = 0
        BY <1>7 DEF Finish, Go, disk, Typed
    <2>2. Typed'
        BY <1>2, <1>4, <1>7, <2>1 DEF Typed, Finish, Go, Labels
    <2>3. pc[a] \notin Engaged
        BY <1>7 DEF Engaged, OpenTouch, TouchTarget, Remove
    <2>4. Places(a)' /\ Owes(a, h)'
        BY <2>1 DEF Places, Owes
    <2> QED BY <1>4, <1>6, <2>1, <2>2, <2>3, <2>4, LocalKeeps DEF Engaged
<1>8. a \notin Deletes => \A b \in Deletes \ {a} : Target[b] # t
    BY FileOpsAll DEF OneWriterEach, Actors
<1>9. ASSUME a \notin Deletes, Typed', t \in there', pc'[a] \in Engaged, Places(a)', Owes(a, h)',
             \A f \in Files \ {t} : size'[f] = size[f] /\ (f \in there' <=> f \in there)
      PROVE  AccInv'
    BY <1>1, <1>4, <1>6, <1>8, <1>9, Keeps
<1>10. CASE OpenTouch(a) /\ ~(Finish(a) /\ UNCHANGED disk)
    <2>1. /\ pc[a] = "open" /\ there' = there \cup {t} /\ size' = [size EXCEPT ![t] = 0]
          /\ pc' = [pc EXCEPT ![a] = "ready"] /\ UNCHANGED locals
        BY <1>10 DEF OpenTouch, Go
    <2>2. a \in Sessions /\ a \notin Deletes /\ h[t] = size[t]
        <3>1. a \in Sessions /\ a \notin Deletes
            BY <1>1, <2>1 DEF Places, OneWriterEach, Actors
        <3>2. \A b \in Actors : Target[b] = t => b = a
            BY <3>1, FileOpsAll DEF OneWriterEach
        <3> QED BY <1>1, <2>1, <3>1, <3>2 DEF Account, Engaged
    <2>3. Typed'
        BY <1>1, <1>2, <1>4, <2>1 DEF Typed, Labels, locals
    <2>4. /\ size'[t] = 0 /\ t \in there' /\ pc'[a] = "ready" /\ cur'[a] = cur[a]
          /\ \A f \in Files \ {t} : size'[f] = size[f] /\ (f \in there' <=> f \in there)
        BY <1>1, <2>1 DEF Typed, locals
    <2>5. h[t] = cur'[a] /\ size'[t] <= cur'[a] /\ a \notin Copies \cup Uploads
        BY <1>1, <1>3, <2>1, <2>2, <2>4 DEF Owes, OneWriterEach
    <2>6. Places(a)' /\ Owes(a, h)'
        BY <2>2, <2>4, <2>5 DEF Places, Owes
    <2> QED BY <1>9, <2>2, <2>3, <2>4, <2>6 DEF Engaged
<1>11. CASE TouchTarget(a) /\ ~(Finish(a) /\ UNCHANGED disk)
    <2>1. /\ pc[a] = "touch" /\ there' = there \cup {t}
          /\ size' = IF a \in Uploads THEN [size EXCEPT ![t] = 0] ELSE size
          /\ pc' = [pc EXCEPT ![a] = "copy"] /\ UNCHANGED locals
        BY <1>11 DEF TouchTarget, Go
    <2>2. a \in Uploads \cup Copies /\ a \notin Deletes /\ h[t] = size[t]
        <3>1. a \in Uploads \cup Copies /\ a \notin Deletes
            BY <1>1, <2>1 DEF Places, OneWriterEach, Actors
        <3>2. \A b \in Actors : Target[b] = t => b = a
            BY <3>1, FileOpsAll DEF OneWriterEach
        <3> QED BY <1>1, <2>1, <3>1, <3>2 DEF Account, Engaged
    <2>3. Typed'
        BY <1>1, <1>2, <1>4, <2>1 DEF Typed, Labels, locals
    <2>4. /\ size'[t] = 0 /\ t \in there' /\ pc'[a] = "copy" /\ cur'[a] = cur[a] /\ cur[a] = size[t]
          /\ \A f \in Files \ {t} : size'[f] = size[f] /\ (f \in there' <=> f \in there)
        BY <1>1, <1>5, <2>1, <2>2 DEF Typed, locals, Owes
    <2>5. Places(a)' /\ Owes(a, h)'
        BY <1>1, <1>2, <1>5, <2>2, <2>4 DEF Places, Owes, OneWriterEach
    <2> QED BY <1>9, <2>2, <2>3, <2>4, <2>5 DEF Engaged
<1>12. ASSUME NEW n \in Sizes, CopyBytes(a, n) PROVE AccInv'
    <2>1. /\ pc[a] = "copy" /\ size' = [size EXCEPT ![t] = Bigger(@, n)] /\ there' = there
          /\ got' = [got EXCEPT ![a] = n - cur[a]] /\ pc' = [pc EXCEPT ![a] = "count"]
          /\ UNCHANGED <<cur, off, len>>
        BY <1>12 DEF CopyBytes, Go
    <2>2. a \in Uploads \cup Copies /\ a \notin Deletes /\ h[t] = cur[a] /\ size[t] = 0
        BY <1>1, <2>1 DEF Places, Owes, OneWriterEach, Actors
    <2>3. Bigger(size[t], n) = n
        BY <2>2, LimitAssumption DEF Bigger, Sizes
    <2>4. Typed'
        BY <1>1, <1>2, <1>4, <2>1, <2>3 DEF Typed, Labels
    <2>5. /\ size'[t] = n /\ pc'[a] = "count" /\ cur'[a] = cur[a] /\ got'[a] = n - cur[a]
          /\ \A f \in Files \ {t} : size'[f] = size[f]
        BY <1>1, <2>1, <2>3 DEF Typed
    <2>6. h[t] + got'[a] = size'[t] /\ a \notin Sessions /\ (a \in Copies => cur'[a] = 0) /\ t \in there
        <3>1. n \in Nat
            BY LimitAssumption DEF Sizes
        <3>2. h[t] + got'[a] = size'[t]
            BY <1>3, <2>2, <2>5, <3>1
        <3> QED BY <1>1, <1>5, <2>1, <2>2, <2>5, <3>2 DEF Owes, OneWriterEach
    <2>7. Places(a)' /\ Owes(a, h)'
        BY <2>2, <2>5, <2>6 DEF Places, Owes
    <2> QED BY <1>9, <2>1, <2>2, <2>4, <2>5, <2>6, <2>7 DEF Engaged
<1>13. ASSUME NEW n \in Sizes, WriteBytes(a, n) PROVE AccInv'
    <2> DEFINE asked == off[a] + len[a]
               end == IF n > 0 THEN Bigger(cur[a], off[a] + n) ELSE cur[a]
               new == IF n > 0 THEN Bigger(size[t], off[a] + n) ELSE size[t]
    <2>1. /\ pc[a] = "write" /\ n <= len[a] /\ there' = there
          /\ size' = IF n > 0 THEN [size EXCEPT ![t] = Bigger(@, off[a] + n)] ELSE size
          /\ cur' = [cur EXCEPT ![a] = end]
          /\ off' = [off EXCEPT ![a] = 0] /\ len' = [len EXCEPT ![a] = 0]
          /\ IF asked > end
             THEN got' = [got EXCEPT ![a] = end - asked] /\ pc' = [pc EXCEPT ![a] = "settle"]
             ELSE pc' = [pc EXCEPT ![a] = "ready"] /\ UNCHANGED got
        BY <1>13 DEF WriteBytes, Go, EndWrite
    <2>2. /\ a \in Sessions /\ a \notin Deletes \cup Copies \cup Uploads /\ t \in there
          /\ h[t] = Bigger(cur[a], asked) /\ size[t] <= cur[a] /\ asked <= MaxSize
        BY <1>1, <2>1 DEF Places, Owes, OneWriterEach, Actors
    <2>3. /\ asked \in Sizes /\ end \in Sizes /\ new \in Sizes /\ new <= end
          /\ asked > end => h[t] = asked
          /\ ~(asked > end) => h[t] = end
        <3>1. off[a] \in Nat /\ len[a] \in Nat /\ n \in Nat /\ cur[a] \in Nat /\ size[t] \in Nat
              /\ cur[a] <= MaxSize /\ size[t] <= MaxSize /\ MaxSize \in Nat
            BY <1>3, LimitAssumption DEF Sizes
        <3> QED BY <2>1, <2>2, <3>1 DEF Bigger, Sizes
    <2>4. size'[t] = new /\ \A f \in Files \ {t} : size'[f] = size[f]
        BY <1>1, <2>1 DEF Typed
    <2>5. size' \in [Files -> Sizes]
        BY <1>1, <2>1, <2>3 DEF Typed
    <2> HIDE DEF new, end, asked
    <2>6. got' \in [Actors -> Int64]
        BY <1>2, <2>1, <2>3 DEF Typed
    <2>7. Typed'
        BY <1>2, <1>4, <2>1, <2>3, <2>5, <2>6 DEF Typed, Labels
    <2>8. /\ cur'[a] = end
          /\ asked > end => pc'[a] = "settle" /\ got'[a] = end - asked
          /\ ~(asked > end) => pc'[a] = "ready"
        BY <2>1 DEF Typed
    <2>9. end \in Int /\ asked \in Int /\ new \in Int
        BY <2>3, LimitAssumption DEF Sizes
    <2>10. CASE asked > end
        <3>1. h[t] + got'[a] = cur'[a] /\ got'[a] <= 0 /\ pc'[a] = "settle" /\ size'[t] <= cur'[a]
            BY <2>3, <2>4, <2>8, <2>9, <2>10
        <3>2. Places(a)' /\ Owes(a, h)'
            BY <2>1, <2>2, <3>1 DEF Places, Owes
        <3> QED BY <1>9, <2>1, <2>2, <2>4, <2>7, <3>1, <3>2 DEF Engaged
    <2>11. CASE ~(asked > end)
        <3>1. h[t] = cur'[a] /\ pc'[a] = "ready" /\ size'[t] <= cur'[a]
            BY <2>3, <2>4, <2>8, <2>11
        <3>2. Places(a)' /\ Owes(a, h)'
            BY <2>1, <2>2, <3>1 DEF Places, Owes
        <3> QED BY <1>9, <2>1, <2>2, <2>4, <2>7, <3>1, <3>2 DEF Engaged
    <2> QED BY <2>10, <2>11
<1>14. CASE Remove(a) /\ ~(Finish(a) /\ UNCHANGED disk)
    <2>1. /\ pc[a] = "remove" /\ t \in there /\ there' = there \ {t} /\ size' = [size EXCEPT ![t] = 0]
          /\ pc' = [pc EXCEPT ![a] = "uncount"] /\ UNCHANGED locals
        BY <1>14 DEF Remove, Go
    <2>2. a \in Deletes /\ a \notin Sessions \cup Uploads \cup Copies /\ cur[a] = size[t]
        BY <1>1, <2>1 DEF Places, Owes, OneWriterEach, Actors
    <2>3. \A b \in Actors : Target[b] = t => b \in Deletes /\ pc[b] \in {"idle", "remove"}
        <3>1. ASSUME NEW b \in Actors, Target[b] = t PROVE b \in Deletes
            BY <2>2, <3>1, FileOpsAll DEF OneWriterEach
        <3>2. ASSUME NEW b \in Actors, Target[b] = t PROVE pc[b] \in {"idle", "remove"}
            BY <2>1, <3>1, <3>2 DEF Account, Places, Owes
        <3> QED BY <3>1, <3>2
    <2>4. h[t] = size[t]
        BY <1>1, <2>3 DEF Account, Engaged
    <2>5. Typed'
        BY <1>1, <1>2, <1>4, <2>1 DEF Typed, Labels, locals
    <2>6. /\ size'[t] = 0 /\ t \notin there' /\ pc'[a] = "uncount" /\ cur'[a] = cur[a]
          /\ \A f \in Files \ {t} : size'[f] = size[f] /\ (f \in there' <=> f \in there)
        BY <1>1, <2>1 DEF Typed, locals
    <2>7. \A b \in Deletes : Target[b] = t /\ pc'[b] = "uncount" => b = a
        BY <1>6, <2>3 DEF Alone, Actors
    <2>8. Places(a)' /\ Owes(a, h)'
        BY <2>2, <2>4, <2>6, <2>7 DEF Places, Owes
    <2>9. \A b \in Deletes \ {a} : Target[b] = t => pc[b] # "uncount"
        BY <2>3 DEF Actors
    <2> QED BY <1>1, <1>4, <1>6, <2>5, <2>6, <2>8, <2>9, Keeps DEF Engaged
<1> QED BY <1>7, <1>10, <1>11, <1>12, <1>13, <1>14

\* A step that changes the usage and not the files.
LEMMA UsageStep ==
    ASSUME OneWriterEach, Typed, NEW h \in [Files -> Sizes], Account(h), NEW a \in Actors,
           AddGrowth(a) \/ Settle(a) \/ CloseAdjust(a) \/ CountBytes(a) \/ Uncount(a)
    PROVE  AccInv'
<1> DEFINE t == Target[a]
<1>1. Places(a) /\ Owes(a, h) /\ t \in Files
    BY FileOpsAll DEF Account
<1>2. /\ h[t] \in Sizes /\ size[t] \in Sizes /\ cur[a] \in Sizes /\ off[a] \in Sizes /\ len[a] \in Sizes
      /\ got[a] \in Int64
    BY <1>1 DEF Typed
<1>3. /\ h[t] \in Nat /\ size[t] \in Nat /\ cur[a] \in Nat /\ off[a] \in Nat /\ len[a] \in Nat /\ MaxSize \in Nat
      /\ cur[a] <= MaxSize /\ size[t] <= MaxSize /\ got[a] \in Int
      /\ 0 \in Sizes /\ 0 \in Int64
    BY ONLY <1>2, LimitAssumption, MaxIntAssumption DEF Sizes, Int64, MinInt
<1>4. UNCHANGED <<there, size, fresh, playing>>
    BY DEF AddGrowth, Settle, CloseAdjust, CountBytes, Uncount, disk
<1>5. Alone(a)
    BY DEF Alone, Typed, AddGrowth, Settle, CloseAdjust, CountBytes, Uncount, Go, Finish, locals
<1>6. Typed'
    BY <1>3, <1>4
       DEF Typed, Labels, AddGrowth, Settle, CloseAdjust, CountBytes, Uncount, Go, Finish, locals
<1>7. ASSUME a \notin Deletes, NEW i \in Int, h[t] + i \in Sizes, usage' = AddResult(usage, i),
             pc'[a] \in Engaged \/ size[t] = h[t] + i, Places(a)',
             \A k \in [Files -> Sizes] : k[t] = h[t] + i => Owes(a, k)'
      PROVE  AccInv'
    BY <1>4, <1>5, <1>6, <1>7, SettleKeeps
<1>8. CASE AddGrowth(a)
    <2> DEFINE i == off[a] + len[a] - cur[a]
    <2>1. pc[a] = "grow" /\ usage' = AddResult(usage, i) /\ pc' = [pc EXCEPT ![a] = "write"] /\ UNCHANGED locals
        BY <1>8 DEF AddGrowth, Add, Growth, Go
    <2>2. /\ a \in Sessions /\ a \notin Deletes \cup Uploads \cup Copies /\ h[t] = cur[a] /\ size[t] <= cur[a]
          /\ cur[a] < off[a] + len[a] /\ off[a] + len[a] <= MaxSize /\ t \in there
        BY <1>1, <2>1 DEF Places, Owes, OneWriterEach, Actors
    <2>3. i \in Int /\ h[t] + i = off[a] + len[a] /\ h[t] + i \in Sizes
          /\ Bigger(cur[a], off[a] + len[a]) = off[a] + len[a]
        BY <1>3, <2>2 DEF Sizes, Bigger
    <2>4. pc'[a] = "write" /\ cur'[a] = cur[a] /\ off'[a] = off[a] /\ len'[a] = len[a]
        BY <2>1 DEF locals, Typed
    <2>5. Places(a)' /\ \A k \in [Files -> Sizes] : k[t] = h[t] + i => Owes(a, k)'
        BY <1>4, <2>2, <2>3, <2>4 DEF Places, Owes
    <2> HIDE DEF i
    <2> QED BY <1>7, <2>1, <2>2, <2>3, <2>4, <2>5 DEF Engaged
<1>9. CASE Settle(a)
    <2>1. pc[a] = "settle" /\ usage' = AddResult(usage, got[a]) /\ pc' = [pc EXCEPT ![a] = "ready"]
          /\ UNCHANGED cur
        BY <1>9 DEF Settle, Add, Go
    <2>2. /\ a \in Sessions /\ a \notin Deletes \cup Uploads \cup Copies /\ t \in there
          /\ h[t] + got[a] = cur[a] /\ size[t] <= cur[a]
        BY <1>1, <2>1 DEF Places, Owes, OneWriterEach, Actors
    <2>3. pc'[a] = "ready" /\ cur'[a] = cur[a]
        BY <2>1 DEF Typed
    <2>4. Places(a)' /\ \A k \in [Files -> Sizes] : k[t] = h[t] + got[a] => Owes(a, k)'
        BY <1>4, <2>2, <2>3 DEF Places, Owes
    <2> QED BY <1>2, <1>3, <1>7, <2>1, <2>2, <2>3, <2>4 DEF Engaged
<1>10. CASE CloseAdjust(a) \/ CountBytes(a)
    <2>1. pc[a] \in {"close", "count"} /\ usage' = AddResult(usage, got[a])
          /\ pc' = [pc EXCEPT ![a] = "idle"] /\ cur' = [cur EXCEPT ![a] = 0]
        BY <1>10 DEF CloseAdjust, CountBytes, Add, Finish, Go
    <2>2. a \notin Deletes /\ h[t] + got[a] = size[t]
        BY <1>1, <2>1 DEF Places, Owes
    <2>3. pc'[a] = "idle" /\ cur'[a] = 0
        BY <2>1 DEF Typed
    <2>4. Places(a)' /\ \A k \in [Files -> Sizes] : k[t] = h[t] + got[a] => Owes(a, k)'
        BY <2>3 DEF Places, Owes
    <2> QED BY <1>2, <1>3, <1>7, <2>1, <2>2, <2>4
<1>11. CASE Uncount(a)
    <2>1. pc[a] = "uncount" /\ usage' = AddResult(usage, -cur[a])
          /\ pc' = [pc EXCEPT ![a] = "idle"] /\ cur' = [cur EXCEPT ![a] = 0]
        BY <1>11 DEF Uncount, Add, Finish, Go
    <2>2. /\ a \in Deletes /\ h[t] = cur[a] /\ t \notin there /\ size[t] = 0
          /\ \A b \in Deletes : Target[b] = t /\ pc[b] = "uncount" => b = a
        BY <1>1, <2>1 DEF Places, Owes, Account, OneWriterEach, Actors
    <2>3. -cur[a] \in Int /\ h[t] + (-cur[a]) = 0
        BY <1>3, <2>2
    <2>4. PICK k \in [Files -> Sizes] :
            /\ k[t] = 0 /\ \A g \in Files \ {t} : k[g] = h[g]
            /\ AddResult(usage, -cur[a]) = Cardinality(Bytes(k))
        BY <1>1, <1>3, <2>3, Charge DEF Account
    <2>5. pc'[a] = "idle" /\ cur'[a] = 0
        BY <2>1 DEF Typed
    <2>6. Places(a)' /\ Owes(a, k)'
        BY <2>5 DEF Places, Owes
    <2>7. \A b \in Deletes \ {a} : Target[b] = t => pc[b] # "uncount" /\ t \notin there'
        BY <1>4, <2>2
    <2> QED BY <1>4, <1>5, <1>6, <2>1, <2>2, <2>4, <2>6, <2>7, Keeps
<1> QED BY <1>8, <1>9, <1>10, <1>11

\* Every step of the system keeps the account ...
LEMMA AccStep == OneWriterEach /\ AccInv /\ [Next]_vars => AccInv'
<1> SUFFICES ASSUME OneWriterEach, AccInv, [Next]_vars PROVE AccInv'
    OBVIOUS
<1>1. PICK h \in [Files -> Sizes] : Account(h)
    BY DEF AccInv
<1>2. Typed /\ \A a \in Actors : Places(a)
    BY <1>1 DEF AccInv, Account
<1>3. ASSUME NEW a \in Actors, Ask(a) PROVE AccInv'
    BY <1>1, <1>2, <1>3, LocalStep DEF Ask, StreamArchive, OneWriterEach
<1>4. ASSUME NEW a \in Actors, StartScan(a) PROVE AccInv'
    BY <1>4 DEF StartScan, OneWriterEach
<1>5. ASSUME NEW a \in Actors, Step(a) PROVE AccInv'
    <2>1. pc[a] \notin {"scan", "walk", "store", "fit", "add"}
        BY <1>2 DEF Places, OneWriterEach, Actors
    <2>2. \/ CheckRoom(a) \/ StatTouch(a) \/ Reserve(a) \/ CheckFit(a)
          \/ OpenTouch(a) \/ TouchTarget(a) \/ Remove(a)
          \/ (\E n \in Sizes : WriteBytes(a, n) \/ CopyBytes(a, n))
          \/ AddGrowth(a) \/ Settle(a) \/ CloseAdjust(a) \/ CountBytes(a) \/ Uncount(a)
        BY <1>5, <2>1 DEF Step, BeginScan, Walk, Stamp, StoreUsage, JudgeArchive, AddArchive
    <2> QED BY <1>1, <1>2, <2>2, LocalStep, FileStep, UsageStep
<1>6. CASE Expire \/ GameStop \/ \E f \in Files, n \in Sizes : GameWrite(f, n)
    BY <1>2, <1>6 DEF Expire, GameStop, GameWrite, Typed, OneWriterEach
<1>7. CASE UNCHANGED vars
    <2>1. Typed' /\ Account(h)'
        BY <1>1, <1>2, <1>7 DEF vars, disk, locals, Typed, Account, Places, Owes
    <2> QED BY <2>1 DEF AccInv
<1> QED BY <1>3, <1>4, <1>5, <1>6, <1>7 DEF Next

\* ... which holds after the first lookup, with every file's size for its share.
LEMMA AccInit == OneWriterEach /\ Init => AccInv
<1> SUFFICES ASSUME OneWriterEach, Init PROVE AccInv
    OBVIOUS
<1>1. /\ 0 \in Sizes /\ 0 \in Int64 /\ "idle" \in Labels
    BY LimitAssumption, MaxIntAssumption DEF Sizes, Int64, MinInt, Labels
<1>2. fresh = TRUE /\ playing = FALSE /\ size \in [Files -> Sizes] /\ usage = Cardinality(Bytes(size))
    BY DEF Init, OneWriterEach, Total
<1>3. Typed
    <2>1. pc \in [Actors -> Labels] /\ cur \in [Actors -> Sizes] /\ off \in [Actors -> Sizes]
          /\ len \in [Actors -> Sizes] /\ got \in [Actors -> Int64]
        BY <1>1, Zenon DEF Init
    <2> QED BY <1>2, <2>1 DEF Typed
<1>4. \A a \in Actors : pc[a] = "idle" /\ cur[a] = 0
    BY DEF Init
<1>5. \A f \in Files : f \notin there => size[f] = 0
    BY <1>2, LimitAssumption DEF Init, Sizes
<1>6. \A a \in Actors : Places(a) /\ Owes(a, size)
    BY <1>4 DEF Places, Owes
<1>7. Account(size)
    BY <1>2, <1>5, <1>6 DEF Account
<1> QED BY <1>2, <1>3, <1>7 DEF AccInv

\* When nothing is under way the usage is what the files take, to the byte, after any
\* interleaving of SFTP writes, uploads, copies and deletions of different files, short
\* and failed ones included (quotaFile, Filesystem.Write, Copy, Delete): every error path
\* settles what it owes, and Quota.Add never saturates.
THEOREM UsageIsExact ==
    ASSUME OneWriterEach
    PROVE  Spec => []UsageExact
<1>1. ASSUME AccInv PROVE UsageExact
    <2> SUFFICES ASSUME Quiet PROVE usage = Total
        BY DEF UsageExact
    <2>1. PICK h \in [Files -> Sizes] : Account(h)
        BY <1>1 DEF AccInv
    <2>2. \A a \in Actors : pc[a] = "idle"
        BY FileOpsAll DEF Quiet
    <2>3. \A f \in Files : h[f] = size[f]
        BY <2>1, <2>2 DEF Account, Engaged
    <2>4. size \in [Files -> Sizes]
        BY <1>1 DEF AccInv, Typed
    <2>5. h = size
        BY <2>3, <2>4
    <2> QED BY <2>1, <2>5 DEF Account, Total
<1>2. Init => AccInv
    BY AccInit
<1>3. AccInv /\ [Next]_vars => AccInv'
    BY AccStep
<1> QED BY <1>1, <1>2, <1>3, PTL DEF Spec

\* At every step the files take no more than what is accounted, when SFTP handles are all
\* that writes: what a handle may write is reserved before it is written, and given back
\* after it is gone (reserveDisk, adjustDisk, Quota.Remove).
THEOREM UsageCoversFiles ==
    ASSUME OneWriterEach, Uploads = {}, Copies = {}
    PROVE  Spec => []UsageCovers
<1>1. ASSUME AccInv PROVE UsageCovers
    <2>1. PICK h \in [Files -> Sizes] : Account(h)
        BY <1>1 DEF AccInv
    <2>2. Typed /\ size \in [Files -> Sizes]
        BY <1>1 DEF AccInv, Typed
    <2>3. ASSUME NEW f \in Files PROVE size[f] <= h[f]
        <3>1. size[f] \in Nat /\ h[f] \in Nat
            BY <2>2, LimitAssumption DEF Sizes
        <3>2. CASE \A a \in Actors : Target[a] = f => pc[a] \notin Engaged
            BY <2>1, <3>1, <3>2 DEF Account
        <3>3. ASSUME NEW a \in Actors, Target[a] = f, pc[a] \in Engaged PROVE size[f] <= h[f]
            <4>1. Places(a) /\ Owes(a, h) /\ (f \notin there => size[f] = 0)
                BY <2>1 DEF Account
            <4>2. cur[a] \in Nat /\ off[a] \in Nat /\ len[a] \in Nat /\ got[a] \in Int
                <5>1. cur[a] \in Sizes /\ off[a] \in Sizes /\ len[a] \in Sizes /\ got[a] \in Int64
                    BY <2>2 DEF Typed
                <5> QED BY ONLY <5>1, LimitAssumption, MaxIntAssumption DEF Sizes, Int64, MinInt
            <4>3. pc[a] \notin {"copy", "count"}
                BY <4>1 DEF Places, OneWriterEach, Actors
            <4>4. CASE pc[a] \in {"ready", "reserve", "grow"}
                BY <3>3, <4>1, <4>4 DEF Owes
            <4>5. CASE pc[a] = "write"
                <5>1. h[f] = Bigger(cur[a], off[a] + len[a]) /\ size[f] <= cur[a]
                    BY <3>3, <4>1, <4>5 DEF Owes
                <5> QED BY ONLY <3>1, <4>2, <5>1 DEF Bigger
            <4>6. CASE pc[a] \in {"settle", "close"}
                <5>1. got[a] <= 0 /\ (size[f] <= h[f] + got[a] \/ h[f] + got[a] = size[f])
                    BY <3>1, <3>3, <4>1, <4>2, <4>6 DEF Owes
                <5> QED BY <3>1, <4>2, <5>1
            <4>7. CASE pc[a] = "uncount"
                BY <3>1, <3>3, <4>1, <4>7 DEF Owes
            <4> QED BY <3>3, <4>3, <4>4, <4>5, <4>6, <4>7 DEF Engaged
        <3> QED BY <3>2, <3>3
    <2> QED BY <2>1, <2>2, <2>3, BytesLess DEF Account, UsageCovers, Total
<1>2. Init => AccInv
    BY AccInit
<1>3. AccInv /\ [Next]_vars => AccInv'
    BY AccStep
<1> QED BY <1>1, <1>2, <1>3, PTL DEF Spec

=============================================================================
