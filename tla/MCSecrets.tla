------------------------------ MODULE MCSecrets ------------------------------
(***************************************************************************)
(* What has no liveness and much symmetry: the two commands that work on   *)
(* the sealed rows of the database, the key rotation and the backup, and   *)
(* the audit trail, checked side by side. `part` says which of the three   *)
(* models moves; the others rest where they begin. The backup and the      *)
(* trail share the variables t1 .. t13.                                    *)
(***************************************************************************)
EXTENDS KeyRotation, TLC

CONSTANTS Users, Emails, Clusters, Names, MaxChanges, MaxOps,
          Requests, Saves, Startup, Shutdown, Dests, Streams

VARIABLES part, t1, t2, t3, t4, t5, t6, t7, t8, t9, t10, t11, t12, t13, t14, t15, t16

AfterTrail == <<t14, t15, t16>>
others == <<t1, t2, t3, t4, t5, t6, t7, t8, t9, t10, t11, t12, t13, AfterTrail>>

B == INSTANCE Backup WITH
    users <- t1, clusters <- t2, grants <- t3, setting <- t4, file <- t5, pc <- t6,
    draft <- t7, dryRun <- t8, todo <- t9, current <- t10, outcome <- t11,
    minted <- t12, changes <- t13, ops <- t14, before <- t15, changed <- t16

Trail == INSTANCE AuditTrail WITH
    setting <- t1, token <- t2, current <- t3, config <- t4, enabled <- t5, life <- t6,
    built <- t7, pc <- t8, held <- t9, want <- t10, overlapped <- t11, applied <- t12,
    late <- t13

ASSUME MCBackup == B!BackupAssumption
ASSUME MCTrail == Trail!AuditTrailAssumption

\* The sets of the trail are given the model values of those of the backup, so
\* that one small group of permutations serves both.
Symmetry == UNION {Permutations(alike) : alike \in {Users, Emails, Clusters, Saves, Dests}}

Idle == t14 = 0 /\ t15 = 0 /\ t16 = 0

MCInit ==
    /\ part \in {"rotation", "backup", "trail"}
    /\ Init /\ (part # "rotation" => \A s \in Secrets : db[s] = None)
    /\ \/ /\ part = "rotation" /\ Idle
          /\ t1 = 0 /\ t2 = 0 /\ t3 = 0 /\ t4 = 0 /\ t5 = 0 /\ t6 = 0
          /\ t7 = 0 /\ t8 = 0 /\ t9 = 0 /\ t10 = 0 /\ t11 = 0 /\ t12 = 0 /\ t13 = 0
       \/ part = "backup" /\ B!Init
       \/ part = "trail" /\ Trail!Init /\ Idle

OfRotation == part = "rotation" /\ UNCHANGED <<part, others>>
OfBackup == part = "backup" /\ UNCHANGED <<part, vars>>
OfTrail == part = "trail" /\ UNCHANGED <<part, vars, AfterTrail>>

RotationNext ==
    \/ \E s \in Secrets :
        \/ OfRotation /\ Save(s)
        \/ OfRotation /\ Delete(s)
    \/ OfRotation /\ Restart
    \/ \E e \in Environment : OfRotation /\ Start(e)
    \/ OfRotation /\ List
    \/ \E r \in pending : OfRotation /\ Reseal(r)
    \/ OfRotation /\ Store
    \/ OfRotation /\ TableDone
    \/ OfRotation /\ Cut

BackupNext ==
    \/ \E u \in Users, e \in Emails : OfBackup /\ B!Change /\ B!AddUser(u, e)
    \/ \E c \in Clusters :
        \/ \E n \in Names : OfBackup /\ B!Change /\ B!Register(c, n)
        \/ OfBackup /\ B!Change /\ B!ReplaceCredential(c)
        \/ OfBackup /\ B!Change /\ B!SetReadOnly(c)
        \/ OfBackup /\ B!Change /\ B!DeleteCluster(c)
        \/ OfBackup /\ B!ExportCredential(c)
        \/ OfBackup /\ B!RestoreCluster(c)
    \/ \E u \in Users, c \in Clusters :
        \/ \E l \in B!Level \cup {None} : OfBackup /\ B!Change /\ B!SetGrant(u, c, l)
        \/ OfBackup /\ B!RestoreGrant(<<u, c>>)
    \/ OfBackup /\ B!Change /\ B!SaveSetting
    \/ OfBackup /\ B!ExportBegin
    \/ OfBackup /\ B!ExportGrants
    \/ OfBackup /\ B!ExportUsers
    \/ OfBackup /\ B!ExportWrite
    \/ OfBackup /\ B!RestoreBegin
    \/ \E u \in Users : OfBackup /\ B!RestoreUser(u)
    \/ OfBackup /\ B!SettleCluster
    \/ OfBackup /\ B!ClustersDone
    \/ OfBackup /\ B!RestoreSetting
    \/ OfBackup /\ B!Cut

TrailNext ==
    \/ OfTrail /\ Trail!ShutdownSwap(Shutdown)
    \/ \E p \in Trail!Processes :
        \/ OfTrail /\ Trail!ShipRead(p)
        \/ OfTrail /\ Trail!ShipEnqueue(p)
        \/ OfTrail /\ Trail!AppendEvent(p)
        \/ OfTrail /\ Trail!StoreSetting(p)
        \/ OfTrail /\ Trail!StoreToken(p)
        \/ OfTrail /\ Trail!StoreTokenFails(p)
        \/ OfTrail /\ Trail!ReadSetting(p)
        \/ OfTrail /\ Trail!ReadToken(p)
        \/ OfTrail /\ Trail!ApplyCheck(p)
        \/ OfTrail /\ Trail!ApplyBuild(p)
        \/ OfTrail /\ Trail!ApplyFails(p)
        \/ OfTrail /\ Trail!ApplySwap(p)
        \/ OfTrail /\ Trail!CloseQueue(p)
        \/ OfTrail /\ Trail!Drained(p)

MCSpec == MCInit /\ [][RotationNext \/ BackupNext \/ TrailNext]_<<part, vars, others>>

-----------------------------------------------------------------------------
\* The shape of the state of the part that moves.
TypesOK ==
    /\ TypeOK
    /\ part = "backup" => B!TypeOK
    /\ part = "trail" => Trail!TypeOK

\* Every grant in an archive is to a user and a cluster that are in it, a restore
\* that reports success has brought back what was missing, and none of its steps
\* touches an account or a cluster it did not create (backup/backup.go,
\* backup/restore.go).
BackupKept ==
    [][part = "backup" =>
        B!ArchiveIsClosed' /\ B!RestoredInFull' /\ B!SparesStep]_<<part, vars, others>>

\* Until the shutdown no shipper is left running that nobody will close, after
\* it at most the one of an application it did not wait for, and none is closed
\* twice (audit/manager.go).
ShippersAccounted == part = "trail" => Trail!ShippersAccounted

\* A save that was applied alone leaves the shipper running that the stored
\* setting asks for (audit/manager.go, httpapi/settings_handlers.go).
RunningMatchesStored == part = "trail" => Trail!RunningMatchesStored
=============================================================================
