---------------------------- MODULE MC_CnpgStreams ----------------------------
(***************************************************************************)
(* The two restic streams of the CNPG engine side by side: a BackupDump    *)
(* (DumpPipe) and a restoreDump (RestorePipe) running as independent calls *)
(* with no state in common, so each behaviour interleaves a behaviour of   *)
(* each.  Four dump writes for the backup, two for the restore; a primary  *)
(* and one replica, which status.instanceNames may or may not list; the   *)
(* restore is the CNPG or the Galera one.                                  *)
(***************************************************************************)
EXTENDS TLC

CONSTANTS Chunks, NativePolls, Instances, Primary, RChunks

VARIABLES ppc, sent, pipeEnd, execErr, cpc, copyErr, rpc, received, stdinEOF,
          resticOK, snapshot, mpc, resticErr, res, bEngine, method, crPhase, polls,
          dpc, dumped, dumpOK, opc, gpc, rResticErr, pwEnd, spc, psqlPc, applied,
          psqlEOF, psqlOK, fence, fencedByUs, unfenceFailed, deleted, rmpc, rExecErr, rres,
          replicas, engine

backupVars == <<ppc, sent, pipeEnd, execErr, cpc, copyErr, rpc, received, stdinEOF,
                resticOK, snapshot, mpc, resticErr, res, bEngine, method, crPhase, polls>>
restoreVars == <<dpc, dumped, dumpOK, opc, gpc, rResticErr, pwEnd, spc, psqlPc, applied,
                 psqlEOF, psqlOK, fence, fencedByUs, unfenceFailed, deleted, rmpc, rExecErr, rres, replicas, engine>>

Backup == INSTANCE DumpPipe
Restore == INSTANCE RestorePipe

Spec == /\ Backup!Init /\ Restore!RInit
        /\ [][\/ Backup!Next /\ UNCHANGED restoreVars
              \/ Restore!RNext /\ UNCHANGED backupVars]_<<backupVars, restoreVars>>
        /\ Backup!Fairness /\ Restore!RFairness

TypeOK == Backup!TypeOK /\ Restore!RTypeOK

(* See DumpPipe: BackupDump returns as long as restic does not fail.      *)
ReturnsUnlessResticFails == Backup!ReturnsUnlessResticFails

(* See DumpPipe: a backup reported successful is a whole backup.         *)
BackupOkOnlyIfComplete == Backup!BackupOkOnlyIfComplete

(* See RestorePipe: a restore reported successful applied the whole dump. *)
RestoreOkOnlyIfComplete == Restore!RestoreOkOnlyIfComplete

(* See RestorePipe: the replicas' fence is gone after restoreDump returns. *)
NoFenceLeakAfterReturn == Restore!NoFenceLeakAfterReturn

(* See RestorePipe: restoreDump returns as long as psql does not fail.    *)
RestoreReturnsUnlessPsqlFails == Restore!RestoreReturnsUnlessPsqlFails
====
