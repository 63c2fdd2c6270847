------------------------------ MODULE RestorePipe ------------------------------
(***************************************************************************)
(* Engine.Restore of the CNPG engine (src/engine/cnpg/restore.go): check   *)
(* the primary, fence the replicas, then stream `restic dump` into psql on *)
(* the primary, unfence and delete the replicas.  Engine.Restore of the    *)
(* Galera engine (src/unnamed/part_014) runs the same stream into mysql on *)
(* a healthy pod, with no fencing; `engine` tells the two apart and the    *)
(* client is called psql for both.                                         *)
(*                                                                         *)
(* The stream: rc.Dump runs `restic dump` with cmd.Stdout = pw, so os/exec *)
(* copies restic's stdout into the io.Pipe in a goroutine of its own       *)
(* ("out copier") and cmd.Run waits for that copy.  k8s.ExecStream hands   *)
(* pr to remotecommand, whose stdin goroutine ("stdin copier") copies it   *)
(* to psql and closes psql's stdin when the read ends; ExecStream returns  *)
(* once psql has exited, without waiting for the stdin copier.  Actors:    *)
(* restic, the out copier, the Dump goroutine, the stdin copier, psql and  *)
(* restoreDump.  The OS pipes are abstracted to hand-overs, io.Pipe is     *)
(* unbuffered, and nothing ever closes pr.                                 *)
(***************************************************************************)
EXTENDS Naturals

CONSTANTS
    Instances,   \* status.instanceNames
    Primary,     \* status.currentPrimary
    RChunks      \* writes of the dump restic extracts

ASSUME Primary \in Instances /\ RChunks \in Nat \ {0}

VARIABLES
    dpc,            \* restic dump: "none", "running", "exited"
    dumped,         \* chunks restic has written to its stdout
    dumpOK,         \* restic exited 0
    opc,            \* out copier: "none", "read", "write", "exited"
    gpc,            \* Dump goroutine: "none", "run", "exited" (done closed)
    rResticErr,     \* the goroutine's resticErr
    pwEnd,          \* what pr's reader sees after the data: "open", "eof", "err"
    spc,            \* stdin copier: "none", "read", "write", "exited"
    psqlPc,         \* psql: "none", "running", "exited"
    applied,        \* chunks psql has read and applied to the primary
    psqlEOF,        \* psql's stdin was closed
    psqlOK,         \* psql exited 0
    fence,          \* cnpg.io/fencedInstances on the Cluster
    fencedByUs,     \* the fence PATCH of the replicas succeeded
    unfenceFailed,  \* an unfenceAll PATCH failed (warned, not returned)
    deleted,        \* replica pods force-deleted to re-sync
    rmpc,            \* restoreDump: "start", "stream", "waitDone", "done"
    rExecErr,       \* ExecStream returned an error
    rres,           \* result: "none", "ok", "precondErr", "streamErr", "dumpErr"
    replicas,       \* status.instanceNames without the primary, as read by Restore
    engine          \* "cnpg" or "galera"

rvars == <<dpc, dumped, dumpOK, opc, gpc, rResticErr, pwEnd, spc, psqlPc, applied,
           psqlEOF, psqlOK, fence, fencedByUs, unfenceFailed, deleted, rmpc, rExecErr, rres,
           replicas, engine>>
dumpSide == <<dpc, dumped, dumpOK, opc, gpc, rResticErr, pwEnd>>
psqlSide == <<spc, psqlPc, applied, psqlEOF, psqlOK>>
cluster == <<fence, fencedByUs, unfenceFailed, deleted>>
mainSide == <<rmpc, rExecErr, rres, replicas, engine>>

-----------------------------------------------------------------------------
(* restic writes a chunk of the dump to its stdout; the out copier takes it. *)
DumpWrite ==
    /\ dpc = "running" /\ dumped < RChunks /\ opc = "read"
    /\ dumped' = dumped + 1 /\ opc' = "write"
    /\ UNCHANGED <<dpc, dumpOK, gpc, rResticErr, pwEnd>>
    /\ UNCHANGED psqlSide /\ UNCHANGED cluster /\ UNCHANGED mainSide

(* restic has written the whole file and exits 0; the copier sees EOF.   *)
DumpComplete ==
    /\ dpc = "running" /\ opc = "read" /\ dumped = RChunks
    /\ dpc' = "exited" /\ dumpOK' = TRUE /\ opc' = "exited"
    /\ UNCHANGED <<dumped, gpc, rResticErr, pwEnd>>
    /\ UNCHANGED psqlSide /\ UNCHANGED cluster /\ UNCHANGED mainSide

(* restic fails at any point (snapshot or path not found, repository      *)
(* error) and exits non-zero; the copier sees EOF.                         *)
DumpFail ==
    /\ dpc = "running" /\ opc = "read"
    /\ dpc' = "exited" /\ opc' = "exited"
    /\ UNCHANGED <<dumped, dumpOK, gpc, rResticErr, pwEnd>>
    /\ UNCHANGED psqlSide /\ UNCHANGED cluster /\ UNCHANGED mainSide

(* The out copier's pw.Write waits for the stdin copier's read of pr.     *)
OutCopyWrite ==
    /\ opc = "write" /\ spc = "read"
    /\ opc' = "read" /\ spc' = "write"
    /\ UNCHANGED <<dpc, dumped, dumpOK, gpc, rResticErr, pwEnd>>
    /\ UNCHANGED <<psqlPc, applied, psqlEOF, psqlOK>> /\ UNCHANGED cluster
    /\ UNCHANGED mainSide

(* Mutation: the goroutine drops rc.Dump's error.                          *)
DumpReturnIgnoreErr ==
    /\ gpc = "run" /\ dpc = "exited" /\ opc = "exited"
    /\ rResticErr' = FALSE /\ pwEnd' = "eof" /\ gpc' = "exited"
    /\ UNCHANGED <<dpc, dumped, dumpOK, opc>>
    /\ UNCHANGED psqlSide /\ UNCHANGED cluster /\ UNCHANGED mainSide

(* Mutation: no deferred pw.Close(), so a clean dump never reaches EOF.   *)
DumpReturnNoClose ==
    /\ gpc = "run" /\ dpc = "exited" /\ opc = "exited"
    /\ rResticErr' = ~dumpOK
    /\ pwEnd' = IF dumpOK THEN "open" ELSE "err"
    /\ gpc' = "exited"
    /\ UNCHANGED <<dpc, dumped, dumpOK, opc>>
    /\ UNCHANGED psqlSide /\ UNCHANGED cluster /\ UNCHANGED mainSide

(* cmd.Run returns once restic exited and the copy ended; the goroutine   *)
(* closes pw with restic's error, or plainly, and closes done.            *)
DumpReturn ==
    /\ gpc = "run" /\ dpc = "exited" /\ opc = "exited"
    /\ rResticErr' = ~dumpOK
    /\ pwEnd' = IF dumpOK THEN "eof" ELSE "err"
    /\ gpc' = "exited"
    /\ UNCHANGED <<dpc, dumped, dumpOK, opc>>
    /\ UNCHANGED psqlSide /\ UNCHANGED cluster /\ UNCHANGED mainSide

-----------------------------------------------------------------------------
(* The read of pr ends (EOF or the CloseWithError error) and remotecommand *)
(* closes psql's stdin.                                                    *)
StdinReadEnd ==
    /\ spc = "read" /\ pwEnd # "open" /\ opc # "write"
    /\ spc' = "exited" /\ psqlEOF' = TRUE
    /\ UNCHANGED <<psqlPc, applied, psqlOK>> /\ UNCHANGED dumpSide
    /\ UNCHANGED cluster /\ UNCHANGED mainSide

(* The chunk goes to psql; once psql has exited the stream write fails    *)
(* and the copy ends, and nobody reads pr any more.                       *)
StdinWrite ==
    /\ spc = "write"
    /\ IF psqlPc = "running"
       THEN applied' = applied + 1 /\ spc' = "read"
       ELSE spc' = "exited" /\ UNCHANGED applied
    /\ UNCHANGED <<psqlPc, psqlEOF, psqlOK>> /\ UNCHANGED dumpSide
    /\ UNCHANGED cluster /\ UNCHANGED mainSide

(* psql reaches the end of its stdin and exits 0 (without ON_ERROR_STOP a  *)
(* failed statement does not change that).                                 *)
PsqlFinish ==
    /\ psqlPc = "running" /\ psqlEOF
    /\ psqlPc' = "exited" /\ psqlOK' = TRUE
    /\ UNCHANGED <<spc, applied, psqlEOF>> /\ UNCHANGED dumpSide
    /\ UNCHANGED cluster /\ UNCHANGED mainSide

(* psql or the exec session dies (connection refused, stream reset), or   *)
(* mysql stops at a failing statement and exits non-zero.                 *)
PsqlFail ==
    /\ psqlPc = "running"
    /\ psqlPc' = "exited"
    /\ UNCHANGED <<spc, applied, psqlEOF, psqlOK>> /\ UNCHANGED dumpSide
    /\ UNCHANGED cluster /\ UNCHANGED mainSide

-----------------------------------------------------------------------------
(* unfenceAll: PATCH the list to "[]"; a failure is only warned about.    *)
unfenceAll ==
    \/ fence' = {} /\ UNCHANGED unfenceFailed
    \/ unfenceFailed' = TRUE /\ UNCHANGED fence

(* Restore up to the stream: --method native is refused; the primary pod   *)
(* must be Running with its first container ready; the replicas are       *)
(* fenced by one PATCH that replaces the whole list; then the Dump         *)
(* goroutine starts and ExecStream opens the session (psql, or an error).  *)
RestoreStart ==
    /\ engine = "cnpg" /\ rmpc = "start"
    /\ \/ /\ rres' = "precondErr" /\ rmpc' = "done"
          /\ UNCHANGED <<fence, fencedByUs, dpc, opc, gpc, spc, psqlPc>>
       \/ /\ replicas # {}
          /\ rres' = "precondErr" /\ rmpc' = "done"
          /\ UNCHANGED <<fence, fencedByUs, dpc, opc, gpc, spc, psqlPc>>
       \/ /\ fence' = IF replicas # {} THEN replicas ELSE fence
          /\ fencedByUs' = (replicas # {})
          /\ dpc' = "running" /\ opc' = "read" /\ gpc' = "run"
          /\ \/ spc' = "read" /\ psqlPc' = "running"
             \/ psqlPc' = "exited" /\ UNCHANGED spc
          /\ rmpc' = "stream" /\ UNCHANGED rres
    /\ UNCHANGED <<dumped, dumpOK, rResticErr, pwEnd, applied, psqlEOF, psqlOK>>
    /\ UNCHANGED <<unfenceFailed, deleted, rExecErr, replicas, engine>>

(* ExecStream returns once psql has exited; then <-done.                   *)
ExecReturn ==
    /\ rmpc = "stream" /\ psqlPc = "exited"
    /\ rExecErr' = ~psqlOK /\ rmpc' = "waitDone"
    /\ UNCHANGED <<rres, replicas, engine>> /\ UNCHANGED dumpSide /\ UNCHANGED psqlSide /\ UNCHANGED cluster

(* Mutation: the stream-error branch returns without unfenceAll.           *)
RestoreFinishNoUnfence ==
    /\ engine = "cnpg" /\ rmpc = "waitDone" /\ gpc = "exited"
    /\ \/ rExecErr /\ rres' = "streamErr" /\ UNCHANGED <<fence, unfenceFailed, deleted>>
       \/ ~rExecErr /\ rResticErr /\ rres' = "dumpErr" /\ unfenceAll /\ UNCHANGED deleted
       \/ /\ ~rExecErr /\ ~rResticErr /\ rres' = "ok"
          /\ IF replicas # {} THEN unfenceAll /\ deleted' = replicas
                              ELSE UNCHANGED <<fence, unfenceFailed, deleted>>
    /\ rmpc' = "done"
    /\ UNCHANGED <<fencedByUs, rExecErr, replicas, engine>> /\ UNCHANGED dumpSide /\ UNCHANGED psqlSide

(* After <-done: a stream error, then a restic error, each unfence and    *)
(* fail; otherwise the replicas are unfenced and force-deleted so they    *)
(* re-sync from the restored primary.                                     *)
RestoreFinish ==
    /\ engine = "cnpg" /\ rmpc = "waitDone" /\ gpc = "exited"
    /\ \/ rExecErr /\ rres' = "streamErr" /\ unfenceAll /\ UNCHANGED deleted
       \/ ~rExecErr /\ rResticErr /\ rres' = "dumpErr" /\ unfenceAll /\ UNCHANGED deleted
       \/ /\ ~rExecErr /\ ~rResticErr /\ rres' = "ok"
          /\ IF replicas # {} THEN unfenceAll /\ deleted' = replicas
                              ELSE UNCHANGED <<fence, unfenceFailed, deleted>>
    /\ rmpc' = "done"
    /\ UNCHANGED <<fencedByUs, rExecErr, replicas, engine>> /\ UNCHANGED dumpSide /\ UNCHANGED psqlSide

(* Galera restoreDump up to the stream: findHealthyPod lists the pods and *)
(* takes the first Running one with its first container ready, or fails;  *)
(* then the Dump goroutine starts and ExecStream opens `sh -c mysql` on    *)
(* that pod (or fails to).                                                 *)
GaleraRestoreStart ==
    /\ engine = "galera" /\ rmpc = "start"
    /\ \/ /\ rres' = "precondErr" /\ rmpc' = "done"
          /\ UNCHANGED <<dpc, opc, gpc, spc, psqlPc>>
       \/ /\ dpc' = "running" /\ opc' = "read" /\ gpc' = "run"
          /\ \/ spc' = "read" /\ psqlPc' = "running"
             \/ psqlPc' = "exited" /\ UNCHANGED spc
          /\ rmpc' = "stream" /\ UNCHANGED rres
    /\ UNCHANGED <<dumped, dumpOK, rResticErr, pwEnd, applied, psqlEOF, psqlOK>>
    /\ UNCHANGED cluster /\ UNCHANGED <<rExecErr, replicas, engine>>

(* Galera, after <-done: the stream error, then restic's error, else      *)
(* success; nothing to unfence, and replication spreads the data.         *)
GaleraRestoreFinish ==
    /\ engine = "galera" /\ rmpc = "waitDone" /\ gpc = "exited"
    /\ rres' = CASE rExecErr -> "streamErr" [] rResticErr -> "dumpErr" [] OTHER -> "ok"
    /\ rmpc' = "done"
    /\ UNCHANGED <<rExecErr, replicas, engine>> /\ UNCHANGED cluster
    /\ UNCHANGED dumpSide /\ UNCHANGED psqlSide

RInit ==
    /\ engine \in {"cnpg", "galera"}
    /\ dpc = "none" /\ dumped = 0 /\ dumpOK = FALSE /\ opc = "none"
    /\ gpc = "none" /\ rResticErr = FALSE /\ pwEnd = "open"
    /\ spc = "none" /\ psqlPc = "none" /\ applied = 0 /\ psqlEOF = FALSE /\ psqlOK = FALSE
    /\ fence \in IF engine = "cnpg" THEN SUBSET Instances ELSE {{}}
    /\ fencedByUs = FALSE /\ unfenceFailed = FALSE
    /\ deleted = {}
    /\ rmpc = "start" /\ rExecErr = FALSE /\ rres = "none"
    /\ replicas \in IF engine = "cnpg" THEN SUBSET (Instances \ {Primary}) ELSE {{}}

DumpSide == DumpWrite \/ DumpComplete \/ OutCopyWrite \/ DumpReturn
StdinCopier == StdinReadEnd \/ StdinWrite
RestoreMain == RestoreStart \/ GaleraRestoreStart \/ ExecReturn \/ RestoreFinish
               \/ GaleraRestoreFinish

RNext == DumpSide \/ DumpFail \/ StdinCopier \/ PsqlFinish \/ PsqlFail \/ RestoreMain

(* The goroutines, restic and psql run when they can; a failure of restic  *)
(* or psql is never assumed.                                               *)
RFairness ==
    /\ WF_rvars(DumpSide) /\ WF_rvars(StdinCopier) /\ WF_rvars(PsqlFinish)
    /\ WF_rvars(RestoreMain)

RSpec == RInit /\ [][RNext]_rvars /\ RFairness

-----------------------------------------------------------------------------
RTypeOK ==
    /\ dpc \in {"none", "running", "exited"} /\ dumped \in 0 .. RChunks /\ dumpOK \in BOOLEAN
    /\ opc \in {"none", "read", "write", "exited"} /\ gpc \in {"none", "run", "exited"}
    /\ rResticErr \in BOOLEAN /\ pwEnd \in {"open", "eof", "err"}
    /\ spc \in {"none", "read", "write", "exited"} /\ psqlPc \in {"none", "running", "exited"}
    /\ applied \in 0 .. dumped /\ psqlEOF \in BOOLEAN /\ psqlOK \in BOOLEAN
    /\ fence \subseteq Instances /\ fencedByUs \in BOOLEAN /\ unfenceFailed \in BOOLEAN
    /\ deleted \subseteq replicas
    /\ rmpc \in {"start", "stream", "waitDone", "done"} /\ rExecErr \in BOOLEAN
    /\ rres \in {"none", "ok", "precondErr", "streamErr", "dumpErr"}
    /\ replicas \subseteq Instances \ {Primary} /\ engine \in {"cnpg", "galera"}

(* A restore that reports success applied the whole dump to the primary:  *)
(* every chunk restic extracted went through the pipe and psql read it     *)
(* before its stdin closed.                                                *)
RestoreOkOnlyIfComplete == rres = "ok" => applied = RChunks /\ dumpOK

(* P-NO-LEAK for restore: once restoreDump has returned, the fence it put  *)
(* on the replicas is gone, unless an unfence PATCH failed (warned).  It  *)
(* says nothing of other instances' fences, which unfenceAll also erases. *)
NoFenceLeakAfterReturn ==
    rmpc = "done" /\ fencedByUs /\ ~unfenceFailed => replicas \cap fence = {}

(* psql did not complete: the session failed to open or psql exited        *)
(* non-zero.                                                               *)
PsqlFailed == psqlPc = "exited" /\ ~psqlOK

(* While psql keeps reading, restoreDump returns: restic's output drains   *)
(* through the pipe, done closes, and ExecStream returns.                  *)
RestoreReturnsUnlessPsqlFails == []~PsqlFailed => <>(rmpc = "done")
====
