------------------------------- MODULE DumpPipe -------------------------------
(***************************************************************************)
(* The dump-to-restic stream of BackupDump (src/unnamed/part_011): the     *)
(* producer goroutine of k8s.ExecPipeOut (src/unnamed/part_017) writes     *)
(* pg_dumpall's output into an io.Pipe; restic.BackupStdin                 *)
(* (src/restic/restore.go) starts `restic backup --stdin` with the pipe's  *)
(* reader as cmd.Stdin, so os/exec's copy goroutine moves the data into    *)
(* restic's stdin; BackupDump then calls wait() and picks the error.       *)
(*                                                                         *)
(* Four actors: the producer, the exec copy goroutine ("copier"), the      *)
(* restic process and BackupDump itself.  The dump is Chunks writes.       *)
(* io.Pipe is unbuffered: a write completes only when a read takes it.     *)
(* The OS pipe into restic is abstracted to a direct hand-over while       *)
(* restic runs; once restic has exited, a write to it fails with EPIPE,    *)
(* which os/exec ignores.                                                  *)
(***************************************************************************)
EXTENDS Naturals

CONSTANTS Chunks,       \* writes of the dump's output into the pipe
          NativePolls   \* backupNative's Get loop (120 in the code)

ASSUME Chunks \in Nat \ {0} /\ NativePolls \in Nat \ {0}

VARIABLES
    ppc,         \* producer goroutine: "idle" (ExecPipeOut not called), "write", "exited"
    sent,        \* chunks the pipe's reader has taken
    pipeEnd,     \* what the reader sees after the data: "open", "eof", "err"
    execErr,     \* the error ExecStream returned (the closure's execErr)
    cpc,         \* copier: "none" (not started), "read", "write", "exited"
    copyErr,     \* the copier's error, returned by cmd.Wait
    rpc,         \* restic: "none", "running", "exited"
    received,    \* chunks restic has read
    stdinEOF,    \* the copier closed restic's stdin
    resticOK,    \* restic exited with status 0 and printed its summary
    snapshot,    \* the snapshot restic committed: "none", "complete", "truncated"
    mpc,         \* BackupDump: "start", "scan", "waitCmd", "waitExec", "done"
    resticErr,   \* BackupStdin returned an error
    res,         \* Backup's result: "none", "ok", or the error it returns
    bEngine,     \* the engine whose Backup runs: "cnpg" or "galera"
    method,      \* the CNPG backup method: "dump" or "native"
    crPhase,     \* backupNative's Backup CR: "none", "", "completed", "failed"
    polls        \* backupNative's Get loop iterations

vars == <<ppc, sent, pipeEnd, execErr, cpc, copyErr, rpc, received, stdinEOF,
          resticOK, snapshot, mpc, resticErr, res, bEngine, method, crPhase, polls>>
producer == <<ppc, sent, pipeEnd, execErr>>
copier == <<cpc, copyErr, stdinEOF>>
restic == <<rpc, received, resticOK, snapshot>>
entry == <<bEngine, method, crPhase, polls>>
main == <<mpc, resticErr, res, bEngine, method, crPhase, polls>>

-----------------------------------------------------------------------------
(* Mutation: the producer's writes are not bounded by the dump's length.  *)
ProducerWriteUnbounded ==
    /\ ppc = "write" /\ cpc = "read"
    /\ sent' = sent + 1 /\ cpc' = "write"
    /\ UNCHANGED <<ppc, pipeEnd, execErr, copyErr, stdinEOF>> /\ UNCHANGED restic
    /\ UNCHANGED main

(* Producer.  ExecStream writes the dump into pw; each write waits for the *)
(* copier's read.  pw has no other reader: BackupDump never closes it.     *)
ProducerWrite ==
    /\ ppc = "write" /\ sent < Chunks /\ cpc = "read"
    /\ sent' = sent + 1 /\ cpc' = "write"
    /\ UNCHANGED <<ppc, pipeEnd, execErr, copyErr, stdinEOF>> /\ UNCHANGED restic
    /\ UNCHANGED main

(* pg_dumpall exits 0: execErr stays nil, the deferred pw.Close() gives    *)
(* the reader EOF, and the deferred close(done) releases wait().           *)
ProducerFinish ==
    /\ ppc = "write" /\ sent = Chunks
    /\ ppc' = "exited" /\ pipeEnd' = "eof"
    /\ UNCHANGED <<sent, execErr>> /\ UNCHANGED copier /\ UNCHANGED restic /\ UNCHANGED main

(* The exec stream fails (pod gone, stream reset, dump error) between two  *)
(* writes: pw.CloseWithError(execErr), then the deferred Close, which      *)
(* keeps the first error.                                                  *)
ProducerFail ==
    /\ ppc = "write" /\ sent < Chunks
    /\ ppc' = "exited" /\ pipeEnd' = "err" /\ execErr' = TRUE
    /\ UNCHANGED sent /\ UNCHANGED copier /\ UNCHANGED restic /\ UNCHANGED main

-----------------------------------------------------------------------------
(* The copy goroutine os/exec runs for a non-file cmd.Stdin: io.Copy from  *)
(* the pipe into restic's stdin, then closing restic's stdin.  A read      *)
(* error ends the copy with that error; restic only sees its stdin close.  *)
CopierReadEnd ==
    /\ cpc = "read" /\ pipeEnd # "open"
    /\ cpc' = "exited" /\ stdinEOF' = TRUE /\ copyErr' = (pipeEnd = "err")
    /\ UNCHANGED producer /\ UNCHANGED restic /\ UNCHANGED main

(* The chunk goes to restic; after restic exited the write fails with      *)
(* EPIPE, which os/exec does not report, and the copy ends.                *)
CopierWrite ==
    /\ cpc = "write"
    /\ IF rpc = "running"
       THEN received' = received + 1 /\ cpc' = "read" /\ UNCHANGED stdinEOF
       ELSE cpc' = "exited" /\ stdinEOF' = TRUE /\ UNCHANGED received
    /\ UNCHANGED <<copyErr, rpc, resticOK, snapshot>> /\ UNCHANGED producer
    /\ UNCHANGED main

-----------------------------------------------------------------------------
(* restic backup --stdin: at the end of its stdin it saves what it read as *)
(* the snapshot file and exits 0 with a summary line.                      *)
ResticCommit ==
    /\ rpc = "running" /\ stdinEOF
    /\ rpc' = "exited" /\ resticOK' = TRUE
    /\ snapshot' = IF received = Chunks THEN "complete" ELSE "truncated"
    /\ UNCHANGED received /\ UNCHANGED producer /\ UNCHANGED copier /\ UNCHANGED main

(* restic fails (repository locked or unreachable, killed) and exits       *)
(* non-zero without a snapshot.                                            *)
ResticFail ==
    /\ rpc = "running"
    /\ rpc' = "exited"
    /\ UNCHANGED <<received, resticOK, snapshot>>
    /\ UNCHANGED producer /\ UNCHANGED copier /\ UNCHANGED main

-----------------------------------------------------------------------------
(* Mutation: wait() called before BackupStdin, against the pipe's order.  *)
BackupStdinAfterWait ==
    /\ mpc = "start" /\ ppc = "exited"
    /\ \/ /\ rpc' = "running" /\ cpc' = "read" /\ mpc' = "scan"
          /\ UNCHANGED resticErr
       \/ /\ resticErr' = TRUE /\ mpc' = "waitExec"
          /\ UNCHANGED <<rpc, cpc>>
    /\ UNCHANGED <<received, resticOK, snapshot, copyErr, stdinEOF, res>>
    /\ UNCHANGED producer /\ UNCHANGED entry

(* BackupStdin: cmd.Start.  If restic cannot start, BackupStdin returns    *)
(* its error and BackupDump goes on to wait().                             *)
BackupStdinStart ==
    /\ mpc = "start"
    /\ \/ /\ rpc' = "running" /\ cpc' = "read" /\ mpc' = "scan"
          /\ UNCHANGED resticErr
       \/ /\ resticErr' = TRUE /\ mpc' = "waitExec"
          /\ UNCHANGED <<rpc, cpc>>
    /\ UNCHANGED <<received, resticOK, snapshot, copyErr, stdinEOF, res>>
    /\ UNCHANGED producer /\ UNCHANGED entry

(* The scanner reads restic's stdout for the summary until restic exits.   *)
ScanOutput ==
    /\ mpc = "scan" /\ rpc = "exited"
    /\ mpc' = "waitCmd"
    /\ UNCHANGED <<resticErr, res>> /\ UNCHANGED producer /\ UNCHANGED copier
    /\ UNCHANGED restic /\ UNCHANGED entry

(* cmd.Wait: after the exit it waits for the copier; its error is the exit *)
(* status, else the copy error; no summary line is an error too.           *)
WaitCmd ==
    /\ mpc = "waitCmd" /\ cpc = "exited"
    /\ resticErr' = (~resticOK \/ copyErr) /\ mpc' = "waitExec"
    /\ UNCHANGED res /\ UNCHANGED producer /\ UNCHANGED copier /\ UNCHANGED restic /\ UNCHANGED entry

(* BackupDump: execErr := wait() blocks on done; the restic error takes    *)
(* precedence over the exec error.                                         *)
WaitExec ==
    /\ mpc = "waitExec" /\ ppc = "exited"
    /\ res' = CASE resticErr -> "resticErr" [] execErr -> "execErr" [] OTHER -> "ok"
    /\ mpc' = "done"
    /\ UNCHANGED resticErr /\ UNCHANGED producer /\ UNCHANGED copier /\ UNCHANGED restic /\ UNCHANGED entry

-----------------------------------------------------------------------------
(* The steps before the stream.  Every one of them returns its error.      *)
Return(r) == mpc' = "done" /\ res' = r

(* The Galera BackupDump is called without a donor: findHealthyPod lists   *)
(* the pods and takes the first Running one whose container is ready.  A   *)
(* failed List and no such pod are both errors.                            *)
FindHealthyPod ==
    /\ mpc = "findDonor"
    /\ \/ Return("donorErr")
       \/ mpc' = "donorGet" /\ UNCHANGED res
    /\ UNCHANGED <<resticErr, crPhase, polls, bEngine, method>>
    /\ UNCHANGED producer /\ UNCHANGED copier /\ UNCHANGED restic

(* BackupDump GETs the donor pod again: not found, or not Running and      *)
(* ready, is an error.                                                     *)
DonorGet ==
    /\ mpc = "donorGet"
    /\ \/ Return("donorErr")
       \/ mpc' = "resticInit" /\ UNCHANGED res
    /\ UNCHANGED <<resticErr, crPhase, polls, bEngine, method>>
    /\ UNCHANGED producer /\ UNCHANGED copier /\ UNCHANGED restic

(* rc.Init (restic init, "already exists" being success); only then does  *)
(* ExecPipeOut start the dump's producer goroutine.                        *)
ResticInit ==
    /\ mpc = "resticInit"
    /\ \/ Return("initErr") /\ UNCHANGED ppc
       \/ mpc' = "start" /\ ppc' = "write" /\ UNCHANGED res
    /\ UNCHANGED <<resticErr, crPhase, polls, bEngine, method>>
    /\ UNCHANGED <<sent, pipeEnd, execErr>> /\ UNCHANGED copier /\ UNCHANGED restic

(* backupNative: spec.backup without barmanObjectStore is an error, and so *)
(* is a failed Create of the Backup CR.                                    *)
NativeCreate ==
    /\ mpc = "nativeCreate"
    /\ \/ Return("nativeErr") /\ UNCHANGED crPhase
       \/ mpc' = "nativePoll" /\ crPhase' = "" /\ UNCHANGED res
    /\ UNCHANGED <<resticErr, polls, bEngine, method>>
    /\ UNCHANGED producer /\ UNCHANGED copier /\ UNCHANGED restic

(* The CNPG operator runs the backup the CR asks for.                      *)
BackupCRFinish ==
    /\ crPhase = ""
    /\ \E ph \in {"completed", "failed"} : crPhase' = ph
    /\ UNCHANGED <<mpc, resticErr, res, polls, bEngine, method>>
    /\ UNCHANGED producer /\ UNCHANGED copier /\ UNCHANGED restic

(* Mutation: any terminal phase of the CR ends the wait as a success.     *)
NativePollAnyTerminal ==
    /\ mpc = "nativePoll" /\ polls < NativePolls
    /\ polls' = polls + 1
    /\ \/ UNCHANGED <<mpc, res>>
       \/ crPhase \in {"completed", "failed"} /\ Return("ok")
    /\ UNCHANGED <<resticErr, crPhase, bEngine, method>>
    /\ UNCHANGED producer /\ UNCHANGED copier /\ UNCHANGED restic

(* One iteration of the wait: sleep, GET the CR (an error is skipped),     *)
(* return on "completed" or "failed", else go round again.                 *)
NativePoll ==
    /\ mpc = "nativePoll" /\ polls < NativePolls
    /\ polls' = polls + 1
    /\ \/ UNCHANGED <<mpc, res>>
       \/ crPhase = "completed" /\ Return("ok")
       \/ crPhase = "failed" /\ Return("nativeFailed")
    /\ UNCHANGED <<resticErr, crPhase, bEngine, method>>
    /\ UNCHANGED producer /\ UNCHANGED copier /\ UNCHANGED restic

(* After the last iteration: "timed out after 20 minutes"; the CR is left. *)
NativeTimeout ==
    /\ mpc = "nativePoll" /\ polls = NativePolls
    /\ Return("timeout")
    /\ UNCHANGED <<resticErr, crPhase, polls, bEngine, method>>
    /\ UNCHANGED producer /\ UNCHANGED copier /\ UNCHANGED restic

(* Engine.Backup: the CNPG engine runs backupNative for --method native    *)
(* and otherwise BackupDump from status.currentPrimary; the Galera engine  *)
(* runs BackupDump with no donor.                                          *)
Init ==
    /\ bEngine \in {"cnpg", "galera"}
    /\ method \in IF bEngine = "cnpg" THEN {"dump", "native"} ELSE {"dump"}
    /\ mpc = CASE method = "native" -> "nativeCreate"
               [] bEngine = "galera" -> "findDonor"
               [] OTHER              -> "donorGet"
    /\ crPhase = "none" /\ polls = 0
    /\ ppc = "idle" /\ sent = 0 /\ pipeEnd = "open" /\ execErr = FALSE
    /\ cpc = "none" /\ copyErr = FALSE /\ stdinEOF = FALSE
    /\ rpc = "none" /\ received = 0 /\ resticOK = FALSE /\ snapshot = "none"
    /\ resticErr = FALSE /\ res = "none"

Producer == ProducerWrite \/ ProducerFinish
Copier == CopierReadEnd \/ CopierWrite
Prelude == FindHealthyPod \/ DonorGet \/ ResticInit
Native == NativeCreate \/ NativePoll \/ NativeTimeout
Main == Prelude \/ BackupStdinStart \/ ScanOutput \/ WaitCmd \/ WaitExec \/ Native

(* Backup has returned.                                                    *)
Terminated == mpc = "done" /\ UNCHANGED vars

Next == Producer \/ ProducerFail \/ Copier \/ ResticCommit \/ ResticFail \/ Main
        \/ BackupCRFinish \/ Terminated

(* Goroutines and processes that can run do (the Go scheduler, the OS);    *)
(* the dump makes progress while its writes are taken, and restic ends     *)
(* once its stdin is closed.  Failures are not assumed to happen, nor is   *)
(* the operator assumed to finish a Backup CR.                             *)
Fairness == WF_vars(Producer) /\ WF_vars(Copier) /\ WF_vars(ResticCommit) /\ WF_vars(Main)

Spec == Init /\ [][Next]_vars /\ Fairness

-----------------------------------------------------------------------------
MPCs == {"findDonor", "donorGet", "resticInit", "start", "scan", "waitCmd", "waitExec",
         "nativeCreate", "nativePoll", "done"}
Results == {"none", "ok", "resticErr", "execErr", "donorErr", "initErr", "nativeErr",
            "nativeFailed", "timeout"}

TypeOK ==
    /\ ppc \in {"idle", "write", "exited"} /\ sent \in 0 .. Chunks
    /\ pipeEnd \in {"open", "eof", "err"} /\ execErr \in BOOLEAN
    /\ cpc \in {"none", "read", "write", "exited"} /\ copyErr \in BOOLEAN
    /\ rpc \in {"none", "running", "exited"} /\ received \in 0 .. sent
    /\ stdinEOF \in BOOLEAN /\ resticOK \in BOOLEAN
    /\ snapshot \in {"none", "complete", "truncated"}
    /\ mpc \in MPCs /\ resticErr \in BOOLEAN /\ res \in Results
    /\ bEngine \in {"cnpg", "galera"} /\ method \in {"dump", "native"}
    /\ crPhase \in {"none", "", "completed", "failed"} /\ polls \in 0 .. NativePolls

(* restic did not complete: it failed to start or exited non-zero.         *)
ResticFailed ==
    \/ rpc = "exited" /\ ~resticOK
    \/ rpc = "none" /\ resticErr

(* Spec section 5: the consumer reads to EOF before awaiting the producer, *)
(* so as long as restic itself does not fail, BackupDump returns, whether  *)
(* or not the dump fails.                                                  *)
ReturnsUnlessResticFails == []~ResticFailed => <>(mpc = "done")

(* Engine.Backup reports success only with a whole backup behind it: for *)
(* a dump, a snapshot holding everything pg_dumpall wrote; for the native *)
(* method, a Backup CR the operator completed.  A dump that fails midway   *)
(* while restic commits what it read must reach the caller as BackupDump's *)
(* execErr, and a timed-out or failed CR as an error.                      *)
BackupOkOnlyIfComplete ==
    res = "ok" => IF method = "native" THEN crPhase = "completed" ELSE snapshot = "complete"

(* Spec section 5: a producer error surfaces as a read error to the        *)
(* consumer, so no snapshot is made of a partial dump.                     *)
NoTruncatedSnapshot == snapshot # "truncated"
====
