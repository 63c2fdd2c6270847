# TLA+ models of HASteward

HASteward (`src/`) is a Go CLI and Kubernetes operator. For CNPG (PostgreSQL) and Galera (MariaDB) clusters it does four things: triage, repair, backup and restore. Backups go to a restic repository, and `prune` applies the retention policy to it. This directory holds TLA+ modules for the parts of the code whose correctness rests on concurrency, partial failure or a non-trivial algorithm, the TLC configurations that check them, and `PROJECT.json`. `PROJECT.json` lists every component, run, mutant, finding and hazard, and maps each definition to the source lines it translates.

## The system and how its parts interact

| Part | Source | State it changes |
|---|---|---|
| CNPG heal | `engine/cnpg/heal.go` | fence annotation `cnpg.io/fencedInstances` on the Cluster CR; heal pod; instance pod |
| CNPG repair orchestration | `engine/cnpg/repair.go` | calls triage, escrow backup, diverged captures, then `healInstance` per target |
| CNPG triage | `engine/cnpg/triage.go` | read-only; probe pods for stopped instances |
| CNPG backup / restore | `unnamed/part_011`, `engine/cnpg/restore.go`, `unnamed/part_017` | restic snapshots; the restore fences every replica |
| Galera heal / repair / triage / backup / restore | `unnamed/part_013..016` | MariaDB CR suspend annotation, StatefulSet scale, helper pods |
| Retention | `restic/restore.go`, `controller/triage_scheduler.go` (pruneCmd) | restic repository |
| Operator scheduler | `controller/scheduler.go`, `database_controller.go`, `backup_scheduler.go`, `triage_scheduler.go` | cron entries; `s.managed`; status and managed annotations on database CRs |

How the parts interact:
- The operator's cron entries call the same engine functions as the CLI.
- A scheduled triage in `repair` mode runs an untargeted auto-repair.
- Cron jobs are not serialized. Nothing stops two repairs, or a repair and a CLI run, from acting on one cluster at once.
- The shared mutable state between such runs is the cluster CR's annotations. For CNPG this is the fence list, which is updated by a GET followed by a merge PATCH.

## Modules

### CnpgHeal (`CnpgHeal.tla`, `MC_CnpgHeal.tla`)

This module models `healInstance`, `fenceInstance` and `unfenceInstance`. Each worker `w` runs one `healInstance` call on `target[w]`, and `pc[w]` says which step it is at.

State:
- `fence` is the annotation, kept as a set of instances.
- `read[w]` is the list the worker's last GET returned.
- `fenceApplied` and `healPodCreated` are the code's local flags.
- `iter` counts the current wait loop.
- `healPod[w]` is the heal pod's phase.
- `instPod` says whether each instance pod exists and holds its volume.
- `orphan[w]` and `orphanTarget[w]` are the phase and the instance of a heal pod left behind by an operator crash. `crashes` counts the crashes.

Actions, one per step of the code:
- Fence GET and fence PATCH.
- Creating the heal pod.
- One iteration of the delete loop. A separate action covers the GET error that reads as Pending.
- The loop failing.
- One heal-wait poll, and the heal wait failing.
- Unfence GET and unfence PATCH.
- The final readiness wait.
- Every error return goes through `cleanup`.
- Each Delete of the heal pod (in `cleanup`, and after a Succeeded heal) either removes it or fails (`DeletePod`). The code discards that error (`_ =` at heal.go:46 and :251), so a failed Delete leaves the pod in its phase and is recorded only in the history variable `dropped`.
- `Crash`: the operator process dies in the middle of a call. The call's locals are lost, its heal pod becomes an orphan, and the fence stays. After the restart `healInstance` is called again, for any instance: the next auto-repair picks whichever instance triage marks. Nothing in the code finds or deletes the old heal pod. Its name carries `time.Now().Unix()`, so the new call creates a new one.

Environment actions:
- The kubelet starts a Pending heal pod, orphaned or not, only after the instance pod and every other heal pod have released the single-attach volume (`VolumeHeld`).
- The kubelet may fail or finish a heal pod.
- The CNPG operator recreates a deleted instance pod, unless a running heal pod holds its volume.

Fairness: each worker is weakly fair, because its sleeps end. The kubelet's heal-pod transitions, orphans included, are weakly fair. A crash is never assumed; `MaxCrashes` bounds it. CNPG's recreation of a pod has no fairness: the code does not wait for it without bound.

| Run | Result | Meaning |
|---|---|---|
| `cnpg_heal_one` (1 worker, 2 instances, delete loop 3, heal polls 2, ready polls 2, one crash) | pass | `WipeOnlyWhileFenced`: a live call's heal pod runs only while its target is fenced, also after a crash and the call made again. `NoLeakAfterReturn` (P-NO-LEAK): the heal pod is gone after return unless a Delete of it failed and the error was dropped, and the fence stays exactly on the error paths. A leaked heal pod still counts for `WipeOnlyWhileFenced`. With one worker no step can overwrite another instance's fence, so the lost fence update is checked by `cnpg_heal_two` instead. `AllReturn`: every call returns. |
| `cnpg_heal_two` (2 workers) | violation of `WipeOnlyWhileFenced` | Two overlapping heals on different instances. Both GET the empty list and each PATCHes its own one-element list, so the second PATCH unfences the first target while its heal pod wipes it. |
| `cnpg_heal_crash` (1 worker, one crash) | violation of `OrphanWipeOnlyWhileFenced` | The operator crashes while its heal pod is still Pending. After the restart, `healInstance` of the same instance finds it already fenced and creates a second heal pod. That pod gets the volume, completes, and the call unfences the instance and deletes its pod. The orphan, still Pending, then takes the freed volume and wipes pgdata of an instance that CNPG manages again. |

### Retention (`Retention.tla`, `MC_Retention.tla`)

`GroupByJob`, `ApplyGroupRetention` and its loops are operators; the loops are written with `RECURSIVE`. `ForgetGrouped` and `pruneCmd` form a state machine:
- restic forget for type=backup;
- listing the diverged snapshots;
- one `restic forget <id>` per step;
- `restic prune`.

Every restic call may fail. `Rerun` is the same prune command run again after it failed, with the same flags, on the repository the failed run left behind (at most `MaxRetries` = 1 time). The forgotten snapshots and the `unpruned` flag carry over, and everything else starts over.

The snapshots are model values. Their type tag, job tag and time are chosen in `Init`, under the constraints the code creates: only diverged captures carry a job tag, and all snapshots of one job have the job-start time.

Times are ticks 1..4. The day, week and month keys are chosen so that the day, week and month boundaries fall between different ticks, and one week straddles a month boundary.

Because `sort.Slice` is unstable, GroupByJob's result is every order of the groups sorted by time, with ties in any order.

| Run | Result | Meaning |
|---|---|---|
| `retention` (3 snapshots, 2 jobs, 8 policies, all 3 prune types) | pass | `RetentionMatchesReference`: the loop code equals the declarative reference of spec §4.3 for every tie order. `RepositoryMatchesDecision`: after success, the diverged snapshots left are exactly the kept groups. `NoSplitGroupAfterSuccess`: a failed `restic forget` can leave a job group half gone. The rerun then sees the remainder as a smaller group with the same time. Once a prune succeeds, no job group is split, provided no two groups share a time. |

The model also reaches a `prune --type all` that returns success while the backup snapshots it forgot stay unpruned (the flag `unpruned`). That costs disk space, not data, so no run is spent on it.

When two job groups share a time, a rerun after a failed forget may sort them the other way. It then keeps the remainder of the split group and removes the group the first run kept, so a half-deleted capture set stays in the repository for good. TLC finds this in three steps after the split, which is why `NoSplitGroupAfterSuccess` requires distinct group times. Job times are job-start times, so two different jobs of one cluster rarely share one.

The bounds are big enough for the interesting cases:
- 3 snapshots can form two groups of different sizes, or ties.
- 8 policies cover the all-zero case, each dimension at 1, keep-last and keep-daily at 2, and the combined case.

### CnpgTriage (`CnpgTriage.tla`, run through `MC_CnpgRepair.tla`)

This module models `triageCollect` and `triageAnalyze` of `engine/cnpg/triage.go`.

The cluster itself is chosen in `Init` and never changes during a triage. These are the truth variables:
- `phase`: each pod is ready, running but not ready (a crash loop), in another phase, or absent;
- `ctl`: what `pg_controldata` would print from each PVC, a well-formed timeline and LSN;
The replicas the primary streams to are chosen inside `triageCollect` (`Streamable`): a replica can appear as a `streaming` row of `pg_stat_replication` only while its pod and the primary's run, and only if its checkpoint does not pass the primary's. `collectReplicationStatus` returns those rows, or none when the query fails.

A primary pod in another phase and no primary pod lead to the same steps: no exec, a probe, and Repair's readiness abort. So only the second is kept.

`triageCollect` is one step, choosing every way its calls can fail:
- exec of `pg_controldata` on some of the ready pods; an exec error skips the pod;
- a probe pod for every other instance (`runPVCProbes`). It can fail to be created, time out or have no logs (Source "none"), print `pg_controldata`'s fields, or print an error (every field "unknown");
- the disk-full reason from the crash-loop pods' logs;
- the primary's streaming rows (`collectReplicationStatus`), only while the primary's pod runs. A failed query leaves the list empty.

`triageCollectErr` is the failed pod List, which makes `Triage` fail. Instances whose PVC is not Bound get the "none" entry without a probe. That is the same entry as a failed probe, so the model treats them as probed.

`triageAnalyze` computes the comparison and the assessments over any order of the `controlData` slice, because probed instances come from a Go map. The loop of `crossInstanceComparison` is a `FoldLeft` of `CompareStep`. The `switch` of `buildAssessments` is `Assess`, with one `CASE` arm per branch; notes and recommendations are text and are left out.

Texts stay texts. `TLDigits` and `LSNWords` say what a well-formed text parses to, and any other text parses to 0, as the code's error branches return. The LSN `hi/lo` is `hi*LoRange+lo` with `lo < LoRange`, which orders like `hi*2^32+lo`.

The bounds are:
- timelines "unknown", "1", "2";
- LSNs "unknown", "0/1", "1/0", ordered only by the high word;
- a primary and two replicas, symmetric.

That gives every relation between a replica and the primary, true or as observed: ahead, equal, behind, or unknown on either side. It also gives two replicas that can disagree with each other.

`NeedsHealOnlyBehind` and `HealGated` are stated over the truth (`TrueFresh`, the PVC's timeline and LSN), not over what the collection saw. So they also cover evidence the collection lost.

A failed replication query is reachable: a streaming replica whose checkpoint LSN trails the primary's then loses its streaming exemption, is marked `needsHeal`, and is rebuilt by repair. The properties allow this, because that replica really is behind by checkpoint, and spec rule 6 heals on a failed query too.

`runPVCProbes` drops the probe pod's Delete error. A leftover `<name>-triage-probe` pod makes the next triage's Create fail, so that instance gets no data. The model covers that outcome as a failed Create; the pod itself is not tracked.

Replication slots, WAL info and disk usage are only displayed, so they are not modelled.

### CnpgRepair (`CnpgRepair.tla`, `MC_CnpgRepair.tla`)

`CnpgRepair` extends `CnpgTriage` with `Engine.Repair` of `engine/cnpg/repair.go`. The flags (`--instance`, `--force`, `--no-escrow`) stay `Unread` until the escrow decision. `RepairPrepare` picks them only on its success path. A failed triage, a failed primary GET or readiness check, or a failed escrow returns before `--instance` and `--force` are read. In those states the flags are therefore left unread, which keeps the failed states from being multiplied by every flag combination. The steps are:
- the triage's own steps (`triageCollect`, `triageCollectErr`, `triageAnalyze`), then `TriageFailed` when the collection failed (repair.go 28-32 return the error);
- `RepairPrepare`: the primary GET and readiness check, the prerequisites, the escrow backup (Phase 2.5) and the diverged captures (Phase 2.6), each call failing or not;
- `repairTargeted`: the abort, skip and heal branches with their gates;
- `repairUntargeted`: one action per healed replica, stopping at the first failed heal, then the re-triage.

`healInstance` (modelled in CnpgHeal) and `BackupDump` (DumpPipe) are single calls here, succeeding or failing. One worker runs the whole repair, so each function is one step.

| Run | Result | Meaning |
|---|---|---|
| `cnpg_repair` (primary and two replicas, every cluster state, every failure of the collection, every flag combination; 2.04M distinct states, about 1.5 minutes) | pass | `SafeToHealIffNoneAhead` (I-SAFE): `safeToHeal` is false exactly when a replica is visibly ahead of the primary, for every order of `controlData`. `NeedsHealOnlyBehind`: only replicas whose PVC really trails the primary's, in a safe cluster, are marked, whatever the collection lost. `HealGated`: a heal follows a successful escrow (unless `--no-escrow`) and hits only such a replica unless `--force`. `RepairOkOnlyIfAllHealed`: an untargeted success healed every marked replica. |
| `cnpg_repair_diverged` | violation of `DivergedCaptureAttempted` | A split-brain repair with escrow attempts no diverged capture at all: the filter reads `IsRunning`/`IsReady`, which the CNPG assessments never set. |

### GaleraHeal (`GaleraHeal.tla`, `MC_GaleraHeal.tla`)

This module models `healNode` of `src/unnamed/part_016` with `suspendCR`, `scaleStatefulSet`, `runHelperPod` and the `rescue` closure. `pc` names the step. The locals `suspended` and `scaledDown` are the flags `rescue` reads.

Shared state:
- `crSuspend` is the CR's `spec.suspend`.
- `stsReplicas` is the StatefulSet's replica count.
- `podUp[n]` says whether pod n exists.
- `helper[k]` is the phase of the storage and galera helper pods.

The target ordinal and whether the galera PVC exists are chosen in `Init`, so both scale strategies (partial for the last ordinal, full otherwise) are covered.

Every API call may fail. That covers a transient error as well as a cancelled context, after which every call fails. Calls whose errors the code drops (the helper deletes and all of the rescue's calls) set the ghost flag `droppedErr`.

Environment actions:
- The StatefulSet controller stops pods at or above the replica count and starts the ones below it.
- The mariadb-operator resets the replica count while the CR is not suspended.
- The kubelet starts and ends helper pods.

A helper is not kept off a volume that a running pod holds: ReadWriteOnce binds a volume to a node, not to a pod. Only the worker is weakly fair. Every wait is bounded, so no fairness of the cluster is needed for the call to return.

| Run | Result | Meaning |
|---|---|---|
| `galera_heal` (3 replicas, each poll loop 2) | pass | `HelperIsolated`: a helper runs only while the CR is suspended and the StatefulSet is below the target's ordinal. `NoLeakAfterReturn` (P-NO-LEAK): after any return, the CR is resumed, the scale is restored and no helper remains, unless a dropped call failed. `AllReturn`: every call returns. |
| `galera_heal_wipe` | violation of `WipeOnlyWhileDown` | The wait for the target pod ends on any GET error or on its last poll. The storage helper then rewrites `grastate.dat` while MariaDB on the target still runs. |

### DumpPipe (`DumpPipe.tla`, `MC_DumpPipe.tla`, `MC_CnpgStreams.tla`)

This module models `Engine.Backup` of both engines, and in it the stream of `BackupDump` (`src/unnamed/part_011`).

`Init` picks the engine and, for CNPG, the method (`bEngine`, `method`). Then come the steps before the stream, each of which can return an error:
- for Galera only, `findHealthyPod` (`FindHealthyPod`);
- the donor GET with its Running-and-ready check (`DonorGet`);
- `rc.Init` (`ResticInit`). Only after it does `ExecPipeOut` start the producer, so `ppc` starts as "idle".

The CNPG native method is `backupNative`:
- `NativeCreate` creates the Backup CR, or fails (no `barmanObjectStore`, or the Create fails);
- `BackupCRFinish` is the CNPG operator finishing the CR, completed or failed. It is not assumed to happen;
- `NativePoll` is one iteration of the GET loop. A GET error is skipped, and "completed" or "failed" ends the loop;
- `NativeTimeout` is the return after `NativePolls` iterations (120 in the code, 2 in the run). The timeout leaves the CR behind, and it may still complete.

The Galera `BackupDump` (`src/unnamed/part_016` 36-117) runs the same stream as the CNPG one.

The stream itself: `ExecPipeOut` (`src/unnamed/part_017`) starts a producer goroutine that writes `pg_dumpall`'s output into an `io.Pipe`. `restic.BackupStdin` (`src/restic/restore.go`) starts `restic backup --stdin` with the pipe's reader as `cmd.Stdin`. `BackupDump` then calls `wait()` and picks the error to return.

Four actors:
- the producer (`ppc`, `sent`, `pipeEnd`, `execErr`): Chunks writes, then EOF, or a failure that closes the pipe with an error;
- os/exec's copy goroutine (`cpc`, `copyErr`, `stdinEOF`): reads the pipe and writes to restic's stdin. A write after restic exited fails with EPIPE, which os/exec does not report;
- restic (`rpc`, `received`, `resticOK`, `snapshot`): commits what it read when its stdin closes, or fails;
- `BackupDump` (`mpc`, `resticErr`, `res`): start, scan the output, `cmd.Wait`, `wait()`, with the error precedence restic > exec > ok.

`io.Pipe` is unbuffered, so a producer write is a hand-over to a copier read. The producer, the copier, restic's commit and `BackupDump` are weakly fair: they are goroutines and a process that the Go scheduler and the OS run. Failures are not assumed to happen. `CHECK_DEADLOCK FALSE`: after restic fails to start, nothing reads the pipe, so the producer blocks for ever and `BackupDump` blocks in `wait()`. That dead end is real: `ReturnsUnlessResticFails` holds only because it excuses a restic failure. No run asserts an unconditional return.

| Run | Result | Meaning |
|---|---|---|
| `dump_pipe` (`MC_CnpgStreams`, 4 backup chunks, 2 native polls; 245k distinct states, about 1 minute) | pass | `BackupOkOnlyIfComplete`: `Engine.Backup` reports success only with a snapshot holding the whole dump, or, for the native method, a Backup CR the operator completed. A dump failing midway is caught twice: `cmd.Wait` reports the copier's read error, and `wait()` returns the exec error. `ReturnsUnlessResticFails`: as long as restic does not fail, `Engine.Backup` returns, whether or not the dump fails. The same run checks RestorePipe (below). |
| `dump_pipe_truncated` | violation of `NoTruncatedSnapshot` | If the exec stream fails mid-dump, the copier ends with a read error, but restic sees only its stdin close. It commits a snapshot of the partial dump and exits 0. `BackupDump` returns an error, because `cmd.Wait` reports the copier's read error, but the truncated snapshot stays in the repository. |

### RestorePipe (`RestorePipe.tla`, run through `MC_CnpgStreams.tla`)

This module models `Engine.Restore`/`restoreDump` of the CNPG engine (`src/engine/cnpg/restore.go`). The steps, in the code's order:
1. `--method native` is refused.
2. The primary pod must be Running with its first container ready.
3. The replicas, `status.instanceNames` minus the primary, are fenced by one merge PATCH that replaces the whole `cnpg.io/fencedInstances` list.
4. A goroutine runs `rc.Dump`. That is `restic dump` with `cmd.Stdout = pw` (`src/restic/restic.go` `RunWithStdout`). It then closes `pw`, with restic's error if there was one, and closes `done`.
5. `k8s.ExecStream` (`src/k8s/exec.go`) runs `psql` on the primary with `pr` as stdin. Then `<-done`.
6. The stream error, then restic's error, each call `unfenceAll` and return. On success, `unfenceAll` runs and the replica pods are force-deleted.

`unfenceAll` PATCHes the list to `[]` and only warns when that fails.

The Galera `Engine.Restore` (`src/unnamed/part_014`) runs the same stream, with `mysql` on a pod that `findHealthyPod` picks, and does no fencing. It is the same module with `engine = "galera"`:
- `GaleraRestoreStart`: `findHealthyPod` fails, or the goroutine and the exec session start;
- `GaleraRestoreFinish`: the stream error, then restic's error, else success.

The stream actions are shared. mysql stops at the first failing statement and exits non-zero, which is `PsqlFail`. In the text below, "psql" stands for either client.

Six actors:
- restic (`dpc`, `dumped`, `dumpOK`);
- os/exec's stdout copier (`opc`);
- the Dump goroutine (`gpc`, `rResticErr`, `pwEnd`);
- remotecommand's stdin copier (`spc`). It copies `pr` to psql and closes psql's stdin when its read ends; a write after psql exited ends the copy;
- psql (`psqlPc`, `applied`, `psqlEOF`, `psqlOK`);
- `restoreDump` (`rmpc`, `rExecErr`, `rres`), together with the Cluster's fence list (`fence`, `fencedByUs`, `unfenceFailed`, `deleted`).

`engine` is chosen at the start. For CNPG, `replicas` is chosen from the subsets of the non-primary instances, so the single-instance cluster, which fences and deletes nothing, is included. The fence list starts as any set of instances (empty for Galera).

The bounds are two restore chunks and a primary with one replica. They reach a failure before, between and after the writes, as well as both the zero-replica and the one-replica branch.

The goroutines, restic and psql are weakly fair, for the same reason as in DumpPipe. A failure of restic or psql is never assumed.

`MC_CnpgStreams` runs a `BackupDump` and a `restoreDump` side by side. They share no state, so each behaviour interleaves one behaviour of each. That gives 244,731 distinct states, checked in about 1 minute.

| Run | Result | Meaning |
|---|---|---|
| `dump_pipe` (2 restore chunks) | pass | `RestoreOkOnlyIfComplete`: `restoreDump` reports success only when restic exited 0 and psql read every chunk. A midway restic failure does reach psql as a plain EOF, and psql applies the partial dump, but `resticErr` keeps the result an error. `NoFenceLeakAfterReturn`: once `restoreDump` has returned, no replica it fenced is still fenced unless an unfence PATCH failed. It says nothing of other instances' fences: `unfenceAll` erases those too (the hazard at restore.go:77). `RestoreReturnsUnlessPsqlFails`: while psql keeps reading, `restoreDump` returns. |

What the model reaches but no run asserts (see `PROJECT.json` hazards):
- **Hang.** When psql fails or the exec session does not open, nothing reads `pr` any more. restic blocks, `done` never closes, and `restoreDump` hangs with every replica fenced. It is the restore twin of the `BackupDump` hang after a restic failure (above).
- **Lost fences.** The fence PATCH and `unfenceAll` overwrite the whole list. That erases fences set by hand or kept after a failed heal, although spec section 4.5 says the list is append-if-absent and remove-preserving-others.

### GaleraTriage and GaleraRepair (`GaleraTriage.tla`, `GaleraRepair.tla`, `MC_GaleraRepair.tla`)

`GaleraTriage` models the analysis half of the Galera triage (`unnamed/part_013`): the effective seqno (the largest of `wsrep_last_committed`, the `galeraRecovery` seqnos and the `grastate.dat` seqno), the primary-component members, `crossInstanceComparison` with its split-brain rules, and `buildAssessments`. The evidence per node (pod kind, grastate seqno or none, the wsrep row its query parsed to) is chosen in `Init`. A failed query stores an empty `wsrepStatus` (`FailedQuery`), not nil, exactly as the code does. The grastate entry of a node (`GrastateEntries`) is the parsed seqno of an exec or of a `runPVCProbes` probe pod, or none when the probe yields no log. When `triageCollect` itself returns an error (the pod List fails, or a storage PVC is missing), `triageCollectFailed` records it, and `GaleraRepair`'s `TriageFailed` makes Repair return "triage failed" before it reads a flag.

`GaleraRepair` extends it with `Engine.Repair` of `unnamed/part_015`, in the same shape as CnpgRepair: the donor gate, escrow, diverged captures, then the targeted or untargeted heals.

Bounds: three symmetric nodes; seqnos -1, 1 and 2; five wsrep rows (Synced Primary at either seqno, a Donor, a disconnected node, a non-Primary node with the newer seqno). These give a node fresher than every member, an equal one and a staler one.

| Run | Result | Meaning |
|---|---|---|
| `galera_repair` | pass | `HealGated`: a heal follows the escrow and, unless forced, hits only a node no fresher than some primary-component member, in a cluster without split-brain. `DivergedCaptured`: a split-brain repair with escrow attempts a capture of every running Synced node. `RepairOkOnlyIfAllHealed`: an untargeted success healed every marked node. |

### Scheduler (`Scheduler.tla`, `Registry.tla`, `MC_Scheduler.tla`)

This module models the operator: `DatabaseReconciler.Reconcile`, `Scheduler.Register` and `deregisterLocked`, the cron entry table, and the scheduled jobs.

State:
- `cr[k]` is what Reconcile finds for a key: deleted (`Absent`), no policy annotation, excluded, a BackupPolicy that cannot be read, or an effective config (a record of the schedules, mode, repositories and a timeout).
- `managedAnn[k]` is the managed annotation, and `pending[k]` a queued reconcile.
- `managed[k]` is `s.managed`: the stored config, the backup EntryIDs and the triage EntryID (0 for none).
- `entries` is the cron's table, EntryID to the key, kind, repository and the config the closure captured. `nextID` is the cron's counter.
- `running` holds the job goroutines.

Actions:
- `ReconcileNotFound`, `ReconcileUnmanaged`, `ReconcilePolicyMissing`, `ReconcileRegister`: one per way Reconcile ends. `ReconcileRegister` includes `Register` (in-place update, or re-creation of the entries) and the managed-annotation patch, whose success is itself an update event.
- `CronFire` starts a job; `runBackup` and `runTriage` end one, patching status annotations or not (credential, engine and triage failures return without a patch). A patch of an existing CR queues it again.
- `CRChange` is the API server: a CR created, edited, deleted or re-created. `Restart` is the operator process restarting: memory is lost, and the initial list queues every existing CR.

Fairness: each key's reconcile is weakly fair (controller-runtime's worker takes every queued key), and so are job ends (goroutines). Cron firings and the environment have no fairness. `CHECK_DEADLOCK FALSE`, because the operator idles once the bounded edits are spent and no key is queued.

Bounds: one key, four configs (a base config; the same with another timeout, for the in-place update; the same over one repository, for `reposEqual`; a bad backup spec with another mode), four CR edits or restarts, fifteen EntryIDs, one job at a time. Each re-creation of the entries takes at most three EntryIDs and needs a CR edit or a restart first, so fifteen never blocks a Register, which liveness and the refinement need. Keys are independent apart from the shared EntryID counter, which one key already exercises across re-registrations. Two keys take about four minutes even with two edits, too close to the time limit.

| Run | Result | Meaning |
|---|---|---|
| `scheduler` | pass | `EntriesMatchRegistration`: the cron's entries are exactly the EntryIDs `s.managed` records. `RegistrationFollowsCR`: a key with no reconcile queued is registered exactly as its CR says, with the entries its config calls for. `DeletedDeregistered`: a deleted CR eventually loses every cron entry. `RegistryRefined`: the operator implements `Registry`. |

The model keeps in each entry the config its closure captured. After an in-place update it differs from `managed[k].db`, as in the code, where changed timeouts never reach the scheduled jobs. `PROJECT.json` lists this as a hazard.

Refinement. `Registry.tla` is the abstract promise, taken from the spec's account of the operator:
- each CR is registered with exactly the config it resolves to, or not at all;
- a BackupPolicy that cannot be read keeps the old registration;
- a restart forgets everything;
- under weak fairness of `Apply(k)`, every registration eventually catches up with its CR.

`Scheduler.tla` instantiates it with `reg <- regOf`, where `regOf[k]` is `managed[k].db`, or `NotManaged`. `RegistryRefined == Abs!AbsSpec` is checked as a temporal property. The mapped steps are:
- a reconcile is `Apply`;
- `CRChange` is `Edit`;
- `Restart` is `Forget`;
- cron firings, job ends and the annotation patch leave `reg` alone.

The liveness half is what makes the refinement worth checking. Every route by which a CR can end up different from its registration must leave a reconcile queued: the patch that re-queues, the requeue after a job's patch, and the initial list after a restart.

## Plan: module order and what is still open

1. **CnpgHeal**, **Retention**, **CnpgTriage**/**CnpgRepair**, **GaleraHeal**, **DumpPipe**, **GaleraTriage**/**GaleraRepair**, **Scheduler**, **RestorePipe** with the Galera restore, **Registry** (refinement), the crash in **CnpgHeal** (done).
2. Open: composing the repair modules with the heal modules through `INSTANCE` instead of treating a heal as one call.

Not modelled, and why:
- CLI flag handling, output formatting, logging and metrics, which are pure I/O.
- CRD type declarations.
- The legacy bash scripts and docs, which the Go engines superseded.
- restic's own keep-* policy for type=backup snapshots. It is external, so it is abstracted to an arbitrary subset.
