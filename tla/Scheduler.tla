------------------------------- MODULE Scheduler -------------------------------
(***************************************************************************)
(* The operator (src/controller): DatabaseReconciler.Reconcile registers   *)
(* or deregisters a database CR with the Scheduler, which keeps one cron   *)
(* entry per repository for backups and one for triage; the cron loop      *)
(* starts runBackup and runTriage in goroutines of their own.              *)
(*                                                                         *)
(* Actors: the Kubernetes API (CR edits, which enqueue a reconcile), the   *)
(* controller's worker (one reconcile at a time), the cron loop and its    *)
(* job goroutines.  Register and Deregister run under s.mu, so each is     *)
(* one step.  A job's engine work is one step; what matters here is that   *)
(* it may patch status annotations on the CR, which is a watch event.      *)
(* The process can restart, losing everything kept in memory.              *)
(*                                                                         *)
(* An effective config is a record of the fields Register compares and     *)
(* the timeouts it does not; a schedule is "" (unset), "ok" or "bad" (a    *)
(* spec cron.AddFunc rejects).                                             *)
(***************************************************************************)
EXTENDS Integers, Sequences, FiniteSets, Functions, TLC

CONSTANTS
    Keys,          \* database CRs, "engine/namespace/name"
    Configs,       \* effective configs a CR can resolve to
    MaxEntryID,    \* bound on cron.EntryID, which the cron counts up from 1
    MaxJobs,       \* bound on job goroutines running at once
    MaxEvents,     \* bound on CR edits and operator restarts
    Repos,         \* BackupRepository names
    NotManaged,    \* s.managed has no entry for the key
    NoRepo,        \* the repo field of a triage entry
    Absent, NoPolicy, Excluded, PolicyMissing  \* CR states besides a config

(* What Reconcile finds: the CR deleted, no policy annotation, the exclude *)
(* annotation, a policy annotation naming no BackupPolicy, or a config.    *)
CRStates == {Absent, NoPolicy, Excluded, PolicyMissing} \cup Configs

VARIABLES
    cr,          \* the CR of each key as the API server has it
    managedAnn,  \* the CR carries the managed annotation
    pending,     \* a reconcile request for the key is queued
    managed,     \* s.managed: [db, backupIDs, triageID] or NotManaged
    entries,     \* the cron's entries: EntryID -> [key, kind, repo, db]
    nextID,      \* the cron's last EntryID
    running,     \* the job goroutines running: [key, kind, repo, db]
    events       \* CR edits and restarts so far

vars == <<cr, managedAnn, pending, managed, entries, nextID, running, events>>

-----------------------------------------------------------------------------
(* Register's test for an unchanged registration: both schedules, the     *)
(* mode and the repository list (reposEqual) are the same.               *)
SameSchedules(old, db) ==
    /\ old.backup = db.backup /\ old.triage = db.triage
    /\ old.mode = db.mode /\ old.repos = db.repos

(* Mutation: EntryIDs taken from nextID, not after it.                    *)
NewEntriesFromZero(k, db) ==
    LET nb == IF db.backup = "ok" /\ db.mode # "disabled" THEN Len(db.repos) ELSE 0
        nt == IF db.triage = "ok" /\ db.mode # "disabled" THEN 1 ELSE 0
    IN [id \in nextID .. nextID + nb + nt - 1 |->
           IF id < nextID + nb
           THEN [key |-> k, kind |-> "backup", repo |-> db.repos[id - nextID + 1], db |-> db]
           ELSE [key |-> k, kind |-> "triage", repo |-> NoRepo, db |-> db]]

(* The entries Register adds for db, numbered after nextID: one backup     *)
(* entry per repository, then the triage entry, each only with its        *)
(* schedule set and the mode not "disabled".  AddFunc rejects a bad spec  *)
(* before it takes an ID, and Register logs and skips the entry.          *)
NewEntries(k, db) ==
    LET nb == IF db.backup = "ok" /\ db.mode # "disabled" THEN Len(db.repos) ELSE 0
        nt == IF db.triage = "ok" /\ db.mode # "disabled" THEN 1 ELSE 0
    IN [id \in nextID + 1 .. nextID + nb + nt |->
           IF id <= nextID + nb
           THEN [key |-> k, kind |-> "backup", repo |-> db.repos[id - nextID], db |-> db]
           ELSE [key |-> k, kind |-> "triage", repo |-> NoRepo, db |-> db]]

(* The EntryIDs recorded for a registered key; triageID 0 means none.     *)
IdsOf(k) ==
    IF managed[k] = NotManaged THEN {}
    ELSE managed[k].backupIDs \cup ({managed[k].triageID} \ {0})

(* Mutation: the triage entry is left in the cron.                       *)
deregisterLockedBackupOnly(k) ==
    /\ entries' = Restrict(entries, DOMAIN entries \
                     (IF managed[k] = NotManaged THEN {} ELSE managed[k].backupIDs))
    /\ managed' = [managed EXCEPT ![k] = NotManaged]
    /\ UNCHANGED nextID

(* deregisterLocked: remove the recorded entries and the key.             *)
deregisterLocked(k) ==
    /\ entries' = Restrict(entries, DOMAIN entries \ IdsOf(k))
    /\ managed' = [managed EXCEPT ![k] = NotManaged]
    /\ UNCHANGED nextID

(* The ScheduledDB Register stores for the entries it has just added.      *)
scheduledDB(db, new) ==
    [db |-> db,
     backupIDs |-> {id \in DOMAIN new : new[id].kind = "backup"},
     triageID |-> IF \E id \in DOMAIN new : new[id].kind = "triage"
                  THEN CHOOSE id \in DOMAIN new : new[id].kind = "triage"
                  ELSE 0]

(* Register's second half: the old entries of the key are removed         *)
(* (deregisterLocked, a no-op for a new key) and the new ones added.       *)
RegisterEntries(k, db) ==
    LET new == NewEntries(k, db) IN
    /\ nextID + Cardinality(DOMAIN new) <= MaxEntryID
    /\ entries' = Restrict(entries, DOMAIN entries \ IdsOf(k)) @@ new
    /\ nextID' = nextID + Cardinality(DOMAIN new)
    /\ managed' = [managed EXCEPT ![k] = scheduledDB(db, new)]

(* Mutation: the in-place branch returns without storing the new db.      *)
RegisterKeepDb(k, db) ==
    IF managed[k] # NotManaged /\ SameSchedules(managed[k].db, db)
    THEN UNCHANGED <<managed, entries, nextID>>
    ELSE RegisterEntries(k, db)

(* Register: with unchanged schedules only existing.db is replaced (the   *)
(* cron closures keep the db they were created with); otherwise the       *)
(* entries are re-created.                                                *)
Register(k, db) ==
    IF managed[k] # NotManaged /\ SameSchedules(managed[k].db, db)
    THEN /\ managed' = [managed EXCEPT ![k].db = db]
         /\ UNCHANGED <<entries, nextID>>
    ELSE RegisterEntries(k, db)

-----------------------------------------------------------------------------
(* Reconcile of a queued key, one action per way it ends.  A Get error    *)
(* other than NotFound returns the error and controller-runtime requeues  *)
(* the key with nothing changed: a stuttering step, left out.             *)

(* Mutation: NotFound is returned as an error like any other.             *)
ReconcileNotFoundRequeue(k) ==
    /\ pending[k] /\ cr[k] = Absent
    /\ UNCHANGED vars

(* The CR is gone: Deregister.                                            *)
ReconcileNotFound(k) ==
    /\ pending[k] /\ cr[k] = Absent
    /\ deregisterLocked(k)
    /\ pending' = [pending EXCEPT ![k] = FALSE]
    /\ UNCHANGED <<cr, managedAnn, running, events>>

(* Mutation: the exclude annotation is not checked, so an excluded CR is  *)
(* dequeued and keeps its registration.                                   *)
ReconcileUnmanagedNoExclude(k) ==
    /\ pending[k] /\ cr[k] \in {NoPolicy, Excluded}
    /\ IF cr[k] = NoPolicy THEN deregisterLocked(k) ELSE UNCHANGED <<managed, entries, nextID>>
    /\ pending' = [pending EXCEPT ![k] = FALSE]
    /\ UNCHANGED <<cr, managedAnn, running, events>>

(* No policy annotation, or exclude set: Deregister.                      *)
ReconcileUnmanaged(k) ==
    /\ pending[k] /\ cr[k] \in {NoPolicy, Excluded}
    /\ deregisterLocked(k)
    /\ pending' = [pending EXCEPT ![k] = FALSE]
    /\ UNCHANGED <<cr, managedAnn, running, events>>

(* The named BackupPolicy cannot be read: logged, and the registration,   *)
(* whatever it is, stays.                                                 *)
ReconcilePolicyMissing(k) ==
    /\ pending[k] /\ cr[k] = PolicyMissing
    /\ pending' = [pending EXCEPT ![k] = FALSE]
    /\ UNCHANGED <<cr, managedAnn, managed, entries, nextID, running, events>>

(* The effective config is registered; a CR without the managed           *)
(* annotation is patched, and a successful patch is an update event that  *)
(* queues the key again (a failed one is only warned about).              *)
ReconcileRegister(k) ==
    /\ pending[k] /\ cr[k] \in Configs
    /\ Register(k, cr[k])
    /\ \/ /\ managedAnn[k]
          /\ pending' = [pending EXCEPT ![k] = FALSE]
          /\ UNCHANGED managedAnn
       \/ /\ ~managedAnn[k]
          /\ managedAnn' = [managedAnn EXCEPT ![k] = TRUE]
          /\ UNCHANGED pending
       \/ /\ ~managedAnn[k]
          /\ pending' = [pending EXCEPT ![k] = FALSE]
          /\ UNCHANGED managedAnn
    /\ UNCHANGED <<cr, running, events>>

Reconcile(k) ==
    \/ ReconcileNotFound(k) \/ ReconcileUnmanaged(k)
    \/ ReconcilePolicyMissing(k) \/ ReconcileRegister(k)

-----------------------------------------------------------------------------
(* The cron loop runs an entry's closure in a goroutine of its own, with  *)
(* the key, repository and db the closure captured.  Nothing stops a      *)
(* firing while an earlier run of any entry is still going.               *)
CronFire(id) ==
    /\ id \in DOMAIN entries
    /\ Cardinality(running) < MaxJobs
    /\ entries[id] \notin running
    /\ running' = running \cup {entries[id]}
    /\ UNCHANGED <<cr, managedAnn, pending, managed, entries, nextID, events>>

(* A job ends.  runBackup patches the last-backup annotations after the   *)
(* backup, failed or not, and returns early without a patch when the      *)
(* credentials, the engine or its validation fail; runTriage patches the  *)
(* last-triage annotations after a triage and, with mode "repair" and an  *)
(* unhealthy result, runs the auto-repair, which patches last-repair.  A  *)
(* patch of an existing CR is an update event; of a deleted one it fails. *)
JobEnd(j) ==
    /\ j \in running
    /\ running' = running \ {j}
    /\ \E patched \in BOOLEAN :
          pending' = [pending EXCEPT ![j.key] = @ \/ (patched /\ cr[j.key] # Absent)]
    /\ UNCHANGED <<cr, managedAnn, managed, entries, nextID, events>>

runBackup(j) == j.kind = "backup" /\ JobEnd(j)

runTriage(j) == j.kind = "triage" /\ JobEnd(j)

-----------------------------------------------------------------------------
(* The API server: a CR is created, edited, deleted or re-created, and the *)
(* watch enqueues it.  A re-created CR comes without the managed           *)
(* annotation.                                                             *)
CRChange(k) ==
    /\ events < MaxEvents
    /\ \E v \in CRStates \ {cr[k]} :
          /\ cr' = [cr EXCEPT ![k] = v]
          /\ managedAnn' = [managedAnn EXCEPT ![k] = IF cr[k] = Absent THEN FALSE ELSE @]
    /\ pending' = [pending EXCEPT ![k] = TRUE]
    /\ events' = events + 1
    /\ UNCHANGED <<managed, entries, nextID, running>>

(* The operator process restarts (Run): the jobs die where they are, a new *)
(* Scheduler and cron start empty, and the controller's initial list       *)
(* enqueues every existing CR.                                             *)
Restart ==
    /\ events < MaxEvents
    /\ managed' = [k \in Keys |-> NotManaged]
    /\ entries' = <<>> /\ nextID' = 0 /\ running' = {}
    /\ pending' = [k \in Keys |-> cr[k] # Absent]
    /\ events' = events + 1
    /\ UNCHANGED <<cr, managedAnn>>

Init ==
    /\ cr \in [Keys -> CRStates]
    /\ managedAnn \in {f \in [Keys -> BOOLEAN] : \A k \in Keys : cr[k] = Absent => ~f[k]}
    /\ pending = [k \in Keys |-> cr[k] # Absent]
    /\ managed = [k \in Keys |-> NotManaged]
    /\ entries = <<>> /\ nextID = 0 /\ running = {} /\ events = 0

Next ==
    \/ \E k \in Keys : Reconcile(k) \/ CRChange(k)
    \/ \E id \in DOMAIN entries : CronFire(id)
    \/ \E j \in running : runBackup(j) \/ runTriage(j)
    \/ Restart

(* The controller's worker takes every queued key, the cron fires its     *)
(* entries and the goroutines end: the Go runtime and controller-runtime  *)
(* run what is runnable.  A reconcile that keeps failing is not assumed.  *)
Spec == Init /\ [][Next]_vars
        /\ \A k \in Keys : WF_vars(Reconcile(k))
        /\ WF_vars(\E j \in running : runBackup(j) \/ runTriage(j))
-----------------------------------------------------------------------------
Entry == [key : Keys, kind : {"backup", "triage"}, repo : Repos \cup {NoRepo}, db : Configs]

TypeOK ==
    /\ cr \in [Keys -> CRStates] /\ managedAnn \in [Keys -> BOOLEAN]
    /\ pending \in [Keys -> BOOLEAN]
    /\ \A k \in Keys : managed[k] = NotManaged
          \/ managed[k] \in [db : Configs, backupIDs : SUBSET (1 .. MaxEntryID),
                             triageID : 0 .. MaxEntryID]
    /\ DOMAIN entries \subseteq 1 .. nextID /\ \A id \in DOMAIN entries : entries[id] \in Entry
    /\ nextID \in 0 .. MaxEntryID /\ running \subseteq Entry /\ events \in 0 .. MaxEvents

(* The cron's entries and s.managed agree: every live entry is one an      *)
(* owning key recorded, and every recorded EntryID is live.  A re-created  *)
(* or deregistered key whose entry is not removed keeps firing jobs for a  *)
(* config, or a database, the operator no longer manages.                  *)
EntriesMatchRegistration ==
    /\ \A id \in DOMAIN entries : id \in IdsOf(entries[id].key)
    /\ \A k \in Keys : IdsOf(k) \subseteq DOMAIN entries

(* The entries a config calls for, by kind and repository.                *)
Schedules(k, db) == {[kind |-> e.kind, repo |-> e.repo] : e \in Range(NewEntries(k, db))}

(* Once the controller has no reconcile of a key queued, the scheduler    *)
(* follows the CR: a deleted, unannotated or excluded CR is not managed,  *)
(* and a resolved config is stored and fires exactly the backup and       *)
(* triage entries it calls for (a BackupPolicy that cannot be read leaves *)
(* whatever was there).                                                   *)
RegistrationFollowsCR ==
    \A k \in Keys : ~pending[k] =>
        /\ cr[k] \in {Absent, NoPolicy, Excluded} => managed[k] = NotManaged
        /\ cr[k] \in Configs =>
              /\ managed[k] # NotManaged /\ managed[k].db = cr[k]
              /\ {[kind |-> entries[id].kind, repo |-> entries[id].repo] : id \in IdsOf(k)}
                    = Schedules(k, cr[k])

(* A deleted CR's jobs stop: once a CR is gone, it comes back or the key  *)
(* is deregistered and no cron entry of it is left.                       *)
DeletedDeregistered ==
    \A k \in Keys :
        cr[k] = Absent ~> (cr[k] # Absent
                              \/ (managed[k] = NotManaged
                                  /\ \A id \in DOMAIN entries : entries[id].key # k))

(* The registration s.managed records, as the abstract Registry sees it.  *)
regOf == [k \in Keys |-> IF managed[k] = NotManaged THEN NotManaged ELSE managed[k].db]

Abs == INSTANCE Registry WITH reg <- regOf

(* The operator implements Registry: every reconcile, restart and CR edit *)
(* is a step of it or leaves the registration alone, and under the        *)
(* worker's fairness each CR's registration catches up with what the CR   *)
(* resolves to (Reconcile's deregister and Register branches together,    *)
(* the managed-annotation patch and the job patches that requeue a key).  *)
RegistryRefined == Abs!AbsSpec
====
