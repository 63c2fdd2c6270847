----------------------------- MODULE MC_Scheduler -----------------------------
(***************************************************************************)
(* Configs and repositories for the scheduler run: both schedules set and *)
(* mode "repair" over r1 and r2; the same with another heal timeout (an    *)
(* in-place update); the same over r1 only (a changed repository list);   *)
(* and a bad backup spec with mode "triage" over r2.  The key, EntryID,    *)
(* job and event bounds are in Scheduler.cfg.                              *)
(***************************************************************************)
EXTENDS Scheduler

MCBase == [backup |-> "ok", triage |-> "ok", mode |-> "repair", repos |-> <<"r1", "r2">>,
           healTimeout |-> 1]

MCConfigs == {MCBase, [MCBase EXCEPT !.healTimeout = 2], [MCBase EXCEPT !.repos = <<"r1">>],
              [backup |-> "bad", triage |-> "ok", mode |-> "triage", repos |-> <<"r2">>,
               healTimeout |-> 1]}

MCRepos == {"r1", "r2"}
====
