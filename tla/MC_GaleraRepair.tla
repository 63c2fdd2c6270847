--------------------------- MODULE MC_GaleraRepair ---------------------------
(***************************************************************************)
(* Three nodes; seqnos -1 (none), 1 and 2; the wsrep rows of a Synced      *)
(* member of the primary component at either seqno, a Donor/Desynced     *)
(* member, a node that lost its connection, and a node of a non-primary   *)
(* component that committed the newer transaction.  No galeraRecovery     *)
(* data, so the nodes are symmetric.                                       *)
(***************************************************************************)
EXTENDS GaleraRepair, TLC

MCSeqnos == {-1, 1, 2}

MCWsStatuses ==
    {[state |-> 4, connected |-> "ON", ready |-> "ON", status |-> "Primary", committed |-> 1],
     [state |-> 4, connected |-> "ON", ready |-> "ON", status |-> "Primary", committed |-> 2],
     [state |-> 2, connected |-> "ON", ready |-> "ON", status |-> "Primary", committed |-> 2],
     [state |-> 0, connected |-> "OFF", ready |-> "OFF", status |-> "Disconnected", committed |-> 1],
     [state |-> 0, connected |-> "ON", ready |-> "OFF", status |-> "non-Primary", committed |-> 2]}

MCCrSeqno == [i \in Nodes |-> -1]

MCSymmetry == Permutations(Nodes)
====
