------------------------------- MODULE MCRaft -------------------------------
(***************************************************************************)
(* Small clusters for TLC.  A specification below is Spec without some     *)
(* groups of steps, so that the ones it is about fit; the steps it keeps   *)
(* are Raft's, unchanged, and its behaviours are behaviours of Spec.       *)
(***************************************************************************)
EXTENDS Raft, TLC

Symmetry == Permutations(Node)

SubmitStep == \E i \in Node : \E b \in Batch : Submit(i, b)

(* Successive leaders on a network that delays calls but loses none.       *)
SuccessionNext == ElectionStep \/ ReplicationStep \/ SubmitStep
SuccessionSpec == Init /\ [][SuccessionNext]_vars

(* Clients that wait for the answer to their writes.                       *)
ClientNext == ElectionStep \/ ReplicationStep \/ ClientStep
ClientSpec == Init /\ [][ClientNext]_vars

(* Compaction and installation.  A client sends one command or two that do *)
(* not commute, so that what is applied twice, or not at all, shows.       *)
PutCommand == [operation : {"PUT"}, key : Key, value : Value]
DeleteCommand == [operation : {"DELETE"}, key : Key]
PutsAndDeletes == {<<p>> : p \in PutCommand}
                    \cup {<<p, d>> : p \in PutCommand, d \in DeleteCommand}
SnapshotNext == ElectionStep \/ ReplicationStep \/ SnapshotStep
                  \/ \E i \in Node : \E b \in PutsAndDeletes : Submit(i, b)
SnapshotSpec == Init /\ [][SnapshotNext]_vars

(* The same among processes that crash and restart.  A call to a process   *)
(* that is down waits for it.                                              *)
SnapshotCrashNext == SuccessionNext \/ SnapshotStep \/ CrashStep
SnapshotCrashSpec == Init /\ [][SnapshotCrashNext]_vars

(* Leadership transfer, and calls that are lost, late or fail.              *)
TransferNext == SuccessionNext \/ TransferStep \/ LossStep
TransferSpec == Init /\ [][TransferNext]_vars
=============================================================================
