---------------------------- MODULE MCRaftReads ----------------------------
(***************************************************************************)
(* Small clusters for TLC.  Both specifications are ReadSpec without some  *)
(* of its steps.                                                           *)
(***************************************************************************)
EXTENDS RaftReads, TLC

Symmetry == Permutations(Node)

(* Reads among successive leaders.  Clients do not wait for their answers. *)
(* MaxCalls counts three calls, of which two may replicate: an election    *)
(* needs two calls beside the one whose answer a read finds under way.     *)
(* Before anything is committed there is nothing a read could miss.        *)
SubmitStep ==
    /\ \E i \in Node : \E b \in Batch : Submit(i, b)
    /\ UNCHANGED readVars

SendStep == Cardinality(rpcs) < 2 /\ WorkerSendStep

ReadStep == committed # <<>> /\ BeginStep

LeaseNext == \/ ReadStep \/ EndStep \/ WorkerAnswerStep \/ CommitStep
             \/ HandlerStep \/ SubmitStep \/ SendStep
LeaseSpec == ReadInit /\ [][LeaseNext]_allVars

(* Reads after acknowledged writes.                                        *)
AcknowledgedNext == \/ BeginStep \/ EndStep \/ WorkerAnswerStep
                    \/ CommitStep \/ HandlerStep \/ WriteStep \/ WorkerSendStep
AcknowledgedSpec == ReadInit /\ [][AcknowledgedNext]_allVars
============================================================================
