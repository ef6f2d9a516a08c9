----------------------------- MODULE RaftReads -----------------------------
(***************************************************************************)
(* Linearizable reads (raft/node.py, linearizable_get and                  *)
(* confirm_read_quorum) on top of the cluster of Raft.                     *)
(*                                                                         *)
(* A leader without a read lease asks its followers once more and counts   *)
(* the workers that succeed; a quorum in an unchanged term gives it the    *)
(* lease, and while it has the lease it answers from its store.  The       *)
(* answer changes nothing: CanServe says when it is given, and the         *)
(* properties speak of the store at that moment.                           *)
(*                                                                         *)
(* Time is abstracted as in Raft.  The lease of 0.5 s may last as long as  *)
(* its term and may be over when the next read comes, so that no property  *)
(* rests on how durations compare.  Calls do not fail here: a failed call  *)
(* takes its follower out of the confirmation, which then fails, if at     *)
(* all, as it does when an answer does not come in time.                   *)
(* Nodes do not crash, compact or hand over leadership here: of the steps  *)
(* of Raft, ReadNext has elections, replication and writes.                *)
(***************************************************************************)
EXTENDS Raft

CONSTANT MaxReads       \* bound: confirmations under way in the cluster

ASSUME ReadsAssumption == MaxReads \in Nat

VARIABLES
    lease,      \* _last_read_quorum_term, and when it was confirmed
    reading     \* locals of _confirm_read_quorum while it runs

readVars == <<lease, reading>>
allVars  == <<vars, readVars>>

(* Ghost: what was committed, and reported to clients as written, when a   *)
(* confirmation began.                                                     *)
Nothing == [committed |-> 0, acked |-> 0]
Known == [committed |-> Len(committed),
          acked |-> Max({0} \cup {a.index : a \in acked})]

NoLease == [term |-> 0, since |-> Nothing]

(* stale: followers whose worker is of an earlier round, so that it is not *)
(* among fresh_futures.                                                    *)
NotReading == [term |-> 0, stale |-> {}, confirmed |-> {}, failed |-> {},
               since |-> Nothing]

Reading(i) == reading[i].term # 0

(* _has_valid_read_lease, but for the time that has passed; if it is true  *)
(* linearizable_get returns from the store.                                *)
CanServe(i) ==
    /\ i \in up
    /\ state[i].role = Leader
    /\ lease[i].term = state[i].current_term

-----------------------------------------------------------------------------
(* The confirmation.                                                       *)

(* Wrong form of StaleWorkers: every worker counts.                        *)
NoStaleWorkers(i) == {}

(* A worker between two calls has nothing under way: what it sends next    *)
(* follows the beginning of the read, as the call of a fresh one does.     *)
StaleWorkers(i) == {c.dst : c \in CallsOf(i, AppendKinds)}

(* The reader found no lease or an expired one, which is dropped here.     *)
(* _replication_lock keeps the confirmation out of rounds, transfers and   *)
(* other confirmations.                                                    *)
BeginConfirm(i) ==
    /\ i \in up
    /\ state[i].role = Leader
    /\ ~Reading(i)
    /\ transfer_term[i] = 0
    /\ Cardinality({j \in Node : Reading(j)}) < MaxReads
    /\ reading' = [reading EXCEPT ![i] =
          [NotReading EXCEPT !.term = state[i].current_term,
                             !.stale = StaleWorkers(i), !.since = Known]]
    /\ lease' = [lease EXCEPT ![i] = NoLease]
    /\ replication' = [replication EXCEPT ![i] =
                          InitializeReplication(i, @, log[i])]
    /\ UNCHANGED <<up, state, log, snapshot, store, transfer_term, pending,
                   disk, rpcs, history>>

(* Wrong form of Collect: a stale worker counts as a fresh one.            *)
CollectAnyway(r, f, result) ==
    IF result THEN [r EXCEPT !.confirmed = @ \cup {f}]
              ELSE [r EXCEPT !.failed = @ \cup {f}]

(* A future that is done: a stale one makes room for a fresh one, which    *)
(* counts.                                                                 *)
Collect(r, f, result) ==
    IF f \in r.stale THEN [r EXCEPT !.stale = @ \ {f}]
    ELSE IF result THEN [r EXCEPT !.confirmed = @ \cup {f}]
    ELSE [r EXCEPT !.failed = @ \cup {f}]

WorkerEnds(i, f, result) ==
    reading' = IF Reading(i)
               THEN [reading EXCEPT ![i] = Collect(@, f, result)] ELSE reading

(* A lease of an earlier term is never valid again.                        *)
KeepLeases ==
    lease' = [i \in Node |-> IF state'[i].role = Leader THEN lease[i] ELSE NoLease]

(* _replicate_to_follower ends with True when the follower has the whole   *)
(* log and the commit index, and with False on a failed call, a refused    *)
(* snapshot or lost leadership; otherwise it sends again.                  *)
Informed(c) ==
    /\ replication'[c.src].next_index[c.dst] > LastIndex(log[c.src])
    /\ \/ c.req.kind = "InstallSnapshot"
       \/ c.req.leader_commit >= state[c.src].commit_index

WorkerAnswered(c) ==
    /\ AnswerToLeader(c)
    /\ IF IF c.resp.ok THEN Informed(c) ELSE c.req.kind = "InstallSnapshot"
       THEN WorkerEnds(c.src, c.dst, c.resp.ok) ELSE UNCHANGED reading
    /\ UNCHANGED lease

WorkerOvertaken(c) ==
    /\ AnswerAfterLeadership(c) \/ AnswerFromNewerTerm(c)
    /\ WorkerEnds(c.src, c.dst, FALSE)
    /\ KeepLeases

(* The confirmation starts one fresh worker per follower, and no round     *)
(* starts another meanwhile.                                               *)
WorkerSends(i, f) ==
    /\ f \notin reading[i].confirmed \cup reading[i].failed
    /\ SendToFollower(i, f)
    /\ UNCHANGED readVars

(* The end of _confirm_read_quorum.  What is committed is applied already. *)
Confirmed(i) ==
    /\ Reading(i)
    /\ i \in up
    /\ state[i].role = Leader
    /\ state[i].current_term = reading[i].term
    /\ {i} \cup reading[i].confirmed \in Quorum

ConfirmReturns(i) ==
    /\ Confirmed(i)
    /\ lease' = [lease EXCEPT ![i] = [term |-> reading[i].term,
                                      since |-> reading[i].since]]
    /\ reading' = [reading EXCEPT ![i] = NotReading]
    /\ UNCHANGED vars

(* ReadQuorumError: leadership was lost, no worker is left or 0.25 s have  *)
(* passed.                                                                 *)
ConfirmFails(i) ==
    /\ Reading(i)
    /\ ~Confirmed(i)
    /\ reading' = [reading EXCEPT ![i] = NotReading]
    /\ UNCHANGED <<vars, lease>>

-----------------------------------------------------------------------------
ReadInit ==
    /\ Init
    /\ lease = [i \in Node |-> NoLease]
    /\ reading = [i \in Node |-> NotReading]

BeginStep == \E i \in Node : BeginConfirm(i)
EndStep == \E i \in Node : ConfirmReturns(i) \/ ConfirmFails(i)

WorkerSendStep == \E i, f \in Node : WorkerSends(i, f)
WorkerAnswerStep == \E c \in rpcs : WorkerAnswered(c) \/ WorkerOvertaken(c)

(* The end of a round, which holds _replication_lock.                      *)
CommitStep ==
    /\ \E i \in Node : ~Reading(i) /\ AdvanceCommit(i)
    /\ UNCHANGED readVars

(* Handlers of incoming calls and elections do not wait for a read.        *)
HandlerStep ==
    /\ ElectionStep \/ \E c \in rpcs : HandleAppendEntries(c)
    /\ KeepLeases
    /\ UNCHANGED reading

WriteStep ==
    /\ ClientStep
    /\ UNCHANGED readVars

ReadNext == \/ BeginStep \/ EndStep \/ WorkerSendStep \/ WorkerAnswerStep
            \/ CommitStep \/ HandlerStep \/ WriteStep
ReadSpec == ReadInit /\ [][ReadNext]_allVars

-----------------------------------------------------------------------------
(* Every variable has its type, and a follower is counted once.            *)
ReadTypeOK ==
    /\ lease \in [Node -> [term : Nat, since : [committed : Nat, acked : Nat]]]
    /\ reading \in [Node ->
          [term : Nat, stale : SUBSET Node, confirmed : SUBSET Node,
           failed : SUBSET Node, since : [committed : Nat, acked : Nat]]]
    /\ \A i \in Node :
          LET r == reading[i]
          IN /\ r.stale \cap (r.confirmed \cup r.failed) = {}
             /\ r.confirmed \cap r.failed = {}
             /\ i \notin r.stale \cup r.confirmed \cup r.failed

CommittedInTerm(i) ==
    /\ state[i].commit_index > 0
    /\ TermAt(log[i], state[i].commit_index) = state[i].current_term

(* What a leader that has committed in its own term returns includes every *)
(* write committed anywhere before the confirmation behind the read began, *)
(* whoever else was elected since: only answers to questions asked during  *)
(* the confirmation count, in an unchanged term (_confirm_read_quorum).    *)
ReadsSeeCommitted ==
    \A i \in Node : CanServe(i) /\ CommittedInTerm(i)
        => state[i].last_applied >= lease[i].since.committed

(* README.md: "Leader reads use quorum/leadership confirmation so the API  *)
(* does not silently return stale local state as authoritative."           *)
ReadsSeeAcknowledged ==
    \A i \in Node : CanServe(i) => state[i].last_applied >= lease[i].since.acked
============================================================================
