-------------------------- MODULE RaftReadsProofs ---------------------------
(***************************************************************************)
(* The cluster with its reads implements the cluster without them, for     *)
(* any number of nodes and any bounds: a confirmation changes nothing      *)
(* that Raft knows of, so that whatever is proved of Spec holds of         *)
(* ReadSpec.                                                               *)
(*                                                                         *)
(* The one step of a read that touches the cluster creates the             *)
(* replication record if there is none. There always is one: an invariant  *)
(* of Spec says that a leader has its record from the moment it is         *)
(* elected, and with it that the RuntimeError of replicate_log and         *)
(* confirm_read_quorum ("Leader replication state is unavailable") is      *)
(* never raised.                                                           *)
(*                                                                         *)
(* The second half proves what the reads promise. ReadsSeeCommitted is     *)
(* not inductive: ReadInv adds that a worker asks its follower one thing   *)
(* at a time, that nobody who was counted is asked again, and that a read  *)
(* which began when a later leader had committed something is Shielded: a  *)
(* quorum of followers knows the later term and will refuse, or has a      *)
(* stale worker, whose answer does not count.                              *)
(***************************************************************************)
EXTENDS RaftReads, RaftTheoremProofs

-----------------------------------------------------------------------------
(* A node alone has no followers to keep a record of.                      *)
HasRecord(i, s, repl) == s.role = Leader /\ Node # {i} => repl # NoReplication

LeaderHasRecord == \A i \in Node : HasRecord(i, state[i], replication[i])

-----------------------------------------------------------------------------
(* Records.                                                                *)

(* A record with a follower in it is not the missing one.                  *)
LEMMA RecordIsThere ==
    ASSUME NEW i \in Node, Node # {i}, NEW repl \in ReplicationType(i)
    PROVE  repl # NoReplication
<1>1. PICK f \in Node \ {i} : TRUE  OBVIOUS
<1>2. DOMAIN repl.next_index = Node \ {i}  BY DEF ReplicationType
<1>3. DOMAIN NoReplication.next_index = {}  BY DEF NoReplication
<1>. QED  BY <1>1, <1>2, <1>3

(* A new leader gets a record (_initialize_leader_replication).            *)
LEMMA InitializedIsThere ==
    ASSUME NEW i \in Node, Node # {i}, NEW lg \in LogType, NEW repl
    PROVE  InitializeReplication(i, repl, lg) # NoReplication
<1>1. LastIndex(lg) + 1 \in Nat  BY LogTypes, LastIndexType
<1>2. LeaderReplication(i, lg) \in ReplicationType(i)
  BY <1>1 DEF LeaderReplication, ReplicationType
<1>. QED  BY <1>2, RecordIsThere DEF InitializeReplication

(* A step that changes the role and the record of one node at most.        *)
LEMMA RecordUpdate ==
    ASSUME TypeInv, LeaderHasRecord, NEW i \in Node, NEW s, NEW repl,
           state' = [state EXCEPT ![i] = s],
           replication' = [replication EXCEPT ![i] = repl],
           HasRecord(i, s, repl)
    PROVE  LeaderHasRecord'
<1>1. state \in [Node -> StateType] /\ replication = [j \in Node |-> replication[j]]
  BY DEF TypeInv, TypeOK
<1>2. ASSUME NEW j \in Node PROVE HasRecord(j, state'[j], replication'[j])
  <2>1. CASE j = i
    <3>1. state'[j] = s /\ replication'[j] = repl  BY <1>1, <2>1
    <3>. QED  BY <2>1, <3>1
  <2>2. CASE j # i
    <3>1. state'[j] = state[j] /\ replication'[j] = replication[j]  BY <1>1, <2>2
    <3>. QED  BY <3>1 DEF LeaderHasRecord
  <2>. QED  BY <2>1, <2>2
<1>. QED  BY <1>2 DEF LeaderHasRecord, HasRecord

(* A step that leaves the records alone and makes nobody a leader.         *)
LEMMA RecordKept ==
    ASSUME TypeInv, LeaderHasRecord, replication' = replication,
           \A i \in Node : state'[i].role = Leader => state[i].role = Leader
    PROVE  LeaderHasRecord'
BY DEF LeaderHasRecord, HasRecord

LEMMA RolesDiffer == Follower # Leader /\ Candidate # Leader
BY DEF Follower, Candidate, Leader

LEMMA StatesTyped ==
    ASSUME TypeInv, NEW i \in Node
    PROVE  /\ state[i] \in StateType /\ log[i] \in LogType
           /\ state \in [Node -> StateType]
           /\ replication = [j \in Node |-> replication[j]]
BY DEF TypeInv, TypeOK

LEMMA FollowersNeedNone ==
    ASSUME NEW i \in Node, NEW s, s.role = Follower
    PROVE  HasRecord(i, s, NoReplication)
BY RolesDiffer DEF HasRecord

LEMMA BecomesFollower ==
    ASSUME NEW s \in StateType, NEW term, NEW leader
    PROVE  BecomeFollower(s, term, leader).role = Follower
BY DEF BecomeFollower, StateType

-----------------------------------------------------------------------------
(* Steps that make a leader, or that take the record of one.               *)

LEMMA StartElectionRecord ==
    ASSUME TypeInv, LeaderHasRecord, NEW i \in Node, StartElection(i)
    PROVE  LeaderHasRecord'
<1>. DEFINE s == PromoteIfQuorum(BecomeCandidate(state[i], i), i)
            repl == IF s.role = Leader
                    THEN InitializeReplication(i, replication[i], log[i])
                    ELSE replication[i]
<1>1. HasRecord(i, s, repl)  BY StatesTyped, InitializedIsThere DEF HasRecord
<1>2. /\ state' = [state EXCEPT ![i] = s]
      /\ replication' = [replication EXCEPT ![i] = repl]
  BY DEF StartElection
<1>. HIDE DEF s, repl
<1>. QED  BY <1>1, <1>2, RecordUpdate

LEMMA HandleRequestVoteRecord ==
    ASSUME TypeInv, LeaderHasRecord, NEW c \in rpcs, HandleRequestVote(c)
    PROVE  LeaderHasRecord'
<1>. DEFINE i == c.dst
            s == IF c.req.term > state[i].current_term
                 THEN BecomeFollower(state[i], c.req.term, None) ELSE state[i]
            t == IF Grants(s, c.req, c.src, log[i])
                 THEN [s EXCEPT !.voted_for = c.src] ELSE s
            repl == KeepIfLeader(replication[i], t)
<1>1. c.dst \in Node  BY CallFields DEF TypeInv, TypeOK
<1>2. s.role = Leader => s = state[i]  BY <1>1, StatesTyped, BecomesFollower, RolesDiffer
<1>3. t.role = s.role  BY <1>1, StatesTyped DEF BecomeFollower, StateType
<1>4. HasRecord(i, t, repl)
  BY <1>1, <1>2, <1>3 DEF HasRecord, KeepIfLeader, LeaderHasRecord
<1>5. /\ state' = [state EXCEPT ![i] = t]
      /\ replication' = [replication EXCEPT ![i] = repl]
  BY DEF HandleRequestVote
<1>. HIDE DEF i, s, t, repl
<1>. QED  BY <1>1, <1>4, <1>5, RecordUpdate DEF i

LEMMA RecordVoteRecord ==
    ASSUME TypeInv, LeaderHasRecord, NEW c \in rpcs, RecordVote(c)
    PROVE  LeaderHasRecord'
<1>. DEFINE i == c.src
            counts == c.resp.ok /\ c.resp.term = state[i].current_term
            s == PromoteIfQuorum(
                     [state[i] EXCEPT !.votes =
                         IF counts THEN @ \cup {c.dst} ELSE @], i)
            repl == IF s.role = Leader
                    THEN InitializeReplication(i, replication[i], log[i])
                    ELSE replication[i]
<1>1. c.src \in Node  BY CallFields DEF TypeInv, TypeOK
<1>2. HasRecord(i, s, repl)  BY <1>1, StatesTyped, InitializedIsThere DEF HasRecord
<1>3. /\ state' = [state EXCEPT ![i] = s]
      /\ IF s.role = Leader
         THEN replication' = [replication EXCEPT ![i] =
                                 InitializeReplication(i, @, log[i])]
         ELSE replication' = replication
  BY DEF RecordVote
<1>4. replication' = [replication EXCEPT ![i] = repl]
  BY <1>1, <1>3, StatesTyped
<1>. HIDE DEF i, counts, s, repl
<1>. QED  BY <1>1, <1>2, <1>3, <1>4, RecordUpdate DEF i

LEMMA StepsDownRecord ==
    ASSUME TypeInv, LeaderHasRecord, NEW c \in rpcs,
           VoteFromNewerTerm(c) \/ AnswerFromNewerTerm(c)
    PROVE  LeaderHasRecord'
<1>. DEFINE i == c.src
            s == BecomeFollower(state[i], c.resp.term, None)
<1>1. c.src \in Node  BY CallFields DEF TypeInv, TypeOK
<1>2. HasRecord(i, s, NoReplication)
  BY <1>1, StatesTyped, BecomesFollower, FollowersNeedNone
<1>3. /\ state' = [state EXCEPT ![i] = s]
      /\ replication' = [replication EXCEPT ![i] = NoReplication]
  BY DEF VoteFromNewerTerm, AnswerFromNewerTerm
<1>. HIDE DEF i, s
<1>. QED  BY <1>1, <1>2, <1>3, RecordUpdate DEF i

LEMMA AnswerToLeaderRecord ==
    ASSUME TypeInv, LeaderHasRecord, NEW c \in rpcs, AnswerToLeader(c)
    PROVE  LeaderHasRecord'
<1>1. \A i \in Node : HasRecord(i, state[i], replication[i])  BY DEF LeaderHasRecord
<1>2. c.src \in Node /\ state' = state  BY CallFields DEF TypeInv, TypeOK, AnswerToLeader
<1>3. TypeInv'  BY AnswerToLeaderTyped
<1>4. replication[c.src] # NoReplication
  BY DEF AnswerToLeader, StillLeader, Leads
<1>5. \A j \in Node : j # c.src => replication'[j] = replication[j]
  BY <1>2, StatesTyped DEF AnswerToLeader
<1>6. ASSUME Node # {c.src} PROVE replication'[c.src] # NoReplication
  <2>1. DOMAIN replication'[c.src].next_index = DOMAIN replication[c.src].next_index
    BY <1>2, <1>4 DEF AnswerToLeader, TypeInv, TypeOK, RecordSuccess,
       RecordFailure, ReplicationType
  <2>2. replication[c.src] \in ReplicationType(c.src)
    BY <1>2, <1>4 DEF TypeInv, TypeOK
  <2>3. DOMAIN replication[c.src].next_index = Node \ {c.src}
    BY <2>2 DEF ReplicationType
  <2>4. DOMAIN NoReplication.next_index = {}  BY DEF NoReplication
  <2>5. Node \ {c.src} # {}  BY <1>2, <1>6
  <2>. QED  BY <2>1, <2>3, <2>4, <2>5
<1>. QED  BY <1>1, <1>2, <1>5, <1>6 DEF LeaderHasRecord, HasRecord

LEMMA HandlerRecord ==
    ASSUME TypeInv, LeaderHasRecord, NEW c \in rpcs,
           HandleInstallSnapshot(c) \/ RejectSnapshot(c) \/ HandleAppendEntries(c)
    PROVE  LeaderHasRecord'
<1>. DEFINE i == c.dst
<1>1. c.dst \in Node  BY CallFields DEF TypeInv, TypeOK
<1>0. /\ state[i] \in StateType
      /\ HasRecord(i, state[i], replication[i])
      /\ replication = [j \in Node |-> replication[j]]
      /\ state \in [Node -> StateType]
  BY <1>1, StatesTyped DEF LeaderHasRecord
<1>2. CASE HandleInstallSnapshot(c)
  <2>. DEFINE s == [BecomeFollower(state[i], c.req.term, c.src) EXCEPT
                      !.commit_index = CommitAfterInstall(i, c.req),
                      !.last_applied = CommitAfterInstall(i, c.req)]
  <2>1. s.role = Follower  BY <1>0 DEF BecomeFollower, StateType
  <2>2. HasRecord(i, s, NoReplication)  BY <1>1, <2>1, FollowersNeedNone
  <2>3. /\ state' = [state EXCEPT ![i] = s]
        /\ replication' = [replication EXCEPT ![i] = NoReplication]
    BY <1>2 DEF HandleInstallSnapshot
  <2>. HIDE DEF i, s
  <2>. QED  BY <1>1, <2>2, <2>3, RecordUpdate DEF i
<1>3. CASE RejectSnapshot(c)
  <2>. DEFINE stale == c.req.term < state[i].current_term
              s == IF stale THEN state[i]
                   ELSE BecomeFollower(state[i], c.req.term, c.src)
              repl == IF stale THEN replication[i] ELSE NoReplication
  <2>1. HasRecord(i, s, repl)
    BY <1>0, <1>1, BecomesFollower, FollowersNeedNone
  <2>2. /\ state' = [state EXCEPT ![i] = s]
        /\ replication' = [replication EXCEPT ![i] = repl]
    BY <1>3 DEF RejectSnapshot
  <2>. HIDE DEF i, s, repl
  <2>. QED  BY <1>1, <2>1, <2>2, RecordUpdate DEF i
<1>4. CASE HandleAppendEntries(c) /\ c.req.term < state[i].current_term
  <2>. DEFINE repl == KeepIfLeader(replication[i], state[i])
  <2>1. HasRecord(i, state[i], repl)  BY <1>0 DEF HasRecord, KeepIfLeader
  <2>2. /\ state' = [state EXCEPT ![i] = state[i]]
        /\ replication' = [replication EXCEPT ![i] = repl]
    BY <1>0, <1>4 DEF HandleAppendEntries
  <2>. HIDE DEF i, repl
  <2>. QED  BY <1>1, <2>1, <2>2, RecordUpdate DEF i
<1>5. CASE HandleAppendEntries(c) /\ ~(c.req.term < state[i].current_term)
  <2>. DEFINE ok == Accepts(log[i], c.req)
              lg == IF ok THEN Synchronize(log[i], c.req.prev_log_index, c.req.entries)
                          ELSE log[i]
              commit == IF ok THEN FollowerCommit(state[i], lg, c.req)
                              ELSE state[i].commit_index
              t == [BecomeFollower(state[i], c.req.term, c.src) EXCEPT
                      !.commit_index = commit,
                      !.last_applied = IF commit > @ THEN commit ELSE @]
  <2>1. t.role = Follower  BY <1>0 DEF BecomeFollower, StateType
  <2>2. HasRecord(i, t, NoReplication)  BY <1>1, <2>1, FollowersNeedNone
  <2>3. /\ state' = [state EXCEPT ![i] = t]
        /\ replication' = [replication EXCEPT ![i] = NoReplication]
    BY <1>5 DEF HandleAppendEntries
  <2>. HIDE DEF i, ok, lg, commit, t
  <2>. QED  BY <1>1, <2>2, <2>3, RecordUpdate DEF i
<1>. QED  BY <1>2, <1>3, <1>4, <1>5

LEMMA TransferRecord ==
    ASSUME TypeInv, LeaderHasRecord, NEW c \in rpcs, TransferAnswered(c)
    PROVE  LeaderHasRecord'
<1>. DEFINE i == c.src
            s == IF ~LeadsTransfer(i) THEN state[i]
                 ELSE IF c.resp.term > state[i].current_term
                      THEN BecomeFollower(state[i], c.resp.term, None)
                 ELSE IF c.resp.ok
                      THEN BecomeFollower(state[i], transfer_term[i], None)
                 ELSE state[i]
            repl == IF s = state[i] THEN replication[i] ELSE NoReplication
<1>1. c.src \in Node  BY CallFields DEF TypeInv, TypeOK
<1>2. s = state[i] \/ s.role = Follower  BY <1>1, StatesTyped, BecomesFollower
<1>3. HasRecord(i, s, repl)
  BY <1>1, <1>2, FollowersNeedNone DEF LeaderHasRecord
<1>4. /\ state' = [state EXCEPT ![i] = s]
      /\ replication' = [replication EXCEPT ![i] = repl]
  BY DEF TransferAnswered
<1>. HIDE DEF i, s, repl
<1>. QED  BY <1>1, <1>3, <1>4, RecordUpdate DEF i

LEMMA SubmitRecord ==
    ASSUME TypeInv, LeaderHasRecord, NEW i \in Node, NEW b, Submit(i, b)
    PROVE  LeaderHasRecord'
<1>. DEFINE repl == InitializeReplication(
                       i, replication[i], AppendAll(log[i], NewEntries(i, b)))
<1>1. HasRecord(i, state[i], repl)
  BY DEF HasRecord, InitializeReplication, LeaderHasRecord, Submit, CanSubmit
<1>2. /\ state' = [state EXCEPT ![i] = state[i]]
      /\ replication' = [replication EXCEPT ![i] = repl]
  BY StatesTyped DEF Submit
<1>. HIDE DEF repl
<1>. QED  BY <1>1, <1>2, RecordUpdate

(* A process that dies has no record, and comes back as a follower.        *)
LEMMA DiesRecord ==
    ASSUME TypeInv, LeaderHasRecord, NEW i \in Node, NEW d, NEW done,
           Dies(i, d, done)
    PROVE  LeaderHasRecord'
<1>1. Loaded(d).role = Follower  BY DEF Loaded, InitialState
<1>2. /\ state' = [state EXCEPT ![i] = Loaded(d)]
      /\ replication' = [replication EXCEPT ![i] = NoReplication]
  BY DEF Dies
<1>. QED  BY <1>1, <1>2, FollowersNeedNone, RecordUpdate

LEMMA CrashRecord ==
    ASSUME TypeInv, LeaderHasRecord, CrashStep
    PROVE  LeaderHasRecord'
<1>1. ASSUME NEW i \in Node, Crash(i) \/ CrashInCreateSnapshot(i)
      PROVE  LeaderHasRecord'
  BY <1>1, DiesRecord DEF Crash, CrashInCreateSnapshot
<1>2. ASSUME NEW i \in Node, NEW b \in Batch, CrashInSubmit(i, b)
      PROVE  LeaderHasRecord'
  BY <1>2, DiesRecord DEF CrashInSubmit
<1>3. ASSUME NEW c \in rpcs, CrashInAppendEntries(c) \/ CrashInInstallSnapshot(c)
      PROVE  LeaderHasRecord'
  <2>1. c.dst \in Node  BY CallFields DEF TypeInv, TypeOK
  <2>. QED  BY <1>3, <2>1, DiesRecord DEF CrashInAppendEntries, CrashInInstallSnapshot
<1>4. ASSUME NEW i \in Node, Restart(i) PROVE LeaderHasRecord'
  <2>. DEFINE s == [Loaded(disk[i]) EXCEPT !.commit_index = RecoveredCommit(disk[i]),
                                           !.last_applied = RecoveredCommit(disk[i])]
  <2>1. s.role # Leader  BY RolesDiffer DEF Loaded, InitialState
  <2>2. state' = [state EXCEPT ![i] = s] /\ replication' = replication
    BY <1>4 DEF Restart
  <2>. HIDE DEF s
  <2>3. \A j \in Node : state'[j].role = Leader => state[j].role = Leader
    BY <2>1, <2>2, StatesTyped
  <2>. QED  BY <2>2, <2>3, RecordKept
<1>. QED  BY <1>1, <1>2, <1>3, <1>4 DEF CrashStep

(* Steps that leave roles and records alone.                               *)
LEMMA QuietRecord ==
    ASSUME TypeInv, LeaderHasRecord, state' = state, replication' = replication
    PROVE  LeaderHasRecord'
BY RecordKept

LEMMA AdvanceCommitRecord ==
    ASSUME TypeInv, LeaderHasRecord, NEW i \in Node, AdvanceCommit(i)
    PROVE  LeaderHasRecord'
<1>1. \A j \in Node : state'[j].role = state[j].role
  BY StatesTyped DEF AdvanceCommit, StateType
<1>. QED  BY <1>1, RecordKept DEF AdvanceCommit

LEMMA HandleTimeoutNowRecord ==
    ASSUME TypeInv, LeaderHasRecord, NEW c \in rpcs, HandleTimeoutNow(c)
    PROVE  LeaderHasRecord'
<1>. DEFINE i == c.dst
            s == IF c.req.term > state[i].current_term
                 THEN BecomeFollower(state[i], c.req.term, c.src) ELSE state[i]
<1>1. c.dst \in Node  BY CallFields DEF TypeInv, TypeOK
<1>2. s.role = Leader => state[i].role = Leader
  BY <1>1, StatesTyped, BecomesFollower, RolesDiffer
<1>3. state' = [state EXCEPT ![i] = s] /\ replication' = replication
  BY DEF HandleTimeoutNow
<1>. HIDE DEF s, i
<1>4. \A j \in Node : state'[j].role = Leader => state[j].role = Leader
  BY <1>1, <1>2, <1>3, StatesTyped DEF i
<1>. QED  BY <1>3, <1>4, RecordKept

LEMMA StepRecord == TypeInv /\ LeaderHasRecord /\ [Next]_vars => LeaderHasRecord'
<1>. SUFFICES ASSUME TypeInv, LeaderHasRecord, [Next]_vars PROVE LeaderHasRecord'
  OBVIOUS
<1>0. (state' = state /\ replication' = replication) => LeaderHasRecord'
  BY QuietRecord
<1>1. CASE ElectionStep
  BY <1>0, <1>1, StartElectionRecord, HandleRequestVoteRecord, StepsDownRecord,
     RecordVoteRecord DEF ElectionStep, VoteAfterElection, memory
<1>2. CASE ReplicationStep
  BY <1>0, <1>2, AdvanceCommitRecord, HandlerRecord, StepsDownRecord,
     AnswerToLeaderRecord
  DEF ReplicationStep, SendToFollower, AnswerAfterLeadership, memory
<1>3. CASE ClientStep
  BY <1>0, <1>3, SubmitRecord DEF ClientStep, SubmitReturns
<1>4. CASE SnapshotStep
  BY <1>0, <1>4, HandlerRecord DEF SnapshotStep, CreateSnapshot
<1>5. CASE TransferStep
  BY <1>0, <1>5, HandleTimeoutNowRecord, TransferRecord
  DEF TransferStep, BeginTransfer, AbortTransfer, SendTimeoutNow, memory
<1>6. CASE CrashStep  BY <1>6, CrashRecord
<1>7. CASE LossStep
  BY <1>0, <1>7 DEF LossStep, CallFails, LateRequestLost, memory
<1>8. CASE UNCHANGED vars  BY <1>0, <1>8 DEF vars, memory
<1>. QED  BY <1>1, <1>2, <1>3, <1>4, <1>5, <1>6, <1>7, <1>8 DEF Next

LEMMA InitRecord == Init => LeaderHasRecord
BY RolesDiffer DEF Init, InitialState, LeaderHasRecord, HasRecord

-----------------------------------------------------------------------------
(* Reads.                                                                  *)

(* Without followers there is nothing to create.                           *)
LEMMA AloneKeeps ==
    ASSUME TypeInv, NEW i \in Node, Node = {i}
    PROVE  InitializeReplication(i, replication[i], log[i]) = replication[i]
<1>1. \A x : [f \in {} |-> x] = <<>>
  <2>1. \A x : DOMAIN [f \in {} |-> x] = {}  OBVIOUS
  <2>. QED  BY <2>1, EmptySeq
<1>2. Node \ {i} = {}  OBVIOUS
<1>3. [f \in Node \ {i} |-> LastIndex(log[i]) + 1] = <<>>  BY <1>1, <1>2
<1>4. [f \in Node \ {i} |-> 0] = <<>>  BY <1>1, <1>2
<1>5. LeaderReplication(i, log[i]) = NoReplication
  BY <1>3, <1>4 DEF LeaderReplication, NoReplication
<1>. QED  BY <1>5 DEF InitializeReplication

(* The beginning of a confirmation finds the record of its leader          *)
(* (_initialize_leader_replication in _confirm_read_quorum).               *)
LEMMA BeginConfirmStutters ==
    ASSUME TypeInv, LeaderHasRecord, NEW i \in Node, BeginConfirm(i)
    PROVE  UNCHANGED vars
<1>1. InitializeReplication(i, replication[i], log[i]) = replication[i]
  <2>1. CASE Node = {i}  BY <2>1, AloneKeeps
  <2>2. CASE Node # {i}
    BY <2>2 DEF LeaderHasRecord, HasRecord, BeginConfirm, InitializeReplication
  <2>. QED  BY <2>1, <2>2
<1>2. replication' = replication  BY <1>1, StatesTyped DEF BeginConfirm
<1>. QED  BY <1>2 DEF BeginConfirm, vars, memory

(* Every step of the cluster with reads is one of Raft or changes nothing  *)
(* Raft has.                                                               *)
LEMMA ReadStepIsRaftStep ==
    TypeInv /\ LeaderHasRecord /\ [ReadNext]_allVars => [Next]_vars
<1>. SUFFICES ASSUME TypeInv, LeaderHasRecord, [ReadNext]_allVars
              PROVE  [Next]_vars
  OBVIOUS
<1>1. CASE BeginStep  BY <1>1, BeginConfirmStutters DEF BeginStep
<1>2. CASE EndStep  BY <1>2 DEF EndStep, ConfirmReturns, ConfirmFails
<1>3. CASE WorkerSendStep
  BY <1>3 DEF WorkerSendStep, WorkerSends, Next, ReplicationStep
<1>4. CASE WorkerAnswerStep
  BY <1>4 DEF WorkerAnswerStep, WorkerAnswered, WorkerOvertaken, Next, ReplicationStep
<1>5. CASE CommitStep  BY <1>5 DEF CommitStep, Next, ReplicationStep
<1>6. CASE HandlerStep  BY <1>6 DEF HandlerStep, Next, ReplicationStep
<1>7. CASE WriteStep  BY <1>7 DEF WriteStep, Next
<1>8. CASE UNCHANGED allVars  BY <1>8 DEF allVars
<1>. QED  BY <1>1, <1>2, <1>3, <1>4, <1>5, <1>6, <1>7, <1>8 DEF ReadNext

(* Linearizable reads leave the cluster what it is: every behaviour with   *)
(* reads is a behaviour of Raft (confirm_read_quorum starts the same       *)
(* workers as replicate_log, and linearizable_get changes nothing).        *)
THEOREM ReadsImplementRaft == ReadSpec => Spec
<1>. DEFINE Inv == TypeInv /\ LeaderHasRecord
<1>1. ReadInit => Init /\ Inv  BY InitTyped, InitRecord DEF ReadInit
<1>2. Inv /\ [ReadNext]_allVars => [Next]_vars  BY ReadStepIsRaftStep
<1>3. Inv /\ [Next]_vars => Inv'  BY StepTyped, StepRecord
<1>. HIDE DEF Inv
<1>. QED  BY <1>1, <1>2, <1>3, PTL DEF ReadSpec, Spec

(* Among reads, too, a term has at most one leader (election.py).          *)
THEOREM OneReaderPerTerm == ReadSpec => []ElectionSafety
<1>. QED  BY ReadsImplementRaft, OneLeaderPerTerm, PTL

(* Among reads, too, what a node acts on is on its disk (node.py).         *)
THEOREM ReadsSeeDurableState == ReadSpec => []DurableBeforeAnswer
<1>. QED  BY ReadsImplementRaft, Durability, PTL

-----------------------------------------------------------------------------
(* What was acknowledged has a last index.                                 *)

AckedBounded == \E b \in Nat : \A a \in acked : a.index \in 0..b

LEMMA OnlyAnswersAcknowledge ==
    [Next]_vars => acked' = acked \/ \E i \in Node : SubmitReturns(i)
<1>. SUFFICES ASSUME [Next]_vars, ~\E i \in Node : SubmitReturns(i)
              PROVE  acked' = acked
    OBVIOUS
<1>1. CASE UNCHANGED vars
    BY <1>1 DEF vars, history
<1>2. CASE ElectionStep
    BY <1>2 DEF ElectionStep, StartElection, HandleRequestVote, VoteAfterElection,
                VoteFromNewerTerm, RecordVote, history
<1>3. CASE ReplicationStep
    BY <1>3 DEF ReplicationStep, SendToFollower, AdvanceCommit, HandleAppendEntries,
                AnswerAfterLeadership, AnswerFromNewerTerm, AnswerToLeader, history
<1>4. CASE ClientStep
    BY <1>4 DEF ClientStep, Submit, history
<1>5. CASE SnapshotStep
    BY <1>5 DEF SnapshotStep, CreateSnapshot, HandleInstallSnapshot, RejectSnapshot,
                history
<1>6. CASE TransferStep
    BY <1>6 DEF TransferStep, BeginTransfer, AbortTransfer, SendTimeoutNow,
                HandleTimeoutNow, TransferAnswered, history
<1>7. CASE CrashStep
    BY <1>7 DEF CrashStep, Crash, CrashInCreateSnapshot, Restart, CrashInSubmit,
                CrashInAppendEntries, CrashInInstallSnapshot, Dies, history
<1>8. CASE LossStep
    BY <1>8 DEF LossStep, CallFails, LateRequestLost, history
<1>. QED  BY <1>1, <1>2, <1>3, <1>4, <1>5, <1>6, <1>7, <1>8 DEF Next

LEMMA AckedBoundedStep == TypeInv /\ AckedBounded /\ [Next]_vars => AckedBounded'
<1>. SUFFICES ASSUME TypeInv, AckedBounded, [Next]_vars  PROVE AckedBounded'
    OBVIOUS
<1>1. CASE acked' = acked
    BY <1>1 DEF AckedBounded
<1>2. ASSUME NEW i \in Node, SubmitReturns(i)  PROVE AckedBounded'
  <2>1. PICK first, len : first = pending[i].first /\ len = Len(pending[i].entries)
      OBVIOUS
  <2>2. first \in Nat /\ len \in Nat
      BY <2>1, LenProperties DEF TypeInv, TypeOK
  <2>3. \A a \in acked' : a \in acked \/ \E k \in 1..len : a.index = first + k - 1
      BY <1>2, <2>1 DEF SubmitReturns
  <2>4. PICK b \in Nat : \A a \in acked : a.index \in 0..b
      BY DEF AckedBounded
  <2>5. \A x, f, l \in Nat : \A k \in 1..l :
           /\ f + k - 1 \in 0..(x + f + l)
           /\ \A n \in 0..x : n \in 0..(x + f + l)
      OBVIOUS
  <2>6. \A n \in 0..b : n \in 0..(b + first + len)
      BY <2>2
  <2>7. \A a \in acked' : a.index \in 0..(b + first + len)
      BY <2>2, <2>3, <2>4, <2>5, <2>6
  <2>. QED  BY <2>2, <2>7 DEF AckedBounded
<1>. QED  BY <1>1, <1>2, OnlyAnswersAcknowledge

LEMMA KnownType ==
    ASSUME TypeInv, AckedBounded
    PROVE  Known \in [committed : Nat, acked : Nat] /\ Known.committed = Len(committed)
<1>1. Len(committed) \in Nat
    BY LenProperties DEF TypeInv, TypeOK
<1>2. PICK S : S = {0} \cup {a.index : a \in acked}
    OBVIOUS
<1>3. PICK b \in Nat : \A a \in acked : a.index \in 0..b
    BY DEF AckedBounded
<1>4. S \in SUBSET (0..b) /\ S # {}
    BY <1>2, <1>3
<1>5. Max(S) \in Nat
  <2>1. PICK m : m = Max(S)
      OBVIOUS
  <2>2. m \in S
      BY <1>4, <2>1, MaxOfRange
  <2>3. m \in 0..b
      BY <1>4, <2>2
  <2>. QED  BY <2>1, <2>3
<1>. QED  BY <1>1, <1>2, <1>5 DEF Known

-----------------------------------------------------------------------------
(* The invariant of the reads.                                             *)

Asking(c) == c.req.kind \in AppendKinds /\ c.st # "late"

(* A worker asks its follower one thing at a time.                         *)
AsksOnce ==
    /\ \A c \in rpcs : Asking(c) => c.dst # c.src
    /\ \A c, d \in rpcs :
          Asking(c) /\ Asking(d) /\ c.src = d.src /\ c.dst = d.dst => c = d

(* A follower that has counted is not asked again in the same read.        *)
Counted ==
    \A c \in rpcs : Asking(c) /\ Reading(c.src) =>
        c.dst \notin reading[c.src].confirmed \cup reading[c.src].failed

(* No read looks ahead.                                                    *)
Dated ==
    \A i \in Node : /\ reading[i].term <= state[i].current_term
                    /\ reading[i].since.committed <= Len(committed)
                    /\ lease[i].since.committed <= Len(committed)

(* An answer is under way that says f still follows i in term t.           *)
Agreed(i, f, t) ==
    \E c \in rpcs : /\ Asking(c) /\ c.src = i /\ c.dst = f /\ c.req.term = t
                    /\ c.st = "answered" /\ c.resp.ok

(* f knows a later term and can not confirm what i reads.                  *)
Refuses(i, f) ==
    /\ state[f].current_term > reading[i].term
    /\ f \notin reading[i].confirmed
    /\ f \in reading[i].stale \/ ~Agreed(i, f, reading[i].term)

UpTo(since, t) == \A n \in 1..since.committed : committed[n].by <= t

(* A read that began behind a later leader can not be confirmed.           *)
Shielded(i) ==
    Reading(i) /\ state[i].current_term = reading[i].term =>
        \/ UpTo(reading[i].since, reading[i].term)
        \/ \E Q \in Quorum : \A f \in Q : Refuses(i, f)

(* Nor does a lease promise more than its leader can know of.              *)
LeaseKnown(i) == UpTo(lease[i].since, lease[i].term)

ReadInv ==
    /\ ReadTypeOK /\ AckedBounded /\ AsksOnce /\ Counted /\ Dated
    /\ \A i \in Node : Shielded(i)
    /\ \A i \in Node : LeaseKnown(i)

-----------------------------------------------------------------------------
(* What steps do.                                                          *)

NoTermFalls == \A i \in Node : state'[i].current_term >= state[i].current_term

KeepsHistory ==
    /\ Len(committed') \in Nat /\ Len(committed) <= Len(committed')
    /\ \A n \in 1..Len(committed) : committed'[n] = committed[n]

NoNewAsk == \A c \in rpcs' : Asking(c) => c \in rpcs

(* The question e is answered, with success only in the term of its asker. *)
Tells(e) ==
    /\ e \in rpcs /\ Asking(e)
    /\ \E x : /\ x.src = e.src /\ x.dst = e.dst /\ x.req = e.req
              /\ x.resp.ok => state[e.dst].current_term <= e.req.term
              /\ rpcs' \subseteq (rpcs \ {e}) \cup {x}

AsksKept == NoNewAsk \/ \E e \in rpcs : Tells(e)

LEMMA AsksStayOnce ==
    ASSUME AsksOnce, AsksKept
    PROVE  AsksOnce'
<1>1. CASE NoNewAsk
    BY <1>1 DEF NoNewAsk, AsksOnce, Asking
<1>2. ASSUME NEW e \in rpcs, Tells(e)  PROVE AsksOnce'
  <2>1. PICK x : /\ x.src = e.src /\ x.dst = e.dst /\ x.req = e.req
                 /\ rpcs' \subseteq (rpcs \ {e}) \cup {x}
      BY <1>2 DEF Tells
  <2>2. Asking(e)
      BY <1>2 DEF Tells
  <2>. QED  BY <2>1, <2>2 DEF AsksOnce, Asking
<1>. QED  BY <1>1, <1>2 DEF AsksKept

(* Every question was there, with the same parties.                        *)
LEMMA AskedBefore ==
    ASSUME AsksKept, NEW c \in rpcs', Asking(c)
    PROVE  \E d \in rpcs : /\ Asking(d) /\ d.src = c.src /\ d.dst = c.dst /\ d.req = c.req
                           /\ \/ d = c
                              \/ c.resp.ok => state[c.dst].current_term <= c.req.term
<1>1. CASE NoNewAsk
    BY <1>1 DEF NoNewAsk
<1>2. ASSUME NEW e \in rpcs, Tells(e)
      PROVE  \E d \in rpcs : /\ Asking(d) /\ d.src = c.src /\ d.dst = c.dst /\ d.req = c.req
                             /\ \/ d = c
                                \/ c.resp.ok => state[c.dst].current_term <= c.req.term
    BY <1>2 DEF Tells
<1>. QED  BY <1>1, <1>2 DEF AsksKept

LEMMA ReadFacts ==
    ASSUME ReadTypeOK, NEW i \in Node
    PROVE  /\ reading[i].term \in Nat /\ reading[i].since.committed \in Nat
           /\ reading[i].since \in [committed : Nat, acked : Nat]
           /\ lease[i] \in [term : Nat, since : [committed : Nat, acked : Nat]]
           /\ lease[i].term \in Nat /\ lease[i].since.committed \in Nat
           /\ reading[i] \in [term : Nat, stale : SUBSET Node, confirmed : SUBSET Node,
                              failed : SUBSET Node, since : [committed : Nat, acked : Nat]]
<1>. QED  BY DEF ReadTypeOK

LEMMA UpToKept ==
    ASSUME KeepsHistory, Len(committed) \in Nat, NEW since, NEW t,
           since.committed \in Nat, since.committed <= Len(committed), UpTo(since, t)
    PROVE  UpTo(since, t)'
<1>1. ASSUME NEW n \in 1..since.committed  PROVE committed'[n].by <= t
  <2>1. n \in 1..Len(committed)
      OBVIOUS
  <2>. QED  BY <2>1 DEF KeepsHistory, UpTo
<1>. QED  BY <1>1 DEF UpTo

-----------------------------------------------------------------------------
(* Steps that leave every read alone.                                      *)

LEMMA StillDisagrees ==
    ASSUME RoleInv, AsksKept, NEW i \in Node, NEW f \in Node, NEW t \in Nat,
           state[f].current_term > t, ~Agreed(i, f, t)
    PROVE  ~Agreed(i, f, t)'
<1>. SUFFICES ASSUME NEW c \in rpcs', Asking(c), c.src = i, c.dst = f, c.req.term = t,
                     c.st = "answered", c.resp.ok
              PROVE  FALSE
    BY DEF Agreed, Asking
<1>1. PICK d \in rpcs : /\ Asking(d) /\ d.src = c.src /\ d.dst = c.dst /\ d.req = c.req
                        /\ d = c \/ (c.resp.ok => state[c.dst].current_term <= c.req.term)
    BY AskedBefore
<1>2. state[f].current_term \in Nat
    BY NodeTypes
<1>3. d = c
    BY <1>1, <1>2
<1>. QED  BY <1>1, <1>3 DEF Agreed

LEMMA StillRefuses ==
    ASSUME RoleInv, RoleInv', ReadTypeOK, AsksKept, NoTermFalls,
           NEW i \in Node, NEW f \in Node, Refuses(i, f), reading'[i] = reading[i]
    PROVE  Refuses(i, f)'
<1>1. PICK t \in Nat : t = reading[i].term
    BY ReadFacts
<1>2. PICK u \in Nat, v \in Nat : u = state[f].current_term /\ v = state'[f].current_term
  <2>1. state'[f].current_term \in Nat
    <3>1. state'[f] \in StateType
        BY DEF RoleInv, ElectionInv, TypeInv, TypeOK
    <3>. QED  BY <3>1 DEF StateType
  <2>. QED  BY <2>1, NodeTypes
<1>3. u > t /\ v >= u
    BY <1>1, <1>2 DEF Refuses, NoTermFalls
<1>4. state'[f].current_term > t
    BY <1>2, <1>3
<1>5. ~Agreed(i, f, t) => ~Agreed(i, f, t)'
    BY <1>2, <1>3, StillDisagrees
<1>. QED  BY <1>1, <1>4, <1>5 DEF Refuses

LEMMA TermsDated ==
    ASSUME RoleInv, RoleInv', NoTermFalls, NEW i \in Node
    PROVE  /\ state[i].current_term \in Nat /\ state'[i].current_term \in Nat
           /\ state'[i].current_term >= state[i].current_term
<1>1. state'[i] \in StateType
    BY DEF RoleInv, ElectionInv, TypeInv, TypeOK
<1>. QED  BY <1>1, NodeTypes DEF StateType, NoTermFalls

LEMMA ShieldsKept ==
    ASSUME RoleInv, RoleInv', ReadInv, AsksKept, NoTermFalls, KeepsHistory,
           NEW i \in Node, reading'[i] = reading[i]
    PROVE  Shielded(i)'
<1>1. PICK t, r : t \in Nat /\ t = reading[i].term /\ r = reading[i]
    BY ReadFacts DEF ReadInv
<1>2. Len(committed) \in Nat
    BY CommittedFacts
<1>. SUFFICES ASSUME Reading(i)', state'[i].current_term = t
              PROVE  \/ UpTo(r.since, t)'
                     \/ \E Q \in Quorum : \A f \in Q : Refuses(i, f)'
    BY <1>1 DEF Shielded
<1>3. Reading(i) /\ state[i].current_term = t
  <2>1. reading[i].term <= state[i].current_term
      BY DEF ReadInv, Dated
  <2>. QED  BY <1>1, <2>1, TermsDated DEF Reading
<1>4. CASE UpTo(r.since, t)
    BY <1>1, <1>2, <1>4, ReadFacts, UpToKept DEF ReadInv, Dated
<1>5. CASE ~UpTo(r.since, t)
  <2>1. PICK Q \in Quorum : \A f \in Q : Refuses(i, f)
      BY <1>1, <1>3, <1>5 DEF ReadInv, Shielded
  <2>2. Q \subseteq Node
      BY DEF Quorum
  <2>. QED  BY <2>1, <2>2, StillRefuses DEF ReadInv
<1>. QED  BY <1>4, <1>5

LeasesKnown ==
    /\ lease \in [Node -> [term : Nat, since : [committed : Nat, acked : Nat]]]
    /\ \A i \in Node : lease[i].since.committed <= Len(committed) /\ LeaseKnown(i)

LEMMA LeasesTyped ==
    ASSUME RoleInv, ReadInv, KeepsHistory, lease' = lease \/ KeepLeases
    PROVE  LeasesKnown'
<1>1. lease \in [Node -> [term : Nat, since : [committed : Nat, acked : Nat]]]
    BY DEF ReadInv, ReadTypeOK
<1>2. NoLease \in [term : Nat, since : [committed : Nat, acked : Nat]]
    BY DEF NoLease, Nothing
<1>3. \A i \in Node : lease'[i] = lease[i] \/ lease'[i] = NoLease
    BY DEF KeepLeases
<1>4. lease' \in [Node -> [term : Nat, since : [committed : Nat, acked : Nat]]]
    BY <1>1, <1>2 DEF KeepLeases
<1>5. PICK c \in Nat, d \in Nat : c = Len(committed) /\ d = Len(committed') /\ c <= d
    BY CommittedFacts DEF KeepsHistory
<1>6. ASSUME NEW i \in Node
      PROVE  /\ lease'[i].since.committed <= Len(committed')
             /\ LeaseKnown(i)'
  <2>1. CASE lease'[i] = lease[i]
    <3>1. PICK x : x = lease[i]
        OBVIOUS
    <3>2. /\ x.since.committed \in Nat /\ x.since.committed <= c /\ UpTo(x.since, x.term)
        BY <1>5, <3>1, ReadFacts DEF ReadInv, Dated, LeaseKnown
    <3>3. UpTo(x.since, x.term)' /\ x.since.committed <= d
        BY <1>5, <3>2, UpToKept
    <3>. QED  BY <1>5, <2>1, <3>1, <3>3 DEF LeaseKnown, UpTo
  <2>2. CASE lease'[i] = NoLease
      BY <1>5, <2>2 DEF NoLease, Nothing, UpTo, LeaseKnown
  <2>. QED  BY <1>3, <2>1, <2>2
<1>. QED  BY <1>4, <1>6 DEF LeasesKnown

LEMMA PassiveReads ==
    ASSUME RoleInv, RoleInv', ReadInv, AckedBounded', AsksKept, NoTermFalls, KeepsHistory,
           reading' = reading, lease' = lease \/ KeepLeases
    PROVE  ReadInv'
<1>0. LeasesKnown'
    BY LeasesTyped
<1>1. ReadTypeOK'
    BY <1>0 DEF ReadInv, ReadTypeOK, LeasesKnown
<1>2. AsksOnce'
    BY AsksStayOnce DEF ReadInv
<1>3. Counted'
  <2>. SUFFICES ASSUME NEW c \in rpcs', Asking(c), Reading(c.src)
                PROVE  c.dst \notin reading[c.src].confirmed \cup reading[c.src].failed
      BY DEF Counted, Asking, Reading
  <2>1. PICK d \in rpcs : Asking(d) /\ d.src = c.src /\ d.dst = c.dst
      BY AskedBefore
  <2>. QED  BY <2>1 DEF ReadInv, Counted
<1>4. Dated'
  <2>. SUFFICES ASSUME NEW i \in Node
                PROVE  /\ reading[i].term <= state'[i].current_term
                       /\ reading[i].since.committed <= Len(committed')
                       /\ lease'[i].since.committed <= Len(committed')
      BY DEF Dated
  <2>1. /\ reading[i].term <= state[i].current_term
        /\ reading[i].since.committed <= Len(committed)
      BY DEF ReadInv, Dated
  <2>2. reading[i].term \in Nat /\ reading[i].since.committed \in Nat
      BY ReadFacts DEF ReadInv
  <2>3. Len(committed) \in Nat /\ Len(committed') \in Nat /\ Len(committed) <= Len(committed')
      BY CommittedFacts DEF KeepsHistory
  <2>. QED  BY <1>0, <2>1, <2>2, <2>3, TermsDated DEF LeasesKnown
<1>5. \A i \in Node : Shielded(i)'
    BY ShieldsKept
<1>6. \A i \in Node : LeaseKnown(i)'
    BY <1>0 DEF LeasesKnown
<1>. QED  BY <1>1, <1>2, <1>3, <1>4, <1>5, <1>6 DEF ReadInv

-----------------------------------------------------------------------------
(* A worker ends.                                                          *)

ReadingType ==
    [term : Nat, stale : SUBSET Node, confirmed : SUBSET Node,
     failed : SUBSET Node, since : [committed : Nat, acked : Nat]]

CountsOnce(i, r) ==
    /\ r.stale \cap (r.confirmed \cup r.failed) = {}
    /\ r.confirmed \cap r.failed = {}
    /\ i \notin r.stale \cup r.confirmed \cup r.failed

(* What Collect makes of r: a fresh worker counts, a stale one makes room. *)
CollectedAs(r, f, result, s) ==
    /\ s \in ReadingType /\ s.term = r.term /\ s.since = r.since
    /\ s.stale = r.stale \ {f}
    /\ f \notin r.stale /\ result =>
          s.confirmed = r.confirmed \cup {f} /\ s.failed = r.failed
    /\ f \notin r.stale /\ ~result =>
          s.failed = r.failed \cup {f} /\ s.confirmed = r.confirmed
    /\ f \in r.stale => s.confirmed = r.confirmed /\ s.failed = r.failed

LEMMA CollectFields ==
    ASSUME NEW r \in ReadingType, NEW f \in Node, NEW ok \in BOOLEAN,
           NEW s, s = Collect(r, f, ok)
    PROVE  CollectedAs(r, f, ok, s)
<1>1. CASE f \in r.stale
  <2>1. s = [r EXCEPT !.stale = r.stale \ {f}]
      BY <1>1 DEF Collect
  <2>2. PICK st : st = r.stale \ {f} /\ st \in SUBSET Node
    <3>1. r.stale \in SUBSET Node
        BY DEF ReadingType
    <3>. QED  BY ONLY <3>1
  <2>3. s = [r EXCEPT !.stale = st]
      BY <2>1, <2>2
  <2>4. /\ s \in ReadingType /\ s.term = r.term /\ s.since = r.since
        /\ s.stale = st /\ s.confirmed = r.confirmed /\ s.failed = r.failed
      BY <2>2, <2>3 DEF ReadingType
  <2>. QED  BY <1>1, <2>2, <2>4 DEF CollectedAs
<1>2. CASE f \notin r.stale /\ ok
    BY <1>2 DEF Collect, CollectedAs, ReadingType
<1>3. CASE f \notin r.stale /\ ~ok
    BY <1>3 DEF Collect, CollectedAs, ReadingType
<1>. QED  BY <1>1, <1>2, <1>3

LEMMA CollectedRead ==
    ASSUME RoleInv, RoleInv', ReadInv, NEW i \in Node, NEW f \in Node,
           NEW c \in rpcs, Asking(c), c.src = i, c.dst = f, Reading(i),
           rpcs' = rpcs \ {c}, NEW ok \in BOOLEAN,
           ok => /\ c.st = "answered" /\ c.resp.ok
                 /\ c.req.term = state[i].current_term,
           NEW r, r = reading[i], NEW s, s = Collect(r, f, ok), reading'[i] = s,
           NoTermFalls, KeepsHistory
    PROVE  /\ s \in ReadingType /\ CountsOnce(i, s)
           /\ Shielded(i)'
           /\ \A d \in rpcs' : Asking(d) /\ d.src = i
                                => d.dst \notin s.confirmed \cup s.failed
           /\ s.term = r.term /\ s.since = r.since
<1>0. ReadTypeOK /\ Dated /\ Counted /\ AsksOnce /\ Shielded(i)
    BY DEF ReadInv
<1>1. r \in ReadingType /\ CountsOnce(i, r)
    BY <1>0, ReadFacts DEF ReadTypeOK, ReadingType, CountsOnce
<1>2. CollectedAs(r, f, ok, s)
    BY ONLY <1>1, f \in Node, ok \in BOOLEAN, s = Collect(r, f, ok), CollectFields
<1>. USE DEF CollectedAs
<1>3. f # i /\ f \notin r.confirmed \cup r.failed
    BY <1>0 DEF AsksOnce, Counted
<1>4. CountsOnce(i, s)
    BY <1>1, <1>2, <1>3 DEF CountsOnce, ReadingType
<1>5. \A d \in rpcs' : Asking(d) /\ d.src = i => d.dst # f
    BY <1>0 DEF AsksOnce
<1>6. ASSUME NEW d \in rpcs', Asking(d), d.src = i
      PROVE  d.dst \notin s.confirmed \cup s.failed
  <2>1. d.dst \notin r.confirmed \cup r.failed
      BY <1>0, <1>6 DEF Counted
  <2>. QED  BY <1>2, <1>5, <1>6, <2>1
<1>7. Shielded(i)'
  <2>1. PICK t \in Nat : t = r.term
      BY <1>0, ReadFacts
  <2>. SUFFICES ASSUME state'[i].current_term = t
                PROVE  \/ UpTo(s.since, t)'
                       \/ \E Q \in Quorum : \A g \in Q : Refuses(i, g)'
      BY <1>2, <2>1 DEF Shielded
  <2>2. state[i].current_term = t
    <3>1. t <= state[i].current_term
        BY <1>0, <2>1 DEF Dated
    <3>. QED  BY <2>1, <3>1, TermsDated
  <2>3. CASE UpTo(r.since, t)
    <3>1. Len(committed) \in Nat /\ r.since.committed \in Nat
          /\ r.since.committed <= Len(committed)
        BY <1>0, CommittedFacts, ReadFacts DEF Dated
    <3>. QED  BY <1>2, <2>3, <3>1, UpToKept
  <2>4. CASE ~UpTo(r.since, t)
    <3>1. PICK Q \in Quorum : \A g \in Q : Refuses(i, g)
        BY <1>0, <2>1, <2>2, <2>4 DEF Shielded
    <3>2. ASSUME NEW g \in Q  PROVE Refuses(i, g)'
      <4>1. /\ g \in Node /\ state[g].current_term > t /\ g \notin r.confirmed
            /\ g \in r.stale \/ ~Agreed(i, g, t)
          BY <2>1, <3>1, <3>2 DEF Quorum, Refuses
      <4>2. state'[g].current_term > t
          BY <4>1, <2>1, TermsDated
      <4>3. ~Agreed(i, g, t) => ~Agreed(i, g, t)'
          BY DEF Agreed, Asking
      <4>4. g = f => ~Agreed(i, g, t)'
          BY <1>5 DEF Agreed, Asking
      <4>5. g \notin s.confirmed
        <5>1. g = f /\ g \notin r.stale => ~ok
            BY <2>2, <4>1 DEF Agreed
        <5>. QED  BY <1>2, <4>1, <5>1
      <4>6. g \in s.stale \/ ~Agreed(i, g, t)'
          BY <1>2, <4>1, <4>3, <4>4
      <4>. QED  BY <1>2, <2>1, <4>2, <4>5, <4>6 DEF Refuses
    <3>. QED  BY <3>2
  <2>. QED  BY <2>3, <2>4
<1>. QED  BY <1>2, <1>4, <1>6, <1>7

(* One read changes, or none but its leases.                               *)
LEMMA OneReads ==
    ASSUME RoleInv, RoleInv', ReadInv, AckedBounded', AsksKept, NoTermFalls, KeepsHistory,
           LeasesKnown', NEW i \in Node, NEW s \in ReadingType, CountsOnce(i, s),
           reading' = [reading EXCEPT ![i] = s], Shielded(i)',
           s.term <= state'[i].current_term, s.since.committed <= Len(committed'),
           \A d \in rpcs' : Asking(d) /\ d.src = i /\ s.term # 0
                            => d.dst \notin s.confirmed \cup s.failed
    PROVE  ReadInv'
<1>0. ReadTypeOK /\ Dated /\ Counted
    BY DEF ReadInv
<1>1. reading \in [Node -> ReadingType]
    BY <1>0 DEF ReadTypeOK, ReadingType
<1>2. reading'[i] = s /\ \A j \in Node : j # i => reading'[j] = reading[j]
    BY <1>1
<1>3. reading' \in [Node -> ReadingType]
    BY <1>1
<1>4. ReadTypeOK'
  <2>1. ASSUME NEW j \in Node  PROVE CountsOnce(j, reading'[j])
    <3>1. CASE j = i
        BY <1>2, <3>1
    <3>2. CASE j # i
        BY <1>0, <1>2, <3>2 DEF ReadTypeOK, CountsOnce
    <3>. QED  BY <3>1, <3>2
  <2>. QED  BY <1>3, <2>1 DEF ReadTypeOK, CountsOnce, ReadingType, LeasesKnown
<1>5. AsksOnce'
    BY AsksStayOnce DEF ReadInv
<1>6. Counted'
  <2>. SUFFICES ASSUME NEW c \in rpcs', Asking(c), Reading(c.src)'
                PROVE  c.dst \notin reading'[c.src].confirmed \cup reading'[c.src].failed
      BY DEF Counted, Asking
  <2>1. CASE c.src = i
      BY <1>2, <2>1 DEF Reading
  <2>2. CASE c.src # i
    <3>1. PICK d \in rpcs : Asking(d) /\ d.src = c.src /\ d.dst = c.dst
        BY AskedBefore
    <3>2. c.src \in Node
        BY <3>1, CallOnNetwork DEF RoleInv, ElectionInv
    <3>3. reading'[c.src] = reading[c.src]
        BY <1>2, <2>2, <3>2
    <3>4. Reading(c.src)
        BY <3>3 DEF Reading
    <3>. QED  BY <1>0, <3>1, <3>3, <3>4 DEF Counted
  <2>. QED  BY <2>1, <2>2
<1>7. Dated'
  <2>. SUFFICES ASSUME NEW j \in Node
                PROVE  /\ reading'[j].term <= state'[j].current_term
                       /\ reading'[j].since.committed <= Len(committed')
                       /\ lease'[j].since.committed <= Len(committed')
      BY DEF Dated
  <2>1. CASE j = i
      BY <1>2, <2>1 DEF LeasesKnown
  <2>2. CASE j # i
    <3>1. /\ reading[j].term <= state[j].current_term
          /\ reading[j].since.committed <= Len(committed)
        BY <1>0 DEF Dated
    <3>2. reading[j].term \in Nat /\ reading[j].since.committed \in Nat
        BY <1>0, ReadFacts
    <3>3. /\ Len(committed) \in Nat /\ Len(committed') \in Nat
          /\ Len(committed) <= Len(committed')
        BY CommittedFacts DEF KeepsHistory
    <3>4. reading'[j] = reading[j] /\ lease'[j].since.committed <= Len(committed')
        BY <1>2, <2>2 DEF LeasesKnown
    <3>. QED  BY <3>1, <3>2, <3>3, <3>4, TermsDated
  <2>. QED  BY <2>1, <2>2
<1>8. \A j \in Node : Shielded(j)'
  <2>1. ASSUME NEW j \in Node, j # i  PROVE Shielded(j)'
      BY <1>2, <2>1, ShieldsKept
  <2>. QED  BY <2>1
<1>9. \A j \in Node : LeaseKnown(j)'
    BY DEF LeasesKnown
<1>. QED  BY <1>4, <1>5, <1>6, <1>7, <1>8, <1>9 DEF ReadInv

LEMMA WorkerEndsRead ==
    ASSUME RoleInv, RoleInv', ReadInv, AckedBounded', NoTermFalls, KeepsHistory,
           NEW c \in rpcs, Asking(c), rpcs' = rpcs \ {c}, NEW ok \in BOOLEAN,
           WorkerEnds(c.src, c.dst, ok) \/ reading' = reading,
           ok => /\ c.st = "answered" /\ c.resp.ok
                 /\ c.req.term = state[c.src].current_term,
           lease' = lease \/ KeepLeases
    PROVE  ReadInv'
<1>1. PICK i \in Node, f \in Node : i = c.src /\ f = c.dst
    BY CallOnNetwork DEF RoleInv, ElectionInv
<1>2. AsksKept
    BY DEF AsksKept, NoNewAsk
<1>3. CASE reading' = reading
    BY <1>2, <1>3, PassiveReads
<1>4. CASE Reading(i) /\ WorkerEnds(i, f, ok)
  <2>1. PICK r, s : r = reading[i] /\ s = Collect(r, f, ok)
      OBVIOUS
  <2>2. reading' = [reading EXCEPT ![i] = s] /\ reading'[i] = s
      BY <1>4, <2>1 DEF WorkerEnds, ReadInv, ReadTypeOK
  <2>3. /\ s \in ReadingType /\ CountsOnce(i, s)
        /\ Shielded(i)'
        /\ \A d \in rpcs' : Asking(d) /\ d.src = i
                             => d.dst \notin s.confirmed \cup s.failed
        /\ s.term = r.term /\ s.since = r.since
      BY <1>1, <1>4, <2>1, <2>2, CollectedRead
  <2>4. s.term <= state'[i].current_term /\ s.since.committed <= Len(committed')
    <3>1. /\ reading[i].term <= state[i].current_term /\ reading[i].term \in Nat
          /\ reading[i].since.committed <= Len(committed)
          /\ reading[i].since.committed \in Nat
        BY ReadFacts DEF ReadInv, Dated
    <3>2. /\ Len(committed) \in Nat /\ Len(committed') \in Nat
          /\ Len(committed) <= Len(committed')
        BY CommittedFacts DEF KeepsHistory
    <3>. QED  BY <2>1, <2>3, <3>1, <3>2, TermsDated
  <2>. QED  BY <1>2, <2>2, <2>3, <2>4, OneReads, LeasesTyped
<1>. QED  BY <1>1, <1>3, <1>4 DEF WorkerEnds

-----------------------------------------------------------------------------
(* What every step of Raft leaves to the reads.                            *)

LEMMA TermsNeverFall == TypeInv /\ [Next]_vars => NoTermFalls
<1>. QED  BY StepLawful DEF Lawful, Sticks, NoTermFalls

LEMMA HistoryKept ==
    ASSUME SafetyInv, SafetyInv', [Next]_vars
    PROVE  KeepsHistory
<1>0. TypeInv /\ RoleInv
    BY DEF SafetyInv, RoleInv, ElectionInv
<1>1. Len(committed) \in Nat
    BY <1>0, CommittedFacts
<1>2. CASE committed' = committed
    BY <1>1, <1>2 DEF KeepsHistory
<1>3. ASSUME NEW j \in Node, AdvanceCommit(j)  PROVE KeepsHistory
  <2>1. PICK old, new, lg, m, t : /\ old = committed /\ new = committed' /\ lg = log[j]
                                  /\ m = CommitCandidate(j) /\ t = state[j].current_term
      OBVIOUS
  <2>2. OnlyTouches(j) /\ Leads(j) /\ m > state[j].commit_index /\ log'[j] = lg
      BY <1>0, <1>3, <2>1, AdvanceCommitEffect
  <2>3. new = CommittedUpTo(old, lg, m, t)
      BY <1>0, <1>3, <2>1, Current DEF AdvanceCommit, CommittedUpTo, StateType
  <2>4. Established /\ Established'
      BY EstablishedHolds, PTL
  <2>5. /\ old \in HistoryType /\ Len(old) \in Nat /\ lg \in LogType
        /\ lg.base <= Len(old) /\ lg.base \in Nat
      BY <2>1, <2>2, <2>4, AppliedFacts DEF Applied, Leads
  <2>6. m \in Nat /\ m <= LastIndex(lg) /\ Len(new) \in Nat
      BY <1>0, <1>3, <2>1, <2>2, <2>4, AppliedNext, AdvanceCommitEffect DEF Applied, Leads
  <2>7. t \in Nat
      BY <1>0, <2>1, NodeTypes
  <2>8. Recorded(old, lg, m, t, new)
      BY ONLY <2>3, <2>5, <2>6, <2>7, CommittedExactly DEF HistoryType
  <2>9. Len(old) <= Len(new) /\ \A n \in 1..Len(old) : new[n] = old[n]
      BY <2>5, <2>6, <2>8 DEF Recorded
  <2>. QED  BY <2>1, <2>6, <2>9 DEF KeepsHistory
<1>. QED  BY <1>2, <1>3, OnlyLeadersCommit

(* Elections ask no follower to replicate (vote.py).                       *)
LEMMA ElectionAsksNothing ==
    ASSUME TypeInv, ElectionStep
    PROVE  NoNewAsk
<1>1. ASSUME NEW i \in Node, StartElection(i)  PROVE NoNewAsk
  <2>1. PICK s, asked :
            rpcs' = rpcs \cup {Call(i, j, RequestVote(s, log[i])) : j \in asked}
      BY <1>1 DEF StartElection
  <2>. QED  BY <2>1 DEF NoNewAsk, Asking, AppendKinds, Call, RequestVote
<1>2. ASSUME NEW c \in rpcs, HandleRequestVote(c)  PROVE NoNewAsk
  <2>1. PICK term, ok : Answer(c, term, ok)
      BY <1>2 DEF HandleRequestVote
  <2>2. c.req.kind \notin AppendKinds
      BY <1>2 DEF HandleRequestVote, Deliverable, AppendKinds
  <2>3. PICK x : x = [c EXCEPT !.st = "answered", !.resp = [term |-> term, ok |-> ok]]
      OBVIOUS
  <2>4. x.req = c.req
      BY <2>3
  <2>5. rpcs' \subseteq (rpcs \ {c}) \cup {x}
      BY <2>1, <2>3 DEF Answer
  <2>. QED  BY <2>2, <2>4, <2>5 DEF NoNewAsk, Asking
<1>3. ASSUME NEW i, Abandon(CallsOf(i, {"RequestVote"}))  PROVE NoNewAsk
  <2>1. PICK late \in SUBSET rpcs :
            rpcs' \subseteq rpcs \cup {[c EXCEPT !.st = "late"] : c \in late}
      BY <1>3 DEF Abandon, AbandonAfter, CallsOf
  <2>2. late \subseteq CallType
      BY DEF TypeInv, TypeOK
  <2>3. \A c \in late : [c EXCEPT !.st = "late"].st = "late"
      BY <2>2 DEF CallType
  <2>. QED  BY <2>1, <2>3 DEF NoNewAsk, Asking
<1>4. ASSUME NEW c \in rpcs, VoteAfterElection(c) \/ VoteFromNewerTerm(c)
      PROVE  NoNewAsk
    BY <1>3, <1>4 DEF VoteAfterElection, VoteFromNewerTerm
<1>5. ASSUME NEW c \in rpcs, RecordVote(c)  PROVE NoNewAsk
  <2>1. Abandon(CallsOf(c.src, {"RequestVote"})) \/ rpcs' = rpcs \ {c}
      BY <1>5 DEF RecordVote
  <2>. QED  BY <1>3, <2>1 DEF NoNewAsk
<1>. QED  BY <1>1, <1>2, <1>4, <1>5 DEF ElectionStep

(* A follower confirms nothing that a later leader asked it to forget      *)
(* (handle_append_entries).                                                *)
LEMMA FollowerTells ==
    ASSUME TypeInv, NEW c \in rpcs, HandleAppendEntries(c)
    PROVE  AsksKept
<1>1. /\ c.dst \in Node /\ c.req.term \in Nat /\ c \in CallType
      /\ state[c.dst].current_term \in Nat
    BY CallOnNetwork DEF TypeInv, TypeOK, StateType
<1>2. PICK term, ok : /\ Answer(c, term, ok)
                      /\ ok => ~(c.req.term < state[c.dst].current_term)
  <2>1. CASE c.req.term < state[c.dst].current_term
      BY <2>1 DEF HandleAppendEntries
  <2>2. CASE ~(c.req.term < state[c.dst].current_term)
      BY <2>2 DEF HandleAppendEntries
  <2>. QED  BY <2>1, <2>2
<1>3. CASE c.st = "late"
    BY <1>2, <1>3 DEF Answer, AsksKept, NoNewAsk
<1>4. CASE c.st # "late"
  <2>1. Asking(c)
      BY <1>4 DEF Asking, AppendKinds, HandleAppendEntries, Deliverable
  <2>2. PICK x : x = [c EXCEPT !.st = "answered", !.resp = [term |-> term, ok |-> ok]]
      OBVIOUS
  <2>3. x.src = c.src /\ x.dst = c.dst /\ x.req = c.req /\ x.resp.ok = ok
      BY <1>1, <2>2 DEF CallType
  <2>4. rpcs' \subseteq (rpcs \ {c}) \cup {x}
      BY <1>2, <1>4, <2>2 DEF Answer
  <2>5. ok => state[c.dst].current_term <= c.req.term
      BY <1>1, <1>2
  <2>6. Tells(c)
      BY <2>1, <2>3, <2>4, <2>5 DEF Tells
  <2>. QED  BY <2>6 DEF AsksKept
<1>. QED  BY <1>3, <1>4

-----------------------------------------------------------------------------
(* The steps of a read.                                                    *)

LEMMA WorkerSendsRead ==
    ASSUME ReadInv, AckedBounded', NEW i \in Node, NEW f \in Node, WorkerSends(i, f)
    PROVE  ReadInv'
<1>1. /\ lease' = lease /\ reading' = reading /\ state' = state /\ committed' = committed
      /\ f \notin reading[i].confirmed \cup reading[i].failed /\ f # i
    BY DEF WorkerSends, readVars, SendToFollower, memory, history
<1>2. PICK x : /\ x.src = i /\ x.dst = f /\ x.st = "sent" /\ Asking(x)
               /\ rpcs' = rpcs \cup {x}
  <2>1. PICK r, x : /\ r.kind \in AppendKinds /\ x = Call(i, f, r)
                    /\ rpcs' = rpcs \cup {x}
      BY DEF WorkerSends, SendToFollower, InstallSnapshot, AppendEntries, AppendKinds
  <2>. QED  BY <2>1 DEF Call, Asking
<1>3. \A d \in rpcs : Asking(d) /\ d.src = i => d.dst # f
    BY DEF WorkerSends, SendToFollower, CallsOf, Asking
<1>4. ReadTypeOK' /\ Dated' /\ \A j \in Node : LeaseKnown(j)'
    BY <1>1 DEF ReadInv, ReadTypeOK, Dated, LeaseKnown, UpTo
<1>5. AsksOnce'
    BY <1>1, <1>2, <1>3 DEF ReadInv, AsksOnce, Asking
<1>6. Counted'
    BY <1>1, <1>2 DEF ReadInv, Counted, Asking, Reading
<1>7. ASSUME NEW j \in Node  PROVE Shielded(j)'
  <2>1. \A g \in Node : \A t : Agreed(j, g, t)' => Agreed(j, g, t)
      BY <1>2 DEF Agreed, Asking
  <2>2. \A g \in Node : Refuses(j, g) => Refuses(j, g)'
    <3>1. ASSUME NEW g \in Node, Refuses(j, g)  PROVE Refuses(j, g)'
      <4>1. PICK r : r = reading[j]
          OBVIOUS
      <4>2. ~Agreed(j, g, r.term) => ~Agreed(j, g, r.term)'
          BY <2>1
      <4>. QED  BY <1>1, <3>1, <4>1, <4>2 DEF Refuses
    <3>. QED  BY <3>1
  <2>3. Shielded(j)
      BY DEF ReadInv
  <2>. QED  BY <1>1, <2>2, <2>3 DEF Shielded, Reading, UpTo, Quorum
<1>. QED  BY <1>4, <1>5, <1>6, <1>7 DEF ReadInv

(* _confirm_read_quorum gives up and takes nothing with it.                *)
LEMMA ConfirmFailsRead ==
    ASSUME RoleInv, RoleInv', ReadInv, AckedBounded', NoTermFalls, KeepsHistory,
           NEW i \in Node, reading' = [reading EXCEPT ![i] = NotReading],
           rpcs' = rpcs, LeasesKnown'
    PROVE  ReadInv'
<1>1. PICK s : s = NotReading
    OBVIOUS
<1>2. /\ s \in ReadingType /\ CountsOnce(i, s) /\ s.term = 0 /\ s.since.committed = 0
    BY <1>1 DEF NotReading, Nothing, ReadingType, CountsOnce
<1>3. reading' = [reading EXCEPT ![i] = s] /\ reading'[i] = s
    BY <1>1 DEF ReadInv, ReadTypeOK
<1>4. Shielded(i)'
    BY <1>2, <1>3 DEF Shielded, Reading
<1>5. AsksKept
    BY DEF AsksKept, NoNewAsk
<1>6. s.term <= state'[i].current_term /\ s.since.committed <= Len(committed')
    BY <1>2, TermsDated DEF KeepsHistory
<1>. QED  BY <1>2, <1>3, <1>4, <1>5, <1>6, OneReads

(* A quorum confirmed the term: nobody was elected behind the read's back. *)
LEMMA ConfirmedKnows ==
    ASSUME RoleInv, ReadInv, NEW i \in Node, Confirmed(i)
    PROVE  UpTo(reading[i].since, reading[i].term)
<1>1. PICK t \in Nat : t = reading[i].term
    BY ReadFacts DEF ReadInv
<1>2. Reading(i) /\ state[i].current_term = t /\ {i} \cup reading[i].confirmed \in Quorum
    BY <1>1 DEF Confirmed
<1>3. ASSUME NEW Q \in Quorum, \A f \in Q : Refuses(i, f)  PROVE FALSE
  <2>1. PICK f \in Q : f \in {i} \cup reading[i].confirmed
      BY <1>2, QuorumsIntersect
  <2>2. state[f].current_term > t /\ f \notin reading[i].confirmed
      BY <1>1, <1>3 DEF Refuses
  <2>3. f = i
      BY <2>1, <2>2
  <2>. QED  BY <1>2, <2>2, <2>3
<1>. QED  BY <1>1, <1>2, <1>3 DEF ReadInv, Shielded

LEMMA ConfirmReturnsRead ==
    ASSUME SafetyInv, SafetyInv', ReadInv, AckedBounded', NEW i \in Node, ConfirmReturns(i)
    PROVE  ReadInv'
<1>0. RoleInv /\ RoleInv'
    BY DEF SafetyInv
<1>1. PICK t, since : t = reading[i].term /\ since = reading[i].since
    OBVIOUS
<1>2. /\ t \in Nat /\ since \in [committed : Nat, acked : Nat]
      /\ since.committed <= Len(committed) /\ UpTo(since, t)
    BY <1>0, <1>1, ReadFacts, ConfirmedKnows DEF ReadInv, Dated, ConfirmReturns
<1>3. /\ lease' = [lease EXCEPT ![i] = [term |-> t, since |-> since]]
      /\ reading' = [reading EXCEPT ![i] = NotReading]
      /\ rpcs' = rpcs /\ state' = state /\ committed' = committed
    BY <1>1 DEF ConfirmReturns, vars, memory, history
<1>4. NoTermFalls /\ KeepsHistory
  <2>1. \A j \in Node : state[j].current_term \in Nat
      BY <1>0, NodeTypes
  <2>. QED  BY <1>0, <1>3, <2>1, CommittedFacts DEF NoTermFalls, KeepsHistory
<1>5. LeasesKnown'
  <2>1. lease \in [Node -> [term : Nat, since : [committed : Nat, acked : Nat]]]
      BY DEF ReadInv, ReadTypeOK
  <2>2. ASSUME NEW j \in Node
        PROVE  lease'[j].since.committed <= Len(committed') /\ LeaseKnown(j)'
    <3>1. CASE j = i
      <4>1. lease'[j].since = since /\ lease'[j].term = t
          BY <1>3, <2>1, <3>1
      <4>. QED  BY <1>2, <1>3, <4>1 DEF LeaseKnown, UpTo
    <3>2. CASE j # i
      <4>1. lease'[j] = lease[j]
          BY <1>3, <2>1, <3>2
      <4>. QED  BY <1>3, <4>1 DEF ReadInv, Dated, LeaseKnown, UpTo
    <3>. QED  BY <3>1, <3>2
  <2>3. lease' \in [Node -> [term : Nat, since : [committed : Nat, acked : Nat]]]
      BY <1>2, <1>3, <2>1
  <2>. QED  BY <2>2, <2>3 DEF LeasesKnown
<1>. QED  BY <1>0, <1>3, <1>4, <1>5, ConfirmFailsRead

(* Behind what a later leader committed stands a quorum in its term.       *)
LEMMA LaterQuorum ==
    ASSUME SafetyInv, NEW t \in Nat, NEW n \in 1..Len(committed), ~(committed[n].by <= t)
    PROVE  \E Q \in Quorum : \A f \in Q : state[f].current_term > t
<1>1. PICK L, F, K : RoleInv /\ Remembers(L, F, K)
    BY DEF SafetyInv, Remembered
<1>2. PICK c \in Nat : c = Len(committed)
    BY <1>1, CommittedFacts
<1>3. n \in Nat /\ n > 0 /\ c > 0
    BY <1>2
<1>4. PICK b \in Nat : b = committed[n].by
    BY <1>1, <1>2, CommittedFacts
<1>5. PICK m \in n..c : Chosen(L, K, b, m)
    BY <1>1, <1>2, <1>3, <1>4 DEF Remembers, History
<1>6. PICK Q \in Quorum : \A v \in Q : K[v][b] >= m
    BY <1>5 DEF Chosen
<1>7. m \in Nat /\ m > 0 /\ b > t
    BY <1>2, <1>3, <1>4
<1>8. ASSUME NEW v \in Q  PROVE state[v].current_term > t
  <2>1. v \in Node
      BY DEF Quorum
  <2>2. K[v][b] \in Nat
      BY <1>1, <2>1 DEF Remembers, Bound, Shadow
  <2>3. K[v][b] > 0
      BY <1>6, <1>7, <2>2
  <2>4. state[v].current_term >= b
      BY <1>1, <2>1, <2>3 DEF Remembers, Bound, AcksTrue
  <2>. QED  BY <1>1, <1>7, <2>1, <2>4, NodeTypes
<1>. QED  BY <1>8

LEMMA BeginConfirmRead ==
    ASSUME SafetyInv, SafetyInv', ReadInv, AckedBounded', LeaderHasRecord,
           NEW i \in Node, BeginConfirm(i)
    PROVE  ReadInv'
<1>0. TypeInv /\ RoleInv /\ RoleInv'
    BY DEF SafetyInv, RoleInv, ElectionInv
<1>1. UNCHANGED vars
    BY <1>0, BeginConfirmStutters
<1>2. /\ rpcs' = rpcs /\ state' = state /\ committed' = committed
    BY <1>1 DEF vars, memory, history
<1>3. PICK t, stale, since :
          t = state[i].current_term /\ stale = StaleWorkers(i) /\ since = Known
    OBVIOUS
<1>4. /\ t \in Nat /\ since \in [committed : Nat, acked : Nat]
      /\ since.committed = Len(committed)
    BY <1>0, <1>3, NodeTypes, KnownType DEF ReadInv
<1>5. PICK s : s = [NotReading EXCEPT !.term = t, !.stale = stale, !.since = since]
    OBVIOUS
<1>6. /\ reading' = [reading EXCEPT ![i] = s]
      /\ lease' = [lease EXCEPT ![i] = NoLease]
    BY <1>3, <1>5 DEF BeginConfirm
<1>7. stale \in SUBSET Node /\ i \notin stale
  <2>1. \A c \in rpcs : Asking(c) /\ c.src = i => c.dst \in Node /\ c.dst # i
      BY <1>0, CallOnNetwork DEF ReadInv, AsksOnce
  <2>. QED  BY <1>3, <2>1 DEF StaleWorkers, CallsOf, Asking
<1>8. /\ s \in ReadingType /\ CountsOnce(i, s) /\ s.term = t /\ s.since = since
      /\ s.stale = stale /\ s.confirmed = {} /\ s.failed = {}
  <2>0. /\ NotReading \in ReadingType
        /\ NotReading.confirmed = {} /\ NotReading.failed = {}
      BY DEF NotReading, Nothing, ReadingType
  <2>1. PICK none : /\ none = NotReading /\ none \in ReadingType
                    /\ none.confirmed = {} /\ none.failed = {}
      BY <2>0
  <2>2. s = [none EXCEPT !.term = t, !.stale = stale, !.since = since]
      BY <1>5, <2>1
  <2>3. /\ s \in ReadingType /\ s.term = t /\ s.since = since /\ s.stale = stale
        /\ s.confirmed = {} /\ s.failed = {}
      BY <1>4, <1>7, <2>1, <2>2 DEF ReadingType
  <2>. QED  BY <1>7, <2>3 DEF CountsOnce
<1>9. reading'[i] = s
    BY <1>6 DEF ReadInv, ReadTypeOK
<1>10. NoTermFalls /\ KeepsHistory /\ AsksKept
  <2>1. \A j \in Node : state[j].current_term \in Nat
      BY <1>0, NodeTypes
  <2>. QED  BY <1>0, <1>2, <2>1, CommittedFacts
            DEF NoTermFalls, KeepsHistory, AsksKept, NoNewAsk
<1>11. LeasesKnown'
  <2>1. lease \in [Node -> [term : Nat, since : [committed : Nat, acked : Nat]]]
      BY DEF ReadInv, ReadTypeOK
  <2>2. NoLease \in [term : Nat, since : [committed : Nat, acked : Nat]]
      BY DEF NoLease, Nothing
  <2>3. ASSUME NEW j \in Node
        PROVE  lease'[j].since.committed <= Len(committed') /\ LeaseKnown(j)'
    <3>1. CASE j = i
      <4>1. lease'[j].since.committed = 0
          BY <1>6, <2>1, <3>1 DEF NoLease, Nothing
      <4>. QED  BY <1>10, <4>1 DEF LeaseKnown, UpTo, KeepsHistory
    <3>2. CASE j # i
      <4>1. lease'[j] = lease[j]
          BY <1>6, <2>1, <3>2
      <4>. QED  BY <1>2, <4>1 DEF ReadInv, Dated, LeaseKnown, UpTo
    <3>. QED  BY <3>1, <3>2
  <2>. QED  BY <1>6, <2>1, <2>2, <2>3 DEF LeasesKnown
<1>12. Shielded(i)'
  <2>1. CASE \A n \in 1..Len(committed) : committed[n].by <= t
      BY <1>2, <1>4, <1>8, <1>9, <2>1 DEF Shielded, UpTo
  <2>2. ASSUME NEW n \in 1..Len(committed), ~(committed[n].by <= t)
        PROVE  Shielded(i)'
    <3>1. PICK Q \in Quorum : \A f \in Q : state[f].current_term > t
        BY <1>4, <2>2, LaterQuorum
    <3>2. \A f : Agreed(i, f, t)' => f \in stale
        BY <1>2, <1>3 DEF Agreed, Asking, StaleWorkers, CallsOf
    <3>3. \A f \in Q : Refuses(i, f)'
        BY <1>2, <1>8, <1>9, <3>1, <3>2 DEF Refuses
    <3>. QED  BY <3>3 DEF Shielded, Quorum
  <2>. QED  BY <2>1, <2>2
<1>13. s.term <= state'[i].current_term /\ s.since.committed <= Len(committed')
    BY <1>2, <1>3, <1>4, <1>8
<1>. QED
    BY <1>0, <1>6, <1>8, <1>10, <1>11, <1>12, <1>13, OneReads

LEMMA ReadInvStep ==
    ASSUME SafetyInv, SafetyInv', LeaderHasRecord, ReadInv, [Next]_vars, [ReadNext]_allVars
    PROVE  ReadInv'
<1>0. TypeInv /\ RoleInv /\ RoleInv'
    BY DEF SafetyInv, RoleInv, ElectionInv
<1>1. AckedBounded' /\ NoTermFalls /\ KeepsHistory
    BY <1>0, AckedBoundedStep, TermsNeverFall, HistoryKept DEF ReadInv
<1>2. CASE BeginStep
    BY <1>1, <1>2, BeginConfirmRead DEF BeginStep
<1>3. CASE EndStep
  <2>1. ASSUME NEW i \in Node, ConfirmFails(i)  PROVE ReadInv'
    <3>1. rpcs' = rpcs /\ lease' = lease /\ reading' = [reading EXCEPT ![i] = NotReading]
        BY <2>1 DEF ConfirmFails, vars
    <3>. QED  BY <1>0, <1>1, <3>1, LeasesTyped, ConfirmFailsRead
  <2>. QED  BY <1>1, <1>3, <2>1, ConfirmReturnsRead DEF EndStep
<1>4. CASE WorkerSendStep
    BY <1>1, <1>4, WorkerSendsRead DEF WorkerSendStep
<1>5. CASE WorkerAnswerStep
  <2>1. PICK c \in rpcs : WorkerAnswered(c) \/ WorkerOvertaken(c)
      BY <1>5 DEF WorkerAnswerStep
  <2>2. Asking(c) /\ c.st = "answered" /\ c.resp.ok \in BOOLEAN /\ rpcs' = rpcs \ {c}
    <3>1. Answered(c, AppendKinds) /\ rpcs' = rpcs \ {c}
        BY <2>1 DEF WorkerAnswered, WorkerOvertaken, AnswerToLeader, AnswerAfterLeadership,
                    AnswerFromNewerTerm
    <3>2. c.resp.ok \in BOOLEAN
        BY <1>0, CallOnNetwork, CallFields
    <3>. QED  BY <3>1, <3>2 DEF Answered, Asking
  <2>3. CASE WorkerAnswered(c)
    <3>1. PICK ok \in BOOLEAN : ok = c.resp.ok
        BY <2>2
    <3>2. WorkerEnds(c.src, c.dst, ok) \/ reading' = reading
        BY <2>3, <3>1 DEF WorkerAnswered
    <3>3. lease' = lease /\ c.req.term = state[c.src].current_term
        BY <2>3 DEF WorkerAnswered, AnswerToLeader, StillLeader
    <3>. QED  BY <1>0, <1>1, <2>2, <3>1, <3>2, <3>3, WorkerEndsRead
  <2>4. CASE WorkerOvertaken(c)
    <3>1. PICK ok \in BOOLEAN : ok = FALSE
        OBVIOUS
    <3>2. WorkerEnds(c.src, c.dst, ok) /\ KeepLeases
        BY <2>4, <3>1 DEF WorkerOvertaken
    <3>. QED  BY <1>0, <1>1, <2>2, <3>1, <3>2, WorkerEndsRead
  <2>. QED  BY <2>1, <2>3, <2>4
<1>6. CASE CommitStep
  <2>1. rpcs' = rpcs /\ reading' = reading /\ lease' = lease
      BY <1>6 DEF CommitStep, AdvanceCommit, readVars
  <2>. QED  BY <1>0, <1>1, <2>1, PassiveReads DEF AsksKept, NoNewAsk
<1>7. CASE HandlerStep
  <2>1. AsksKept
      BY <1>0, <1>7, ElectionAsksNothing, FollowerTells DEF HandlerStep, AsksKept
  <2>. QED  BY <1>0, <1>1, <1>7, <2>1, PassiveReads DEF HandlerStep
<1>8. CASE WriteStep
  <2>1. rpcs' = rpcs /\ reading' = reading /\ lease' = lease
      BY <1>8 DEF WriteStep, ClientStep, Submit, SubmitReturns, readVars
  <2>. QED  BY <1>0, <1>1, <2>1, PassiveReads DEF AsksKept, NoNewAsk
<1>9. CASE UNCHANGED allVars
  <2>1. rpcs' = rpcs /\ reading' = reading /\ lease' = lease
      BY <1>9 DEF allVars, vars, readVars
  <2>. QED  BY <1>0, <1>1, <2>1, PassiveReads DEF AsksKept, NoNewAsk
<1>. QED  BY <1>2, <1>3, <1>4, <1>5, <1>6, <1>7, <1>8, <1>9 DEF ReadNext

LEMMA ReadInvInit == ReadInit => ReadInv
<1>. SUFFICES ASSUME ReadInit  PROVE ReadInv
    OBVIOUS
<1>1. /\ rpcs = {} /\ acked = {} /\ committed = << >>
      /\ \A i \in Node : state[i].current_term = 0
    BY DEF ReadInit, Init, InitialState
<1>2. ReadTypeOK
    BY DEF ReadInit, ReadTypeOK, NoLease, NotReading, Nothing
<1>3. AckedBounded
    BY <1>1 DEF AckedBounded
<1>4. AsksOnce /\ Counted
    BY <1>1 DEF AsksOnce, Counted
<1>5. Dated
    BY <1>1 DEF Dated, ReadInit, NoLease, NotReading, Nothing
<1>6. \A i \in Node : Shielded(i)
    BY DEF ReadInit, Shielded, Reading, NotReading
<1>7. \A i \in Node : LeaseKnown(i)
    BY DEF ReadInit, LeaseKnown, UpTo, NoLease, Nothing
<1>. QED  BY <1>2, <1>3, <1>4, <1>5, <1>6, <1>7 DEF ReadInv

-----------------------------------------------------------------------------
(* What a read returns.                                                    *)

(* Beyond its own entries a leader has none of an earlier term.            *)
LEMMA OwnTermReached ==
    ASSUME SafetyInv, NEW i \in up, state[i].role = Leader, NEW t, NEW c,
           t = state[i].current_term, c = state[i].commit_index,
           c > 0, TermAt(log[i], c) = t,
           NEW n \in 1..Len(committed), c <= n, committed[n].by <= t
    PROVE  committed[n].by = t
<1>1. PICK L, F, K : RoleInv /\ Remembers(L, F, K)
    BY DEF SafetyInv, Remembered
<1>2. PICK len \in Nat : len = Len(committed)
    BY <1>1, CommittedFacts
<1>3. i \in Node
    BY <1>1 DEF RoleInv, ElectionInv, TypeInv, TypeOK
<1>4. t \in Nat /\ c \in Nat /\ n \in Nat /\ len > 0
    BY <1>1, <1>2, <1>3, NodeUnfolds
<1>5. PICK b \in Nat : b = committed[n].by /\ b <= t
    BY <1>1, <1>2, <1>4, CommittedFacts
<1>6. PICK m \in n..len : Chosen(L, K, b, m)
    BY <1>1, <1>2, <1>4, <1>5 DEF Remembers, History
<1>7. m \in Nat /\ n \in 1..m /\ n \in 0..m
    BY <1>2, <1>4
<1>8. Led(t) /\ F[i] = L[t]
    BY <1>1, <1>3, <1>4 DEF RoleInv, RoleOK, Led, Remembers, NodeOK, NodeLog
<1>9. F[i][n] = L[b][n]
  <2>1. Agree(L[t], L[b], m)
      BY <1>1, <1>4, <1>5, <1>6, <1>7, <1>8, ChosenKept DEF Remembers, Bound
  <2>. QED  BY <1>7, <1>8, <2>1 DEF Agree
<1>10. F[i][c].term = t
    BY <1>1, <1>3, <1>4, NodeUnfolds, UnfoldsTermAt DEF NoTerm
<1>11. 0 < L[b][n].term /\ L[b][n].term <= b
  <2>1. Sorted(L[b]) /\ L[b][m].term = b /\ b > 0
      BY <1>1, <1>6 DEF Chosen, Remembers, Bound, LeaderLogs, LeaderLog
  <2>. QED  BY <1>7, <2>1 DEF Sorted
<1>12. t <= F[i][n].term
  <2>1. Sorted(F[i]) /\ c \in 1..n
      BY <1>1, <1>3, <1>4, NodeUnfolds
  <2>. QED  BY <1>4, <1>9, <1>10, <1>11, <2>1 DEF Sorted
<1>13. PICK e \in Nat : e = L[b][n].term
  <2>1. F[i][n].term \in Nat
      BY <1>1, <1>3, <1>4, NodeUnfolds, CellFacts
  <2>. QED  BY <1>9, <2>1
<1>14. t <= e /\ e <= b /\ b <= t
    BY <1>5, <1>9, <1>11, <1>12, <1>13
<1>. QED  BY <1>4, <1>5, <1>13, <1>14

LEMMA ReadsCurrent == SafetyInv /\ OwnCommits /\ ReadInv => ReadsSeeCommitted
<1>. SUFFICES ASSUME SafetyInv, OwnCommits, ReadInv, NEW i \in Node,
                     CanServe(i), CommittedInTerm(i)
              PROVE  state[i].last_applied >= lease[i].since.committed
    BY DEF ReadsSeeCommitted
<1>0. RoleInv /\ Established
    BY EstablishedHolds DEF SafetyInv
<1>1. PICK t, c, n : /\ t = state[i].current_term /\ c = state[i].commit_index
                     /\ n = lease[i].since.committed
    OBVIOUS
<1>2. /\ t \in Nat /\ c \in Nat /\ n \in Nat /\ n <= Len(committed)
      /\ Len(committed) \in Nat
    BY <1>0, <1>1, NodeTypes, CommittedFacts, ReadFacts DEF ReadInv, Dated
<1>3. i \in up /\ state[i].role = Leader /\ lease[i].term = t
    BY <1>1 DEF CanServe
<1>4. state[i].last_applied = c
    BY <1>0, <1>1, <1>3, AppliedFacts DEF Applied
<1>5. n > 0 => n \in 1..Len(committed) /\ committed[n].by <= t
  <2>1. LeaseKnown(i)
      BY DEF ReadInv
  <2>. QED  BY <1>1, <1>2, <1>3, <2>1 DEF LeaseKnown, UpTo
<1>6. ASSUME n > c  PROVE FALSE
  <2>1. n \in 1..Len(committed) /\ committed[n].by <= t
      BY <1>2, <1>5, <1>6
  <2>2. c > 0 /\ TermAt(log[i], c) = t /\ c <= n
      BY <1>1, <1>2, <1>6 DEF CommittedInTerm
  <2>3. committed[n].by = t
      BY <1>1, <1>3, <2>1, <2>2, OwnTermReached
  <2>4. n <= c
      BY <1>1, <1>3, <2>1, <2>3 DEF OwnCommits
  <2>. QED  BY <1>2, <1>6, <2>4
<1>. QED  BY <1>1, <1>2, <1>4, <1>6

LEMMA ReadInvHolds == ReadSpec => []ReadInv
<1>1. SafetyInv /\ SafetyInv' /\ LeaderHasRecord /\ ReadInv /\ [Next]_vars
      /\ [ReadNext]_allVars => ReadInv'
    BY ReadInvStep
<1>2. Init => LeaderHasRecord
    BY InitRecord
<1>3. TypeInv /\ LeaderHasRecord /\ [Next]_vars => LeaderHasRecord'
    BY StepRecord
<1>4. SafetyInv => TypeInv
    BY DEF SafetyInv, RoleInv, ElectionInv
<1>. QED  BY <1>1, <1>2, <1>3, <1>4, ReadsImplementRaft, SafetyInvHolds, ReadInvInit,
             PTL DEF ReadSpec, Spec

(* Every variable of a read has its type, and a follower is counted once   *)
(* in a confirmation: fresh_futures never holds two workers of one         *)
(* follower (confirm_read_quorum).                                         *)
THEOREM ReadTypesHold == ReadSpec => []ReadTypeOK
<1>1. ReadInv => ReadTypeOK
    BY DEF ReadInv
<1>. QED  BY <1>1, ReadInvHolds, PTL

(* What a leader that has committed in its own term returns includes every *)
(* write committed anywhere before the confirmation behind the read began  *)
(* (linearizable_get, confirm_read_quorum): a later leader's quorum meets  *)
(* the confirming one in a follower that either refuses, or whose old      *)
(* answer is of a stale worker and does not count.                         *)
THEOREM ReadsSeeCommittedHolds == ReadSpec => []ReadsSeeCommitted
<1>1. SafetyInv /\ OwnCommits /\ ReadInv => ReadsSeeCommitted
    BY ReadsCurrent
<1>. QED  BY <1>1, ReadInvHolds, ReadsImplementRaft, SafetyInvHolds, OwnCommitsHold, PTL
=============================================================================
