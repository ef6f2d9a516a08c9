------------------------------- MODULE Raft -------------------------------
(***************************************************************************)
(* The consensus core of pyraftkv: a cluster of RaftNode objects           *)
(* (raft/node.py) that elect a leader, replicate and commit commands,      *)
(* compact their logs, transfer leadership, crash and restart.             *)
(*                                                                         *)
(* Grain.  A step is one critical section under a node's _raft_lock, with  *)
(* every write to disk made inside it.  The lock is released while a call  *)
(* is on the network, so a call is three steps: the caller builds the      *)
(* request, the callee's handler runs, the caller looks at the answer.     *)
(* Time is abstracted: the election timer of any node that does not lead   *)
(* may expire at any moment, and any call may time out.                    *)
(***************************************************************************)
EXTENDS Integers, FiniteSets, Sequences, FiniteSetsExt, RaftLog

CONSTANTS
    Node,           \* members of the cluster, fixed when a process starts
    None,           \* Python's None where a node id is expected
    Key, Value,     \* of the replicated key-value store
    MaxTerm,        \* bound: no election beyond this term
    MaxIndex,       \* bound: no entry beyond this index
    MaxBatch,       \* bound: commands in one submit_commands call
    MaxCalls,       \* bound: calls under way in the whole cluster
    MaxLate         \* bound: requests in flight whose caller has given up

ASSUME NodeAssumption == IsFiniteSet(Node) /\ Node # {} /\ None \notin Node
ASSUME BoundAssumption ==
    /\ MaxTerm \in Nat /\ MaxIndex \in Nat /\ MaxBatch \in Nat
    /\ MaxCalls \in Nat /\ MaxLate \in Nat

Follower  == "follower"
Candidate == "candidate"
Leader    == "leader"

VARIABLES
    up,             \* processes that run
    state,          \* RaftState, and ElectionTracker's votes_received
    log,            \* RaftLog
    snapshot,       \* RaftSnapshot in memory
    store,          \* KVStore the committed commands are applied to
    replication,    \* LeaderReplication, or NoReplication
    transfer_term,  \* transfer_leadership's local, 0 outside a transfer
    pending,        \* submit_commands' entries, while it has not returned
    disk,           \* raft-state.json, raft-log.json, raft-snapshot.json
    rpcs,           \* calls on the network
    elected,        \* ghost: every <<term, leader>> there ever was
    committed,      \* ghost: entries in the order a leader committed them
    acked           \* ghost: writes reported to clients as successful

memory  == <<state, log, snapshot, store, replication, transfer_term, pending>>
history == <<elected, committed, acked>>
vars    == <<up, memory, disk, rpcs, history>>

-----------------------------------------------------------------------------
(* The replicated state machine.                                           *)

Command == [operation : {"PUT"}, key : Key, value : Value]
             \cup [operation : {"DELETE"}, key : Key]

Absent == [present |-> FALSE]
Present(value) == [present |-> TRUE, value |-> value]
EmptyStore == [k \in Key |-> Absent]

Writes(entries, n, k) == entries[n].command.key = k

Outcome(command) ==
    IF command.operation = "PUT" THEN Present(command.value) ELSE Absent

(* apply_command for each entry in turn: the last write to a key stays.    *)
ApplyEntries(kv, entries) ==
    LET last(k) == CHOOSE n \in 1..Len(entries) :
                      /\ Writes(entries, n, k)
                      /\ \A m \in (n + 1)..Len(entries) : ~Writes(entries, m, k)
    IN [k \in Key |-> IF \E n \in 1..Len(entries) : Writes(entries, n, k)
                      THEN Outcome(entries[last(k)].command) ELSE kv[k]]

(* Wrong form of ApplyCommitted: the first new entry is skipped.           *)
ApplyCommittedSkipsOne(kv, lg, last_applied, commit_index) ==
    ApplyEntries(kv, SubSeq(lg.entries, last_applied + 2 - lg.base,
                                        commit_index - lg.base))

(* apply_committed_entries, from last_applied to commit_index.             *)
ApplyCommitted(kv, lg, last_applied, commit_index) ==
    ApplyEntries(kv, SubSeq(lg.entries, last_applied + 1 - lg.base,
                                        commit_index - lg.base))

-----------------------------------------------------------------------------
(* RaftState, RaftSnapshot, LeaderReplication and the files.               *)

Quorum == {Q \in SUBSET Node : Cardinality(Q) > Cardinality(Node) \div 2}

InitialState ==
    [current_term |-> 0, voted_for |-> None, leader_id |-> None,
     role |-> Follower, commit_index |-> 0, last_applied |-> 0, votes |-> {}]

InitialSnapshot == [index |-> 0, term |-> 0, state |-> EmptyStore]

BecomeFollower(s, term, leader) ==
    [s EXCEPT !.current_term = term,
              !.voted_for = IF term > s.current_term THEN None ELSE @,
              !.role = Follower,
              !.leader_id = leader,
              !.votes = {}]

(* ElectionTracker.start.  The votes count only while the node is a        *)
(* candidate (record_vote ignores them otherwise), so every other role     *)
(* holds none.                                                             *)
BecomeCandidate(s, i) ==
    [s EXCEPT !.current_term = @ + 1, !.voted_for = i,
              !.role = Candidate, !.leader_id = None, !.votes = {i}]

(* _promote_if_quorum.                                                     *)
PromoteIfQuorum(s, i) ==
    IF s.votes \in Quorum
    THEN [s EXCEPT !.role = Leader, !.leader_id = i, !.votes = {}]
    ELSE s

NoReplication == [next_index |-> <<>>, match_index |-> <<>>]

(* Wrong form of LeaderReplication: the leader is its own follower.        *)
LeaderReplicationOfAll(i, lg) ==
    [next_index  |-> [f \in Node |-> LastIndex(lg) + 1],
     match_index |-> [f \in Node |-> 0]]

LeaderReplication(i, lg) ==
    [next_index  |-> [f \in Node \ {i} |-> LastIndex(lg) + 1],
     match_index |-> [f \in Node \ {i} |-> 0]]

(* _initialize_leader_replication: an object already there is kept.        *)
InitializeReplication(i, repl, lg) ==
    IF repl = NoReplication THEN LeaderReplication(i, lg) ELSE repl

KeepIfLeader(repl, s) == IF s.role = Leader THEN repl ELSE NoReplication

InitialDisk ==
    [current_term |-> 0, voted_for |-> None, commit_index |-> 0,
     log |-> EmptyLog, snapshot |-> InitialSnapshot]

(* Wrong forms of SaveState, one for each field it could miss.             *)
SaveStateNoTerm(d, s) ==
    [d EXCEPT !.voted_for = s.voted_for, !.commit_index = s.commit_index]
SaveStateNoVote(d, s) ==
    [d EXCEPT !.current_term = s.current_term, !.commit_index = s.commit_index]
SaveStateNoCommit(d, s) ==
    [d EXCEPT !.current_term = s.current_term, !.voted_for = s.voted_for]

SaveState(d, s) ==
    [d EXCEPT !.current_term = s.current_term, !.voted_for = s.voted_for,
              !.commit_index = s.commit_index]

(* Entries of submit_commands that wait for replicate_log to return.       *)
NoBatch == [first |-> 0, entries |-> <<>>]

-----------------------------------------------------------------------------
(* Calls.  st: "sent" the request is on its way, "answered" the handler    *)
(* ran and the response is on its way, "late" the caller gave up but the   *)
(* request may still reach the callee (HTTPTransport's 0.2 s timeout does  *)
(* not recall it).  Only HTTP carries calls: none is delivered twice.      *)

NoResponse == [term |-> 0, ok |-> FALSE]

Call(src, dst, req) ==
    [src |-> src, dst |-> dst, req |-> req, st |-> "sent", resp |-> NoResponse]

RoomFor(calls) == Cardinality(rpcs \cup calls) <= MaxCalls

CallsOf(i, kinds) ==
    {c \in rpcs : c.src = i /\ c.st # "late" /\ c.req.kind \in kinds}

Deliverable(c, kind) == c.req.kind = kind /\ c.st # "answered" /\ c.dst \in up

Answer(c, term, ok) ==
    rpcs' = (rpcs \ {c}) \cup
            (IF c.st = "late" THEN {}
             ELSE {[c EXCEPT !.st = "answered",
                             !.resp = [term |-> term, ok |-> ok]]})

(* The caller stops waiting for calls: an answer is lost, a request is     *)
(* lost or stays under way.                                                *)
AbandonAfter(calls, done) ==
    \E late \in SUBSET {c \in calls \ done : c.st = "sent"} :
        /\ Cardinality(late \cup {c \in rpcs : c.st = "late"}) <= MaxLate
        /\ rpcs' = (rpcs \ (calls \cup done))
                      \cup {[c EXCEPT !.st = "late"] : c \in late}

Abandon(calls) == AbandonAfter(calls, {})

-----------------------------------------------------------------------------
(* Elections: tick, vote.py, election.py, election_trigger.py.             *)

RequestVote(s, lg) ==
    [kind |-> "RequestVote", term |-> s.current_term,
     last_log_index |-> LastIndex(lg), last_log_term |-> LastTerm(lg)]

RecordElected(i, s) ==
    elected' = IF s.role = Leader
               THEN elected \cup {<<s.current_term, i>>} ELSE elected

(* The first half of tick, when the timer has expired.  run_raft_iteration *)
(* calls tick only for a node that does not lead, and the next tick waits  *)
(* for the calls of this one.                                              *)
StartElection(i) ==
    /\ i \in up
    /\ state[i].role # Leader
    /\ state[i].current_term < MaxTerm
    /\ CallsOf(i, {"RequestVote"}) = {}
    /\ LET s == PromoteIfQuorum(BecomeCandidate(state[i], i), i) IN
       /\ state' = [state EXCEPT ![i] = s]
       /\ disk' = [disk EXCEPT ![i] = SaveState(@, s)]
       /\ replication' = [replication EXCEPT ![i] =
              IF s.role = Leader THEN InitializeReplication(i, @, log[i]) ELSE @]
       /\ LET asked == IF s.role = Leader THEN {} ELSE Node \ {i}
              calls == {Call(i, j, RequestVote(s, log[i])) : j \in asked}
          IN RoomFor(calls) /\ rpcs' = rpcs \cup calls
       /\ RecordElected(i, s)
    /\ UNCHANGED <<up, log, snapshot, store, transfer_term, pending,
                   committed, acked>>

(* Wrong form of Grants: the vote already given is not looked at.          *)
GrantsTwice(s, r, candidate, lg) ==
    /\ r.term = s.current_term
    /\ UpToDate(r.last_log_index, r.last_log_term, LastIndex(lg), LastTerm(lg))

(* Wrong form of Grants: the candidate's log is not looked at.             *)
GrantsAnyLog(s, r, candidate, lg) ==
    r.term = s.current_term /\ s.voted_for \in {None, candidate}

(* vote.handle_request_vote, once a newer term has been adopted: s then    *)
(* has a later term than a stale request and the same as any other.        *)
Grants(s, r, candidate, lg) ==
    /\ r.term = s.current_term
    /\ s.voted_for \in {None, candidate}
    /\ UpToDate(r.last_log_index, r.last_log_term, LastIndex(lg), LastTerm(lg))

HandleRequestVote(c) ==
    /\ Deliverable(c, "RequestVote")
    /\ LET i == c.dst
           r == c.req
           s == IF r.term > state[i].current_term
                THEN BecomeFollower(state[i], r.term, None) ELSE state[i]
           granted == Grants(s, r, c.src, log[i])
           t == IF granted THEN [s EXCEPT !.voted_for = c.src] ELSE s
       IN /\ state' = [state EXCEPT ![i] = t]
          /\ disk' = [disk EXCEPT ![i] = SaveState(@, t)]
          /\ replication' = [replication EXCEPT ![i] = KeepIfLeader(@, t)]
          /\ Answer(c, t.current_term, granted)
    /\ UNCHANGED <<up, log, snapshot, store, transfer_term, pending, history>>

(* The second half of tick, once per response.  When the node is no longer *)
(* the candidate that asked, tick returns and drops its other calls.       *)
Answered(c, kinds) == c.st = "answered" /\ c.req.kind \in kinds

StillCandidate(c) == /\ state[c.src].role = Candidate
                     /\ state[c.src].current_term = c.req.term

VoteAfterElection(c) ==
    /\ Answered(c, {"RequestVote"})
    /\ ~StillCandidate(c)
    /\ Abandon(CallsOf(c.src, {"RequestVote"}))
    /\ UNCHANGED <<up, memory, disk, history>>

VoteFromNewerTerm(c) ==
    /\ Answered(c, {"RequestVote"})
    /\ StillCandidate(c)
    /\ c.resp.term > state[c.src].current_term
    /\ LET i == c.src
           s == BecomeFollower(state[i], c.resp.term, None)
       IN /\ state' = [state EXCEPT ![i] = s]
          /\ disk' = [disk EXCEPT ![i] = SaveState(@, s)]
          /\ replication' = [replication EXCEPT ![i] = NoReplication]
          /\ Abandon(CallsOf(i, {"RequestVote"}))
    /\ UNCHANGED <<up, log, snapshot, store, transfer_term, pending, history>>

RecordVote(c) ==
    /\ Answered(c, {"RequestVote"})
    /\ StillCandidate(c)
    /\ c.resp.term <= state[c.src].current_term
    /\ LET i == c.src
           counts == c.resp.ok /\ c.resp.term = state[i].current_term
           s == PromoteIfQuorum(
                    [state[i] EXCEPT !.votes =
                        IF counts THEN @ \cup {c.dst} ELSE @], i)
       IN /\ state' = [state EXCEPT ![i] = s]
          /\ IF s.role = Leader
             THEN /\ replication' = [replication EXCEPT ![i] =
                                        InitializeReplication(i, @, log[i])]
                  /\ Abandon(CallsOf(i, {"RequestVote"}))
             ELSE rpcs' = rpcs \ {c} /\ UNCHANGED replication
          /\ RecordElected(i, s)
    /\ UNCHANGED <<up, log, snapshot, store, transfer_term, pending, disk,
                   committed, acked>>

-----------------------------------------------------------------------------
(* Replication, the leader's side: _replicate_to_follower and              *)
(* replicate_log.  One worker per follower, one outstanding call each; the *)
(* loop around the worker and the rounds that start it again are the       *)
(* freedom to send whenever no call is outstanding.                        *)

AppendKinds == {"AppendEntries", "InstallSnapshot"}

AppendEntries(i, f) ==
    LET next == replication[i].next_index[f]
    IN [kind |-> "AppendEntries", term |-> state[i].current_term,
        prev_log_index |-> next - 1,
        prev_log_term |-> TermAt(log[i], next - 1),
        entries |-> EntriesFrom(log[i], next),
        leader_commit |-> state[i].commit_index]

InstallSnapshot(i) ==
    [kind |-> "InstallSnapshot", term |-> state[i].current_term,
     index |-> snapshot[i].index, index_term |-> snapshot[i].term,
     kv |-> snapshot[i].state]

NeedsSnapshot(i, f) == replication[i].next_index[f] <= log[i].base

(* Building the request raises when the snapshot does not match the log's  *)
(* base or the previous entry is unknown.                                  *)
CanBuildRequest(i, f) ==
    IF NeedsSnapshot(i, f)
    THEN snapshot[i].index = log[i].base /\ snapshot[i].term = log[i].bterm
    ELSE TermAt(log[i], replication[i].next_index[f] - 1) # NoTerm

Leads(i) == i \in up /\ state[i].role = Leader /\ replication[i] # NoReplication

SendToFollower(i, f) ==
    /\ Leads(i)
    /\ f # i
    /\ \A c \in CallsOf(i, AppendKinds) : c.dst # f
    /\ CanBuildRequest(i, f)
    /\ LET call == Call(i, f, IF NeedsSnapshot(i, f) THEN InstallSnapshot(i)
                                                     ELSE AppendEntries(i, f))
       IN RoomFor({call}) /\ rpcs' = rpcs \cup {call}
    /\ UNCHANGED <<up, memory, disk, history>>

(* An answer counts only for a node that still leads in the request's term. *)
StillLeader(c) == Leads(c.src) /\ state[c.src].current_term = c.req.term

AnswerAfterLeadership(c) ==
    /\ Answered(c, AppendKinds)
    /\ ~StillLeader(c)
    /\ rpcs' = rpcs \ {c}
    /\ UNCHANGED <<up, memory, disk, history>>

AnswerFromNewerTerm(c) ==
    /\ Answered(c, AppendKinds)
    /\ StillLeader(c)
    /\ c.resp.term > state[c.src].current_term
    /\ LET i == c.src
           s == BecomeFollower(state[i], c.resp.term, None)
       IN /\ state' = [state EXCEPT ![i] = s]
          /\ disk' = [disk EXCEPT ![i] = SaveState(@, s)]
          /\ replication' = [replication EXCEPT ![i] = NoReplication]
    /\ rpcs' = rpcs \ {c}
    /\ UNCHANGED <<up, log, snapshot, store, transfer_term, pending, history>>

(* Wrong form of RecordSuccess: next_index one too far.                    *)
RecordSuccessTooFar(repl, f, index) ==
    LET match == Max({repl.match_index[f], index})
    IN [repl EXCEPT !.match_index[f] = match, !.next_index[f] = match + 2]

(* record_success and record_snapshot_success.                             *)
RecordSuccess(repl, f, index) ==
    LET match == Max({repl.match_index[f], index})
    IN [repl EXCEPT !.match_index[f] = match, !.next_index[f] = match + 1]

(* Wrong form of RecordFailure: the same request is sent again.            *)
RecordFailureStays(repl, f) == repl

RecordFailure(repl, f) ==
    [repl EXCEPT !.next_index[f] = Max({1, @ - 1})]

(* Wrong form of ReplicatedBy: the leader's log when the answer arrives.   *)
LeaderLastIndex(c) == LastIndex(log[c.src])

(* What a successful call has brought to the follower.                     *)
ReplicatedBy(c) ==
    IF c.req.kind = "InstallSnapshot" THEN c.req.index
    ELSE c.req.prev_log_index + Len(c.req.entries)

AnswerToLeader(c) ==
    /\ Answered(c, AppendKinds)
    /\ StillLeader(c)
    /\ c.resp.term <= state[c.src].current_term
    /\ replication' = [replication EXCEPT ![c.src] =
           IF c.resp.ok THEN RecordSuccess(@, c.dst, ReplicatedBy(c))
           ELSE IF c.req.kind = "AppendEntries" THEN RecordFailure(@, c.dst)
           ELSE @]
    /\ rpcs' = rpcs \ {c}
    /\ UNCHANGED <<up, state, log, snapshot, store, transfer_term, pending,
                   disk, history>>

(* Wrong form of QuorumIndex: the quorum position is one too low.          *)
LeaderIndex(i) == LastIndex(log[i])

(* advance_commit_index sorts the positions of all members: the candidate  *)
(* is the highest one a majority has reached.                              *)
QuorumIndex(i) ==
    LET Holds(index) == {i} \cup {f \in Node \ {i} :
                                   replication[i].match_index[f] >= index}
    IN Max({index \in 0..LastIndex(log[i]) : Holds(index) \in Quorum})

(* Wrong form of CommitCandidate: entries of earlier terms are committed   *)
(* by counting replicas.                                                   *)
CommitCandidateAnyTerm(i) == Max({QuorumIndex(i), state[i].commit_index})

CommitCandidate(i) ==
    LET index == QuorumIndex(i)
    IN IF /\ index > state[i].commit_index
          /\ TermAt(log[i], index) = state[i].current_term
       THEN index ELSE state[i].commit_index

(* The end of replicate_log.  _replication_lock keeps it out of a transfer. *)
AdvanceCommit(i) ==
    /\ Leads(i)
    /\ transfer_term[i] = 0
    /\ LET index == CommitCandidate(i)
           s == [state[i] EXCEPT !.commit_index = index, !.last_applied = index]
           new == SubSeq(log[i].entries, Len(committed) + 1 - log[i].base,
                                         index - log[i].base)
       IN /\ index > state[i].commit_index
          /\ state' = [state EXCEPT ![i] = s]
          /\ disk' = [disk EXCEPT ![i] = SaveState(@, s)]
          /\ store' = [store EXCEPT ![i] = ApplyCommitted(
                          @, log[i], state[i].last_applied, index)]
          /\ committed' = committed \o
                [n \in 1..Len(new) |-> [entry |-> new[n], by |-> s.current_term]]
    /\ UNCHANGED <<up, log, snapshot, replication, transfer_term, pending,
                   rpcs, elected, acked>>

-----------------------------------------------------------------------------
(* Replication, the follower's side.                                       *)

(* Wrong form of Accepts: the term of the previous entry is not compared.  *)
AcceptsAnyTerm(lg, r) == TermAt(lg, r.prev_log_index) # NoTerm

(* replication.handle_append_entries on a request that is not stale:       *)
(* update_follower_commit never looks beyond what the log holds.           *)
Accepts(lg, r) == TermAt(lg, r.prev_log_index) = r.prev_log_term

FollowerCommit(s, lg, r) ==
    IF r.leader_commit > s.commit_index
    THEN Min({r.leader_commit, LastIndex(lg)}) ELSE s.commit_index

HandleAppendEntries(c) ==
    /\ Deliverable(c, "AppendEntries")
    /\ LET i == c.dst
           r == c.req
           s == state[i]
       IN IF r.term < s.current_term
          THEN /\ Answer(c, s.current_term, FALSE)
               /\ replication' = [replication EXCEPT ![i] = KeepIfLeader(@, s)]
               /\ UNCHANGED <<state, log, store, disk>>
          ELSE LET ok == Accepts(log[i], r)
                   lg == IF ok THEN Synchronize(log[i], r.prev_log_index, r.entries)
                               ELSE log[i]
                   commit == IF ok THEN FollowerCommit(s, lg, r)
                                   ELSE s.commit_index
                   t == [BecomeFollower(s, r.term, c.src) EXCEPT
                           !.commit_index = commit,
                           !.last_applied = IF commit > @ THEN commit ELSE @]
               IN /\ state' = [state EXCEPT ![i] = t]
                  /\ log' = [log EXCEPT ![i] = lg]
                  /\ store' = [store EXCEPT ![i] = ApplyCommitted(
                                  @, lg, s.last_applied, commit)]
                  /\ disk' = [disk EXCEPT ![i] =
                                  [SaveState(@, t) EXCEPT !.log = lg]]
                  /\ replication' = [replication EXCEPT ![i] = NoReplication]
                  /\ Answer(c, t.current_term, ok)
    /\ UNCHANGED <<up, snapshot, transfer_term, pending, history>>

(* handle_install_snapshot.  The snapshot is installed unless it is older  *)
(* than the one the follower has, or contradicts what the follower has     *)
(* committed; an older one is acknowledged all the same.                   *)
OlderSnapshot(i, r) == r.index < snapshot[i].index

Installed(i, r) == InstallBoundary(log[i], r.index, r.index_term)

CommitAfterInstall(i, r) == Max({state[i].commit_index, r.index})

CanInstall(i, r) ==
    /\ ~OlderSnapshot(i, r)
    /\ \/ state[i].commit_index <= r.index
       \/ TermAt(log[i], r.index) = r.index_term
    /\ BoundaryFits(log[i], r.index, r.index_term)
    /\ CommitAfterInstall(i, r) <= LastIndex(Installed(i, r))

SnapshotOf(r) == [index |-> r.index, term |-> r.index_term, state |-> r.kv]

RejectSnapshot(c) ==
    /\ Deliverable(c, "InstallSnapshot")
    /\ LET i == c.dst
           r == c.req
           stale == r.term < state[i].current_term
           s == IF stale THEN state[i] ELSE BecomeFollower(state[i], r.term, c.src)
       IN /\ stale \/ ~CanInstall(i, r)
          /\ state' = [state EXCEPT ![i] = s]
          /\ disk' = [disk EXCEPT ![i] = SaveState(@, s)]
          /\ replication' = [replication EXCEPT ![i] =
                                 IF stale THEN @ ELSE NoReplication]
          /\ Answer(c, s.current_term, ~stale /\ OlderSnapshot(i, r))
    /\ UNCHANGED <<up, log, snapshot, store, transfer_term, pending, history>>

HandleInstallSnapshot(c) ==
    /\ Deliverable(c, "InstallSnapshot")
    /\ LET i == c.dst
           r == c.req
           lg == Installed(i, r)
           commit == CommitAfterInstall(i, r)
           s == [BecomeFollower(state[i], r.term, c.src) EXCEPT
                   !.commit_index = commit, !.last_applied = commit]
       IN /\ r.term >= state[i].current_term
          /\ CanInstall(i, r)
          /\ state' = [state EXCEPT ![i] = s]
          /\ log' = [log EXCEPT ![i] = lg]
          /\ snapshot' = [snapshot EXCEPT ![i] = SnapshotOf(r)]
          /\ store' = [store EXCEPT ![i] =
                          ApplyCommitted(r.kv, lg, r.index, commit)]
          /\ disk' = [disk EXCEPT ![i] =
                         [SaveState(@, s) EXCEPT !.log = lg,
                                                 !.snapshot = SnapshotOf(r)]]
          /\ replication' = [replication EXCEPT ![i] = NoReplication]
          /\ Answer(c, s.current_term, TRUE)
    /\ UNCHANGED <<up, transfer_term, pending, history>>

-----------------------------------------------------------------------------
(* Clients: submit_commands and its answer.                                *)

(* Wrong form of CanSubmit: a leader that transfers takes new writes.      *)
CanSubmitInTransfer(i, commands) ==
    /\ i \in up
    /\ state[i].role = Leader
    /\ pending[i] = NoBatch
    /\ LastIndex(log[i]) + Len(commands) <= MaxIndex

CanSubmit(i, commands) ==
    /\ i \in up
    /\ state[i].role = Leader
    /\ transfer_term[i] = 0
    /\ pending[i] = NoBatch
    /\ LastIndex(log[i]) + Len(commands) <= MaxIndex

NewEntries(i, commands) ==
    [k \in 1..Len(commands) |->
        [term |-> state[i].current_term, command |-> commands[k]]]

Submit(i, commands) ==
    /\ CanSubmit(i, commands)
    /\ LET lg == AppendAll(log[i], NewEntries(i, commands))
       IN /\ log' = [log EXCEPT ![i] = lg]
          /\ disk' = [disk EXCEPT ![i].log = lg]
          /\ pending' = [pending EXCEPT ![i] =
                            [first |-> LastIndex(log[i]) + 1,
                             entries |-> NewEntries(i, commands)]]
          /\ replication' = [replication EXCEPT ![i] =
                                InitializeReplication(i, @, lg)]
    /\ UNCHANGED <<up, state, snapshot, store, transfer_term, rpcs, history>>

(* Wrong form of Acknowledged: every entry of a leader's batch counts.     *)
AcknowledgedByLeader(i, k) == Leads(i)

Acknowledged(i, k) == Leads(i) /\ state[i].commit_index >= pending[i].first + k - 1

(* submit_commands returns once its replication round is over.  A node     *)
(* that does not lead then reports no success (or raises NotLeaderError).  *)
SubmitReturns(i) ==
    /\ i \in up
    /\ pending[i] # NoBatch
    /\ acked' = acked \cup
          {[index |-> pending[i].first + k - 1, entry |-> pending[i].entries[k],
            leader_term |-> state[i].current_term] :
              k \in {n \in 1..Len(pending[i].entries) : Acknowledged(i, n)}}
    /\ pending' = [pending EXCEPT ![i] = NoBatch]
    /\ UNCHANGED <<up, state, log, snapshot, store, replication, transfer_term,
                   disk, rpcs, elected, committed>>

-----------------------------------------------------------------------------
(* Leadership transfer: transfer_leadership and handle_timeout_now.        *)

BeginTransfer(i) ==
    /\ Leads(i)
    /\ Node # {i}
    /\ transfer_term[i] = 0
    /\ transfer_term' = [transfer_term EXCEPT ![i] = state[i].current_term]
    /\ UNCHANGED <<up, state, log, snapshot, store, replication, pending, disk,
                   rpcs, history>>

LeadsTransfer(i) ==
    /\ transfer_term[i] # 0
    /\ Leads(i)
    /\ state[i].current_term = transfer_term[i]

(* Among the followers that have the whole log, any may have answered the  *)
(* catch-up round in time.                                                 *)
SendTimeoutNow(i, f) ==
    /\ LeadsTransfer(i)
    /\ f # i
    /\ CallsOf(i, {"TimeoutNow"}) = {}
    /\ replication[i].match_index[f] >= LastIndex(log[i])
    /\ LET call == Call(i, f, [kind |-> "TimeoutNow", term |-> transfer_term[i]])
       IN RoomFor({call}) /\ rpcs' = rpcs \cup {call}
    /\ UNCHANGED <<up, memory, disk, history>>

(* An accepted TimeoutNow expires the election timer, so the election that *)
(* may start at any time here starts at once in the code.  Replication     *)
(* state survives a step-down made here.                                   *)
HandleTimeoutNow(c) ==
    /\ Deliverable(c, "TimeoutNow")
    /\ LET i == c.dst
           s == IF c.req.term > state[i].current_term
                THEN BecomeFollower(state[i], c.req.term, c.src) ELSE state[i]
       IN /\ state' = [state EXCEPT ![i] = s]
          /\ disk' = [disk EXCEPT ![i] = SaveState(@, s)]
          /\ Answer(c, s.current_term, /\ c.req.term = s.current_term
                                       /\ s.role = Follower
                                       /\ s.leader_id = c.src)
    /\ UNCHANGED <<up, log, snapshot, store, replication, transfer_term,
                   pending, history>>

(* The leader steps down when the target accepted or knows a newer term.   *)
TransferAnswered(c) ==
    /\ Answered(c, {"TimeoutNow"})
    /\ LET i == c.src
           s == IF ~LeadsTransfer(i) THEN state[i]
                ELSE IF c.resp.term > state[i].current_term
                     THEN BecomeFollower(state[i], c.resp.term, None)
                ELSE IF c.resp.ok
                     THEN BecomeFollower(state[i], transfer_term[i], None)
                ELSE state[i]
       IN /\ state' = [state EXCEPT ![i] = s]
          /\ disk' = [disk EXCEPT ![i] = SaveState(@, s)]
          /\ replication' = [replication EXCEPT ![i] =
                                IF s = state[i] THEN @ ELSE NoReplication]
          /\ transfer_term' = [transfer_term EXCEPT ![i] = 0]
    /\ rpcs' = rpcs \ {c}
    /\ UNCHANGED <<up, log, snapshot, store, pending, history>>

(* No follower is eligible, or leadership was lost during the catch-up.    *)
AbortTransfer(i) ==
    /\ i \in up
    /\ transfer_term[i] # 0
    /\ CallsOf(i, {"TimeoutNow"}) = {}
    /\ transfer_term' = [transfer_term EXCEPT ![i] = 0]
    /\ UNCHANGED <<up, state, log, snapshot, store, replication, pending, disk,
                   rpcs, history>>

-----------------------------------------------------------------------------
(* create_snapshot.                                                        *)

SnapshotNow(i) ==
    LET index == Min({state[i].commit_index, state[i].last_applied})
    IN [index |-> index, term |-> TermAt(log[i], index), state |-> store[i]]

(* Otherwise there is nothing to compact, or the boundary is missing.      *)
Compactable(i) ==
    /\ i \in up
    /\ SnapshotNow(i).index > log[i].base
    /\ SnapshotNow(i).term # NoTerm

CreateSnapshot(i) ==
    /\ Compactable(i)
    /\ LET snap == SnapshotNow(i)
           lg == CompactThrough(log[i], snap.index)
       IN /\ snapshot' = [snapshot EXCEPT ![i] = snap]
          /\ log' = [log EXCEPT ![i] = lg]
          /\ disk' = [disk EXCEPT ![i] =
                [SaveState(@, state[i]) EXCEPT !.log = lg, !.snapshot = snap]]
    /\ UNCHANGED <<up, state, store, replication, transfer_term, pending, rpcs,
                   history>>

-----------------------------------------------------------------------------
(* Crashes.  A process can die between two steps or inside a critical      *)
(* section that writes more than once; the writes already made stay.  Its  *)
(* own calls die with it.  While it is down, the variables of its memory   *)
(* show what load_state, load_snapshot and load_log will read.             *)

Loaded(d) ==
    [InitialState EXCEPT !.current_term = d.current_term,
                         !.voted_for = d.voted_for,
                         !.commit_index = d.commit_index]

Dies(i, d, done) ==
    /\ up' = up \ {i}
    /\ disk' = [disk EXCEPT ![i] = d]
    /\ state' = [state EXCEPT ![i] = Loaded(d)]
    /\ log' = [log EXCEPT ![i] = d.log]
    /\ snapshot' = [snapshot EXCEPT ![i] = d.snapshot]
    /\ store' = [store EXCEPT ![i] = EmptyStore]
    /\ replication' = [replication EXCEPT ![i] = NoReplication]
    /\ transfer_term' = [transfer_term EXCEPT ![i] = 0]
    /\ pending' = [pending EXCEPT ![i] = NoBatch]
    /\ AbandonAfter({c \in rpcs : c.src = i /\ c.st # "late"}, done)
    /\ UNCHANGED history

Crash(i) == i \in up /\ Dies(i, disk[i], {})

(* After some of the journal's records, each of them whole, and before     *)
(* raft-state.json.                                                        *)
CrashInAppendEntries(c) ==
    /\ Deliverable(c, "AppendEntries")
    /\ c.req.term >= state[c.dst].current_term
    /\ Accepts(log[c.dst], c.req)
    /\ LET lg == Synchronize(log[c.dst], c.req.prev_log_index, c.req.entries)
       IN \E written \in JournalPrefixes(log[c.dst], lg) \ {log[c.dst]} :
            Dies(c.dst, [disk[c.dst] EXCEPT !.log = written], {c})

(* After raft-snapshot.json, or after raft-log.json as well.               *)
CrashInInstallSnapshot(c) ==
    /\ Deliverable(c, "InstallSnapshot")
    /\ c.req.term >= state[c.dst].current_term
    /\ CanInstall(c.dst, c.req)
    /\ \E written \in {log[c.dst], Installed(c.dst, c.req)} :
          Dies(c.dst, [disk[c.dst] EXCEPT !.snapshot = SnapshotOf(c.req),
                                          !.log = written], {c})

(* Wrong form of CrashInCreateSnapshot: the journal is written first.      *)
CrashAfterCompaction(i) ==
    /\ Compactable(i)
    /\ Dies(i, [disk[i] EXCEPT !.log = CompactThrough(@, SnapshotNow(i).index)], {})

(* After raft-snapshot.json, before the compacted journal.                 *)
CrashInCreateSnapshot(i) ==
    /\ Compactable(i)
    /\ Dies(i, [disk[i] EXCEPT !.snapshot = SnapshotNow(i)], {})

(* After some of the batch's journal records, each of them whole.          *)
CrashInSubmit(i, commands) ==
    /\ CanSubmit(i, commands)
    /\ Dies(i, [disk[i] EXCEPT !.log = AppendAll(@, NewEntries(i, commands))], {})

(* install_snapshot_boundary, when the snapshot is ahead of the journal.   *)
RecoveredLog(d) ==
    IF d.snapshot.index > d.log.base
    THEN InstallBoundary(d.log, d.snapshot.index, d.snapshot.term) ELSE d.log

(* Wrong form of RecoveredCommit: the snapshot does not raise it.          *)
PersistedCommit(d) == d.commit_index

RecoveredCommit(d) == Max({d.commit_index, d.snapshot.index})

(* The checks of RaftNode.__init__ on what load_state, load_snapshot and   *)
(* load_log returned: it raises RuntimeError when this is false.  load_log *)
(* itself raises RaftPersistenceError on a journal record that was cut in  *)
(* the middle (persistence.py:516): that journal is in RaftJournal, while  *)
(* the crashes of this module leave whole records.                         *)
CanRestart(d) ==
    /\ d.snapshot.index >= d.log.base
    /\ d.snapshot.index = d.log.base => d.snapshot.term = d.log.bterm
    /\ RecoveredCommit(d) <= LastIndex(RecoveredLog(d))

Restart(i) ==
    /\ i \notin up
    /\ CanRestart(disk[i])
    /\ up' = up \cup {i}
    /\ LET lg == RecoveredLog(disk[i])
           commit == RecoveredCommit(disk[i])
           s == [Loaded(disk[i]) EXCEPT !.commit_index = commit,
                                        !.last_applied = commit]
           snap == disk[i].snapshot
       IN /\ state' = [state EXCEPT ![i] = s]
          /\ log' = [log EXCEPT ![i] = lg]
          /\ store' = [store EXCEPT ![i] =
                          ApplyCommitted(snap.state, lg, snap.index, commit)]
          /\ disk' = [disk EXCEPT ![i] = [SaveState(@, s) EXCEPT !.log = lg]]
    /\ UNCHANGED <<snapshot, replication, transfer_term, pending, rpcs, history>>

-----------------------------------------------------------------------------
(* Transport failures: TransportError at the caller, before or after the   *)
(* callee handled the request.                                             *)

CallFails(c) ==
    /\ c.st # "late"
    /\ IF c.req.kind = "RequestVote" /\ ~StillCandidate(c)
       THEN Abandon(CallsOf(c.src, {"RequestVote"})) ELSE Abandon({c})
    /\ transfer_term' = IF c.req.kind = "TimeoutNow"
                        THEN [transfer_term EXCEPT ![c.src] = 0]
                        ELSE transfer_term
    /\ UNCHANGED <<up, state, log, snapshot, store, replication, pending, disk,
                   history>>

LateRequestLost(c) ==
    /\ c.st = "late"
    /\ rpcs' = rpcs \ {c}
    /\ UNCHANGED <<up, memory, disk, history>>

-----------------------------------------------------------------------------
Init ==
    /\ up = Node
    /\ state = [i \in Node |-> InitialState]
    /\ log = [i \in Node |-> EmptyLog]
    /\ snapshot = [i \in Node |-> InitialSnapshot]
    /\ store = [i \in Node |-> EmptyStore]
    /\ replication = [i \in Node |-> NoReplication]
    /\ transfer_term = [i \in Node |-> 0]
    /\ pending = [i \in Node |-> NoBatch]
    /\ disk = [i \in Node |-> InitialDisk]
    /\ rpcs = {}
    /\ elected = {}
    /\ committed = <<>>
    /\ acked = {}

Batch == UNION {[1..n -> Command] : n \in 1..MaxBatch}

ElectionStep ==
    \/ \E i \in Node : StartElection(i)
    \/ \E c \in rpcs : \/ HandleRequestVote(c)
                       \/ VoteAfterElection(c)
                       \/ VoteFromNewerTerm(c)
                       \/ RecordVote(c)

ReplicationStep ==
    \/ \E i, f \in Node : SendToFollower(i, f)
    \/ \E i \in Node : AdvanceCommit(i)
    \/ \E c \in rpcs : \/ HandleAppendEntries(c)
                       \/ AnswerAfterLeadership(c)
                       \/ AnswerFromNewerTerm(c)
                       \/ AnswerToLeader(c)

ClientStep ==
    \E i \in Node : SubmitReturns(i) \/ \E b \in Batch : Submit(i, b)

SnapshotStep ==
    \/ \E i \in Node : CreateSnapshot(i)
    \/ \E c \in rpcs : HandleInstallSnapshot(c) \/ RejectSnapshot(c)

TransferStep ==
    \/ \E i \in Node : BeginTransfer(i) \/ AbortTransfer(i)
    \/ \E i, f \in Node : SendTimeoutNow(i, f)
    \/ \E c \in rpcs : HandleTimeoutNow(c) \/ TransferAnswered(c)

CrashStep ==
    \/ \E i \in Node : Crash(i) \/ CrashInCreateSnapshot(i) \/ Restart(i)
    \/ \E i \in Node : \E b \in Batch : CrashInSubmit(i, b)
    \/ \E c \in rpcs : CrashInAppendEntries(c) \/ CrashInInstallSnapshot(c)

LossStep ==
    \E c \in rpcs : CallFails(c) \/ LateRequestLost(c)

Next == \/ ElectionStep \/ ReplicationStep \/ ClientStep \/ SnapshotStep
        \/ TransferStep \/ CrashStep \/ LossStep

Spec == Init /\ [][Next]_vars

-----------------------------------------------------------------------------
(* Types.                                                                  *)

EntryType == [term : Nat, command : Command]
LogType == [base : Nat, bterm : Nat, entries : Seq(EntryType)]
StoreType == [Key -> {Absent} \cup [present : {TRUE}, value : Value]]
SnapshotType == [index : Nat, term : Nat, state : StoreType]

StateType ==
    [current_term : Nat, voted_for : Node \cup {None},
     leader_id : Node \cup {None}, role : {Follower, Candidate, Leader},
     commit_index : Nat, last_applied : Nat, votes : SUBSET Node]

DiskType ==
    [current_term : Nat, voted_for : Node \cup {None}, commit_index : Nat,
     log : LogType, snapshot : SnapshotType]

ReplicationType(i) ==
    [next_index : [Node \ {i} -> Nat], match_index : [Node \ {i} -> Nat]]

RequestType ==
    [kind : {"RequestVote"}, term : Nat,
     last_log_index : Nat, last_log_term : Nat]
    \cup [kind : {"AppendEntries"}, term : Nat, prev_log_index : Nat,
          prev_log_term : Nat, entries : Seq(EntryType), leader_commit : Nat]
    \cup [kind : {"InstallSnapshot"}, term : Nat, index : Nat,
          index_term : Nat, kv : StoreType]
    \cup [kind : {"TimeoutNow"}, term : Nat]

CallType ==
    [src : Node, dst : Node, req : RequestType,
     st : {"sent", "answered", "late"}, resp : [term : Nat, ok : BOOLEAN]]

(* Every variable has its type, and an object exists for a leader only     *)
(* where the code creates one.                                             *)
TypeOK ==
    /\ up \subseteq Node
    /\ state \in [Node -> StateType]
    /\ log \in [Node -> LogType]
    /\ snapshot \in [Node -> SnapshotType]
    /\ store \in [Node -> StoreType]
    /\ replication = [i \in Node |-> replication[i]]
    /\ \A i \in Node : replication[i] \in {NoReplication} \cup ReplicationType(i)
    /\ transfer_term \in [Node -> Nat]
    /\ pending \in [Node -> [first : Nat, entries : Seq(EntryType)]]
    /\ disk \in [Node -> DiskType]
    /\ rpcs \subseteq CallType
    /\ elected \subseteq Nat \X Node
    /\ committed \in Seq([entry : EntryType, by : Nat])
    /\ acked \subseteq [index : Nat, entry : EntryType, leader_term : Nat]

-----------------------------------------------------------------------------
(* Safety.                                                                 *)

(* At most one node is ever promoted in a term (election.py), across       *)
(* restarts and late answers.                                              *)
ElectionSafety ==
    \A e, f \in elected : e[1] = f[1] => e[2] = f[2]

(* A term never goes back and a vote, once given, is not taken back within *)
(* its term, whatever was or was not on disk when the process died         *)
(* (handle_request_vote persists before it answers).                       *)
VoteSticky ==
    [][\A i \in Node :
         /\ state'[i].current_term >= state[i].current_term
         /\ state'[i].current_term = state[i].current_term
              => \/ state[i].voted_for = None
                 \/ state'[i].voted_for = state[i].voted_for]_vars

(* Two logs that agree on the term at an index hold the same entries up to *)
(* it, wherever both retain them (the consistency check and the repair     *)
(* loop of replication.py, snapshot boundaries included).                  *)
LogMatching ==
    \A i, j \in Node :
        \A n \in 1..LastIndex(log[i]) :
            (TermAt(log[i], n) # NoTerm /\ TermAt(log[i], n) = TermAt(log[j], n))
            => \A m \in 1..n :
                 Retains(log[i], m) /\ Retains(log[j], m)
                 => EntryAt(log[i], m) = EntryAt(log[j], m)

Holds(lg, n, entry) ==
    \/ n < lg.base
    \/ n = lg.base /\ lg.bterm = entry.term
    \/ Retains(lg, n) /\ EntryAt(lg, n) = entry

(* A leader has every entry committed in its own or an earlier term        *)
(* (is_candidate_log_up_to_date with the commit rule of leader.py).        *)
LeaderCompleteness ==
    \A i \in up : state[i].role = Leader =>
        \A n \in 1..Len(committed) :
            committed[n].by <= state[i].current_term
            => Holds(log[i], n, committed[n].entry)

(* Whoever could win an election has every committed entry, before anybody *)
(* stands: a log that a quorum would vote for holds what was committed     *)
(* (is_candidate_log_up_to_date against the commit rule of leader.py,      *)
(* which counts replicas of the leader's own term only).                   *)
Electable(i) ==
    \E Q \in Quorum : \A j \in Q :
        UpToDate(LastIndex(log[i]), LastTerm(log[i]),
                 LastIndex(log[j]), LastTerm(log[j]))

ElectableHasCommitted ==
    \A i \in Node : Electable(i) =>
        \A n \in 1..Len(committed) : Holds(log[i], n, committed[n].entry)

(* What any node takes for committed is what some leader committed at that *)
(* index: no committed entry is ever replaced.                             *)
CommittedAgree ==
    \A i \in Node :
        /\ state[i].commit_index <= Len(committed)
        /\ \A n \in 1..state[i].commit_index :
              Holds(log[i], n, committed[n].entry)

Replay(n) == ApplyEntries(EmptyStore, [m \in 1..n |-> committed[m].entry])

(* Every store is the committed history applied in order, and so is the    *)
(* state inside every snapshot: after replay at restart, after             *)
(* InstallSnapshot into a node that had applied more or less.              *)
StateMachineSafety ==
    \A i \in Node :
        /\ i \in up => store[i] = Replay(state[i].last_applied)
        /\ snapshot[i].state = Replay(snapshot[i].index)

(* The invariant of docs/raft.md, "last_applied <= commit_index <=         *)
(* log.last_index", with the snapshot below both, on every running node.   *)
AppliedInOrder ==
    \A i \in up :
        /\ snapshot[i].index = log[i].base
        /\ snapshot[i].index <= state[i].last_applied
        /\ state[i].last_applied <= state[i].commit_index
        /\ state[i].commit_index <= LastIndex(log[i])

(* No node forgets that an entry is committed, by a crash at any point of  *)
(* a handler or by a snapshot older than what it has applied.              *)
CommitNeverDecreases ==
    [][\A i \in Node : state'[i].commit_index >= state[i].commit_index]_vars

(* When no journal record was cut in the middle: whenever a process dies,  *)
(* and whichever of a handler's writes and of a batch's journal records it *)
(* has made, RaftNode.__init__ accepts the files it left.  With a record   *)
(* that was cut load_log raises and the node stays down (RaftJournal).     *)
RestartsFromWholeRecords == \A i \in Node : CanRestart(disk[i])

(* Whenever the lock is free, what the node acts on is on disk: an answer  *)
(* that depends on a term, a vote, an entry or a snapshot follows its      *)
(* write (the conditional saves of node.py).                               *)
DurableBeforeAnswer ==
    \A i \in up :
        /\ disk[i].current_term = state[i].current_term
        /\ disk[i].voted_for = state[i].voted_for
        /\ disk[i].commit_index = state[i].commit_index
        /\ disk[i].log = log[i]
        /\ disk[i].snapshot = snapshot[i]

(* A leader can always build the request its progress record asks for: the *)
(* worker never raises (which would poison its future for good).           *)
WorkerNeverRaises ==
    \A i \in up : Leads(i) => \A f \in Node \ {i} : CanBuildRequest(i, f)

(* A leader has no entry of a term beyond its own, though a crash between  *)
(* the journal and raft-state.json leaves a node with such entries.        *)
LeaderTermCoversLog ==
    \A i \in up : state[i].role = Leader
                  => LastTerm(log[i]) <= state[i].current_term

(* No leader of a later term was elected: every acknowledgement a follower *)
(* gave the leader i still binds it.                                       *)
NotSucceeded(i) == \A e \in elected : e[1] <= state[i].current_term

(* While no later leader was elected, match_index is not ahead of what the *)
(* follower has on disk, for every entry that may count towards a commit:  *)
(* up to an entry of the leader's own term, the two logs agree.            *)
(* (Entries of earlier terms are left out, since they need not be there:   *)
(* handle_timeout_now steps a leader down without dropping its progress    *)
(* record, and _initialize_leader_replication takes the old one over.)     *)
MatchIndexTruthful ==
    \A i \in up : Leads(i) /\ NotSucceeded(i) =>
        \A f \in Node \ {i} :
            \A n \in 1..replication[i].match_index[f] :
                TermAt(log[i], n) = state[i].current_term =>
                /\ n <= LastIndex(disk[f].log)
                /\ \A m \in 1..n :
                      Retains(log[i], m)
                      => Holds(disk[f].log, m, EntryAt(log[i], m))

(* Until a later leader is elected, the target of a transfer has all of    *)
(* the log of a leader that has written in its term: what the leader       *)
(* checked before it sent TimeoutNow still holds when it arrives           *)
(* (transfer_leadership blocks new writes).                                *)
TransferTargetCaughtUp ==
    \A c \in rpcs :
        /\ c.req.kind = "TimeoutNow" /\ c.st # "late"
        /\ LeadsTransfer(c.src)
        /\ NotSucceeded(c.src)
        /\ LastTerm(log[c.src]) = c.req.term
        => /\ LastIndex(log[c.src]) <= LastIndex(disk[c.dst].log)
           /\ \A n \in 1..LastIndex(log[c.src]) :
                 Retains(log[c.src], n)
                 => Holds(disk[c.dst].log, n, EntryAt(log[c.src], n))

(* A write that would now be acknowledged, in the term it was submitted    *)
(* in, is committed: the leader compares indexes only, and what it has at  *)
(* that index is the client's entry (submit_commands).                     *)
AnswersInTermAreTrue ==
    \A i \in Node : \A k \in 1..Len(pending[i].entries) :
        LET index == pending[i].first + k - 1
            entry == pending[i].entries[k]
        IN Acknowledged(i, k) /\ state[i].current_term = entry.term
           => index <= Len(committed) /\ committed[index].entry = entry

(* docs/raft.md: "A successful client write means the leader committed     *)
(* that entry."                                                            *)
AckedIsCommitted ==
    \A a \in acked :
        a.index <= Len(committed) /\ committed[a.index].entry = a.entry

============================================================================
