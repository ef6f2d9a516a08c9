------------------------- MODULE RaftElectionProofs -------------------------
(***************************************************************************)
(* First, type correctness of the core, and that what a node acts on is    *)
(* on disk whenever its lock is free, for any number of nodes and any      *)
(* bounds. TypeOK is not inductive. SubSeq is typed only between the base  *)
(* of a log and its last index, so a step that applies or commits entries  *)
(* needs to know that what was applied covers the base                     *)
(* (AppliedAboveBase), that the base and every commit index were           *)
(* committed by some leader (WithinHistory), and that a process that       *)
(* restarts reads what it wrote (Durable).                                 *)
(*                                                                         *)
(* Votes and leaders, for any number of nodes and any bounds: a vote is    *)
(* never taken back within its term (VoteSticky), and a term has at most   *)
(* one leader (ElectionSafety).                                            *)
(*                                                                         *)
(* ElectionSafety is not inductive. A leader is made from answers that     *)
(* were sent earlier, possibly by a voter that has moved to a later term   *)
(* since, or has crashed; the invariant therefore speaks of the evidence   *)
(* of a vote (a granting answer, or a vote a candidate counted): the       *)
(* voter still supports it or has left the term, no voter left evidence    *)
(* for two candidates of one term, and behind every leader there ever was  *)
(* stands a quorum that left none for another.                             *)
(*                                                                         *)
(* Last, what each step does to the role, the term, the log and the        *)
(* progress of one node, and RoleInv: who leads was elected in its term,   *)
(* a candidate was not, and nobody is elected in a term that no node has   *)
(* reached.                                                                *)
(***************************************************************************)
EXTENDS Raft, RaftLogProofs, FiniteSetTheorems

-----------------------------------------------------------------------------
Image(s, lg, snap) ==
    [current_term |-> s.current_term, voted_for |-> s.voted_for,
     commit_index |-> s.commit_index, log |-> lg, snapshot |-> snap]

SaveAll(d, s, lg, snap) == [SaveState(d, s) EXCEPT !.log = lg, !.snapshot = snap]

(* The files hold the state, log and snapshot of every process, dead ones  *)
(* included (their memory shows what they will load).                      *)
Durable == \A i \in Node : disk[i] = Image(state[i], log[i], snapshot[i])

RequestWithin(r, n) ==
    /\ r.kind = "AppendEntries" => r.leader_commit <= n
    /\ r.kind = "InstallSnapshot" => r.index <= n

(* Nothing counts as committed, in a node or in a request, beyond the      *)
(* entries some leader committed.                                          *)
WithinHistory ==
    /\ \A i \in Node : /\ state[i].commit_index <= Len(committed)
                       /\ log[i].base <= Len(committed)
                       /\ snapshot[i].index <= Len(committed)
    /\ \A c \in rpcs : RequestWithin(c.req, Len(committed))

(* Entries below the base are in the store, and commit_index never waits   *)
(* for an entry to be applied.                                             *)
AppliedAboveBase ==
    \A i \in up : /\ log[i].base <= state[i].last_applied
                  /\ state[i].commit_index <= state[i].last_applied

TypeInv == TypeOK /\ Durable /\ WithinHistory /\ AppliedAboveBase

PendingType == [first : Nat, entries : Seq(EntryType)]
ReplicationOrNone(i) == {NoReplication} \cup ReplicationType(i)

-----------------------------------------------------------------------------
(* Operators on the parts of a node.                                       *)

LEMMA LogTypes == LogType = LogOf(Command) /\ EntryType = EntryOf(Command)
<1>. QED  BY DEF LogType, LogOf, EntryType, EntryOf

LEMMA OutcomeType ==
    ASSUME NEW command \in Command
    PROVE  Outcome(command) \in {Absent} \cup [present : {TRUE}, value : Value]
<1>. QED  BY DEF Command, Outcome, Present

LEMMA ApplyEntriesType ==
    ASSUME NEW kv \in StoreType, NEW entries \in Seq(EntryType)
    PROVE  ApplyEntries(kv, entries) \in StoreType
<1>. DEFINE Cell == {Absent} \cup [present : {TRUE}, value : Value]
            Last(k, n) == /\ Writes(entries, n, k)
                          /\ \A m \in (n + 1)..Len(entries) : ~Writes(entries, m, k)
            last(k) == CHOOSE n \in 1..Len(entries) : Last(k, n)
            new(k) == IF \E n \in 1..Len(entries) : Writes(entries, n, k)
                      THEN Outcome(entries[last(k)].command) ELSE kv[k]
<1>0. Len(entries) \in Nat
    BY LenProperties
<1>1. ASSUME NEW k \in Key, \E n \in 1..Len(entries) : Writes(entries, n, k)
      PROVE  last(k) \in 1..Len(entries)
  <2>. DEFINE S == {n \in 1..Len(entries) : Writes(entries, n, k)}
  <2>1. S \in SUBSET (0..Len(entries)) /\ S # {}
      BY <1>0, <1>1
  <2>2. PICK n \in S : \A m \in S : n >= m
    <3>. HIDE DEF S
    <3>. QED  BY <1>0, <2>1, GreatestNat
  <2>3. n \in 1..Len(entries) /\ Last(k, n)
      BY <1>0, <2>2
  <2>. QED  BY <2>3
<1>2. \A k \in Key : new(k) \in Cell
  <2>. SUFFICES ASSUME NEW k \in Key  PROVE new(k) \in Cell
      OBVIOUS
  <2>1. CASE \E n \in 1..Len(entries) : Writes(entries, n, k)
    <3>1. last(k) \in 1..Len(entries)
        BY <1>1, <2>1
    <3>2. entries[last(k)] \in EntryType
        BY <3>1, ElementOfSeq
    <3>3. entries[last(k)].command \in Command
        BY <3>2 DEF EntryType
    <3>4. Outcome(entries[last(k)].command) \in Cell
        BY <3>3, OutcomeType
    <3>. QED  BY <2>1, <3>4
  <2>2. CASE ~\E n \in 1..Len(entries) : Writes(entries, n, k)
      BY <2>2 DEF StoreType
  <2>. QED  BY <2>1, <2>2
<1>3. ApplyEntries(kv, entries) = [k \in Key |-> new(k)]
    BY DEF ApplyEntries
<1>. HIDE DEF new
<1>. QED  BY <1>2, <1>3 DEF StoreType

LEMMA ApplyCommittedType ==
    ASSUME NEW kv \in StoreType, NEW lg \in LogType,
           NEW applied \in Nat, NEW commit \in Nat,
           lg.base <= applied, commit <= applied \/ commit <= LastIndex(lg)
    PROVE  ApplyCommitted(kv, lg, applied, commit) \in StoreType
<1>. DEFINE m == applied + 1 - lg.base
            n == commit - lg.base
<1>1. lg.entries \in Seq(EntryType) /\ lg.base \in Nat
    BY DEF LogType
<1>2. m \in Int /\ n \in Int /\ 1 <= m
    BY <1>1
<1>3. SubSeq(lg.entries, m, n) \in Seq(EntryType)
  <2>1. CASE commit <= LastIndex(lg)
    <3>1. n <= Len(lg.entries)
        BY <1>1, <2>1, LenProperties DEF LastIndex
    <3>. HIDE DEF m, n
    <3>. QED  BY <1>1, <1>2, <3>1, SliceType
  <2>2. CASE commit <= applied
    <3>1. n < m
        BY <1>1, <2>2
    <3>. HIDE DEF m, n
    <3>. QED  BY <1>2, <3>1, SubSeqEmpty, EmptySeq
  <2>. QED  BY <2>1, <2>2
<1>. HIDE DEF m, n
<1>4. ApplyEntries(kv, SubSeq(lg.entries, m, n)) \in StoreType
    BY <1>3, ApplyEntriesType
<1>. QED  BY <1>4 DEF ApplyCommitted, m, n

LEMMA InitialTypes ==
    /\ InitialState \in StateType
    /\ EmptyLog \in LogType
    /\ EmptyStore \in StoreType
    /\ InitialSnapshot \in SnapshotType
    /\ NoBatch \in PendingType
    /\ InitialDisk = Image(InitialState, EmptyLog, InitialSnapshot)
<1>1. <<>> \in Seq(EntryType)
    BY EmptySeq
<1>2. EmptyStore \in StoreType
    BY DEF EmptyStore, StoreType
<1>. QED
    BY <1>1, <1>2
    DEF InitialState, StateType, EmptyLog, LogType, InitialSnapshot,
        SnapshotType, NoBatch, PendingType, InitialDisk, Image

LEMMA BecomeFollowerType ==
    ASSUME NEW s \in StateType, NEW term \in Nat, NEW leader \in Node \cup {None}
    PROVE  LET t == BecomeFollower(s, term, leader) IN
           /\ t \in StateType
           /\ t.current_term = term
           /\ t.voted_for = IF term > s.current_term THEN None ELSE s.voted_for
           /\ t.role = Follower
           /\ t.votes = {}
           /\ t.commit_index = s.commit_index
           /\ t.last_applied = s.last_applied
<1>. QED  BY DEF BecomeFollower, StateType

LEMMA BecomeCandidateType ==
    ASSUME NEW s \in StateType, NEW i \in Node
    PROVE  LET t == BecomeCandidate(s, i) IN
           /\ t \in StateType
           /\ t.current_term = s.current_term + 1
           /\ t.voted_for = i
           /\ t.role = Candidate
           /\ t.votes = {i}
           /\ t.commit_index = s.commit_index
           /\ t.last_applied = s.last_applied
<1>. DEFINE term == s.current_term + 1
            t == [s EXCEPT !.current_term = term, !.voted_for = i,
                           !.role = Candidate, !.leader_id = None, !.votes = {i}]
<1>1. BecomeCandidate(s, i) = t
    BY DEF BecomeCandidate
<1>2. term \in Nat
    BY DEF StateType
<1>3. /\ t \in StateType
      /\ t.current_term = term
      /\ t.voted_for = i
      /\ t.role = Candidate
      /\ t.votes = {i}
      /\ t.commit_index = s.commit_index
      /\ t.last_applied = s.last_applied
  <2>. HIDE DEF term
  <2>. QED  BY <1>2 DEF StateType
<1>. QED  BY <1>1, <1>3

LEMMA PromoteIfQuorumType ==
    ASSUME NEW s \in StateType, NEW i \in Node
    PROVE  LET t == PromoteIfQuorum(s, i) IN
           /\ t \in StateType
           /\ t.current_term = s.current_term
           /\ t.voted_for = s.voted_for
           /\ t.commit_index = s.commit_index
           /\ t.last_applied = s.last_applied
<1>. QED  BY DEF PromoteIfQuorum, StateType

LEMMA SaveStateImage ==
    ASSUME NEW s \in StateType, NEW t \in StateType,
           NEW lg \in LogType, NEW snap \in SnapshotType
    PROVE  SaveState(Image(s, lg, snap), t) = Image(t, lg, snap)
<1>. DEFINE d == Image(s, lg, snap)
            e == SaveState(d, t)
<1>1. d \in DiskType /\ d.log = lg /\ d.snapshot = snap
    BY DEF Image, DiskType, StateType
<1>2. e \in DiskType
    BY <1>1 DEF SaveState, DiskType, StateType
<1>3. e.current_term = t.current_term /\ e.voted_for = t.voted_for
    BY <1>1 DEF SaveState, DiskType, StateType
<1>4. /\ e.commit_index = t.commit_index
      /\ e.log = lg
      /\ e.snapshot = snap
    BY <1>1 DEF SaveState, DiskType, StateType
<1>. HIDE DEF d, e
<1>5. e = Image(t, lg, snap)
    BY <1>2, <1>3, <1>4 DEF Image, DiskType
<1>. QED  BY <1>5 DEF e, d

LEMMA SaveAllImage ==
    ASSUME NEW s \in StateType, NEW t \in StateType,
           NEW lg \in LogType, NEW snap \in SnapshotType,
           NEW lg2 \in LogType, NEW snap2 \in SnapshotType
    PROVE  SaveAll(Image(s, lg, snap), t, lg2, snap2) = Image(t, lg2, snap2)
<1>. DEFINE d == Image(t, lg, snap)
            e == [d EXCEPT !.log = lg2, !.snapshot = snap2]
<1>1. SaveState(Image(s, lg, snap), t) = d
    BY SaveStateImage
<1>2. /\ d \in DiskType
      /\ d.current_term = t.current_term
      /\ d.voted_for = t.voted_for
      /\ d.commit_index = t.commit_index
    BY DEF Image, DiskType, StateType
<1>. HIDE DEF d
<1>3. /\ e \in DiskType
      /\ e.current_term = t.current_term
      /\ e.voted_for = t.voted_for
      /\ e.commit_index = t.commit_index
      /\ e.log = lg2
      /\ e.snapshot = snap2
    BY <1>2 DEF DiskType
<1>. HIDE DEF e
<1>4. e = Image(t, lg2, snap2)
    BY <1>3 DEF Image, DiskType
<1>. QED  BY <1>1, <1>4 DEF e, SaveAll

LEMMA ImageType ==
    ASSUME NEW s \in StateType, NEW lg \in LogType, NEW snap \in SnapshotType
    PROVE  Image(s, lg, snap) \in DiskType
<1>. QED  BY DEF Image, DiskType, StateType

LEMMA LoadedType ==
    ASSUME NEW d \in DiskType
    PROVE  /\ Loaded(d) \in StateType
           /\ Loaded(d).current_term = d.current_term
           /\ Loaded(d).voted_for = d.voted_for
           /\ Loaded(d).commit_index = d.commit_index
           /\ d.log \in LogType
           /\ d.snapshot \in SnapshotType
           /\ d = Image(Loaded(d), d.log, d.snapshot)
<1>. QED  BY DEF Loaded, DiskType, StateType, InitialState, Image

LEMMA LeaderReplicationType ==
    ASSUME NEW i \in Node, NEW lg \in LogType
    PROVE  LeaderReplication(i, lg) \in ReplicationOrNone(i)
<1>1. LastIndex(lg) + 1 \in Nat
    BY LogTypes, LastIndexType
<1>. QED  BY <1>1 DEF LeaderReplication, ReplicationType, ReplicationOrNone

LEMMA InitializeReplicationType ==
    ASSUME NEW i \in Node, NEW lg \in LogType, NEW repl \in ReplicationOrNone(i)
    PROVE  InitializeReplication(i, repl, lg) \in ReplicationOrNone(i)
<1>. QED  BY LeaderReplicationType DEF InitializeReplication

-----------------------------------------------------------------------------
(* Calls on the network.                                                   *)

CallsWithin(calls, n) ==
    calls \subseteq CallType /\ \A c \in calls : RequestWithin(c.req, n)

LEMMA CallFields ==
    ASSUME NEW c \in CallType
    PROVE  /\ c.src \in Node /\ c.dst \in Node
           /\ c.req \in RequestType
           /\ c.resp.term \in Nat /\ c.resp.ok \in BOOLEAN
           /\ c.req.term \in Nat
<1>. QED  BY DEF CallType, RequestType

LEMMA CallTyped ==
    ASSUME NEW src \in Node, NEW dst \in Node, NEW r \in RequestType
    PROVE  /\ Call(src, dst, r) \in CallType
           /\ Call(src, dst, r).req = r
<1>. QED  BY DEF Call, CallType, NoResponse

LEMMA AnswerWithin ==
    ASSUME NEW c \in rpcs, NEW n \in Nat, NEW term \in Nat, NEW ok \in BOOLEAN,
           CallsWithin(rpcs, n), Answer(c, term, ok)
    PROVE  CallsWithin(rpcs', n)
<1>. DEFINE a == [c EXCEPT !.st = "answered", !.resp = [term |-> term, ok |-> ok]]
<1>1. a \in CallType /\ a.req = c.req
    BY DEF CallType, CallsWithin
<1>2. rpcs' \subseteq rpcs \cup {a}
    BY DEF Answer
<1>. HIDE DEF a
<1>. QED  BY <1>1, <1>2 DEF CallsWithin

LEMMA AbandonWithin ==
    ASSUME NEW calls \in SUBSET rpcs, NEW done, NEW n \in Nat,
           CallsWithin(rpcs, n), AbandonAfter(calls, done)
    PROVE  CallsWithin(rpcs', n)
<1>1. PICK late \in SUBSET {c \in calls \ done : c.st = "sent"} :
            rpcs' = (rpcs \ (calls \cup done))
                       \cup {[c EXCEPT !.st = "late"] : c \in late}
    BY DEF AbandonAfter
<1>2. ASSUME NEW d \in rpcs'
      PROVE  d \in CallType /\ RequestWithin(d.req, n)
  <2>1. CASE d \in rpcs
      BY <2>1 DEF CallsWithin
  <2>2. CASE \E c \in late : d = [c EXCEPT !.st = "late"]
    <3>1. PICK c \in rpcs : d = [c EXCEPT !.st = "late"]
        BY <2>2
    <3>2. c \in CallType /\ RequestWithin(c.req, n)
        BY DEF CallsWithin
    <3>3. d \in CallType /\ d.req = c.req
        BY <3>1, <3>2 DEF CallType
    <3>. QED  BY <3>2, <3>3
  <2>. QED  BY <1>1, <2>1, <2>2
<1>. QED  BY <1>2 DEF CallsWithin

LEMMA FewerCallsWithin ==
    ASSUME NEW n \in Nat, CallsWithin(rpcs, n), rpcs' \subseteq rpcs
    PROVE  CallsWithin(rpcs', n)
<1>. QED  BY DEF CallsWithin

-----------------------------------------------------------------------------
(* Every step writes the variables of at most one node.                    *)

Ghosts ==
    /\ elected \subseteq Nat \X Node
    /\ committed \in Seq([entry : EntryType, by : Nat])
    /\ acked \subseteq [index : Nat, entry : EntryType, leader_term : Nat]

LEMMA NodeUpdate ==
    ASSUME TypeInv,
           NEW i \in Node, NEW s \in StateType, NEW lg \in LogType,
           NEW snap \in SnapshotType, NEW kv \in StoreType,
           NEW repl \in ReplicationOrNone(i), NEW t \in Nat,
           NEW p \in PendingType,
           up' \subseteq Node, up' \subseteq up \cup {i},
           state' = [state EXCEPT ![i] = s],
           log' = [log EXCEPT ![i] = lg],
           snapshot' = [snapshot EXCEPT ![i] = snap],
           store' = [store EXCEPT ![i] = kv],
           replication' = [replication EXCEPT ![i] = repl],
           transfer_term' = [transfer_term EXCEPT ![i] = t],
           pending' = [pending EXCEPT ![i] = p],
           disk' = [disk EXCEPT ![i] = Image(s, lg, snap)],
           CallsWithin(rpcs', Len(committed)),
           Ghosts', Len(committed) <= Len(committed'),
           s.commit_index <= Len(committed'),
           lg.base <= Len(committed'),
           snap.index <= Len(committed'),
           i \in up' => lg.base <= s.last_applied /\ s.commit_index <= s.last_applied
    PROVE  TypeInv'
<1>0. Len(committed) \in Nat /\ Len(committed') \in Nat
    BY LenProperties DEF TypeInv, TypeOK, Ghosts
<1>1. TypeOK'
  <2>1. state' \in [Node -> StateType] /\ log' \in [Node -> LogType]
      BY DEF TypeInv, TypeOK
  <2>2. snapshot' \in [Node -> SnapshotType] /\ store' \in [Node -> StoreType]
      BY DEF TypeInv, TypeOK
  <2>3. /\ replication' = [j \in Node |-> replication'[j]]
        /\ \A j \in Node : replication'[j] \in ReplicationOrNone(j)
      BY DEF TypeInv, TypeOK, ReplicationOrNone
  <2>4. transfer_term' \in [Node -> Nat] /\ pending' \in [Node -> PendingType]
      BY DEF TypeInv, TypeOK, PendingType
  <2>5. disk' \in [Node -> DiskType]
      BY ImageType DEF TypeInv, TypeOK
  <2>6. rpcs' \subseteq CallType
      BY DEF CallsWithin
  <2>. QED
      BY <2>1, <2>2, <2>3, <2>4, <2>5, <2>6
      DEF TypeOK, Ghosts, ReplicationOrNone, PendingType
<1>2. Durable'
    BY DEF TypeInv, TypeOK, Durable
<1>3. WithinHistory'
  <2>1. ASSUME NEW j \in Node
        PROVE  /\ state'[j].commit_index <= Len(committed')
               /\ log'[j].base <= Len(committed')
               /\ snapshot'[j].index <= Len(committed')
    <3>1. CASE j = i
        BY <3>1 DEF TypeInv, TypeOK
    <3>2. CASE j # i
      <4>1. state'[j] = state[j] /\ log'[j] = log[j] /\ snapshot'[j] = snapshot[j]
          BY <3>2 DEF TypeInv, TypeOK
      <4>2. /\ state[j].commit_index \in Nat
            /\ log[j].base \in Nat
            /\ snapshot[j].index \in Nat
          BY DEF TypeInv, TypeOK, StateType, LogType, SnapshotType
      <4>3. /\ state[j].commit_index <= Len(committed)
            /\ log[j].base <= Len(committed)
            /\ snapshot[j].index <= Len(committed)
          BY DEF TypeInv, WithinHistory
      <4>. QED  BY <1>0, <4>1, <4>2, <4>3
    <3>. QED  BY <3>1, <3>2
  <2>2. ASSUME NEW c \in rpcs'
        PROVE  RequestWithin(c.req, Len(committed'))
    <3>1. c \in CallType /\ RequestWithin(c.req, Len(committed))
        BY DEF CallsWithin
    <3>2. /\ c.req.kind = "AppendEntries" => c.req.leader_commit \in Nat
          /\ c.req.kind = "InstallSnapshot" => c.req.index \in Nat
        BY <3>1 DEF CallType, RequestType
    <3>. QED  BY <1>0, <3>1, <3>2 DEF RequestWithin
  <2>. QED  BY <2>1, <2>2 DEF WithinHistory
<1>4. AppliedAboveBase'
    BY DEF TypeInv, TypeOK, AppliedAboveBase
<1>. QED  BY <1>1, <1>2, <1>3, <1>4 DEF TypeInv

(* What the invariant says of one node.                                    *)
LEMMA Current ==
    ASSUME TypeInv, NEW i \in Node
    PROVE  /\ state[i] \in StateType /\ log[i] \in LogType
           /\ snapshot[i] \in SnapshotType /\ store[i] \in StoreType
           /\ replication[i] \in ReplicationOrNone(i)
           /\ transfer_term[i] \in Nat /\ pending[i] \in PendingType
           /\ disk[i] = Image(state[i], log[i], snapshot[i])
           /\ disk[i] \in DiskType
           /\ Len(committed) \in Nat
           /\ CallsWithin(rpcs, Len(committed))
           /\ Ghosts
           /\ state[i].commit_index <= Len(committed)
           /\ log[i].base <= Len(committed)
           /\ snapshot[i].index <= Len(committed)
           /\ i \in up => /\ log[i].base <= state[i].last_applied
                          /\ state[i].commit_index <= state[i].last_applied
<1>1. /\ state[i] \in StateType /\ log[i] \in LogType
      /\ snapshot[i] \in SnapshotType /\ store[i] \in StoreType
      /\ replication[i] \in ReplicationOrNone(i)
      /\ transfer_term[i] \in Nat /\ pending[i] \in PendingType
      /\ disk[i] \in DiskType
    BY DEF TypeInv, TypeOK, ReplicationOrNone, PendingType
<1>2. Len(committed) \in Nat /\ Ghosts
    BY LenProperties DEF TypeInv, TypeOK, Ghosts
<1>3. CallsWithin(rpcs, Len(committed))
    BY DEF TypeInv, TypeOK, WithinHistory, CallsWithin
<1>. QED  BY <1>1, <1>2, <1>3 DEF TypeInv, Durable, WithinHistory, AppliedAboveBase

LEMMA Unchanged ==
    ASSUME TypeInv, NEW i \in Node
    PROVE  /\ state = [state EXCEPT ![i] = state[i]]
           /\ log = [log EXCEPT ![i] = log[i]]
           /\ snapshot = [snapshot EXCEPT ![i] = snapshot[i]]
           /\ store = [store EXCEPT ![i] = store[i]]
           /\ replication = [replication EXCEPT ![i] = replication[i]]
           /\ transfer_term = [transfer_term EXCEPT ![i] = transfer_term[i]]
           /\ pending = [pending EXCEPT ![i] = pending[i]]
           /\ disk = [disk EXCEPT ![i] = disk[i]]
<1>1. /\ state \in [Node -> StateType] /\ log \in [Node -> LogType]
      /\ snapshot \in [Node -> SnapshotType] /\ store \in [Node -> StoreType]
      /\ transfer_term \in [Node -> Nat] /\ pending \in [Node -> PendingType]
      /\ disk \in [Node -> DiskType]
    BY DEF TypeInv, TypeOK, PendingType
<1>2. replication = [replication EXCEPT ![i] = replication[i]]
  <2>1. replication = [j \in Node |-> replication[j]]
      BY DEF TypeInv, TypeOK
  <2>. QED  BY <2>1
<1>. QED  BY <1>1, <1>2

(* Steps that leave the logs, the snapshots and the stores alone.  They    *)
(* save the state unless they changed nothing of what is saved.            *)
LEMMA StateUpdate ==
    ASSUME TypeInv,
           NEW i \in Node, NEW s \in StateType,
           s.commit_index = state[i].commit_index,
           s.last_applied = state[i].last_applied,
           NEW repl \in ReplicationOrNone(i), NEW t \in Nat, NEW p \in PendingType,
           state' = [state EXCEPT ![i] = s],
           \/ disk' = [disk EXCEPT ![i] = SaveState(@, s)]
           \/ /\ UNCHANGED disk
              /\ s.current_term = state[i].current_term
              /\ s.voted_for = state[i].voted_for,
           replication' = [replication EXCEPT ![i] = repl],
           transfer_term' = [transfer_term EXCEPT ![i] = t],
           pending' = [pending EXCEPT ![i] = p],
           UNCHANGED <<up, log, snapshot, store, committed>>,
           CallsWithin(rpcs', Len(committed)),
           elected' \subseteq Nat \X Node,
           acked' \subseteq [index : Nat, entry : EntryType, leader_term : Nat]
    PROVE  TypeInv'
<1>. DEFINE lg == log[i]  snap == snapshot[i]  kv == store[i]
<1>1. lg \in LogType /\ snap \in SnapshotType /\ kv \in StoreType
    BY Current
<1>2. /\ log' = [log EXCEPT ![i] = lg]
      /\ snapshot' = [snapshot EXCEPT ![i] = snap]
      /\ store' = [store EXCEPT ![i] = kv]
    BY Unchanged
<1>3. disk' = [disk EXCEPT ![i] = Image(s, lg, snap)]
  <2>1. CASE disk' = [disk EXCEPT ![i] = SaveState(@, s)]
    <3>1. SaveState(disk[i], s) = Image(s, lg, snap)
        BY Current, SaveStateImage
    <3>. QED  BY <2>1, <3>1
  <2>2. CASE /\ UNCHANGED disk
             /\ s.current_term = state[i].current_term
             /\ s.voted_for = state[i].voted_for
    <3>1. disk[i] = Image(s, lg, snap)
        BY <2>2, Current DEF Image
    <3>. QED  BY <2>2, <3>1, Unchanged
  <2>. QED  BY <2>1, <2>2
<1>4. Ghosts' /\ Len(committed) <= Len(committed')
  <2>1. Ghosts /\ Len(committed) \in Nat /\ committed' = committed
      BY Current
  <2>. QED  BY <2>1 DEF Ghosts
<1>5. /\ s.commit_index <= Len(committed')
      /\ lg.base <= Len(committed')
      /\ snap.index <= Len(committed')
      /\ i \in up' => lg.base <= s.last_applied /\ s.commit_index <= s.last_applied
    BY Current
<1>6. up' \subseteq Node /\ up' \subseteq up \cup {i}
    BY DEF TypeInv, TypeOK
<1>. HIDE DEF lg, snap, kv
<1>. QED  BY <1>1, <1>2, <1>3, <1>4, <1>5, <1>6, NodeUpdate

(* Steps that write nothing but the network.                               *)
LEMMA CallsUpdate ==
    ASSUME TypeInv, UNCHANGED <<up, memory, disk, history>>,
           CallsWithin(rpcs', Len(committed))
    PROVE  TypeInv'
<1>. QED
    BY DEF TypeInv, TypeOK, memory, history, Durable, WithinHistory, AppliedAboveBase,
           CallsWithin

(* Steps that send calls about nothing the caller has not committed.       *)
LEMMA CallsOfWithin ==
    ASSUME NEW i, NEW kinds
    PROVE  CallsOf(i, kinds) \subseteq rpcs
<1>. QED  BY DEF CallsOf

LEMMA NewCallsWithin ==
    ASSUME NEW calls, NEW n \in Nat, CallsWithin(rpcs, n), CallsWithin(calls, n),
           rpcs' = rpcs \cup calls
    PROVE  CallsWithin(rpcs', n)
<1>. QED  BY DEF CallsWithin

-----------------------------------------------------------------------------
(* Elections.                                                              *)

LEMMA RequestVoteType ==
    ASSUME NEW s \in StateType, NEW lg \in LogType, NEW n
    PROVE  RequestVote(s, lg) \in RequestType /\ RequestWithin(RequestVote(s, lg), n)
<1>1. LastIndex(lg) \in Nat /\ LastTerm(lg) \in Nat /\ s.current_term \in Nat
    BY LogTypes, LastIndexType, LastTermType DEF StateType
<1>. QED  BY <1>1 DEF RequestVote, RequestType, RequestWithin

LEMMA RecordElectedType ==
    ASSUME NEW i \in Node, NEW s \in StateType, RecordElected(i, s),
           elected \subseteq Nat \X Node
    PROVE  elected' \subseteq Nat \X Node
<1>. QED  BY DEF RecordElected, StateType

LEMMA StartElectionTyped ==
    ASSUME TypeInv, NEW i \in Node, StartElection(i)
    PROVE  TypeInv'
<1>. DEFINE s == PromoteIfQuorum(BecomeCandidate(state[i], i), i)
            repl == IF s.role = Leader
                    THEN InitializeReplication(i, replication[i], log[i])
                    ELSE replication[i]
            t == transfer_term[i]
            p == pending[i]
            asked == IF s.role = Leader THEN {} ELSE Node \ {i}
            calls == {Call(i, j, RequestVote(s, log[i])) : j \in asked}
<1>1. /\ s \in StateType
      /\ s.commit_index = state[i].commit_index
      /\ s.last_applied = state[i].last_applied
    BY Current, BecomeCandidateType, PromoteIfQuorumType
<1>2. /\ state' = [state EXCEPT ![i] = s]
      /\ disk' = [disk EXCEPT ![i] = SaveState(@, s)]
      /\ replication' = [replication EXCEPT ![i] = repl]
      /\ rpcs' = rpcs \cup calls
      /\ RecordElected(i, s)
      /\ UNCHANGED <<up, log, snapshot, store, transfer_term, pending, committed, acked>>
    BY DEF StartElection
<1>. HIDE DEF s
<1>3. repl \in ReplicationOrNone(i) /\ t \in Nat /\ p \in PendingType
    BY Current, InitializeReplicationType
<1>4. transfer_term' = [transfer_term EXCEPT ![i] = t]
      /\ pending' = [pending EXCEPT ![i] = p]
    BY <1>2, Unchanged
<1>5. CallsWithin(calls, Len(committed))
  <2>1. RequestVote(s, log[i]) \in RequestType
        /\ RequestWithin(RequestVote(s, log[i]), Len(committed))
      BY <1>1, Current, RequestVoteType
  <2>2. \A j \in Node : /\ Call(i, j, RequestVote(s, log[i])) \in CallType
                        /\ Call(i, j, RequestVote(s, log[i])).req = RequestVote(s, log[i])
      BY <2>1, CallTyped
  <2>3. asked \subseteq Node
      OBVIOUS
  <2>. HIDE DEF asked
  <2>. QED  BY <2>1, <2>2, <2>3 DEF CallsWithin
<1>6. CallsWithin(rpcs', Len(committed))
  <2>. HIDE DEF calls
  <2>. QED  BY <1>2, <1>5, Current, NewCallsWithin
<1>7. /\ elected' \subseteq Nat \X Node
      /\ acked' \subseteq [index : Nat, entry : EntryType, leader_term : Nat]
    BY <1>1, <1>2, Current, RecordElectedType DEF Ghosts
<1>. HIDE DEF repl, t, p, calls
<1>. QED  BY <1>1, <1>2, <1>3, <1>4, <1>6, <1>7, StateUpdate

LEMMA HandleRequestVoteTyped ==
    ASSUME TypeInv, NEW c \in rpcs, HandleRequestVote(c)
    PROVE  TypeInv'
<1>. DEFINE i == c.dst
            r == c.req
            s == IF r.term > state[i].current_term
                 THEN BecomeFollower(state[i], r.term, None) ELSE state[i]
            granted == Grants(s, r, c.src, log[i])
            v == IF granted THEN [s EXCEPT !.voted_for = c.src] ELSE s
            repl == KeepIfLeader(replication[i], v)
            t == transfer_term[i]
            p == pending[i]
<1>0. c \in CallType /\ i \in Node /\ c.src \in Node /\ r.term \in Nat
    BY CallFields DEF TypeInv, TypeOK
<1>1. /\ s \in StateType
      /\ s.commit_index = state[i].commit_index
      /\ s.last_applied = state[i].last_applied
  <2>1. state[i] \in StateType
      BY <1>0, Current
  <2>. HIDE DEF i, r
  <2>. QED  BY <1>0, <2>1, BecomeFollowerType
<1>2. granted \in BOOLEAN
    BY DEF Grants
<1>3. /\ state' = [state EXCEPT ![i] = v]
      /\ disk' = [disk EXCEPT ![i] = SaveState(@, v)]
      /\ replication' = [replication EXCEPT ![i] = repl]
      /\ Answer(c, v.current_term, granted)
      /\ UNCHANGED <<up, log, snapshot, store, transfer_term, pending, history>>
    BY DEF HandleRequestVote
<1>. HIDE DEF s, granted
<1>4. /\ v \in StateType
      /\ v.commit_index = state[i].commit_index
      /\ v.last_applied = state[i].last_applied
      /\ v.current_term \in Nat
    BY <1>0, <1>1 DEF StateType
<1>. HIDE DEF v, i
<1>5. repl \in ReplicationOrNone(i) /\ t \in Nat /\ p \in PendingType
    BY <1>0, Current DEF KeepIfLeader, ReplicationOrNone
<1>6. transfer_term' = [transfer_term EXCEPT ![i] = t]
      /\ pending' = [pending EXCEPT ![i] = p]
    BY <1>0, <1>3, Unchanged
<1>7. CallsWithin(rpcs', Len(committed))
    BY <1>0, <1>2, <1>3, <1>4, Current, AnswerWithin
<1>8. /\ elected' \subseteq Nat \X Node
      /\ acked' \subseteq [index : Nat, entry : EntryType, leader_term : Nat]
      /\ committed' = committed
    BY <1>0, <1>3, Current DEF Ghosts, history
<1>. HIDE DEF repl, t, p
<1>. QED  BY <1>0, <1>3, <1>4, <1>5, <1>6, <1>7, <1>8, StateUpdate

LEMMA VoteFromNewerTermTyped ==
    ASSUME TypeInv, NEW c \in rpcs, VoteFromNewerTerm(c)
    PROVE  TypeInv'
<1>. DEFINE i == c.src
            s == BecomeFollower(state[i], c.resp.term, None)
            t == transfer_term[i]
            p == pending[i]
<1>0. c \in CallType /\ i \in Node /\ c.resp.term \in Nat
    BY CallFields DEF TypeInv, TypeOK
<1>1. /\ s \in StateType
      /\ s.commit_index = state[i].commit_index
      /\ s.last_applied = state[i].last_applied
  <2>1. state[i] \in StateType
      BY <1>0, Current
  <2>. HIDE DEF i
  <2>. QED  BY <1>0, <2>1, BecomeFollowerType
<1>2. /\ state' = [state EXCEPT ![i] = s]
      /\ disk' = [disk EXCEPT ![i] = SaveState(@, s)]
      /\ replication' = [replication EXCEPT ![i] = NoReplication]
      /\ Abandon(CallsOf(i, {"RequestVote"}))
      /\ UNCHANGED <<up, log, snapshot, store, transfer_term, pending, history>>
    BY DEF VoteFromNewerTerm
<1>. HIDE DEF s, i
<1>3. NoReplication \in ReplicationOrNone(i) /\ t \in Nat /\ p \in PendingType
    BY <1>0, Current DEF ReplicationOrNone
<1>4. transfer_term' = [transfer_term EXCEPT ![i] = t]
      /\ pending' = [pending EXCEPT ![i] = p]
    BY <1>0, <1>2, Unchanged
<1>5. CallsWithin(rpcs', Len(committed))
    BY <1>0, <1>2, Current, CallsOfWithin, AbandonWithin DEF Abandon
<1>6. /\ elected' \subseteq Nat \X Node
      /\ acked' \subseteq [index : Nat, entry : EntryType, leader_term : Nat]
      /\ committed' = committed
    BY <1>0, <1>2, Current DEF Ghosts, history
<1>. HIDE DEF t, p
<1>. QED  BY <1>0, <1>1, <1>2, <1>3, <1>4, <1>5, <1>6, StateUpdate

LEMMA RecordVoteTyped ==
    ASSUME TypeInv, NEW c \in rpcs, RecordVote(c)
    PROVE  TypeInv'
<1>. DEFINE i == c.src
            counts == c.resp.ok /\ c.resp.term = state[i].current_term
            u == [state[i] EXCEPT !.votes = IF counts THEN @ \cup {c.dst} ELSE @]
            s == PromoteIfQuorum(u, i)
            repl == IF s.role = Leader
                    THEN InitializeReplication(i, replication[i], log[i])
                    ELSE replication[i]
            t == transfer_term[i]
            p == pending[i]
<1>0. c \in CallType /\ i \in Node /\ c.dst \in Node
    BY CallFields DEF TypeInv, TypeOK
<1>1. state[i] \in StateType
    BY <1>0, Current
<1>2. u \in StateType /\ u.current_term = state[i].current_term
      /\ u.voted_for = state[i].voted_for
      /\ u.commit_index = state[i].commit_index
      /\ u.last_applied = state[i].last_applied
  <2>. HIDE DEF i, counts
  <2>. QED  BY <1>0, <1>1 DEF StateType
<1>3. /\ state' = [state EXCEPT ![i] = s]
      /\ \/ /\ replication' = [replication EXCEPT ![i] = repl]
            /\ Abandon(CallsOf(i, {"RequestVote"}))
         \/ /\ replication' = replication /\ repl = replication[i]
            /\ rpcs' = rpcs \ {c}
      /\ RecordElected(i, s)
      /\ UNCHANGED <<up, log, snapshot, store, transfer_term, pending, disk,
                     committed, acked>>
    BY DEF RecordVote
<1>. HIDE DEF u
<1>4. /\ s \in StateType
      /\ s.current_term = state[i].current_term
      /\ s.voted_for = state[i].voted_for
      /\ s.commit_index = state[i].commit_index
      /\ s.last_applied = state[i].last_applied
    BY <1>0, <1>2, PromoteIfQuorumType
<1>. HIDE DEF s, i
<1>5. repl \in ReplicationOrNone(i) /\ t \in Nat /\ p \in PendingType
    BY <1>0, Current, InitializeReplicationType
<1>6. transfer_term' = [transfer_term EXCEPT ![i] = t]
      /\ pending' = [pending EXCEPT ![i] = p]
      /\ replication' = [replication EXCEPT ![i] = repl]
    BY <1>0, <1>3, Unchanged
<1>7. CallsWithin(rpcs', Len(committed))
  <2>1. CASE Abandon(CallsOf(i, {"RequestVote"}))
      BY <1>0, <2>1, Current, CallsOfWithin, AbandonWithin DEF Abandon
  <2>2. CASE rpcs' = rpcs \ {c}
      BY <1>0, <2>2, Current, FewerCallsWithin
  <2>. QED  BY <1>3, <2>1, <2>2
<1>8. /\ elected' \subseteq Nat \X Node
      /\ acked' \subseteq [index : Nat, entry : EntryType, leader_term : Nat]
    BY <1>0, <1>3, <1>4, Current, RecordElectedType DEF Ghosts
<1>. HIDE DEF repl, t, p
<1>. QED  BY <1>0, <1>3, <1>4, <1>5, <1>6, <1>7, <1>8, StateUpdate

-----------------------------------------------------------------------------
(* Replication, the leader's side.                                         *)

LEMMA AppendEntriesType ==
    ASSUME TypeInv, NEW i \in Node, NEW f \in Node \ {i},
           replication[i] # NoReplication,
           ~NeedsSnapshot(i, f), CanBuildRequest(i, f)
    PROVE  /\ AppendEntries(i, f) \in RequestType
           /\ RequestWithin(AppendEntries(i, f), Len(committed))
<1>. DEFINE next == replication[i].next_index[f]
<1>0. log[i] \in LogType /\ replication[i] \in ReplicationType(i)
    BY Current DEF ReplicationOrNone
<1>1. next \in Nat /\ log[i].base \in Nat /\ next > log[i].base
    BY <1>0 DEF ReplicationType, NeedsSnapshot, LogType
<1>2. next - 1 \in Nat
    BY <1>1
<1>3. TermAt(log[i], next - 1) \in Nat
    BY <1>0, <1>2, LogTypes, TermAtType DEF CanBuildRequest
<1>4. EntriesFrom(log[i], next) \in Seq(EntryType)
  <2>1. log[i] \in LogOf(Command) /\ next \in Int
      BY <1>0, <1>1, LogTypes
  <2>. HIDE DEF next
  <2>2. EntriesFrom(log[i], next) \in Seq(EntryOf(Command))
      BY <2>1, EntriesFromType
  <2>. QED  BY <2>2, LogTypes
<1>5. state[i].current_term \in Nat /\ state[i].commit_index \in Nat
      /\ state[i].commit_index <= Len(committed)
    BY Current DEF StateType
<1>. HIDE DEF next
<1>6. AppendEntries(i, f) =
        [kind |-> "AppendEntries", term |-> state[i].current_term,
         prev_log_index |-> next - 1, prev_log_term |-> TermAt(log[i], next - 1),
         entries |-> EntriesFrom(log[i], next),
         leader_commit |-> state[i].commit_index]
    BY DEF AppendEntries, next
<1>. QED  BY <1>2, <1>3, <1>4, <1>5, <1>6 DEF RequestType, RequestWithin

LEMMA InstallSnapshotType ==
    ASSUME TypeInv, NEW i \in Node
    PROVE  /\ InstallSnapshot(i) \in RequestType
           /\ RequestWithin(InstallSnapshot(i), Len(committed))
<1>. QED
    BY Current DEF InstallSnapshot, RequestType, RequestWithin, StateType, SnapshotType

LEMMA SendToFollowerTyped ==
    ASSUME TypeInv, NEW i \in Node, NEW f \in Node, SendToFollower(i, f)
    PROVE  TypeInv'
<1>. DEFINE r == IF NeedsSnapshot(i, f) THEN InstallSnapshot(i) ELSE AppendEntries(i, f)
<1>1. r \in RequestType /\ RequestWithin(r, Len(committed))
    BY AppendEntriesType, InstallSnapshotType DEF SendToFollower, Leads
<1>2. rpcs' = rpcs \cup {Call(i, f, r)}
      /\ UNCHANGED <<up, memory, disk, history>>
    BY DEF SendToFollower
<1>. HIDE DEF r
<1>3. CallsWithin({Call(i, f, r)}, Len(committed))
    BY <1>1, CallTyped DEF CallsWithin
<1>4. CallsWithin(rpcs', Len(committed))
    BY <1>2, <1>3, Current, NewCallsWithin
<1>. QED  BY <1>2, <1>4, CallsUpdate

LEMMA AnswerAfterLeadershipTyped ==
    ASSUME TypeInv, NEW c \in rpcs, AnswerAfterLeadership(c)
    PROVE  TypeInv'
<1>1. CallsWithin(rpcs, Len(committed)) /\ Len(committed) \in Nat
    BY NodeAssumption, Current
<1>2. rpcs' \subseteq rpcs /\ UNCHANGED <<up, memory, disk, history>>
    BY DEF AnswerAfterLeadership
<1>. QED  BY <1>1, <1>2, FewerCallsWithin, CallsUpdate

LEMMA AnswerFromNewerTermTyped ==
    ASSUME TypeInv, NEW c \in rpcs, AnswerFromNewerTerm(c)
    PROVE  TypeInv'
<1>. DEFINE i == c.src
            s == BecomeFollower(state[i], c.resp.term, None)
            t == transfer_term[i]
            p == pending[i]
<1>0. c \in CallType /\ i \in Node /\ c.resp.term \in Nat
    BY CallFields DEF TypeInv, TypeOK
<1>1. /\ s \in StateType
      /\ s.commit_index = state[i].commit_index
      /\ s.last_applied = state[i].last_applied
  <2>1. state[i] \in StateType
      BY <1>0, Current
  <2>. HIDE DEF i
  <2>. QED  BY <1>0, <2>1, BecomeFollowerType
<1>2. /\ state' = [state EXCEPT ![i] = s]
      /\ disk' = [disk EXCEPT ![i] = SaveState(@, s)]
      /\ replication' = [replication EXCEPT ![i] = NoReplication]
      /\ rpcs' \subseteq rpcs
      /\ UNCHANGED <<up, log, snapshot, store, transfer_term, pending, history>>
    BY DEF AnswerFromNewerTerm
<1>. HIDE DEF s, i
<1>3. NoReplication \in ReplicationOrNone(i) /\ t \in Nat /\ p \in PendingType
    BY <1>0, Current DEF ReplicationOrNone
<1>4. transfer_term' = [transfer_term EXCEPT ![i] = t]
      /\ pending' = [pending EXCEPT ![i] = p]
    BY <1>0, <1>2, Unchanged
<1>5. CallsWithin(rpcs', Len(committed))
    BY <1>0, <1>2, Current, FewerCallsWithin
<1>6. /\ elected' \subseteq Nat \X Node
      /\ acked' \subseteq [index : Nat, entry : EntryType, leader_term : Nat]
      /\ committed' = committed
    BY <1>0, <1>2, Current DEF Ghosts, history
<1>. HIDE DEF t, p
<1>. QED  BY <1>0, <1>1, <1>2, <1>3, <1>4, <1>5, <1>6, StateUpdate

(* record_success and record_failure keep next_index and match_index.      *)
LEMMA RecordSuccessType ==
    ASSUME NEW i \in Node, NEW repl \in ReplicationType(i),
           NEW f \in Node \ {i}, NEW index \in Nat
    PROVE  RecordSuccess(repl, f, index) \in ReplicationType(i)
<1>. DEFINE match == Max({repl.match_index[f], index})
            next == match + 1
            m == [repl.match_index EXCEPT ![f] = match]
            n == [repl.next_index EXCEPT ![f] = next]
<1>1. repl.match_index[f] \in Nat
    BY DEF ReplicationType
<1>2. match \in Nat
    BY <1>1, MaxOfTwo
<1>. HIDE DEF match
<1>3. next \in Nat
    BY <1>2
<1>. HIDE DEF next
<1>4. m \in [Node \ {i} -> Nat] /\ n \in [Node \ {i} -> Nat]
    BY <1>2, <1>3 DEF ReplicationType
<1>5. RecordSuccess(repl, f, index) = [repl EXCEPT !.match_index = m, !.next_index = n]
    BY DEF RecordSuccess, m, n, match, next, ReplicationType
<1>. HIDE DEF m, n
<1>. QED  BY <1>4, <1>5 DEF ReplicationType

LEMMA RecordFailureType ==
    ASSUME NEW i \in Node, NEW repl \in ReplicationType(i), NEW f \in Node \ {i}
    PROVE  RecordFailure(repl, f) \in ReplicationType(i)
<1>. DEFINE next == Max({1, repl.next_index[f] - 1})
            n == [repl.next_index EXCEPT ![f] = next]
<1>1. repl.next_index[f] \in Nat
    BY DEF ReplicationType
<1>2. next \in Nat
    BY <1>1, MaxOfTwo
<1>. HIDE DEF next
<1>3. n \in [Node \ {i} -> Nat]
    BY <1>2 DEF ReplicationType
<1>4. RecordFailure(repl, f) = [repl EXCEPT !.next_index = n]
    BY DEF RecordFailure, n, next, ReplicationType
<1>. HIDE DEF n
<1>. QED  BY <1>3, <1>4 DEF ReplicationType

LEMMA AnswerToLeaderTyped ==
    ASSUME TypeInv, NEW c \in rpcs, AnswerToLeader(c)
    PROVE  TypeInv'
<1>. DEFINE i == c.src
            repl == IF c.resp.ok THEN RecordSuccess(replication[i], c.dst, ReplicatedBy(c))
                    ELSE IF c.req.kind = "AppendEntries"
                         THEN RecordFailure(replication[i], c.dst)
                    ELSE replication[i]
            s == state[i]
            t == transfer_term[i]
            p == pending[i]
<1>0. c \in CallType /\ i \in Node /\ c.dst \in Node
    BY CallFields DEF TypeInv, TypeOK
<1>1. replication[i] \in ReplicationType(i)
    BY <1>0, Current DEF AnswerToLeader, StillLeader, Leads, ReplicationOrNone
<1>2. ReplicatedBy(c) \in Nat
  <2>1. CASE c.req.kind = "InstallSnapshot"
      BY <1>0, <2>1 DEF ReplicatedBy, CallType, RequestType
  <2>2. CASE c.req.kind = "AppendEntries"
    <3>1. c.req.prev_log_index \in Nat /\ c.req.entries \in Seq(EntryType)
        BY <1>0, <2>2 DEF CallType, RequestType
    <3>2. Len(c.req.entries) \in Nat
        BY <3>1, LenProperties
    <3>. QED  BY <2>2, <3>1, <3>2 DEF ReplicatedBy
  <2>. QED  BY <2>1, <2>2 DEF AnswerToLeader, Answered, AppendKinds
<1>3. repl \in ReplicationType(i)
  <2>. HIDE DEF i
  <2>1. CASE c.dst = i
      BY <1>1, <2>1 DEF ReplicationType, RecordSuccess, RecordFailure
  <2>2. CASE c.dst # i
      BY <1>0, <1>1, <1>2, <2>2, RecordSuccessType, RecordFailureType
  <2>. QED  BY <2>1, <2>2
<1>4. /\ replication' = [replication EXCEPT ![i] = repl]
      /\ rpcs' \subseteq rpcs
      /\ UNCHANGED <<up, state, log, snapshot, store, transfer_term, pending,
                     disk, history>>
    BY DEF AnswerToLeader
<1>. HIDE DEF repl, i
<1>5. repl \in ReplicationOrNone(i) /\ s \in StateType /\ t \in Nat /\ p \in PendingType
    BY <1>0, <1>3, Current DEF ReplicationOrNone
<1>6. transfer_term' = [transfer_term EXCEPT ![i] = t]
      /\ pending' = [pending EXCEPT ![i] = p]
      /\ state' = [state EXCEPT ![i] = s]
    BY <1>0, <1>4, Unchanged
<1>7. CallsWithin(rpcs', Len(committed))
    BY <1>0, <1>4, Current, FewerCallsWithin
<1>8. /\ elected' \subseteq Nat \X Node
      /\ acked' \subseteq [index : Nat, entry : EntryType, leader_term : Nat]
      /\ committed' = committed
    BY <1>0, <1>4, Current DEF Ghosts, history
<1>9. /\ s.commit_index = state[i].commit_index
      /\ s.last_applied = state[i].last_applied
      /\ s.current_term = state[i].current_term
      /\ s.voted_for = state[i].voted_for
    OBVIOUS
<1>. HIDE DEF s, t, p
<1>. QED  BY <1>0, <1>4, <1>5, <1>6, <1>7, <1>8, <1>9, StateUpdate

LEMMA NodeIsQuorum == Node \in Quorum
<1>1. Cardinality(Node) \in Nat /\ Cardinality(Node) # 0
    BY NodeAssumption, FS_CardinalityType, FS_EmptySet
<1>2. Cardinality(Node) > Cardinality(Node) \div 2
    BY <1>1
<1>. QED  BY <1>2 DEF Quorum

LEMMA QuorumIndexType ==
    ASSUME TypeInv, NEW i \in Node, replication[i] # NoReplication
    PROVE  /\ QuorumIndex(i) \in 0..LastIndex(log[i])
           /\ {i} \cup {f \in Node \ {i} :
                         replication[i].match_index[f] >= QuorumIndex(i)} \in Quorum
<1>. DEFINE Reached(index) == {i} \cup {f \in Node \ {i} :
                                 replication[i].match_index[f] >= index}
            S == {index \in 0..LastIndex(log[i]) : Reached(index) \in Quorum}
            b == LastIndex(log[i])
<1>1. replication[i] \in ReplicationType(i)
    BY Current DEF ReplicationOrNone
<1>2. b \in Nat
    BY Current, LogTypes, LastIndexType
<1>3. \A f \in Node \ {i} : replication[i].match_index[f] >= 0
    BY <1>1 DEF ReplicationType
<1>4. Reached(0) = Node
    BY <1>3
<1>5. 0 \in S
    BY <1>2, <1>4, NodeIsQuorum
<1>6. QuorumIndex(i) = Max(S)
    BY DEF QuorumIndex
<1>7. S \in SUBSET (0..b)
    OBVIOUS
<1>8. \A index \in S : Reached(index) \in Quorum
    OBVIOUS
<1>. HIDE DEF S
<1>9. Max(S) \in S
    BY <1>2, <1>5, <1>7, MaxOfRange
<1>. QED  BY <1>6, <1>7, <1>8, <1>9

(* The ghost of committed entries grows exactly up to the new index.       *)
LEMMA CommittedGrows ==
    ASSUME NEW old \in Seq([entry : EntryType, by : Nat]),
           NEW lg \in LogType, NEW index \in Nat, NEW term \in Nat,
           lg.base <= Len(old), index <= LastIndex(lg)
    PROVE  LET new == SubSeq(lg.entries, Len(old) + 1 - lg.base, index - lg.base)
               more == [n \in 1..Len(new) |-> [entry |-> new[n], by |-> term]]
           IN /\ old \o more \in Seq([entry : EntryType, by : Nat])
              /\ index <= Len(old \o more)
              /\ Len(old) <= Len(old \o more)
<1>. DEFINE first == Len(old) + 1 - lg.base
            last == index - lg.base
            new == SubSeq(lg.entries, first, last)
            more == [n \in 1..Len(new) |-> [entry |-> new[n], by |-> term]]
            C == [entry : EntryType, by : Nat]
<1>1. lg.base \in Nat /\ lg.entries \in Seq(EntryType)
    BY DEF LogType
<1>2. Len(old) \in Nat /\ Len(lg.entries) \in Nat
    BY <1>1, LenProperties
<1>3. first \in Int /\ last \in Int /\ 1 <= first /\ last <= Len(lg.entries)
    BY <1>1, <1>2 DEF LastIndex
<1>4. new \in Seq(EntryType) /\ Len(new) = IF first <= last THEN last - first + 1 ELSE 0
  <2>. HIDE DEF first, last
  <2>. QED  BY <1>1, <1>3, SliceType
<1>5. index <= Len(old) + Len(new) /\ Len(new) \in Nat
  <2>1. \A b, l, x \in Nat :
            LET f == l + 1 - b
                n == IF f <= x - b THEN (x - b) - f + 1 ELSE 0
            IN x <= l + n
      OBVIOUS
  <2>2. Len(new) = IF first <= last THEN last - first + 1 ELSE 0
      BY <1>4
  <2>3. index <= Len(old) + (IF first <= last THEN last - first + 1 ELSE 0)
      BY <1>1, <1>2, <2>1
  <2>4. Len(new) \in Nat
      BY <1>4, LenProperties
  <2>. HIDE DEF new, first, last
  <2>. QED  BY <2>2, <2>3, <2>4
<1>. HIDE DEF new
<1>6. more \in Seq(C) /\ Len(more) = Len(new)
  <2>1. \A n \in 1..Len(new) : [entry |-> new[n], by |-> term] \in C
      BY <1>4, ElementOfSeq
  <2>2. more \in Seq(C)
      BY <1>5, <2>1, IsASeq
  <2>. QED  BY <1>5, <2>2, LenProperties
<1>. HIDE DEF more
<1>7. old \o more \in Seq(C) /\ Len(old \o more) = Len(old) + Len(more)
    BY <1>6, ConcatProperties
<1>8. index <= Len(old \o more) /\ Len(old) <= Len(old \o more)
    BY <1>2, <1>5, <1>6, <1>7
<1>. QED  BY <1>7, <1>8 DEF more, new

LEMMA AdvanceCommitTyped ==
    ASSUME TypeInv, NEW i \in Node, AdvanceCommit(i)
    PROVE  TypeInv'
<1>. DEFINE index == CommitCandidate(i)
            lg == log[i]
            snap == snapshot[i]
            repl == replication[i]
            t == transfer_term[i]
            p == pending[i]
            s == [state[i] EXCEPT !.commit_index = index, !.last_applied = index]
            kv == ApplyCommitted(store[i], lg, state[i].last_applied, index)
            new == SubSeq(lg.entries, Len(committed) + 1 - lg.base, index - lg.base)
            more == [n \in 1..Len(new) |-> [entry |-> new[n], by |-> s.current_term]]
<1>0. i \in up /\ replication[i] # NoReplication /\ index > state[i].commit_index
    BY DEF AdvanceCommit, Leads
<1>1. /\ state[i] \in StateType /\ lg \in LogType /\ snap \in SnapshotType
      /\ store[i] \in StoreType /\ repl \in ReplicationOrNone(i)
      /\ t \in Nat /\ p \in PendingType /\ Len(committed) \in Nat
      /\ lg.base <= Len(committed) /\ snap.index <= Len(committed)
      /\ lg.base <= state[i].last_applied
    BY <1>0, Current
<1>2. index \in Nat /\ index <= LastIndex(lg) /\ lg.base <= index
  <2>1. QuorumIndex(i) \in 0..LastIndex(lg) /\ LastIndex(lg) \in Nat
      BY <1>0, <1>1, QuorumIndexType, LogTypes, LastIndexType
  <2>2. state[i].commit_index \in Nat /\ state[i].current_term \in Nat
      BY <1>1 DEF StateType
  <2>3. index = QuorumIndex(i) /\ TermAt(lg, index) = state[i].current_term
      BY <1>0, <2>2 DEF CommitCandidate
  <2>4. TermAt(lg, index) # NoTerm
      BY <2>2, <2>3 DEF NoTerm
  <2>5. index \in Int /\ lg \in LogOf(Command)
      BY <1>1, <2>1, <2>3, LogTypes
  <2>6. lg.base <= index
    <3>. HIDE DEF index, lg
    <3>. QED  BY <2>4, <2>5, TermAtType
  <2>. QED  BY <2>1, <2>3, <2>6
<1>3. /\ state' = [state EXCEPT ![i] = s]
      /\ disk' = [disk EXCEPT ![i] = SaveState(@, s)]
      /\ store' = [store EXCEPT ![i] = kv]
      /\ committed' = committed \o more
      /\ UNCHANGED <<up, log, snapshot, replication, transfer_term, pending,
                     rpcs, elected, acked>>
    BY DEF AdvanceCommit
<1>. HIDE DEF index
<1>4. /\ s \in StateType /\ s.commit_index = index /\ s.last_applied = index
      /\ s.current_term \in Nat
    BY <1>1, <1>2 DEF StateType
<1>5. kv \in StoreType
  <2>1. state[i].last_applied \in Nat
      BY <1>1 DEF StateType
  <2>. QED  BY <1>1, <1>2, <2>1, ApplyCommittedType
<1>6. lg.base \in Nat /\ lg.entries \in Seq(EntryType)
    BY <1>1 DEF LogType
<1>7. committed \in Seq([entry : EntryType, by : Nat])
    BY <1>0, Current DEF Ghosts
<1>8. /\ committed \o more \in Seq([entry : EntryType, by : Nat])
      /\ index <= Len(committed \o more)
      /\ Len(committed) <= Len(committed \o more)
  <2>1. s.current_term \in Nat /\ index <= LastIndex(lg) /\ lg.base <= Len(committed)
      BY <1>1, <1>2, <1>4
  <2>2. lg \in LogType
      BY <1>1
  <2>. HIDE DEF s, lg
  <2>. QED  BY <1>2, <1>7, <2>1, <2>2, CommittedGrows
<1>. HIDE DEF more
<1>9. /\ committed' \in Seq([entry : EntryType, by : Nat])
      /\ index <= Len(committed') /\ Len(committed) <= Len(committed')
    BY <1>3, <1>8
<1>10. Len(committed') \in Nat
    BY <1>9, LenProperties
<1>11. Ghosts'
    BY <1>3, <1>9, Current DEF Ghosts
<1>12. disk' = [disk EXCEPT ![i] = Image(s, lg, snap)]
  <2>1. SaveState(disk[i], s) = Image(s, lg, snap)
      BY <1>1, <1>4, Current, SaveStateImage
  <2>. QED  BY <1>3, <2>1
<1>13. /\ log' = [log EXCEPT ![i] = lg]
       /\ snapshot' = [snapshot EXCEPT ![i] = snap]
       /\ replication' = [replication EXCEPT ![i] = repl]
       /\ transfer_term' = [transfer_term EXCEPT ![i] = t]
       /\ pending' = [pending EXCEPT ![i] = p]
    BY <1>3, Unchanged
<1>14. CallsWithin(rpcs', Len(committed))
    BY <1>3, Current
<1>15. up' \subseteq Node /\ up' \subseteq up \cup {i}
    BY <1>3 DEF TypeInv, TypeOK
<1>16. /\ lg.base <= Len(committed') /\ snap.index <= Len(committed')
       /\ s.commit_index <= Len(committed')
       /\ lg.base <= s.last_applied /\ s.commit_index <= s.last_applied
  <2>1. snap.index \in Nat /\ state[i].commit_index \in Nat
      BY <1>1 DEF SnapshotType, StateType
  <2>. HIDE DEF s, lg, snap
  <2>. QED  BY <1>1, <1>2, <1>4, <1>6, <1>9, <1>10, <2>1
<1>17. /\ s \in StateType /\ lg \in LogType /\ snap \in SnapshotType
       /\ kv \in StoreType /\ repl \in ReplicationOrNone(i)
       /\ t \in Nat /\ p \in PendingType
    BY <1>1, <1>4, <1>5
<1>18. state' = [state EXCEPT ![i] = s] /\ store' = [store EXCEPT ![i] = kv]
    BY <1>3
<1>19. Len(committed) <= Len(committed')
    BY <1>9
<1>. HIDE DEF s, kv, lg, snap, repl, t, p, new
<1>. QED
    BY <1>11, <1>12, <1>13, <1>14, <1>15, <1>16, <1>17, <1>18, <1>19, NodeUpdate

-----------------------------------------------------------------------------
(* Replication, the follower's side.                                       *)

LEMMA AppendRequestFields ==
    ASSUME TypeInv, NEW c \in rpcs, c.req.kind = "AppendEntries"
    PROVE  /\ c.req.prev_log_index \in Nat /\ c.req.prev_log_term \in Nat
           /\ c.req.entries \in Seq(EntryType)
           /\ c.req.leader_commit \in Nat /\ c.req.leader_commit <= Len(committed)
<1>. QED
    BY DEF TypeInv, TypeOK, CallType, RequestType, WithinHistory, RequestWithin

LEMMA SynchronizedType ==
    ASSUME NEW lg \in LogType, NEW r, r.prev_log_index \in Nat,
           r.prev_log_term \in Nat, r.entries \in Seq(EntryType), Accepts(lg, r)
    PROVE  /\ Synchronize(lg, r.prev_log_index, r.entries) \in LogType
           /\ Synchronize(lg, r.prev_log_index, r.entries).base = lg.base
<1>1. TermAt(lg, r.prev_log_index) # NoTerm
    BY DEF Accepts, NoTerm
<1>. QED  BY <1>1, LogTypes, SynchronizeType

LEMMA HandleAppendEntriesTyped ==
    ASSUME TypeInv, NEW c \in rpcs, HandleAppendEntries(c)
    PROVE  TypeInv'
<1>. DEFINE i == c.dst
            r == c.req
            s == state[i]
            snap == snapshot[i]
            t == transfer_term[i]
            p == pending[i]
<1>0. c \in CallType /\ i \in Node /\ c.src \in Node /\ r.term \in Nat
    BY CallFields DEF TypeInv, TypeOK
<1>1. i \in up /\ r.kind = "AppendEntries"
    BY DEF HandleAppendEntries, Deliverable
<1>2. /\ s \in StateType /\ log[i] \in LogType /\ snap \in SnapshotType
      /\ store[i] \in StoreType /\ t \in Nat /\ p \in PendingType
      /\ replication[i] \in ReplicationOrNone(i)
      /\ Len(committed) \in Nat /\ CallsWithin(rpcs, Len(committed)) /\ Ghosts
      /\ s.commit_index <= Len(committed) /\ log[i].base <= Len(committed)
      /\ snap.index <= Len(committed)
      /\ log[i].base <= s.last_applied
    BY <1>0, <1>1, Current
<1>3. /\ s.current_term \in Nat /\ s.commit_index \in Nat
      /\ s.last_applied \in Nat /\ log[i].base \in Nat
    BY <1>2 DEF StateType, LogType
<1>4. /\ snapshot' = [snapshot EXCEPT ![i] = snap]
      /\ transfer_term' = [transfer_term EXCEPT ![i] = t]
      /\ pending' = [pending EXCEPT ![i] = p]
      /\ UNCHANGED <<up, history>>
    BY <1>0, Unchanged DEF HandleAppendEntries
<1>5. CASE r.term < s.current_term
  <2>. DEFINE repl == KeepIfLeader(replication[i], s)
  <2>1. /\ Answer(c, s.current_term, FALSE)
        /\ replication' = [replication EXCEPT ![i] = repl]
        /\ UNCHANGED <<state, log, store, disk>>
      BY <1>5 DEF HandleAppendEntries
  <2>2. state' = [state EXCEPT ![i] = s]
      BY <1>0, <2>1, Unchanged
  <2>3. repl \in ReplicationOrNone(i)
      BY <1>2 DEF KeepIfLeader, ReplicationOrNone
  <2>4. CallsWithin(rpcs', Len(committed))
      BY <1>2, <1>3, <2>1, AnswerWithin
  <2>5. /\ UNCHANGED <<up, log, snapshot, store, committed>>
        /\ elected' \subseteq Nat \X Node
        /\ acked' \subseteq [index : Nat, entry : EntryType, leader_term : Nat]
      BY <1>2, <2>1 DEF HandleAppendEntries, history, Ghosts
  <2>6. /\ s.commit_index = state[i].commit_index
        /\ s.last_applied = state[i].last_applied
        /\ s.current_term = state[i].current_term
        /\ s.voted_for = state[i].voted_for
      OBVIOUS
  <2>. HIDE DEF i, s, t, p, repl
  <2>. QED  BY <1>0, <1>2, <1>4, <2>1, <2>2, <2>3, <2>4, <2>5, <2>6, StateUpdate
<1>6. CASE ~(r.term < s.current_term)
  <2>. DEFINE ok == Accepts(log[i], r)
              lg == IF ok THEN Synchronize(log[i], r.prev_log_index, r.entries)
                          ELSE log[i]
              commit == IF ok THEN FollowerCommit(s, lg, r) ELSE s.commit_index
              f == BecomeFollower(s, r.term, c.src)
              applied == IF commit > s.last_applied THEN commit ELSE s.last_applied
              u == [f EXCEPT !.commit_index = commit, !.last_applied = applied]
              kv == ApplyCommitted(store[i], lg, s.last_applied, commit)
  <2>1. ok \in BOOLEAN
      BY DEF Accepts
  <2>2. lg \in LogType /\ lg.base = log[i].base
      BY <1>1, <1>2, AppendRequestFields, SynchronizedType
  <2>3. f \in StateType /\ f.last_applied = s.last_applied
    <3>1. s \in StateType
        BY <1>2
    <3>. HIDE DEF s, r
    <3>. QED  BY <1>0, <3>1, BecomeFollowerType
  <2>4. /\ state' = [state EXCEPT ![i] = u]
        /\ log' = [log EXCEPT ![i] = lg]
        /\ store' = [store EXCEPT ![i] = kv]
        /\ disk' = [disk EXCEPT ![i] = [SaveState(@, u) EXCEPT !.log = lg]]
        /\ replication' = [replication EXCEPT ![i] = NoReplication]
        /\ Answer(c, u.current_term, ok)
    <3>1. u = [f EXCEPT !.commit_index = commit,
                        !.last_applied = IF commit > @ THEN commit ELSE @]
        BY <2>3
    <3>. QED  BY <1>6, <3>1 DEF HandleAppendEntries
  <2>. HIDE DEF f, ok
  <2>5. /\ commit \in Nat
        /\ commit <= Len(committed)
        /\ commit <= s.last_applied \/ commit <= LastIndex(lg) \/ commit = s.commit_index
    <3>1. LastIndex(lg) \in Nat
        BY <2>2, LogTypes, LastIndexType
    <3>2. r.leader_commit \in Nat /\ r.leader_commit <= Len(committed)
        BY <1>1, AppendRequestFields
    <3>3. Min({r.leader_commit, LastIndex(lg)}) =
            IF r.leader_commit <= LastIndex(lg) THEN r.leader_commit ELSE LastIndex(lg)
        BY <3>1, <3>2, MinOfTwo
    <3>4. commit = IF ok /\ r.leader_commit > s.commit_index
                   THEN Min({r.leader_commit, LastIndex(lg)}) ELSE s.commit_index
        BY DEF FollowerCommit
    <3>5. s.commit_index \in Nat /\ s.commit_index <= Len(committed)
        BY <1>2, <1>3
    <3>. HIDE DEF s, lg, r, commit
    <3>. QED  BY <3>1, <3>2, <3>3, <3>4, <3>5
  <2>6. commit <= s.last_applied \/ commit <= LastIndex(lg)
    <3>1. s.commit_index <= s.last_applied
        BY <1>0, <1>1, Current
    <3>. QED  BY <2>5, <3>1
  <2>. HIDE DEF commit
  <2>7. applied \in Nat /\ commit <= applied /\ s.last_applied <= applied
    <3>. HIDE DEF s
    <3>. QED  BY <1>3, <2>5
  <2>. HIDE DEF applied
  <2>8. /\ u \in StateType /\ u.commit_index = commit /\ u.last_applied = applied
        /\ u.current_term \in Nat
      BY <2>3, <2>5, <2>7 DEF StateType
  <2>9. kv \in StoreType
    <3>. HIDE DEF s, lg
    <3>. QED  BY <1>2, <1>3, <2>2, <2>5, <2>6, ApplyCommittedType
  <2>. HIDE DEF u, lg, kv
  <2>10. disk' = [disk EXCEPT ![i] = Image(u, lg, snap)]
    <3>1. SaveState(disk[i], u) = Image(u, log[i], snap)
        BY <1>0, <1>2, <2>8, Current, SaveStateImage
    <3>2. [SaveState(disk[i], u) EXCEPT !.log = lg] = Image(u, lg, snap)
        BY <3>1 DEF Image
    <3>. QED  BY <2>4, <3>2
  <2>11. CallsWithin(rpcs', Len(committed))
      BY <1>2, <2>1, <2>4, <2>8, AnswerWithin
  <2>12. /\ NoReplication \in ReplicationOrNone(i)
         /\ Ghosts' /\ Len(committed) <= Len(committed')
         /\ up' \subseteq Node /\ up' \subseteq up \cup {i}
    <3>1. UNCHANGED <<up, elected, committed, acked>>
        BY <1>4 DEF history
    <3>. QED  BY <1>2, <3>1 DEF ReplicationOrNone, Ghosts, TypeInv, TypeOK
  <2>13. /\ u.commit_index <= Len(committed')
         /\ lg.base <= Len(committed')
         /\ snap.index <= Len(committed')
         /\ lg.base <= u.last_applied /\ u.commit_index <= u.last_applied
    <3>1. committed' = committed
        BY <1>4 DEF history
    <3>. HIDE DEF s, snap
    <3>. QED  BY <1>2, <1>3, <2>2, <2>5, <2>7, <2>8, <3>1
  <2>14. /\ state' = [state EXCEPT ![i] = u]
         /\ log' = [log EXCEPT ![i] = lg]
         /\ store' = [store EXCEPT ![i] = kv]
         /\ replication' = [replication EXCEPT ![i] = NoReplication]
      BY <2>4
  <2>. HIDE DEF i, s, snap, t, p
  <2>. QED
      BY <1>0, <1>2, <1>4, <2>2, <2>8, <2>9, <2>10, <2>11, <2>12, <2>13, <2>14, NodeUpdate
<1>. QED  BY <1>5, <1>6

LEMMA BoundaryType ==
    ASSUME NEW lg \in LogType, NEW index \in Nat, NEW term \in Nat
    PROVE  /\ InstallBoundary(lg, index, term) \in LogType
           /\ InstallBoundary(lg, index, term).base = index
<1>. QED  BY LogTypes, InstallBoundaryType

LEMMA InstallRequestFields ==
    ASSUME TypeInv, NEW c \in rpcs, c.req.kind = "InstallSnapshot"
    PROVE  /\ c.req.index \in Nat /\ c.req.index_term \in Nat
           /\ c.req.kv \in StoreType
           /\ c.req.index <= Len(committed)
           /\ SnapshotOf(c.req) \in SnapshotType
           /\ SnapshotOf(c.req).index = c.req.index
<1>. QED
    BY DEF TypeInv, TypeOK, CallType, RequestType, WithinHistory, RequestWithin,
           SnapshotOf, SnapshotType

LEMMA RejectSnapshotTyped ==
    ASSUME TypeInv, NEW c \in rpcs, RejectSnapshot(c)
    PROVE  TypeInv'
<1>. DEFINE i == c.dst
            r == c.req
            stale == r.term < state[i].current_term
            s == IF stale THEN state[i] ELSE BecomeFollower(state[i], r.term, c.src)
            ok == ~stale /\ OlderSnapshot(i, r)
            repl == IF stale THEN replication[i] ELSE NoReplication
            t == transfer_term[i]
            p == pending[i]
<1>0. c \in CallType /\ i \in Node /\ c.src \in Node /\ r.term \in Nat
    BY CallFields DEF TypeInv, TypeOK
<1>1. /\ s \in StateType
      /\ s.commit_index = state[i].commit_index
      /\ s.last_applied = state[i].last_applied
  <2>1. state[i] \in StateType
      BY <1>0, Current
  <2>. HIDE DEF i, r, stale
  <2>. QED  BY <1>0, <2>1, BecomeFollowerType
<1>2. ok \in BOOLEAN
    BY DEF OlderSnapshot
<1>3. /\ state' = [state EXCEPT ![i] = s]
      /\ disk' = [disk EXCEPT ![i] = SaveState(@, s)]
      /\ replication' = [replication EXCEPT ![i] = repl]
      /\ Answer(c, s.current_term, ok)
      /\ UNCHANGED <<up, log, snapshot, store, transfer_term, pending, history>>
    BY DEF RejectSnapshot
<1>4. repl \in ReplicationOrNone(i) /\ t \in Nat /\ p \in PendingType
    BY <1>0, Current DEF ReplicationOrNone
<1>. HIDE DEF s, i, ok
<1>5. transfer_term' = [transfer_term EXCEPT ![i] = t]
      /\ pending' = [pending EXCEPT ![i] = p]
    BY <1>0, <1>3, Unchanged
<1>6. CallsWithin(rpcs', Len(committed))
  <2>1. s.current_term \in Nat
      BY <1>1 DEF StateType
  <2>. QED  BY <1>0, <1>2, <1>3, <2>1, Current, AnswerWithin
<1>7. /\ elected' \subseteq Nat \X Node
      /\ acked' \subseteq [index : Nat, entry : EntryType, leader_term : Nat]
      /\ committed' = committed
    BY <1>0, <1>3, Current DEF Ghosts, history
<1>. HIDE DEF repl, t, p
<1>. QED  BY <1>0, <1>1, <1>3, <1>4, <1>5, <1>6, <1>7, StateUpdate

LEMMA HandleInstallSnapshotTyped ==
    ASSUME TypeInv, NEW c \in rpcs, HandleInstallSnapshot(c)
    PROVE  TypeInv'
<1>. DEFINE i == c.dst
            r == c.req
            lg == Installed(i, r)
            commit == CommitAfterInstall(i, r)
            snap == SnapshotOf(r)
            f == BecomeFollower(state[i], r.term, c.src)
            s == [f EXCEPT !.commit_index = commit, !.last_applied = commit]
            kv == ApplyCommitted(r.kv, lg, r.index, commit)
            t == transfer_term[i]
            p == pending[i]
<1>0. /\ c \in CallType /\ i \in Node /\ c.src \in Node /\ r.term \in Nat
      /\ r.kind = "InstallSnapshot" /\ CanInstall(i, r)
    BY CallFields DEF TypeInv, TypeOK, HandleInstallSnapshot, Deliverable
<1>1. /\ r.index \in Nat /\ r.index_term \in Nat /\ r.kv \in StoreType
      /\ r.index <= Len(committed)
      /\ snap \in SnapshotType /\ snap.index = r.index
    BY <1>0, InstallRequestFields
<1>2. /\ state[i] \in StateType /\ log[i] \in LogType
      /\ t \in Nat /\ p \in PendingType
      /\ Len(committed) \in Nat /\ CallsWithin(rpcs, Len(committed)) /\ Ghosts
      /\ state[i].commit_index <= Len(committed)
    BY <1>0, Current
<1>3. /\ state' = [state EXCEPT ![i] = s]
      /\ log' = [log EXCEPT ![i] = lg]
      /\ snapshot' = [snapshot EXCEPT ![i] = snap]
      /\ store' = [store EXCEPT ![i] = kv]
      /\ disk' = [disk EXCEPT ![i] = SaveAll(@, s, lg, snap)]
      /\ replication' = [replication EXCEPT ![i] = NoReplication]
      /\ Answer(c, s.current_term, TRUE)
      /\ UNCHANGED <<up, transfer_term, pending, history>>
    BY DEF HandleInstallSnapshot, SaveAll
<1>4. transfer_term' = [transfer_term EXCEPT ![i] = t]
      /\ pending' = [pending EXCEPT ![i] = p]
    BY <1>0, <1>3, Unchanged
<1>. HIDE DEF i, r, t, p, snap
<1>5. lg \in LogType /\ lg.base = r.index
  <2>1. /\ InstallBoundary(log[i], r.index, r.index_term) \in LogType
        /\ InstallBoundary(log[i], r.index, r.index_term).base = r.index
      BY <1>1, <1>2, BoundaryType
  <2>. QED  BY <2>1 DEF Installed
<1>6. f \in StateType
    BY <1>0, <1>2, BecomeFollowerType
<1>7. /\ commit \in Nat /\ r.index <= commit /\ commit <= Len(committed)
      /\ commit <= LastIndex(lg)
  <2>1. state[i].commit_index \in Nat
      BY <1>2 DEF StateType
  <2>2. commit <= LastIndex(lg)
      BY <1>0 DEF CanInstall
  <2>3. commit = IF state[i].commit_index >= r.index
                 THEN state[i].commit_index ELSE r.index
      BY <1>1, <2>1, MaxOfTwo DEF CommitAfterInstall
  <2>. HIDE DEF commit, lg
  <2>. QED  BY <1>1, <1>2, <2>1, <2>2, <2>3
<1>. HIDE DEF lg, commit, f
<1>8. /\ s \in StateType /\ s.commit_index = commit /\ s.last_applied = commit
      /\ s.current_term \in Nat
    BY <1>6, <1>7 DEF StateType
<1>9. kv \in StoreType
    BY <1>1, <1>5, <1>7, ApplyCommittedType
<1>. HIDE DEF s, kv
<1>10. disk' = [disk EXCEPT ![i] = Image(s, lg, snap)]
  <2>1. disk[i] = Image(state[i], log[i], snapshot[i]) /\ snapshot[i] \in SnapshotType
      BY <1>0, Current
  <2>2. SaveAll(disk[i], s, lg, snap) = Image(s, lg, snap)
      BY <1>1, <1>2, <1>5, <1>8, <2>1, SaveAllImage
  <2>. QED  BY <1>3, <2>2
<1>11. CallsWithin(rpcs', Len(committed))
    BY <1>2, <1>3, <1>8, AnswerWithin
<1>12. committed' = committed
    BY <1>3 DEF history
<1>13. /\ NoReplication \in ReplicationOrNone(i)
       /\ Ghosts' /\ Len(committed) <= Len(committed')
       /\ up' \subseteq Node /\ up' \subseteq up \cup {i}
    BY <1>2, <1>3, <1>12 DEF ReplicationOrNone, Ghosts, TypeInv, TypeOK, history
<1>14. /\ s.commit_index <= Len(committed')
       /\ lg.base <= Len(committed')
       /\ snap.index <= Len(committed')
       /\ lg.base <= s.last_applied /\ s.commit_index <= s.last_applied
    BY <1>1, <1>5, <1>7, <1>8, <1>12
<1>15. /\ state' = [state EXCEPT ![i] = s]
       /\ log' = [log EXCEPT ![i] = lg]
       /\ snapshot' = [snapshot EXCEPT ![i] = snap]
       /\ store' = [store EXCEPT ![i] = kv]
       /\ replication' = [replication EXCEPT ![i] = NoReplication]
    BY <1>3
<1>. QED
    BY <1>0, <1>1, <1>2, <1>4, <1>5, <1>8, <1>9, <1>10, <1>11, <1>13, <1>14, <1>15,
       NodeUpdate

-----------------------------------------------------------------------------
(* Clients.                                                                *)

LEMMA BatchType ==
    ASSUME NEW b \in Batch
    PROVE  b \in Seq(Command) /\ Len(b) \in Nat
<1>1. PICK n \in 1..MaxBatch : b \in [1..n -> Command]
    BY DEF Batch
<1>. QED  BY <1>1, BoundAssumption

LEMMA NewEntriesType ==
    ASSUME TypeInv, NEW i \in Node, NEW b \in Batch
    PROVE  /\ NewEntries(i, b) \in Seq(EntryType)
           /\ AppendAll(log[i], NewEntries(i, b)) \in LogType
           /\ AppendAll(log[i], NewEntries(i, b)).base = log[i].base
<1>1. b \in Seq(Command) /\ Len(b) \in Nat
    BY BatchType
<1>2. \A k \in 1..Len(b) : b[k] \in Command
    BY <1>1, ElementOfSeq
<1>3. state[i].current_term \in Nat /\ log[i] \in LogType
    BY Current DEF StateType
<1>4. \A k \in 1..Len(b) :
          [term |-> state[i].current_term, command |-> b[k]] \in EntryType
    BY <1>2, <1>3 DEF EntryType
<1>5. NewEntries(i, b) \in Seq(EntryType)
    BY <1>1, <1>4, IsASeq DEF NewEntries
<1>. QED  BY <1>3, <1>5, LogTypes, AppendAllType

LEMMA SubmitTyped ==
    ASSUME TypeInv, NEW i \in Node, NEW b \in Batch, Submit(i, b)
    PROVE  TypeInv'
<1>. DEFINE new == NewEntries(i, b)
            lg == AppendAll(log[i], new)
            repl == InitializeReplication(i, replication[i], lg)
            first == LastIndex(log[i]) + 1
            p == [first |-> first, entries |-> new]
            s == state[i]
            snap == snapshot[i]
            kv == store[i]
            t == transfer_term[i]
<1>1. new \in Seq(EntryType) /\ lg \in LogType /\ lg.base = log[i].base
    BY NewEntriesType
<1>2. /\ s \in StateType /\ log[i] \in LogType /\ snap \in SnapshotType
      /\ kv \in StoreType /\ t \in Nat /\ replication[i] \in ReplicationOrNone(i)
      /\ Len(committed) \in Nat /\ CallsWithin(rpcs, Len(committed)) /\ Ghosts
      /\ s.commit_index <= Len(committed) /\ log[i].base <= Len(committed)
      /\ snap.index <= Len(committed)
      /\ i \in up /\ log[i].base <= s.last_applied /\ s.commit_index <= s.last_applied
    BY Current DEF Submit, CanSubmit
<1>3. /\ log' = [log EXCEPT ![i] = lg]
      /\ disk' = [disk EXCEPT ![i].log = lg]
      /\ pending' = [pending EXCEPT ![i] = p]
      /\ replication' = [replication EXCEPT ![i] = repl]
      /\ UNCHANGED <<up, state, snapshot, store, transfer_term, rpcs, history>>
    BY DEF Submit
<1>. HIDE DEF new
<1>4. first \in Nat
    BY <1>2, LogTypes, LastIndexType
<1>. HIDE DEF first, lg
<1>5. p \in PendingType /\ repl \in ReplicationOrNone(i)
    BY <1>1, <1>2, <1>4, InitializeReplicationType DEF PendingType
<1>6. /\ state' = [state EXCEPT ![i] = s]
      /\ snapshot' = [snapshot EXCEPT ![i] = snap]
      /\ store' = [store EXCEPT ![i] = kv]
      /\ transfer_term' = [transfer_term EXCEPT ![i] = t]
    BY <1>3, Unchanged
<1>7. disk' = [disk EXCEPT ![i] = Image(s, lg, snap)]
  <2>1. disk[i] = Image(s, log[i], snap)
      BY Current
  <2>2. [disk[i] EXCEPT !.log = lg] = Image(s, lg, snap)
      BY <2>1 DEF Image
  <2>. QED  BY <1>3, <2>2
<1>8. /\ Ghosts' /\ Len(committed) <= Len(committed')
      /\ CallsWithin(rpcs', Len(committed))
      /\ up' \subseteq Node /\ up' \subseteq up \cup {i}
      /\ committed' = committed
    BY <1>2, <1>3 DEF Ghosts, TypeInv, TypeOK, history
<1>9. /\ s.commit_index <= Len(committed')
      /\ lg.base <= Len(committed')
      /\ snap.index <= Len(committed')
      /\ lg.base <= s.last_applied /\ s.commit_index <= s.last_applied
    BY <1>1, <1>2, <1>8
<1>10. /\ log' = [log EXCEPT ![i] = lg]
       /\ pending' = [pending EXCEPT ![i] = p]
       /\ replication' = [replication EXCEPT ![i] = repl]
    BY <1>3
<1>. HIDE DEF s, snap, kv, t, p, repl
<1>. QED  BY <1>1, <1>2, <1>5, <1>6, <1>7, <1>8, <1>9, <1>10, NodeUpdate

LEMMA SubmitReturnsTyped ==
    ASSUME TypeInv, NEW i \in Node, SubmitReturns(i)
    PROVE  TypeInv'
<1>. DEFINE s == state[i]
            repl == replication[i]
            t == transfer_term[i]
            A == [index : Nat, entry : EntryType, leader_term : Nat]
            ack(k) == [index |-> pending[i].first + k - 1,
                       entry |-> pending[i].entries[k],
                       leader_term |-> s.current_term]
<1>1. /\ s \in StateType /\ repl \in ReplicationOrNone(i) /\ t \in Nat
      /\ pending[i] \in PendingType
      /\ CallsWithin(rpcs, Len(committed)) /\ Ghosts
    BY Current
<1>2. \A k \in 1..Len(pending[i].entries) : ack(k) \in A
  <2>1. pending[i].first \in Nat /\ pending[i].entries \in Seq(EntryType)
      BY <1>1 DEF PendingType
  <2>2. \A k \in 1..Len(pending[i].entries) : pending[i].entries[k] \in EntryType
      BY <2>1, ElementOfSeq
  <2>3. \A k \in 1..Len(pending[i].entries) : pending[i].first + k - 1 \in Nat
      BY <2>1, LenProperties
  <2>4. s.current_term \in Nat
      BY <1>1 DEF StateType
  <2>. QED  BY <2>2, <2>3, <2>4
<1>3. acked' = acked \cup {ack(k) : k \in {n \in 1..Len(pending[i].entries) :
                                            Acknowledged(i, n)}}
    BY DEF SubmitReturns
<1>4. acked' \subseteq A
  <2>. HIDE DEF ack, A
  <2>1. acked \subseteq A
      BY <1>1 DEF Ghosts, A
  <2>. QED  BY <1>2, <1>3, <2>1
<1>5. /\ pending' = [pending EXCEPT ![i] = NoBatch]
      /\ UNCHANGED <<up, state, log, snapshot, store, replication, transfer_term,
                     disk, rpcs, elected, committed>>
    BY DEF SubmitReturns
<1>6. /\ state' = [state EXCEPT ![i] = s]
      /\ replication' = [replication EXCEPT ![i] = repl]
      /\ transfer_term' = [transfer_term EXCEPT ![i] = t]
    BY <1>5, Unchanged
<1>7. /\ elected' \subseteq Nat \X Node
      /\ CallsWithin(rpcs', Len(committed))
    BY <1>1, <1>5 DEF Ghosts
<1>8. /\ s.commit_index = state[i].commit_index
      /\ s.last_applied = state[i].last_applied
      /\ s.current_term = state[i].current_term
      /\ s.voted_for = state[i].voted_for
    OBVIOUS
<1>9. NoBatch \in PendingType
    BY InitialTypes
<1>. HIDE DEF s, repl, t
<1>. QED  BY <1>1, <1>4, <1>5, <1>6, <1>7, <1>8, <1>9, StateUpdate

-----------------------------------------------------------------------------
(* Leadership transfer.                                                    *)

(* Steps of one node that change its transfer_term and the network.        *)
LEMMA TransferTermUpdate ==
    ASSUME TypeInv, NEW i \in Node, NEW t \in Nat,
           transfer_term' = [transfer_term EXCEPT ![i] = t],
           UNCHANGED <<up, state, log, snapshot, store, replication, pending, disk,
                       history>>,
           CallsWithin(rpcs', Len(committed))
    PROVE  TypeInv'
<1>. DEFINE s == state[i]
            repl == replication[i]
            p == pending[i]
<1>1. s \in StateType /\ repl \in ReplicationOrNone(i) /\ p \in PendingType /\ Ghosts
    BY Current
<1>2. /\ state' = [state EXCEPT ![i] = s]
      /\ replication' = [replication EXCEPT ![i] = repl]
      /\ pending' = [pending EXCEPT ![i] = p]
    BY Unchanged
<1>3. /\ elected' \subseteq Nat \X Node
      /\ acked' \subseteq [index : Nat, entry : EntryType, leader_term : Nat]
      /\ committed' = committed
    BY <1>1 DEF Ghosts, history
<1>4. /\ s.commit_index = state[i].commit_index
      /\ s.last_applied = state[i].last_applied
      /\ s.current_term = state[i].current_term
      /\ s.voted_for = state[i].voted_for
    OBVIOUS
<1>. HIDE DEF s, repl, p
<1>. QED  BY <1>1, <1>2, <1>3, <1>4, StateUpdate

LEMMA BeginTransferTyped ==
    ASSUME TypeInv, NEW i \in Node, BeginTransfer(i)
    PROVE  TypeInv'
<1>1. state[i].current_term \in Nat /\ CallsWithin(rpcs, Len(committed))
    BY Current DEF StateType
<1>2. /\ transfer_term' = [transfer_term EXCEPT ![i] = state[i].current_term]
      /\ UNCHANGED <<up, state, log, snapshot, store, replication, pending, disk,
                     rpcs, history>>
    BY DEF BeginTransfer
<1>3. CallsWithin(rpcs', Len(committed))
    BY <1>1, <1>2
<1>. QED  BY <1>1, <1>2, <1>3, TransferTermUpdate

LEMMA AbortTransferTyped ==
    ASSUME TypeInv, NEW i \in Node, AbortTransfer(i)
    PROVE  TypeInv'
<1>1. /\ transfer_term' = [transfer_term EXCEPT ![i] = 0]
      /\ UNCHANGED <<up, state, log, snapshot, store, replication, pending, disk,
                     rpcs, history>>
    BY DEF AbortTransfer
<1>2. CallsWithin(rpcs', Len(committed))
    BY <1>1, Current
<1>. QED  BY <1>1, <1>2, TransferTermUpdate

LEMMA SendTimeoutNowTyped ==
    ASSUME TypeInv, NEW i \in Node, NEW f \in Node, SendTimeoutNow(i, f)
    PROVE  TypeInv'
<1>. DEFINE r == [kind |-> "TimeoutNow", term |-> transfer_term[i]]
<1>1. transfer_term[i] \in Nat
    BY Current
<1>2. r \in RequestType /\ RequestWithin(r, Len(committed))
    BY <1>1 DEF RequestType, RequestWithin
<1>3. rpcs' = rpcs \cup {Call(i, f, r)} /\ UNCHANGED <<up, memory, disk, history>>
    BY DEF SendTimeoutNow
<1>. HIDE DEF r
<1>4. CallsWithin({Call(i, f, r)}, Len(committed))
    BY <1>2, CallTyped DEF CallsWithin
<1>5. CallsWithin(rpcs', Len(committed))
    BY <1>3, <1>4, Current, NewCallsWithin
<1>. QED  BY <1>3, <1>5, CallsUpdate

LEMMA HandleTimeoutNowTyped ==
    ASSUME TypeInv, NEW c \in rpcs, HandleTimeoutNow(c)
    PROVE  TypeInv'
<1>. DEFINE i == c.dst
            s == IF c.req.term > state[i].current_term
                 THEN BecomeFollower(state[i], c.req.term, c.src) ELSE state[i]
            ok == /\ c.req.term = s.current_term
                  /\ s.role = Follower
                  /\ s.leader_id = c.src
            repl == replication[i]
            t == transfer_term[i]
            p == pending[i]
<1>0. c \in CallType /\ i \in Node /\ c.src \in Node /\ c.req.term \in Nat
    BY CallFields DEF TypeInv, TypeOK
<1>1. /\ s \in StateType
      /\ s.commit_index = state[i].commit_index
      /\ s.last_applied = state[i].last_applied
  <2>1. state[i] \in StateType
      BY <1>0, Current
  <2>. HIDE DEF i
  <2>. QED  BY <1>0, <2>1, BecomeFollowerType
<1>2. /\ state' = [state EXCEPT ![i] = s]
      /\ disk' = [disk EXCEPT ![i] = SaveState(@, s)]
      /\ Answer(c, s.current_term, ok)
      /\ UNCHANGED <<up, log, snapshot, store, replication, transfer_term,
                     pending, history>>
    BY DEF HandleTimeoutNow
<1>3. ok \in BOOLEAN
    OBVIOUS
<1>. HIDE DEF s, i, ok
<1>4. repl \in ReplicationOrNone(i) /\ t \in Nat /\ p \in PendingType
    BY <1>0, Current
<1>5. replication' = [replication EXCEPT ![i] = repl]
      /\ transfer_term' = [transfer_term EXCEPT ![i] = t]
      /\ pending' = [pending EXCEPT ![i] = p]
    BY <1>0, <1>2, Unchanged
<1>6. CallsWithin(rpcs', Len(committed))
  <2>1. s.current_term \in Nat
      BY <1>1 DEF StateType
  <2>. QED  BY <1>0, <1>2, <1>3, <2>1, Current, AnswerWithin
<1>7. /\ elected' \subseteq Nat \X Node
      /\ acked' \subseteq [index : Nat, entry : EntryType, leader_term : Nat]
      /\ committed' = committed
    BY <1>0, <1>2, Current DEF Ghosts, history
<1>. HIDE DEF repl, t, p
<1>. QED  BY <1>0, <1>1, <1>2, <1>4, <1>5, <1>6, <1>7, StateUpdate

LEMMA TransferAnsweredTyped ==
    ASSUME TypeInv, NEW c \in rpcs, TransferAnswered(c)
    PROVE  TypeInv'
<1>. DEFINE i == c.src
            s == IF ~LeadsTransfer(i) THEN state[i]
                 ELSE IF c.resp.term > state[i].current_term
                      THEN BecomeFollower(state[i], c.resp.term, None)
                 ELSE IF c.resp.ok
                      THEN BecomeFollower(state[i], transfer_term[i], None)
                 ELSE state[i]
            repl == IF s = state[i] THEN replication[i] ELSE NoReplication
            p == pending[i]
<1>0. c \in CallType /\ i \in Node /\ c.resp.term \in Nat
    BY CallFields DEF TypeInv, TypeOK
<1>1. /\ s \in StateType
      /\ s.commit_index = state[i].commit_index
      /\ s.last_applied = state[i].last_applied
  <2>. DEFINE a == BecomeFollower(state[i], c.resp.term, None)
              b == BecomeFollower(state[i], transfer_term[i], None)
  <2>1. state[i] \in StateType /\ transfer_term[i] \in Nat
      BY <1>0, Current
  <2>2. s \in {state[i], a, b}
      BY Zenon
  <2>. HIDE DEF i, s
  <2>3. /\ a \in StateType /\ b \in StateType
        /\ a.commit_index = state[i].commit_index
        /\ b.commit_index = state[i].commit_index
        /\ a.last_applied = state[i].last_applied
        /\ b.last_applied = state[i].last_applied
      BY <1>0, <2>1, BecomeFollowerType
  <2>. QED  BY <2>1, <2>2, <2>3
<1>2. /\ state' = [state EXCEPT ![i] = s]
      /\ disk' = [disk EXCEPT ![i] = SaveState(@, s)]
      /\ replication' = [replication EXCEPT ![i] = repl]
      /\ transfer_term' = [transfer_term EXCEPT ![i] = 0]
      /\ rpcs' \subseteq rpcs
      /\ UNCHANGED <<up, log, snapshot, store, pending, history>>
    BY DEF TransferAnswered
<1>. HIDE DEF s, i
<1>3. repl \in ReplicationOrNone(i) /\ p \in PendingType
    BY <1>0, Current DEF ReplicationOrNone
<1>4. pending' = [pending EXCEPT ![i] = p]
    BY <1>0, <1>2, Unchanged
<1>5. CallsWithin(rpcs', Len(committed))
    BY <1>0, <1>2, Current, FewerCallsWithin
<1>6. /\ elected' \subseteq Nat \X Node
      /\ acked' \subseteq [index : Nat, entry : EntryType, leader_term : Nat]
      /\ committed' = committed
    BY <1>0, <1>2, Current DEF Ghosts, history
<1>. HIDE DEF repl, p
<1>. QED  BY <1>0, <1>1, <1>2, <1>3, <1>4, <1>5, <1>6, StateUpdate

-----------------------------------------------------------------------------
(* Snapshots.                                                              *)

LEMMA CompactionType ==
    ASSUME TypeInv, NEW i \in Node, Compactable(i)
    PROVE  /\ SnapshotNow(i) \in SnapshotType
           /\ SnapshotNow(i).index <= state[i].commit_index
           /\ SnapshotNow(i).index <= state[i].last_applied
           /\ CompactThrough(log[i], SnapshotNow(i).index) \in LogType
           /\ CompactThrough(log[i], SnapshotNow(i).index).base = SnapshotNow(i).index
<1>. DEFINE index == Min({state[i].commit_index, state[i].last_applied})
            term == TermAt(log[i], index)
<1>1. /\ state[i] \in StateType /\ log[i] \in LogType /\ store[i] \in StoreType
    BY Current
<1>2. state[i].commit_index \in Nat /\ state[i].last_applied \in Nat
    BY <1>1 DEF StateType
<1>3. index \in Nat /\ index <= state[i].commit_index /\ index <= state[i].last_applied
    BY <1>2, MinOfTwo
<1>4. SnapshotNow(i) = [index |-> index, term |-> term, state |-> store[i]]
    BY DEF SnapshotNow
<1>5. term # NoTerm
    BY <1>4 DEF Compactable
<1>. HIDE DEF index
<1>6. term \in Nat
    BY <1>1, <1>3, <1>5, LogTypes, TermAtType
<1>7. CompactThrough(log[i], index) \in LogType
      /\ CompactThrough(log[i], index).base = index
    BY <1>1, <1>3, <1>5, LogTypes, CompactThroughType
<1>. HIDE DEF term
<1>. QED  BY <1>1, <1>3, <1>4, <1>6, <1>7 DEF SnapshotType

LEMMA CreateSnapshotTyped ==
    ASSUME TypeInv, NEW i \in Node, CreateSnapshot(i)
    PROVE  TypeInv'
<1>. DEFINE s == state[i]
            snap == SnapshotNow(i)
            lg == CompactThrough(log[i], snap.index)
            repl == replication[i]
            kv == store[i]
            t == transfer_term[i]
            p == pending[i]
<1>0. Compactable(i) /\ i \in up
    BY DEF CreateSnapshot, Compactable
<1>1. /\ snap \in SnapshotType /\ lg \in LogType /\ lg.base = snap.index
      /\ snap.index <= s.commit_index /\ snap.index <= s.last_applied
    BY <1>0, CompactionType
<1>2. /\ s \in StateType /\ log[i] \in LogType /\ snapshot[i] \in SnapshotType
      /\ kv \in StoreType /\ repl \in ReplicationOrNone(i)
      /\ t \in Nat /\ p \in PendingType
      /\ Len(committed) \in Nat /\ CallsWithin(rpcs, Len(committed)) /\ Ghosts
      /\ s.commit_index <= Len(committed) /\ s.commit_index <= s.last_applied
      /\ disk[i] = Image(s, log[i], snapshot[i])
    BY <1>0, Current
<1>3. /\ snapshot' = [snapshot EXCEPT ![i] = snap]
      /\ log' = [log EXCEPT ![i] = lg]
    BY DEF CreateSnapshot
<1>4. /\ disk' = [disk EXCEPT ![i] = SaveAll(@, s, lg, snap)]
      /\ UNCHANGED <<up, state, store, replication, transfer_term, pending, rpcs,
                     history>>
    BY DEF CreateSnapshot, SaveAll
<1>. HIDE DEF snap, lg
<1>5. disk' = [disk EXCEPT ![i] = Image(s, lg, snap)]
  <2>1. SaveAll(disk[i], s, lg, snap) = Image(s, lg, snap)
    <3>. HIDE DEF s
    <3>. QED  BY <1>1, <1>2, SaveAllImage
  <2>. QED  BY <1>4, <2>1
<1>6. /\ state' = [state EXCEPT ![i] = s]
      /\ store' = [store EXCEPT ![i] = kv]
      /\ replication' = [replication EXCEPT ![i] = repl]
      /\ transfer_term' = [transfer_term EXCEPT ![i] = t]
      /\ pending' = [pending EXCEPT ![i] = p]
    BY <1>4, Unchanged
<1>7. /\ Ghosts' /\ Len(committed) <= Len(committed')
      /\ CallsWithin(rpcs', Len(committed))
      /\ up' \subseteq Node /\ up' \subseteq up \cup {i}
      /\ committed' = committed
    BY <1>2, <1>4 DEF Ghosts, TypeInv, TypeOK, history
<1>8. /\ s.commit_index <= Len(committed')
      /\ lg.base <= Len(committed')
      /\ snap.index <= Len(committed')
      /\ lg.base <= s.last_applied /\ s.commit_index <= s.last_applied
  <2>1. snap.index \in Nat /\ s.commit_index \in Nat
      BY <1>1, <1>2 DEF SnapshotType, StateType
  <2>. HIDE DEF s
  <2>. QED  BY <1>1, <1>2, <1>7, <2>1
<1>. HIDE DEF s, kv, t, p, repl
<1>. QED  BY <1>1, <1>2, <1>3, <1>5, <1>6, <1>7, <1>8, NodeUpdate

-----------------------------------------------------------------------------
(* Crashes and restarts.                                                   *)

LEMMA DiesTyped ==
    ASSUME TypeInv, NEW i \in Node, NEW d \in DiskType, NEW done, Dies(i, d, done),
           d.commit_index <= Len(committed),
           d.log.base <= Len(committed),
           d.snapshot.index <= Len(committed)
    PROVE  TypeInv'
<1>. DEFINE s == Loaded(d)
            lg == d.log
            snap == d.snapshot
            own == {c \in rpcs : c.src = i /\ c.st # "late"}
<1>1. /\ s \in StateType /\ s.commit_index = d.commit_index
      /\ lg \in LogType /\ snap \in SnapshotType
      /\ d = Image(s, lg, snap)
    BY LoadedType
<1>2. /\ up' = up \ {i}
      /\ disk' = [disk EXCEPT ![i] = d]
      /\ state' = [state EXCEPT ![i] = s]
      /\ log' = [log EXCEPT ![i] = lg]
      /\ snapshot' = [snapshot EXCEPT ![i] = snap]
      /\ store' = [store EXCEPT ![i] = EmptyStore]
      /\ replication' = [replication EXCEPT ![i] = NoReplication]
      /\ transfer_term' = [transfer_term EXCEPT ![i] = 0]
      /\ pending' = [pending EXCEPT ![i] = NoBatch]
      /\ AbandonAfter(own, done)
      /\ UNCHANGED history
    BY DEF Dies
<1>. HIDE DEF s, lg, snap
<1>3. disk' = [disk EXCEPT ![i] = Image(s, lg, snap)]
    BY <1>1, <1>2
<1>4. CallsWithin(rpcs', Len(committed))
  <2>1. own \in SUBSET rpcs
      OBVIOUS
  <2>. HIDE DEF own
  <2>. QED  BY <1>2, <2>1, Current, AbandonWithin
<1>5. /\ Ghosts' /\ Len(committed) <= Len(committed')
      /\ up' \subseteq Node /\ up' \subseteq up \cup {i} /\ i \notin up'
      /\ committed' = committed
  <2>1. Ghosts /\ Len(committed) \in Nat
      BY Current
  <2>2. UNCHANGED <<elected, committed, acked>> /\ up' = up \ {i}
      BY <1>2 DEF history
  <2>3. up \subseteq Node
      BY DEF TypeInv, TypeOK
  <2>. QED  BY <2>1, <2>2, <2>3 DEF Ghosts
<1>6. /\ EmptyStore \in StoreType /\ NoReplication \in ReplicationOrNone(i)
      /\ NoBatch \in PendingType /\ 0 \in Nat
    BY InitialTypes DEF ReplicationOrNone
<1>7. /\ s.commit_index <= Len(committed')
      /\ lg.base <= Len(committed')
      /\ snap.index <= Len(committed')
    BY <1>1, <1>5 DEF lg, snap
<1>8. /\ state' = [state EXCEPT ![i] = s]
      /\ log' = [log EXCEPT ![i] = lg]
      /\ snapshot' = [snapshot EXCEPT ![i] = snap]
      /\ store' = [store EXCEPT ![i] = EmptyStore]
      /\ replication' = [replication EXCEPT ![i] = NoReplication]
      /\ transfer_term' = [transfer_term EXCEPT ![i] = 0]
      /\ pending' = [pending EXCEPT ![i] = NoBatch]
    BY <1>2
<1>. QED  BY <1>1, <1>3, <1>4, <1>5, <1>6, <1>7, <1>8, NodeUpdate

(* What a handler may have written before the process died: the log, the   *)
(* snapshot or both.                                                       *)
Written(d, lg, snap) == [d EXCEPT !.log = lg, !.snapshot = snap]

LEMMA WrittenType ==
    ASSUME NEW d \in DiskType, NEW lg \in LogType, NEW snap \in SnapshotType
    PROVE  /\ Written(d, lg, snap) \in DiskType
           /\ Written(d, lg, snap).commit_index = d.commit_index
           /\ Written(d, lg, snap).current_term = d.current_term
           /\ Written(d, lg, snap).voted_for = d.voted_for
           /\ Written(d, lg, snap).log = lg
           /\ Written(d, lg, snap).snapshot = snap
<1>. QED  BY DEF Written, DiskType

LEMMA DiskFields ==
    ASSUME TypeInv, NEW i \in Node
    PROVE  /\ disk[i] \in DiskType
           /\ disk[i].log = log[i] /\ disk[i].snapshot = snapshot[i]
           /\ disk[i].current_term = state[i].current_term
           /\ disk[i].voted_for = state[i].voted_for
           /\ disk[i].commit_index = state[i].commit_index
<1>1. disk[i] \in DiskType /\ disk[i] = Image(state[i], log[i], snapshot[i])
    BY Current
<1>. QED  BY <1>1 DEF Image

LEMMA DiesAfterWriting ==
    ASSUME TypeInv, NEW i \in Node, NEW lg \in LogType, NEW snap \in SnapshotType,
           NEW done, Dies(i, Written(disk[i], lg, snap), done),
           lg.base <= Len(committed), snap.index <= Len(committed)
    PROVE  TypeInv'
<1>. DEFINE d == Written(disk[i], lg, snap)
<1>1. /\ d \in DiskType /\ d.log = lg /\ d.snapshot = snap
      /\ d.commit_index = state[i].commit_index
  <2>. DEFINE f == disk[i]
  <2>1. f \in DiskType /\ f.commit_index = state[i].commit_index
      BY DiskFields
  <2>. HIDE DEF f
  <2>2. /\ Written(f, lg, snap) \in DiskType
        /\ Written(f, lg, snap).log = lg
        /\ Written(f, lg, snap).snapshot = snap
        /\ Written(f, lg, snap).commit_index = f.commit_index
      BY <2>1, WrittenType
  <2>. QED  BY <2>1, <2>2 DEF f
<1>2. d.commit_index <= Len(committed)
    BY <1>1, Current
<1>. HIDE DEF d
<1>3. Dies(i, d, done)
    BY DEF d
<1>. QED  BY <1>1, <1>2, <1>3, DiesTyped

LEMMA CrashTyped ==
    ASSUME TypeInv, NEW i \in Node, Crash(i)
    PROVE  TypeInv'
<1>1. /\ disk[i].commit_index <= Len(committed)
      /\ disk[i].log.base <= Len(committed)
      /\ disk[i].snapshot.index <= Len(committed)
    BY DiskFields, Current
<1>2. disk[i] \in DiskType /\ Dies(i, disk[i], {})
    BY DiskFields DEF Crash
<1>. QED  BY <1>1, <1>2, DiesTyped

LEMMA CrashInCreateSnapshotTyped ==
    ASSUME TypeInv, NEW i \in Node, CrashInCreateSnapshot(i)
    PROVE  TypeInv'
<1>. DEFINE snap == SnapshotNow(i)
<1>1. snap \in SnapshotType /\ snap.index <= state[i].commit_index
    BY CompactionType DEF CrashInCreateSnapshot
<1>2. /\ log[i] \in LogType /\ log[i].base <= Len(committed)
      /\ state[i] \in StateType /\ state[i].commit_index <= Len(committed)
      /\ Len(committed) \in Nat
    BY Current
<1>3. snap.index <= Len(committed)
  <2>1. snap.index \in Nat /\ state[i].commit_index \in Nat
      BY <1>1, <1>2 DEF SnapshotType, StateType
  <2>. HIDE DEF snap
  <2>. QED  BY <1>1, <1>2, <2>1
<1>4. Dies(i, [disk[i] EXCEPT !.snapshot = snap], {})
    BY DEF CrashInCreateSnapshot
<1>. HIDE DEF snap
<1>5. [disk[i] EXCEPT !.snapshot = snap] = Written(disk[i], log[i], snap)
    BY <1>1, <1>2, DiskFields DEF DiskType, Written
<1>. QED  BY <1>1, <1>2, <1>3, <1>4, <1>5, DiesAfterWriting

LEMMA CrashInSubmitTyped ==
    ASSUME TypeInv, NEW i \in Node, NEW b \in Batch, CrashInSubmit(i, b)
    PROVE  TypeInv'
<1>. DEFINE lg == AppendAll(log[i], NewEntries(i, b))
<1>1. lg \in LogType /\ lg.base = log[i].base
    BY NewEntriesType
<1>2. /\ snapshot[i] \in SnapshotType /\ snapshot[i].index <= Len(committed)
      /\ log[i].base <= Len(committed)
    BY Current
<1>3. disk[i] \in DiskType /\ disk[i].log = log[i] /\ disk[i].snapshot = snapshot[i]
    BY DiskFields
<1>4. Dies(i, [disk[i] EXCEPT !.log = lg], {})
    BY <1>3 DEF CrashInSubmit, DiskType
<1>. HIDE DEF lg
<1>5. [disk[i] EXCEPT !.log = lg] = Written(disk[i], lg, snapshot[i])
    BY <1>1, <1>2, <1>3 DEF DiskType, Written
<1>. QED  BY <1>1, <1>2, <1>4, <1>5, DiesAfterWriting

LEMMA CrashInAppendEntriesTyped ==
    ASSUME TypeInv, NEW c \in rpcs, CrashInAppendEntries(c)
    PROVE  TypeInv'
<1>. DEFINE i == c.dst
            lg == Synchronize(log[i], c.req.prev_log_index, c.req.entries)
<1>0. c \in CallType /\ i \in Node
    BY CallFields DEF TypeInv, TypeOK
<1>1. c.req.kind = "AppendEntries" /\ Accepts(log[i], c.req)
    BY DEF CrashInAppendEntries, Deliverable
<1>2. /\ log[i] \in LogType /\ log[i].base <= Len(committed)
      /\ snapshot[i] \in SnapshotType /\ snapshot[i].index <= Len(committed)
    BY <1>0, Current
<1>3. disk[i] \in DiskType /\ disk[i].log = log[i] /\ disk[i].snapshot = snapshot[i]
    BY <1>0, DiskFields
<1>4. lg \in LogType
    BY <1>1, <1>2, AppendRequestFields, SynchronizedType
<1>5. PICK written \in JournalPrefixes(log[i], lg) :
            Dies(i, [disk[i] EXCEPT !.log = written], {c})
    BY DEF CrashInAppendEntries
<1>. HIDE DEF lg, i
<1>6. written \in LogType /\ written.base = log[i].base
    BY <1>2, <1>4, LogTypes, JournalPrefixesType
<1>7. [disk[i] EXCEPT !.log = written] = Written(disk[i], written, snapshot[i])
    BY <1>2, <1>3, <1>6 DEF DiskType, Written
<1>. QED  BY <1>0, <1>2, <1>5, <1>6, <1>7, DiesAfterWriting

LEMMA CrashInInstallSnapshotTyped ==
    ASSUME TypeInv, NEW c \in rpcs, CrashInInstallSnapshot(c)
    PROVE  TypeInv'
<1>. DEFINE i == c.dst
            r == c.req
            snap == SnapshotOf(r)
<1>0. c \in CallType /\ i \in Node
    BY CallFields DEF TypeInv, TypeOK
<1>1. c.req.kind = "InstallSnapshot"
    BY DEF CrashInInstallSnapshot, Deliverable
<1>2. /\ log[i] \in LogType /\ log[i].base <= Len(committed)
    BY <1>0, Current
<1>3. disk[i] \in DiskType /\ disk[i].log = log[i] /\ disk[i].snapshot = snapshot[i]
    BY <1>0, DiskFields
<1>4. /\ r.index \in Nat /\ r.index_term \in Nat
      /\ snap \in SnapshotType /\ snap.index = r.index
      /\ r.index <= Len(committed)
    BY <1>1, InstallRequestFields
<1>5. PICK written \in {log[i], Installed(i, r)} :
            Dies(i, [disk[i] EXCEPT !.snapshot = snap, !.log = written], {c})
    BY DEF CrashInInstallSnapshot
<1>6. written \in LogType /\ written.base <= Len(committed)
  <2>1. Installed(i, r) \in LogType /\ Installed(i, r).base = r.index
      BY <1>2, <1>4, BoundaryType DEF Installed
  <2>. HIDE DEF i, r
  <2>. QED  BY <1>2, <1>4, <2>1
<1>. HIDE DEF i, snap
<1>7. [disk[i] EXCEPT !.snapshot = snap, !.log = written] = Written(disk[i], written, snap)
    BY <1>3, <1>4, <1>6 DEF DiskType, Written
<1>8. snap.index <= Len(committed)
    BY <1>4
<1>. QED  BY <1>0, <1>4, <1>5, <1>6, <1>7, <1>8, DiesAfterWriting

LEMMA RecoveryType ==
    ASSUME NEW d \in DiskType, CanRestart(d), NEW n \in Nat,
           d.commit_index <= n, d.snapshot.index <= n
    PROVE  /\ RecoveredLog(d) \in LogType
           /\ RecoveredLog(d).base = d.snapshot.index
           /\ RecoveredCommit(d) \in Nat
           /\ RecoveredCommit(d) <= LastIndex(RecoveredLog(d))
           /\ d.snapshot.index <= RecoveredCommit(d)
           /\ RecoveredCommit(d) <= n
<1>1. /\ d.log \in LogType /\ d.snapshot \in SnapshotType
      /\ d.commit_index \in Nat
    BY DEF DiskType
<1>2. /\ d.snapshot.index \in Nat /\ d.snapshot.term \in Nat /\ d.log.base \in Nat
    BY <1>1 DEF SnapshotType, LogType
<1>3. RecoveredLog(d) \in LogType /\ RecoveredLog(d).base = d.snapshot.index
  <2>1. /\ InstallBoundary(d.log, d.snapshot.index, d.snapshot.term) \in LogType
        /\ InstallBoundary(d.log, d.snapshot.index, d.snapshot.term).base
               = d.snapshot.index
      BY <1>1, <1>2, BoundaryType
  <2>. QED  BY <1>1, <1>2, <2>1 DEF RecoveredLog, CanRestart
<1>4. RecoveredCommit(d) = IF d.commit_index >= d.snapshot.index
                           THEN d.commit_index ELSE d.snapshot.index
    BY <1>1, <1>2, MaxOfTwo DEF RecoveredCommit
<1>. QED  BY <1>1, <1>2, <1>3, <1>4 DEF CanRestart

LEMMA RestartTyped ==
    ASSUME TypeInv, NEW i \in Node, Restart(i)
    PROVE  TypeInv'
<1>. DEFINE d == disk[i]
            lg == RecoveredLog(d)
            commit == RecoveredCommit(d)
            l == Loaded(d)
            s == [l EXCEPT !.commit_index = commit, !.last_applied = commit]
            snap == d.snapshot
            kv == ApplyCommitted(snap.state, lg, snap.index, commit)
            repl == replication[i]
            t == transfer_term[i]
            p == pending[i]
<1>0. CanRestart(d)
    BY DEF Restart
<1>1. /\ state' = [state EXCEPT ![i] = s]
      /\ log' = [log EXCEPT ![i] = lg]
      /\ store' = [store EXCEPT ![i] = kv]
      /\ disk' = [disk EXCEPT ![i] = [SaveState(@, s) EXCEPT !.log = lg]]
      /\ up' = up \cup {i}
      /\ UNCHANGED <<snapshot, replication, transfer_term, pending, rpcs, history>>
    BY DEF Restart
<1>2. /\ d \in DiskType /\ snap = snapshot[i]
      /\ d.commit_index = state[i].commit_index
    BY DiskFields
<1>3. /\ state[i] \in StateType /\ log[i] \in LogType
      /\ snapshot[i] \in SnapshotType /\ repl \in ReplicationOrNone(i)
      /\ t \in Nat /\ p \in PendingType
      /\ Len(committed) \in Nat /\ CallsWithin(rpcs, Len(committed)) /\ Ghosts
      /\ state[i].commit_index <= Len(committed)
      /\ snapshot[i].index <= Len(committed)
      /\ d = Image(state[i], log[i], snapshot[i])
    BY Current
<1>. HIDE DEF d
<1>4. /\ lg \in LogType /\ lg.base = snap.index
      /\ commit \in Nat /\ commit <= LastIndex(lg)
      /\ snap.index <= commit /\ commit <= Len(committed)
  <2>1. d.commit_index <= Len(committed) /\ d.snapshot.index <= Len(committed)
      BY <1>2, <1>3
  <2>. QED  BY <1>0, <1>2, <1>3, <2>1, RecoveryType
<1>5. l \in StateType
    BY <1>2, LoadedType
<1>. HIDE DEF lg, commit, l
<1>6. s \in StateType /\ s.commit_index = commit /\ s.last_applied = commit
    BY <1>4, <1>5 DEF StateType
<1>7. snap \in SnapshotType /\ snap.index \in Nat /\ snap.state \in StoreType
    BY <1>2, <1>3 DEF SnapshotType
<1>8. kv \in StoreType
  <2>. HIDE DEF snap
  <2>. QED  BY <1>4, <1>7, ApplyCommittedType
<1>. HIDE DEF s, kv
<1>9. disk' = [disk EXCEPT ![i] = Image(s, lg, snap)]
  <2>1. SaveState(d, s) = Image(s, log[i], snap)
      BY <1>2, <1>3, <1>6, SaveStateImage
  <2>2. [SaveState(d, s) EXCEPT !.log = lg] = Image(s, lg, snap)
      BY <2>1 DEF Image
  <2>. QED  BY <1>1, <2>2 DEF d
<1>. HIDE DEF snap
<1>10. /\ snapshot' = [snapshot EXCEPT ![i] = snap]
       /\ replication' = [replication EXCEPT ![i] = repl]
       /\ transfer_term' = [transfer_term EXCEPT ![i] = t]
       /\ pending' = [pending EXCEPT ![i] = p]
    BY <1>1, <1>2, Unchanged
<1>11. /\ Ghosts' /\ Len(committed) <= Len(committed')
       /\ CallsWithin(rpcs', Len(committed))
       /\ up' \subseteq Node /\ up' \subseteq up \cup {i}
       /\ committed' = committed
  <2>1. UNCHANGED <<elected, committed, acked, rpcs>> /\ up' = up \cup {i}
      BY <1>1 DEF history
  <2>2. up \subseteq Node
      BY DEF TypeInv, TypeOK
  <2>. QED  BY <1>3, <2>1, <2>2 DEF Ghosts
<1>12. /\ s.commit_index <= Len(committed')
       /\ lg.base <= Len(committed')
       /\ snap.index <= Len(committed')
       /\ lg.base <= s.last_applied /\ s.commit_index <= s.last_applied
    BY <1>3, <1>4, <1>6, <1>7, <1>11
<1>13. /\ state' = [state EXCEPT ![i] = s]
       /\ log' = [log EXCEPT ![i] = lg]
       /\ store' = [store EXCEPT ![i] = kv]
    BY <1>1
<1>. HIDE DEF repl, t, p
<1>. QED
    BY <1>3, <1>4, <1>6, <1>7, <1>8, <1>9, <1>10, <1>11, <1>12, <1>13, NodeUpdate

LEMMA VoteAfterElectionTyped ==
    ASSUME TypeInv, NEW c \in rpcs, VoteAfterElection(c)
    PROVE  TypeInv'
<1>. DEFINE calls == CallsOf(c.src, {"RequestVote"})
<1>1. calls \in SUBSET rpcs
    BY DEF CallsOf
<1>2. AbandonAfter(calls, {})
    BY DEF VoteAfterElection, Abandon
<1>. HIDE DEF calls
<1>3. CallsWithin(rpcs', Len(committed))
  <2>1. Len(committed) \in Nat /\ CallsWithin(rpcs, Len(committed))
      BY LenProperties DEF TypeInv, TypeOK, WithinHistory, CallsWithin
  <2>. QED  BY <1>1, <1>2, <2>1, AbandonWithin
<1>. QED  BY <1>3, CallsUpdate DEF VoteAfterElection

-----------------------------------------------------------------------------
(* Losses.                                                                 *)

LEMMA CallFailsTyped ==
    ASSUME TypeInv, NEW c \in rpcs, CallFails(c)
    PROVE  TypeInv'
<1>. DEFINE i == c.src
            s == state[i]
            repl == replication[i]
            t == IF c.req.kind = "TimeoutNow" THEN 0 ELSE transfer_term[i]
            p == pending[i]
            calls == IF c.req.kind = "RequestVote" /\ ~StillCandidate(c)
                     THEN CallsOf(i, {"RequestVote"}) ELSE {c}
<1>0. i \in Node
    BY CallFields DEF TypeInv, TypeOK
<1>1. /\ AbandonAfter(calls, {})
      /\ transfer_term' = IF c.req.kind = "TimeoutNow"
                          THEN [transfer_term EXCEPT ![i] = 0] ELSE transfer_term
      /\ UNCHANGED <<up, state, log, snapshot, store, replication, pending, disk,
                     history>>
    BY DEF CallFails, Abandon
<1>2. calls \in SUBSET rpcs
    BY DEF CallsOf
<1>. HIDE DEF calls, i
<1>3. /\ s \in StateType /\ repl \in ReplicationOrNone(i)
      /\ t \in Nat /\ p \in PendingType
      /\ Len(committed) \in Nat /\ CallsWithin(rpcs, Len(committed)) /\ Ghosts
    BY <1>0, Current
<1>4. CallsWithin(rpcs', Len(committed))
    BY <1>1, <1>2, <1>3, AbandonWithin
<1>5. /\ state' = [state EXCEPT ![i] = s]
      /\ replication' = [replication EXCEPT ![i] = repl]
      /\ pending' = [pending EXCEPT ![i] = p]
    BY <1>0, <1>1, Unchanged
<1>6. transfer_term' = [transfer_term EXCEPT ![i] = t]
  <2>1. transfer_term = [transfer_term EXCEPT ![i] = transfer_term[i]]
      BY <1>0, Unchanged
  <2>. QED  BY <1>1, <2>1
<1>7. /\ UNCHANGED <<up, log, snapshot, store, committed, disk>>
      /\ elected' \subseteq Nat \X Node
      /\ acked' \subseteq [index : Nat, entry : EntryType, leader_term : Nat]
    BY <1>1, <1>3 DEF history, Ghosts
<1>8. /\ s.commit_index = state[i].commit_index
      /\ s.last_applied = state[i].last_applied
      /\ s.current_term = state[i].current_term
      /\ s.voted_for = state[i].voted_for
    OBVIOUS
<1>. HIDE DEF s, repl, t, p
<1>. QED  BY <1>0, <1>3, <1>4, <1>5, <1>6, <1>7, <1>8, StateUpdate

LEMMA LateRequestLostTyped ==
    ASSUME TypeInv, NEW c \in rpcs, LateRequestLost(c)
    PROVE  TypeInv'
<1>1. CallsWithin(rpcs', Len(committed))
  <2>1. Len(committed) \in Nat /\ CallsWithin(rpcs, Len(committed))
      BY LenProperties DEF TypeInv, TypeOK, WithinHistory, CallsWithin
  <2>2. rpcs' \subseteq rpcs
      BY DEF LateRequestLost
  <2>. QED  BY <2>1, <2>2, FewerCallsWithin
<1>. QED  BY <1>1, CallsUpdate DEF LateRequestLost

-----------------------------------------------------------------------------
(* The theorems.                                                           *)

LEMMA InitTyped == Init => TypeInv
<1>. SUFFICES ASSUME Init  PROVE TypeInv
    OBVIOUS
<1>1. /\ InitialState.commit_index = 0 /\ InitialState.last_applied = 0
      /\ EmptyLog.base = 0 /\ InitialSnapshot.index = 0
    BY DEF InitialState, EmptyLog, InitialSnapshot
<1>2. committed \in Seq([entry : EntryType, by : Nat]) /\ Len(committed) = 0
    BY EmptySeq DEF Init
<1>3. InitialDisk \in DiskType
    BY InitialTypes, ImageType
<1>4. TypeOK
    BY <1>2, <1>3, InitialTypes DEF Init, TypeOK, PendingType
<1>5. Durable
    BY InitialTypes DEF Init, Durable
<1>6. WithinHistory
    BY <1>1, <1>2 DEF Init, WithinHistory
<1>7. AppliedAboveBase
    BY <1>1 DEF Init, AppliedAboveBase
<1>. QED  BY <1>4, <1>5, <1>6, <1>7 DEF TypeInv

LEMMA StepTyped == TypeInv /\ [Next]_vars => TypeInv'
<1>. SUFFICES ASSUME TypeInv, [Next]_vars  PROVE TypeInv'
    OBVIOUS
<1>1. CASE ElectionStep
    BY <1>1, StartElectionTyped, HandleRequestVoteTyped, VoteAfterElectionTyped,
       VoteFromNewerTermTyped, RecordVoteTyped DEF ElectionStep
<1>2. CASE ReplicationStep
    BY <1>2, SendToFollowerTyped, AdvanceCommitTyped, HandleAppendEntriesTyped,
       AnswerAfterLeadershipTyped, AnswerFromNewerTermTyped, AnswerToLeaderTyped
    DEF ReplicationStep
<1>3. CASE ClientStep
    BY <1>3, SubmitTyped, SubmitReturnsTyped DEF ClientStep
<1>4. CASE SnapshotStep
    BY <1>4, CreateSnapshotTyped, HandleInstallSnapshotTyped, RejectSnapshotTyped
    DEF SnapshotStep
<1>5. CASE TransferStep
    BY <1>5, BeginTransferTyped, AbortTransferTyped, SendTimeoutNowTyped,
       HandleTimeoutNowTyped, TransferAnsweredTyped DEF TransferStep
<1>6. CASE CrashStep
    BY <1>6, CrashTyped, CrashInCreateSnapshotTyped, RestartTyped,
       CrashInSubmitTyped, CrashInAppendEntriesTyped, CrashInInstallSnapshotTyped
    DEF CrashStep
<1>7. CASE LossStep
    BY <1>7, CallFailsTyped, LateRequestLostTyped DEF LossStep
<1>8. CASE UNCHANGED vars
  <2>1. UNCHANGED <<up, memory, disk, history>> /\ rpcs' = rpcs
      BY <1>8 DEF vars
  <2>2. CallsWithin(rpcs', Len(committed))
      BY <2>1 DEF TypeInv, TypeOK, WithinHistory, CallsWithin
  <2>. QED  BY <2>1, <2>2, CallsUpdate
<1>. QED  BY <1>1, <1>2, <1>3, <1>4, <1>5, <1>6, <1>7, <1>8 DEF Next

LEMMA TypeInvHolds == Spec => []TypeInv
<1>. QED  BY InitTyped, StepTyped, PTL DEF Spec

(* Every variable of every reachable state has its type: no request is     *)
(* built from a missing term, no index leaves the naturals, nothing is     *)
(* sliced outside a log.                                                   *)
THEOREM TypeCorrect == Spec => []TypeOK
<1>1. TypeInv => TypeOK
    BY DEF TypeInv
<1>. QED  BY <1>1, TypeInvHolds, PTL

(* Whenever the lock of a running node is free, its files hold the term,   *)
(* vote, commit index, log and snapshot it acts on, so an answer never     *)
(* promises what a crash would take back (the conditional saves of         *)
(* node.py).                                                               *)
THEOREM Durability == Spec => []DurableBeforeAnswer
<1>1. TypeInv => DurableBeforeAnswer
  <2>. SUFFICES ASSUME TypeInv, NEW i \in up
                PROVE  /\ disk[i].current_term = state[i].current_term
                       /\ disk[i].voted_for = state[i].voted_for
                       /\ disk[i].commit_index = state[i].commit_index
                       /\ disk[i].log = log[i]
                       /\ disk[i].snapshot = snapshot[i]
      BY DEF DurableBeforeAnswer
  <2>1. i \in Node
      BY DEF TypeInv, TypeOK
  <2>2. disk[i] = Image(state[i], log[i], snapshot[i])
      BY <2>1 DEF TypeInv, Durable
  <2>. QED  BY <2>2 DEF Image
<1>. QED  BY <1>1, TypeInvHolds, PTL

-----------------------------------------------------------------------------
Granting(c) == c.req.kind = "RequestVote" /\ c.st = "answered" /\ c.resp.ok

AnsweredVote(v, t, x) ==
    \E c \in rpcs : Granting(c) /\ c.src = x /\ c.dst = v /\ c.req.term = t

CountedVote(v, t, x) ==
    /\ state[x].role = Candidate
    /\ state[x].current_term = t
    /\ v \in state[x].votes

Evidence(v, t, x) == AnsweredVote(v, t, x) \/ CountedVote(v, t, x)

Supports(v, t, x) ==
    \/ state[v].current_term > t
    \/ state[v].current_term = t /\ state[v].voted_for = x

EvidenceSupported ==
    \A v, x \in Node, t \in Nat : Evidence(v, t, x) => Supports(v, t, x)

EvidenceUnique ==
    \A v, x, y \in Node, t \in Nat : Evidence(v, t, x) /\ Evidence(v, t, y) => x = y

(* Q elected x in term t.                                                  *)
Backs(Q, t, x) ==
    \A v \in Q : /\ Supports(v, t, x)
                 /\ \A y \in Node : Evidence(v, t, y) => y = x

ElectedBacked == \A e \in elected : \E Q \in Quorum : Backs(Q, e[1], e[2])

ElectionInv ==
    TypeInv /\ EvidenceSupported /\ EvidenceUnique /\ ElectedBacked /\ ElectionSafety

-----------------------------------------------------------------------------
(* What a step may do to votes.                                            *)

(* The body of VoteSticky for one node.                                    *)
Sticks(i) ==
    /\ state'[i].current_term >= state[i].current_term
    /\ state'[i].current_term = state[i].current_term
         => \/ state[i].voted_for = None
            \/ state'[i].voted_for = state[i].voted_for

(* No candidate counts more than before.                                   *)
KeepsVotes(i) ==
    state'[i].role = Candidate =>
        /\ state[i].role = Candidate
        /\ state'[i].current_term = state[i].current_term
        /\ state'[i].votes \subseteq state[i].votes

(* No vote appears and no leader is elected.                               *)
Quiet ==
    /\ \A i \in Node : Sticks(i) /\ KeepsVotes(i)
    /\ \A c \in rpcs' : Granting(c) => c \in rpcs
    /\ elected' = elected

(* v votes for x in term t.                                                *)
NewVote(v, t, x) ==
    /\ state'[v].current_term = t /\ state'[v].voted_for = x
    /\ \/ state[v].current_term < t
       \/ state[v].current_term = t /\ state[v].voted_for \in {None, x}

(* What is common to all steps.                                            *)
Lawful ==
    /\ \A i \in Node : Sticks(i)
    /\ \A v, x \in Node, t \in Nat :
          Evidence(v, t, x)' => Evidence(v, t, x) \/ NewVote(v, t, x)
    /\ \A e \in elected' \ elected : \E Q \in Quorum : \A v \in Q :
          Evidence(v, e[1], e[2]) \/ NewVote(v, e[1], e[2])

LEMMA QuorumsIntersect ==
    ASSUME NEW P \in Quorum, NEW Q \in Quorum
    PROVE  P \cap Q # {} /\ P \subseteq Node
<1>1. /\ IsFiniteSet(Node) /\ P \subseteq Node /\ Q \subseteq Node
      /\ Cardinality(P) > Cardinality(Node) \div 2
      /\ Cardinality(Q) > Cardinality(Node) \div 2
    BY NodeAssumption DEF Quorum
<1>2. Cardinality(Node) \in Nat /\ Cardinality(P) \in Nat /\ Cardinality(Q) \in Nat
    BY <1>1, FS_CardinalityType, FS_Subset
<1>3. Cardinality(P) + Cardinality(Q) > Cardinality(Node)
    BY <1>1, <1>2
<1>. QED  BY <1>1, <1>3, FS_MajoritiesIntersect

LEMMA SupportStays ==
    ASSUME NEW v \in Node, NEW x \in Node, NEW t \in Nat,
           state[v] \in StateType, state'[v] \in StateType,
           Sticks(v), Supports(v, t, x)
    PROVE  Supports(v, t, x)'
<1>1. x # None
    BY NodeAssumption
<1>2. state[v].current_term \in Nat /\ state'[v].current_term \in Nat
    BY DEF StateType
<1>. QED  BY <1>1, <1>2 DEF Sticks, Supports

(* The heart of the argument, apart from the steps that make it true.      *)
LEMMA LawfulKeepsElectionInv ==
    ASSUME ElectionInv, TypeInv', Lawful
    PROVE  ElectionInv'
<1>0. /\ \A v \in Node : /\ state[v] \in StateType
                         /\ state'[v] \in StateType
                         /\ state[v].current_term \in Nat
                         /\ state'[v].current_term \in Nat
      /\ None \notin Node
      /\ elected \subseteq Nat \X Node /\ elected' \subseteq Nat \X Node
    BY NodeAssumption DEF ElectionInv, TypeInv, TypeOK, StateType
<1>1. ASSUME NEW v \in Node, NEW x \in Node, NEW t \in Nat, Supports(v, t, x)
      PROVE  Supports(v, t, x)'
    BY <1>0, <1>1, SupportStays DEF Lawful
<1>2. EvidenceSupported'
  <2>. SUFFICES ASSUME NEW v \in Node, NEW x \in Node, NEW t \in Nat,
                       Evidence(v, t, x)'
                PROVE  Supports(v, t, x)'
      BY DEF EvidenceSupported
  <2>1. Evidence(v, t, x) \/ NewVote(v, t, x)
      BY DEF Lawful
  <2>2. CASE Evidence(v, t, x)
    <3>1. Supports(v, t, x)
        BY <2>2 DEF ElectionInv, EvidenceSupported
    <3>. QED  BY <1>1, <3>1
  <2>3. CASE NewVote(v, t, x)
      BY <2>3 DEF NewVote, Supports
  <2>. QED  BY <2>1, <2>2, <2>3
<1>3. ASSUME NEW v \in Node, NEW x \in Node, NEW y \in Node, NEW t \in Nat,
             NewVote(v, t, x), Supports(v, t, y)
      PROVE  x = y
    BY <1>0, <1>3 DEF NewVote, Supports
<1>4. ASSUME NEW v \in Node, NEW x \in Node, NEW y \in Node, NEW t \in Nat,
             Evidence(v, t, x) \/ NewVote(v, t, x),
             Evidence(v, t, y) \/ NewVote(v, t, y)
      PROVE  x = y
  <2>1. CASE Evidence(v, t, x) /\ Evidence(v, t, y)
      BY <2>1 DEF ElectionInv, EvidenceUnique
  <2>2. CASE Evidence(v, t, x) /\ NewVote(v, t, y)
    <3>1. Supports(v, t, x)
        BY <2>2 DEF ElectionInv, EvidenceSupported
    <3>. QED  BY <1>3, <2>2, <3>1
  <2>3. CASE NewVote(v, t, x) /\ Evidence(v, t, y)
    <3>1. Supports(v, t, y)
        BY <2>3 DEF ElectionInv, EvidenceSupported
    <3>. QED  BY <1>3, <2>3, <3>1
  <2>4. CASE NewVote(v, t, x) /\ NewVote(v, t, y)
      BY <2>4 DEF NewVote
  <2>. QED  BY <1>4, <2>1, <2>2, <2>3, <2>4
<1>5. ASSUME NEW v \in Node, NEW x \in Node, NEW t \in Nat, Evidence(v, t, x)'
      PROVE  Evidence(v, t, x) \/ NewVote(v, t, x)
    BY <1>5 DEF Lawful
<1>6. EvidenceUnique'
    BY <1>4, <1>5 DEF EvidenceUnique
<1>7. ASSUME NEW e \in elected, NEW Q \in Quorum, Backs(Q, e[1], e[2]),
             NEW v \in Q, NEW y \in Node,
             Evidence(v, e[1], y) \/ NewVote(v, e[1], y)
      PROVE  y = e[2]
  <2>1. v \in Node /\ e[1] \in Nat /\ e[2] \in Node
      BY <1>0, QuorumsIntersect
  <2>2. Supports(v, e[1], e[2]) /\ (Evidence(v, e[1], y) => y = e[2])
      BY <1>7 DEF Backs
  <2>. QED  BY <1>3, <1>7, <2>1, <2>2
<1>8. ASSUME NEW e \in elected' \ elected
      PROVE  \E Q \in Quorum : \A v \in Q :
                Evidence(v, e[1], e[2]) \/ NewVote(v, e[1], e[2])
    BY DEF Lawful
<1>9. ElectedBacked'
  <2>. SUFFICES ASSUME NEW e \in elected'
                PROVE  \E Q \in Quorum : Backs(Q, e[1], e[2])'
      BY DEF ElectedBacked
  <2>0. e[1] \in Nat /\ e[2] \in Node
      BY <1>0
  <2>1. CASE e \in elected
    <3>1. PICK Q \in Quorum : Backs(Q, e[1], e[2])
        BY <2>1 DEF ElectionInv, ElectedBacked
    <3>2. ASSUME NEW v \in Q
          PROVE  /\ Supports(v, e[1], e[2])'
                 /\ \A y \in Node : Evidence(v, e[1], y)' => y = e[2]
      <4>1. v \in Node /\ Supports(v, e[1], e[2])
          BY <3>1, QuorumsIntersect DEF Backs
      <4>2. Supports(v, e[1], e[2])'
          BY <1>1, <2>0, <4>1
      <4>3. ASSUME NEW y \in Node, Evidence(v, e[1], y)'
            PROVE  y = e[2]
        <5>1. Evidence(v, e[1], y) \/ NewVote(v, e[1], y)
            BY <1>5, <2>0, <4>1, <4>3
        <5>. QED  BY <1>7, <2>1, <3>1, <5>1
      <4>. QED  BY <4>2, <4>3
    <3>. QED  BY <3>2 DEF Backs
  <2>2. CASE e \notin elected
    <3>1. PICK Q \in Quorum : \A v \in Q :
              Evidence(v, e[1], e[2]) \/ NewVote(v, e[1], e[2])
        BY <1>8, <2>2
    <3>2. ASSUME NEW v \in Q
          PROVE  /\ Supports(v, e[1], e[2])'
                 /\ \A y \in Node : Evidence(v, e[1], y)' => y = e[2]
      <4>1. v \in Node /\ (Evidence(v, e[1], e[2]) \/ NewVote(v, e[1], e[2]))
          BY <3>1, QuorumsIntersect
      <4>2. Supports(v, e[1], e[2])'
        <5>1. CASE Evidence(v, e[1], e[2])
          <6>1. Supports(v, e[1], e[2])
              BY <2>0, <4>1, <5>1 DEF ElectionInv, EvidenceSupported
          <6>. QED  BY <1>1, <2>0, <4>1, <6>1
        <5>2. CASE NewVote(v, e[1], e[2])
            BY <5>2 DEF NewVote, Supports
        <5>. QED  BY <4>1, <5>1, <5>2
      <4>3. ASSUME NEW y \in Node, Evidence(v, e[1], y)'
            PROVE  y = e[2]
        <5>1. Evidence(v, e[1], y) \/ NewVote(v, e[1], y)
            BY <1>5, <2>0, <4>1, <4>3
        <5>. QED  BY <1>4, <2>0, <4>1, <5>1
      <4>. QED  BY <4>2, <4>3
    <3>. QED  BY <3>2 DEF Backs
  <2>. QED  BY <2>1, <2>2
(* Two quorums share a voter.                                              *)
<1>10. ASSUME NEW e \in elected', NEW f \in elected' \ elected, e[1] = f[1]
       PROVE  e[2] = f[2]
  <2>1. e[1] \in Nat /\ e[2] \in Node /\ f[2] \in Node
      BY <1>0
  <2>2. PICK P \in Quorum : \A v \in P :
            Evidence(v, f[1], f[2]) \/ NewVote(v, f[1], f[2])
      BY <1>8
  <2>3. CASE e \in elected
    <3>1. PICK Q \in Quorum : Backs(Q, e[1], e[2])
        BY <2>3 DEF ElectionInv, ElectedBacked
    <3>2. PICK v \in Q : v \in P
        BY QuorumsIntersect
    <3>3. Evidence(v, e[1], f[2]) \/ NewVote(v, e[1], f[2])
        BY <1>10, <2>2, <3>2
    <3>. QED  BY <1>7, <2>1, <2>3, <3>1, <3>3
  <2>4. CASE e \notin elected
    <3>1. PICK Q \in Quorum : \A v \in Q :
              Evidence(v, e[1], e[2]) \/ NewVote(v, e[1], e[2])
        BY <1>8, <2>4
    <3>2. PICK v \in Q : v \in P
        BY QuorumsIntersect
    <3>3. v \in Node
        BY QuorumsIntersect
    <3>4. /\ Evidence(v, e[1], e[2]) \/ NewVote(v, e[1], e[2])
          /\ Evidence(v, e[1], f[2]) \/ NewVote(v, e[1], f[2])
        BY <1>10, <2>2, <3>1, <3>2
    <3>. QED  BY <1>4, <2>1, <3>3, <3>4
  <2>. QED  BY <2>3, <2>4
<1>11. ElectionSafety'
  <2>1. \A e, f \in elected : e[1] = f[1] => e[2] = f[2]
      BY DEF ElectionInv, ElectionSafety
  <2>2. ASSUME NEW e \in elected', NEW f \in elected', e[1] = f[1]
        PROVE  e[2] = f[2]
      BY <1>10, <2>1, <2>2
  <2>. QED  BY <2>2 DEF ElectionSafety
<1>. QED  BY <1>2, <1>6, <1>9, <1>11 DEF ElectionInv

-----------------------------------------------------------------------------
(* Steps in which nobody votes.                                            *)

Steady(i, s) ==
    /\ s.current_term >= state[i].current_term
    /\ s.current_term = state[i].current_term
         => state[i].voted_for = None \/ s.voted_for = state[i].voted_for
    /\ s.role = Candidate => /\ state[i].role = Candidate
                             /\ s.current_term = state[i].current_term
                             /\ s.votes \subseteq state[i].votes

NoNewGrant == \A c \in rpcs' : Granting(c) => c \in rpcs

LEMMA QuietIsLawful == Quiet => Lawful
<1>. SUFFICES ASSUME Quiet  PROVE Lawful
    OBVIOUS
<1>1. ASSUME NEW v \in Node, NEW x \in Node, NEW t \in Nat, Evidence(v, t, x)'
      PROVE  Evidence(v, t, x)
  <2>1. CASE AnsweredVote(v, t, x)'
      BY <2>1 DEF Quiet, AnsweredVote, Granting, Evidence
  <2>2. CASE CountedVote(v, t, x)'
      BY <2>2 DEF Quiet, KeepsVotes, CountedVote, Evidence
  <2>. QED  BY <1>1, <2>1, <2>2 DEF Evidence
<1>. QED  BY <1>1 DEF Quiet, Lawful

LEMMA QuietUpdate ==
    ASSUME TypeInv, NEW i \in Node, NEW s, Steady(i, s), NoNewGrant,
           state' = [state EXCEPT ![i] = s], elected' = elected
    PROVE  Quiet
<1>1. state \in [Node -> StateType]
    BY DEF TypeInv, TypeOK
<1>2. ASSUME NEW j \in Node
      PROVE  Sticks(j) /\ KeepsVotes(j)
  <2>1. CASE j = i
      BY <1>1, <2>1 DEF Steady, Sticks, KeepsVotes
  <2>2. CASE j # i
    <3>1. state'[j] = state[j] /\ state[j].current_term \in Nat
        BY <1>1, <2>2 DEF StateType
    <3>. QED  BY <3>1 DEF Sticks, KeepsVotes
  <2>. QED  BY <2>1, <2>2
<1>. QED  BY <1>2 DEF Quiet, NoNewGrant

LEMMA QuietCalls ==
    ASSUME TypeInv, NoNewGrant, UNCHANGED <<state, elected>>
    PROVE  Quiet
<1>1. \A j \in Node : state'[j] = state[j] /\ state[j].current_term \in Nat
    BY DEF TypeInv, TypeOK, StateType
<1>. QED  BY <1>1 DEF Quiet, NoNewGrant, Sticks, KeepsVotes

LEMMA BecomeFollowerFields ==
    ASSUME NEW s \in StateType, NEW term \in Nat, NEW leader \in Node \cup {None}
    PROVE  /\ BecomeFollower(s, term, leader).current_term = term
           /\ BecomeFollower(s, term, leader).voted_for =
                 IF term > s.current_term THEN None ELSE s.voted_for
           /\ BecomeFollower(s, term, leader).role = Follower
<1>. QED  BY DEF BecomeFollower, StateType

LEMMA FollowerIsSteady ==
    ASSUME TypeInv, NEW i \in Node, NEW term \in Nat, NEW leader \in Node \cup {None},
           term >= state[i].current_term
    PROVE  Steady(i, BecomeFollower(state[i], term, leader))
<1>. DEFINE old == state[i]
            s == BecomeFollower(old, term, leader)
<1>1. old \in StateType /\ old.current_term \in Nat
    BY Current DEF StateType
<1>. HIDE DEF old
<1>2. /\ s.current_term = term
      /\ s.voted_for = IF term > old.current_term THEN None ELSE old.voted_for
      /\ s.role = Follower
    BY <1>1, BecomeFollowerFields
<1>3. Follower # Candidate
    BY DEF Follower, Candidate
<1>. HIDE DEF s
<1>4. Steady(i, s)
    BY <1>1, <1>2, <1>3 DEF Steady, old
<1>. QED  BY <1>4 DEF s, old

LEMMA SameIsSteady ==
    ASSUME TypeInv, NEW i \in Node, NEW s,
           s.current_term = state[i].current_term, s.voted_for = state[i].voted_for,
           s.role = Candidate => s.role = state[i].role /\ s.votes = state[i].votes
    PROVE  Steady(i, s)
<1>1. state[i].current_term \in Nat
    BY Current DEF StateType
<1>. QED  BY <1>1 DEF Steady

LEMMA AnswerNoGrant ==
    ASSUME NEW c \in CallType, NEW term, NEW ok, Answer(c, term, ok),
           c.req.kind # "RequestVote" \/ ~ok
    PROVE  NoNewGrant
<1>. DEFINE a == [c EXCEPT !.st = "answered", !.resp = [term |-> term, ok |-> ok]]
<1>1. a.req = c.req /\ a.resp.ok = ok
    BY DEF CallType
<1>2. rpcs' \subseteq rpcs \cup {a}
    BY DEF Answer
<1>. HIDE DEF a
<1>. QED  BY <1>1, <1>2 DEF NoNewGrant, Granting

LEMMA AbandonNoGrant ==
    ASSUME rpcs \subseteq CallType, NEW calls, NEW done, AbandonAfter(calls, done),
           calls \subseteq rpcs
    PROVE  NoNewGrant
<1>1. PICK late \in SUBSET {c \in calls \ done : c.st = "sent"} :
            rpcs' = (rpcs \ (calls \cup done))
                       \cup {[c EXCEPT !.st = "late"] : c \in late}
    BY DEF AbandonAfter
<1>2. ASSUME NEW d \in rpcs', Granting(d)  PROVE d \in rpcs
  <2>1. CASE \E c \in late : d = [c EXCEPT !.st = "late"]
    <3>1. PICK c \in CallType : d = [c EXCEPT !.st = "late"]
        BY <2>1
    <3>2. d.st = "late"
        BY <3>1 DEF CallType
    <3>. QED  BY <1>2, <3>2 DEF Granting
  <2>. QED  BY <1>1, <2>1
<1>. QED  BY <1>2 DEF NoNewGrant

LEMMA SendNoGrant ==
    ASSUME NEW calls, rpcs' = rpcs \cup calls, \A c \in calls : c.st = "sent"
    PROVE  NoNewGrant
<1>. QED  BY DEF NoNewGrant, Granting

LEMMA FewerNoGrant == rpcs' \subseteq rpcs => NoNewGrant
<1>. QED  BY DEF NoNewGrant

LEMMA CallOnNetwork ==
    ASSUME TypeInv, NEW c \in rpcs
    PROVE  /\ c \in CallType /\ rpcs \subseteq CallType
           /\ c.src \in Node /\ c.dst \in Node
           /\ c.req.term \in Nat /\ c.resp.term \in Nat
<1>. QED  BY CallFields DEF TypeInv, TypeOK

(* Steps that leave every node's state alone.                              *)
LEMMA SendsQuiet ==
    ASSUME TypeInv,
           \E i, f \in Node : SendToFollower(i, f) \/ SendTimeoutNow(i, f)
    PROVE  Quiet
<1>1. PICK i \in Node, f \in Node : SendToFollower(i, f) \/ SendTimeoutNow(i, f)
    OBVIOUS
<1>2. UNCHANGED <<state, elected>>
    BY <1>1 DEF SendToFollower, SendTimeoutNow, memory, history
<1>3. NoNewGrant
  <2>1. \E r : rpcs' = rpcs \cup {Call(i, f, r)}
      BY <1>1 DEF SendToFollower, SendTimeoutNow
  <2>2. PICK r : rpcs' = rpcs \cup {Call(i, f, r)}
      BY <2>1
  <2>. DEFINE calls == {Call(i, f, r)}
  <2>3. \A c \in calls : c.st = "sent"
      BY DEF Call
  <2>4. rpcs' = rpcs \cup calls
      BY <2>2
  <2>. HIDE DEF calls
  <2>. QED  BY <2>3, <2>4, SendNoGrant
<1>. QED  BY <1>2, <1>3, QuietCalls

LEMMA LocalQuiet ==
    ASSUME TypeInv, NEW i \in Node,
           \/ SubmitReturns(i) \/ BeginTransfer(i) \/ AbortTransfer(i)
           \/ CreateSnapshot(i) \/ \E b \in Batch : Submit(i, b)
    PROVE  Quiet
<1>1. UNCHANGED <<state, elected, rpcs>>
    BY DEF SubmitReturns, BeginTransfer, AbortTransfer, CreateSnapshot, Submit, history
<1>. QED  BY <1>1, FewerNoGrant, QuietCalls

LEMMA DropsQuiet ==
    ASSUME TypeInv, NEW c \in rpcs,
           AnswerAfterLeadership(c) \/ AnswerToLeader(c) \/ LateRequestLost(c)
    PROVE  Quiet
<1>1. UNCHANGED <<state, elected>> /\ rpcs' \subseteq rpcs
    BY DEF AnswerAfterLeadership, AnswerToLeader, LateRequestLost, memory, history
<1>. QED  BY <1>1, FewerNoGrant, QuietCalls

LEMMA AbandonsQuiet ==
    ASSUME TypeInv, NEW c \in rpcs, VoteAfterElection(c) \/ CallFails(c)
    PROVE  Quiet
<1>1. UNCHANGED <<state, elected>>
    BY DEF VoteAfterElection, CallFails, memory, history
<1>2. \E calls \in SUBSET rpcs : AbandonAfter(calls, {})
  <2>1. CallsOf(c.src, {"RequestVote"}) \in SUBSET rpcs /\ {c} \in SUBSET rpcs
      BY DEF CallsOf
  <2>. QED  BY <2>1 DEF VoteAfterElection, CallFails, Abandon
<1>3. NoNewGrant
    BY <1>2, CallOnNetwork, AbandonNoGrant
<1>. QED  BY <1>1, <1>3, QuietCalls

(* Steps that change the state of one node.                                *)
LEMMA VoteFromNewerTermQuiet ==
    ASSUME TypeInv, NEW c \in rpcs, VoteFromNewerTerm(c)
    PROVE  Quiet
<1>. DEFINE i == c.src
            s == BecomeFollower(state[i], c.resp.term, None)
            calls == CallsOf(i, {"RequestVote"})
<1>1. /\ state' = [state EXCEPT ![i] = s]
      /\ AbandonAfter(calls, {})
      /\ c.resp.term > state[i].current_term
      /\ elected' = elected
    BY DEF VoteFromNewerTerm, Abandon, history
<1>2. /\ i \in Node /\ c.resp.term \in Nat /\ rpcs \subseteq CallType
      /\ state[i].current_term \in Nat
    BY CallOnNetwork, Current DEF StateType
<1>3. calls \subseteq rpcs
    BY DEF CallsOf
<1>. HIDE DEF i, calls
<1>4. Steady(i, s)
    BY <1>1, <1>2, FollowerIsSteady
<1>5. NoNewGrant
    BY <1>1, <1>2, <1>3, AbandonNoGrant
<1>. HIDE DEF s
<1>. QED  BY <1>1, <1>2, <1>4, <1>5, QuietUpdate

LEMMA AnswerFromNewerTermQuiet ==
    ASSUME TypeInv, NEW c \in rpcs, AnswerFromNewerTerm(c)
    PROVE  Quiet
<1>. DEFINE i == c.src
            s == BecomeFollower(state[i], c.resp.term, None)
<1>1. /\ state' = [state EXCEPT ![i] = s]
      /\ rpcs' \subseteq rpcs
      /\ c.resp.term > state[i].current_term
      /\ elected' = elected
    BY DEF AnswerFromNewerTerm, history
<1>2. i \in Node /\ c.resp.term \in Nat /\ state[i].current_term \in Nat
    BY CallOnNetwork, Current DEF StateType
<1>. HIDE DEF i
<1>3. c.resp.term >= state[i].current_term
    BY <1>1, <1>2
<1>4. Steady(i, s)
    BY <1>2, <1>3, FollowerIsSteady
<1>. HIDE DEF s
<1>. QED  BY <1>1, <1>2, <1>4, FewerNoGrant, QuietUpdate

LEMMA AdvanceCommitQuiet ==
    ASSUME TypeInv, NEW i \in Node, AdvanceCommit(i)
    PROVE  Quiet
<1>. DEFINE index == CommitCandidate(i)
            s == [state[i] EXCEPT !.commit_index = index, !.last_applied = index]
<1>1. /\ state' = [state EXCEPT ![i] = s]
      /\ UNCHANGED <<rpcs, elected>>
    BY DEF AdvanceCommit
<1>2. state[i] \in StateType
    BY Current
<1>. HIDE DEF index
<1>3. /\ s.current_term = state[i].current_term
      /\ s.voted_for = state[i].voted_for
      /\ s.role = state[i].role /\ s.votes = state[i].votes
    BY <1>2 DEF StateType
<1>. HIDE DEF s
<1>4. Steady(i, s)
    BY <1>3, SameIsSteady
<1>. QED  BY <1>1, <1>4, FewerNoGrant, QuietUpdate

(* A follower that adopts commit indexes with the term of a request.       *)
LEMMA AdoptedIsSteady ==
    ASSUME TypeInv, NEW i \in Node, NEW term \in Nat, NEW leader \in Node \cup {None},
           term >= state[i].current_term, NEW commit, NEW applied
    PROVE  Steady(i, [BecomeFollower(state[i], term, leader) EXCEPT
                        !.commit_index = commit, !.last_applied = applied])
<1>. DEFINE f == BecomeFollower(state[i], term, leader)
            s == [f EXCEPT !.commit_index = commit, !.last_applied = applied]
<1>1. Steady(i, f)
    BY FollowerIsSteady
<1>2. f \in StateType
    BY Current, BecomeFollowerType
<1>. HIDE DEF f
<1>3. /\ s.current_term = f.current_term /\ s.voted_for = f.voted_for
      /\ s.role = f.role /\ s.votes = f.votes
    BY <1>2 DEF StateType
<1>. HIDE DEF s
<1>4. Steady(i, s)
    BY <1>1, <1>3 DEF Steady
<1>. QED  BY <1>4 DEF s, f

LEMMA HandleAppendEntriesQuiet ==
    ASSUME TypeInv, NEW c \in rpcs, HandleAppendEntries(c)
    PROVE  Quiet
<1>. DEFINE i == c.dst
            r == c.req
<1>0. /\ c \in CallType /\ i \in Node /\ c.src \in Node /\ r.term \in Nat
      /\ state[i].current_term \in Nat
    BY CallOnNetwork, Current DEF StateType
<1>1. c.req.kind # "RequestVote" /\ elected' = elected
    BY DEF HandleAppendEntries, Deliverable, history
<1>2. CASE r.term < state[i].current_term
  <2>1. UNCHANGED state /\ Answer(c, state[i].current_term, FALSE)
      BY <1>2 DEF HandleAppendEntries
  <2>. QED  BY <1>0, <1>1, <2>1, AnswerNoGrant, QuietCalls
<1>3. CASE ~(r.term < state[i].current_term)
  <2>1. \E commit, applied, term, ok :
            /\ state' = [state EXCEPT ![i] =
                            [BecomeFollower(state[i], r.term, c.src) EXCEPT
                               !.commit_index = commit, !.last_applied = applied]]
            /\ Answer(c, term, ok)
    <3>. DEFINE f == BecomeFollower(state[i], r.term, c.src)
                ok == Accepts(log[i], r)
                lg == IF ok THEN Synchronize(log[i], r.prev_log_index, r.entries)
                            ELSE log[i]
                commit == IF ok THEN FollowerCommit(state[i], lg, r)
                                ELSE state[i].commit_index
                applied == IF commit > f.last_applied THEN commit ELSE f.last_applied
                t == [f EXCEPT !.commit_index = commit,
                               !.last_applied = IF commit > @ THEN commit ELSE @]
    <3>1. state' = [state EXCEPT ![i] = t] /\ Answer(c, t.current_term, ok)
        BY <1>3 DEF HandleAppendEntries
    <3>2. t = [f EXCEPT !.commit_index = commit, !.last_applied = applied]
        OBVIOUS
    <3>. HIDE DEF commit, applied, ok, lg
    <3>. QED  BY <3>1, <3>2
  <2>2. PICK commit, applied, term, ok :
            /\ state' = [state EXCEPT ![i] =
                            [BecomeFollower(state[i], r.term, c.src) EXCEPT
                               !.commit_index = commit, !.last_applied = applied]]
            /\ Answer(c, term, ok)
      BY <2>1
  <2>. DEFINE s == [BecomeFollower(state[i], r.term, c.src) EXCEPT
                      !.commit_index = commit, !.last_applied = applied]
  <2>3. r.term >= state[i].current_term
      BY <1>0, <1>3
  <2>4. Steady(i, s)
    <3>. HIDE DEF i, r
    <3>. QED  BY <1>0, <2>3, AdoptedIsSteady
  <2>5. state' = [state EXCEPT ![i] = s]
      BY <2>2
  <2>6. NoNewGrant
      BY <1>0, <1>1, <2>2, AnswerNoGrant
  <2>. HIDE DEF s, i
  <2>. QED  BY <1>0, <1>1, <2>4, <2>5, <2>6, QuietUpdate
<1>. QED  BY <1>2, <1>3

LEMMA HandleInstallSnapshotQuiet ==
    ASSUME TypeInv, NEW c \in rpcs, HandleInstallSnapshot(c)
    PROVE  Quiet
<1>. DEFINE i == c.dst
            r == c.req
            commit == CommitAfterInstall(i, r)
            s == [BecomeFollower(state[i], r.term, c.src) EXCEPT
                    !.commit_index = commit, !.last_applied = commit]
<1>0. c \in CallType /\ i \in Node /\ c.src \in Node /\ r.term \in Nat
    BY CallOnNetwork
<1>1. /\ state' = [state EXCEPT ![i] = s]
      /\ Answer(c, s.current_term, TRUE)
      /\ r.term >= state[i].current_term
      /\ c.req.kind # "RequestVote" /\ elected' = elected
    BY DEF HandleInstallSnapshot, Deliverable, history
<1>2. Steady(i, s)
  <2>. HIDE DEF i, r, commit
  <2>. QED  BY <1>0, <1>1, AdoptedIsSteady
<1>. HIDE DEF s, i
<1>3. NoNewGrant
    BY <1>0, <1>1, AnswerNoGrant
<1>. QED  BY <1>0, <1>1, <1>2, <1>3, QuietUpdate

LEMMA RejectSnapshotQuiet ==
    ASSUME TypeInv, NEW c \in rpcs, RejectSnapshot(c)
    PROVE  Quiet
<1>. DEFINE i == c.dst
            r == c.req
            stale == r.term < state[i].current_term
            ok == ~stale /\ OlderSnapshot(i, r)
            s == IF stale THEN state[i] ELSE BecomeFollower(state[i], r.term, c.src)
<1>0. /\ c \in CallType /\ i \in Node /\ c.src \in Node /\ r.term \in Nat
      /\ state[i].current_term \in Nat
    BY CallOnNetwork, Current DEF StateType
<1>1. /\ state' = [state EXCEPT ![i] = s]
      /\ Answer(c, s.current_term, ok)
      /\ c.req.kind # "RequestVote" /\ elected' = elected
    BY DEF RejectSnapshot, Deliverable, history
<1>. HIDE DEF i, r, ok
<1>2. Steady(i, s)
  <2>1. CASE stale
      BY <1>0, <2>1, SameIsSteady
  <2>2. CASE ~stale
      BY <1>0, <2>2, FollowerIsSteady
  <2>. QED  BY <2>1, <2>2
<1>. HIDE DEF s, stale
<1>3. NoNewGrant
    BY <1>0, <1>1, AnswerNoGrant
<1>. QED  BY <1>0, <1>1, <1>2, <1>3, QuietUpdate

LEMMA HandleTimeoutNowQuiet ==
    ASSUME TypeInv, NEW c \in rpcs, HandleTimeoutNow(c)
    PROVE  Quiet
<1>. DEFINE i == c.dst
            r == c.req
            newer == r.term > state[i].current_term
            s == IF newer THEN BecomeFollower(state[i], r.term, c.src) ELSE state[i]
            ok == r.term = s.current_term /\ s.role = Follower /\ s.leader_id = c.src
<1>0. /\ c \in CallType /\ i \in Node /\ c.src \in Node /\ r.term \in Nat
      /\ state[i].current_term \in Nat
    BY CallOnNetwork, Current DEF StateType
<1>1. /\ state' = [state EXCEPT ![i] = s]
      /\ Answer(c, s.current_term, ok)
      /\ c.req.kind # "RequestVote" /\ elected' = elected
    BY DEF HandleTimeoutNow, Deliverable, history
<1>. HIDE DEF i, r, ok
<1>2. Steady(i, s)
  <2>1. CASE ~newer
      BY <1>0, <2>1, SameIsSteady
  <2>2. CASE newer
      BY <1>0, <2>2, FollowerIsSteady
  <2>. QED  BY <2>1, <2>2
<1>. HIDE DEF s, newer
<1>3. NoNewGrant
    BY <1>0, <1>1, AnswerNoGrant
<1>. QED  BY <1>0, <1>1, <1>2, <1>3, QuietUpdate

LEMMA TransferAnsweredQuiet ==
    ASSUME TypeInv, NEW c \in rpcs, TransferAnswered(c)
    PROVE  Quiet
<1>. DEFINE i == c.src
            s == IF ~LeadsTransfer(i) THEN state[i]
                 ELSE IF c.resp.term > state[i].current_term
                      THEN BecomeFollower(state[i], c.resp.term, None)
                 ELSE IF c.resp.ok
                      THEN BecomeFollower(state[i], transfer_term[i], None)
                 ELSE state[i]
<1>0. /\ i \in Node /\ c.resp.term \in Nat /\ state[i].current_term \in Nat
      /\ LeadsTransfer(i) => transfer_term[i] = state[i].current_term
    BY CallOnNetwork, Current DEF StateType, LeadsTransfer
<1>1. /\ state' = [state EXCEPT ![i] = s]
      /\ rpcs' \subseteq rpcs /\ elected' = elected
    BY DEF TransferAnswered, history
<1>. HIDE DEF i
<1>2. Steady(i, s)
  <2>1. CASE s = state[i]
      BY <1>0, <2>1, SameIsSteady
  <2>2. CASE \E term \in Nat : /\ term >= state[i].current_term
                               /\ s = BecomeFollower(state[i], term, None)
      BY <1>0, <2>2, FollowerIsSteady
  <2>. QED  BY <1>0, <2>1, <2>2
<1>. HIDE DEF s
<1>. QED  BY <1>0, <1>1, <1>2, FewerNoGrant, QuietUpdate

LEMMA DiesQuiet ==
    ASSUME TypeInv, NEW i \in Node, NEW d, NEW done, Dies(i, d, done),
           d.current_term = state[i].current_term, d.voted_for = state[i].voted_for
    PROVE  Quiet
<1>. DEFINE s == Loaded(d)
            calls == {c \in rpcs : c.src = i /\ c.st # "late"}
<1>1. state' = [state EXCEPT ![i] = s] /\ elected' = elected
      /\ AbandonAfter(calls, done)
    BY DEF Dies, history
<1>2. /\ s.current_term = state[i].current_term
      /\ s.voted_for = state[i].voted_for
      /\ s.role # Candidate
    BY DEF Loaded, InitialState, Follower, Candidate
<1>3. calls \subseteq rpcs /\ rpcs \subseteq CallType
    BY DEF TypeInv, TypeOK
<1>. HIDE DEF s, calls
<1>4. Steady(i, s)
    BY <1>2, SameIsSteady
<1>5. NoNewGrant
    BY <1>1, <1>3, AbandonNoGrant
<1>. QED  BY <1>1, <1>4, <1>5, QuietUpdate

LEMMA CrashQuiet ==
    ASSUME TypeInv, NEW i \in Node,
           \/ Crash(i) \/ CrashInCreateSnapshot(i)
           \/ \E b \in Batch : CrashInSubmit(i, b)
    PROVE  Quiet
<1>1. disk[i] \in DiskType
    BY DiskFields
<1>2. \E d : /\ Dies(i, d, {})
             /\ d.current_term = disk[i].current_term
             /\ d.voted_for = disk[i].voted_for
  <2>1. CASE Crash(i)
      BY <2>1 DEF Crash
  <2>2. CASE CrashInCreateSnapshot(i)
      BY <1>1, <2>2 DEF CrashInCreateSnapshot, DiskType
  <2>3. CASE \E b \in Batch : CrashInSubmit(i, b)
    <3>1. PICK b \in Batch : CrashInSubmit(i, b)
        BY <2>3
    <3>. DEFINE lg == AppendAll(disk[i].log, NewEntries(i, b))
    <3>2. Dies(i, [disk[i] EXCEPT !.log = lg], {})
        BY <1>1, <3>1 DEF CrashInSubmit, DiskType
    <3>. HIDE DEF lg
    <3>. QED  BY <1>1, <3>2 DEF DiskType
  <2>. QED  BY <2>1, <2>2, <2>3
<1>. QED  BY <1>2, DiskFields, DiesQuiet

LEMMA CrashInHandlerQuiet ==
    ASSUME TypeInv, NEW c \in rpcs,
           CrashInAppendEntries(c) \/ CrashInInstallSnapshot(c)
    PROVE  Quiet
<1>. DEFINE i == c.dst
<1>1. i \in Node
    BY CallOnNetwork
<1>2. disk[i] \in DiskType
    BY <1>1, DiskFields
<1>3. \E d : /\ Dies(i, d, {c})
             /\ d.current_term = disk[i].current_term
             /\ d.voted_for = disk[i].voted_for
  <2>1. CASE CrashInAppendEntries(c)
    <3>1. PICK written : Dies(i, [disk[i] EXCEPT !.log = written], {c})
        BY <2>1 DEF CrashInAppendEntries
    <3>. QED  BY <1>2, <3>1 DEF DiskType
  <2>2. CASE CrashInInstallSnapshot(c)
    <3>1. PICK snap, written :
              Dies(i, [disk[i] EXCEPT !.snapshot = snap, !.log = written], {c})
        BY <2>2 DEF CrashInInstallSnapshot
    <3>. DEFINE f == disk[i]
                d == [f EXCEPT !.snapshot = snap, !.log = written]
    <3>2. d.current_term = f.current_term /\ d.voted_for = f.voted_for
        BY <1>2 DEF DiskType
    <3>3. Dies(i, d, {c})
        BY <3>1
    <3>. HIDE DEF d
    <3>. QED  BY <3>2, <3>3
  <2>. QED  BY <2>1, <2>2
<1>. HIDE DEF i
<1>. QED  BY <1>1, <1>3, DiskFields, DiesQuiet

LEMMA RestartQuiet ==
    ASSUME TypeInv, NEW i \in Node, Restart(i)
    PROVE  Quiet
<1>. DEFINE d == disk[i]
            commit == RecoveredCommit(d)
            l == Loaded(d)
            s == [l EXCEPT !.commit_index = commit, !.last_applied = commit]
<1>1. state' = [state EXCEPT ![i] = s] /\ UNCHANGED <<rpcs, elected>>
    BY DEF Restart, history
<1>2. /\ l \in StateType /\ l.role # Candidate
      /\ l.current_term = d.current_term /\ l.voted_for = d.voted_for
    BY DiskFields, LoadedType DEF Loaded, InitialState, Follower, Candidate
<1>. HIDE DEF l, commit
<1>3. /\ s.current_term = state[i].current_term
      /\ s.voted_for = state[i].voted_for /\ s.role # Candidate
    BY <1>2, DiskFields DEF StateType
<1>. HIDE DEF s
<1>4. Steady(i, s)
    BY <1>3, SameIsSteady
<1>. QED  BY <1>1, <1>4, FewerNoGrant, QuietUpdate

-----------------------------------------------------------------------------
(* Steps in which somebody votes.                                          *)

LEMMA PromotedVotes ==
    ASSUME NEW s \in StateType, NEW i \in Node, s.role = Candidate
    PROVE  /\ PromoteIfQuorum(s, i).role = Candidate
                => PromoteIfQuorum(s, i).votes = s.votes
           /\ PromoteIfQuorum(s, i).role = Leader => s.votes \in Quorum
<1>. QED  BY DEF PromoteIfQuorum, StateType, Candidate, Leader

LEMMA OthersStick ==
    ASSUME TypeInv, NEW i \in Node, NEW s,
           state' = [state EXCEPT ![i] = s]
    PROVE  /\ state'[i] = s
           /\ \A j \in Node \ {i} : state'[j] = state[j] /\ Sticks(j)
<1>1. state \in [Node -> StateType]
    BY DEF TypeInv, TypeOK
<1>2. state'[i] = s
    BY <1>1
<1>3. ASSUME NEW j \in Node \ {i}  PROVE state'[j] = state[j] /\ Sticks(j)
  <2>1. state'[j] = state[j] /\ state[j].current_term \in Nat
      BY <1>1 DEF StateType
  <2>. QED  BY <2>1 DEF Sticks
<1>. QED  BY <1>2, <1>3

LEMMA StartElectionLawful ==
    ASSUME TypeInv, NEW i \in Node, StartElection(i)
    PROVE  Lawful
<1>. DEFINE b == BecomeCandidate(state[i], i)
            s == PromoteIfQuorum(b, i)
            asked == IF s.role = Leader THEN {} ELSE Node \ {i}
            calls == {Call(i, j, RequestVote(s, log[i])) : j \in asked}
<1>1. /\ state' = [state EXCEPT ![i] = s]
      /\ rpcs' = rpcs \cup calls
      /\ RecordElected(i, s)
    BY DEF StartElection
<1>2. /\ b \in StateType /\ b.current_term = state[i].current_term + 1
      /\ b.voted_for = i /\ b.role = Candidate /\ b.votes = {i}
      /\ state[i].current_term \in Nat
    BY Current, BecomeCandidateType DEF StateType
<1>. HIDE DEF b
<1>3. /\ s \in StateType /\ s.current_term = b.current_term /\ s.voted_for = b.voted_for
      /\ s.role = Candidate => s.votes = {i}
      /\ s.role = Leader => {i} \in Quorum
    BY <1>2, PromoteIfQuorumType, PromotedVotes
<1>4. \A c \in calls : c.st = "sent"
    BY DEF Call
<1>. HIDE DEF s, calls
<1>5. NoNewGrant
    BY <1>1, <1>4, SendNoGrant
<1>6. state'[i] = s /\ \A j \in Node \ {i} : state'[j] = state[j] /\ Sticks(j)
    BY <1>1, OthersStick
<1>7. \A t \in Nat : t = s.current_term => NewVote(i, t, i)
    BY <1>2, <1>3, <1>6 DEF NewVote
<1>8. ASSUME NEW v \in Node, NEW x \in Node, NEW t \in Nat, Evidence(v, t, x)'
      PROVE  Evidence(v, t, x) \/ NewVote(v, t, x)
  <2>1. CASE AnsweredVote(v, t, x)'
      BY <1>5, <2>1 DEF NoNewGrant, AnsweredVote, Granting, Evidence
  <2>2. CASE CountedVote(v, t, x)' /\ x # i
      BY <1>6, <2>2 DEF CountedVote, Evidence
  <2>3. CASE CountedVote(v, t, x)' /\ x = i
      BY <1>3, <1>6, <1>7, <2>3 DEF CountedVote
  <2>. QED  BY <1>8, <2>1, <2>2, <2>3 DEF Evidence
<1>9. ASSUME NEW e \in elected' \ elected
      PROVE  \E Q \in Quorum : \A v \in Q :
                Evidence(v, e[1], e[2]) \/ NewVote(v, e[1], e[2])
  <2>1. e = <<s.current_term, i>> /\ s.role = Leader
      BY <1>1 DEF RecordElected
  <2>2. e[1] = s.current_term /\ e[2] = i /\ s.current_term \in Nat
      BY <1>3, <2>1 DEF StateType
  <2>3. NewVote(i, e[1], e[2])
      BY <1>7, <2>2
  <2>. QED  BY <1>3, <2>1, <2>3
<1>10. Sticks(i)
    BY <1>2, <1>3, <1>6 DEF Sticks
<1>. QED  BY <1>6, <1>8, <1>9, <1>10 DEF Lawful

LEMMA HandleRequestVoteLawful ==
    ASSUME TypeInv, NEW c \in rpcs, HandleRequestVote(c)
    PROVE  Lawful
<1>. DEFINE i == c.dst
            r == c.req
            y == c.src
            newer == r.term > state[i].current_term
            s == IF newer THEN BecomeFollower(state[i], r.term, None) ELSE state[i]
            granted == Grants(s, r, y, log[i])
            n == IF granted THEN [s EXCEPT !.voted_for = y] ELSE s
            a == [c EXCEPT !.st = "answered",
                           !.resp = [term |-> n.current_term, ok |-> granted]]
<1>0. /\ c \in CallType /\ i \in Node /\ y \in Node /\ r.term \in Nat
      /\ state[i] \in StateType /\ state[i].current_term \in Nat
      /\ None \notin Node
    BY CallOnNetwork, Current, NodeAssumption DEF StateType
<1>1. /\ state' = [state EXCEPT ![i] = n]
      /\ rpcs' \subseteq rpcs \cup {a}
      /\ elected' = elected
    BY DEF HandleRequestVote, Answer, history
<1>2. /\ a.src = y /\ a.dst = i /\ a.req = r /\ a.resp.ok = granted
    BY <1>0 DEF CallType
<1>3. granted => r.term = s.current_term /\ s.voted_for \in {None, y}
    BY DEF Grants
<1>. HIDE DEF i, y, r, granted, a
<1>4. /\ s \in StateType /\ s.current_term \in Nat
      /\ newer => /\ s.current_term = r.term /\ s.voted_for = None
                  /\ s.role = Follower
      /\ ~newer => s = state[i]
  <2>1. CASE newer
    <3>. DEFINE f == BecomeFollower(state[i], r.term, None)
    <3>1. /\ f \in StateType /\ f.current_term = r.term
          /\ f.voted_for = IF r.term > state[i].current_term
                           THEN None ELSE state[i].voted_for
          /\ f.role = Follower
      <4>. DEFINE old == state[i]
      <4>1. old \in StateType /\ r.term \in Nat /\ None \in Node \cup {None}
          BY <1>0
      <4>. HIDE DEF old
      <4>2. /\ BecomeFollower(old, r.term, None) \in StateType
            /\ BecomeFollower(old, r.term, None).current_term = r.term
            /\ BecomeFollower(old, r.term, None).voted_for =
                  IF r.term > old.current_term THEN None ELSE old.voted_for
            /\ BecomeFollower(old, r.term, None).role = Follower
          BY <4>1, BecomeFollowerType
      <4>. QED  BY <4>2 DEF old
    <3>2. s = f
        BY <2>1
    <3>. HIDE DEF f, s
    <3>. QED  BY <1>0, <2>1, <3>1, <3>2
  <2>2. CASE ~newer
      BY <1>0, <2>2
  <2>. QED  BY <2>1, <2>2
<1>. HIDE DEF s
<1>5. /\ n.current_term = s.current_term /\ n.role = s.role /\ n.votes = s.votes
      /\ granted => n.voted_for = y
      /\ ~granted => n.voted_for = s.voted_for
    BY <1>0, <1>4 DEF StateType
<1>. HIDE DEF n
<1>6. state'[i] = n /\ \A j \in Node \ {i} : state'[j] = state[j] /\ Sticks(j)
    BY <1>0, <1>1, OthersStick
<1>7. Sticks(i)
    BY <1>0, <1>3, <1>4, <1>5, <1>6 DEF Sticks
<1>8. granted => NewVote(i, r.term, y)
  <2>1. CASE newer
      BY <1>0, <1>3, <1>4, <1>5, <1>6, <2>1 DEF NewVote
  <2>2. CASE ~newer
      BY <1>0, <1>3, <1>4, <1>5, <1>6, <2>2 DEF NewVote
  <2>. QED  BY <2>1, <2>2
<1>9. ASSUME NEW v \in Node, NEW x \in Node, NEW t \in Nat, Evidence(v, t, x)'
      PROVE  Evidence(v, t, x) \/ NewVote(v, t, x)
  <2>1. CASE AnsweredVote(v, t, x)'
    <3>1. PICK d \in rpcs' : Granting(d) /\ d.src = x /\ d.dst = v /\ d.req.term = t
        BY <2>1 DEF AnsweredVote, Granting
    <3>2. CASE d \in rpcs
        BY <3>1, <3>2 DEF AnsweredVote, Evidence
    <3>3. CASE d = a
        BY <1>2, <1>8, <3>1, <3>3 DEF Granting
    <3>. QED  BY <1>1, <3>2, <3>3
  <2>2. CASE CountedVote(v, t, x)' /\ x # i
      BY <1>6, <2>2 DEF CountedVote, Evidence
  <2>3. CASE CountedVote(v, t, x)' /\ x = i
    <3>1. n.role = Candidate /\ n.current_term = t /\ v \in n.votes
        BY <1>6, <2>3 DEF CountedVote
    <3>2. ~newer
        BY <1>4, <1>5, <3>1 DEF Follower, Candidate
    <3>3. CountedVote(v, t, x)
        BY <1>4, <1>5, <2>3, <3>1, <3>2 DEF CountedVote
    <3>. QED  BY <3>3 DEF Evidence
  <2>. QED  BY <1>9, <2>1, <2>2, <2>3 DEF Evidence
<1>. QED  BY <1>1, <1>6, <1>7, <1>9 DEF Lawful

LEMMA RecordVoteLawful ==
    ASSUME TypeInv, NEW c \in rpcs, RecordVote(c)
    PROVE  Lawful
<1>. DEFINE i == c.src
            counts == c.resp.ok /\ c.resp.term = state[i].current_term
            votes == IF counts THEN state[i].votes \cup {c.dst} ELSE state[i].votes
            b == [state[i] EXCEPT !.votes = votes]
            s == PromoteIfQuorum(b, i)
<1>0. /\ c \in CallType /\ i \in Node /\ c.dst \in Node
      /\ rpcs \subseteq CallType
      /\ state[i] \in StateType /\ state[i].current_term \in Nat
    BY CallOnNetwork, Current DEF StateType
<1>1. /\ state' = [state EXCEPT ![i] = s]
      /\ RecordElected(i, s)
      /\ c.req.kind = "RequestVote" /\ c.st = "answered"
      /\ state[i].role = Candidate /\ state[i].current_term = c.req.term
    BY DEF RecordVote, Answered, StillCandidate
<1>2. NoNewGrant
  <2>1. CASE rpcs' = rpcs \ {c}
      BY <2>1, FewerNoGrant
  <2>2. CASE AbandonAfter(CallsOf(i, {"RequestVote"}), {})
    <3>1. CallsOf(i, {"RequestVote"}) \subseteq rpcs
        BY DEF CallsOf
    <3>. QED  BY <1>0, <2>2, <3>1, AbandonNoGrant
  <2>. QED  BY <2>1, <2>2 DEF RecordVote, Abandon
<1>3. \A v \in votes : Evidence(v, c.req.term, i)
  <2>1. \A v \in state[i].votes : CountedVote(v, c.req.term, i)
      BY <1>1 DEF CountedVote
  <2>2. counts => AnsweredVote(c.dst, c.req.term, i)
      BY <1>1 DEF AnsweredVote, Granting
  <2>. QED  BY <2>1, <2>2 DEF Evidence
<1>. HIDE DEF i, counts
<1>4. votes \subseteq Node
    BY <1>0 DEF StateType
<1>. HIDE DEF votes
<1>5. /\ b \in StateType /\ b.current_term = state[i].current_term
      /\ b.voted_for = state[i].voted_for /\ b.role = Candidate /\ b.votes = votes
    BY <1>0, <1>1, <1>4 DEF StateType
<1>. HIDE DEF b
<1>6. /\ s.current_term = c.req.term /\ s.current_term = state[i].current_term
      /\ s.voted_for = state[i].voted_for
      /\ s.role = Candidate => s.votes = votes
      /\ s.role = Leader => votes \in Quorum
    BY <1>0, <1>1, <1>5, PromoteIfQuorumType, PromotedVotes
<1>. HIDE DEF s
<1>7. state'[i] = s /\ \A j \in Node \ {i} : state'[j] = state[j] /\ Sticks(j)
    BY <1>0, <1>1, OthersStick
<1>8. Sticks(i)
    BY <1>0, <1>6, <1>7 DEF Sticks
<1>9. ASSUME NEW v \in Node, NEW x \in Node, NEW t \in Nat, Evidence(v, t, x)'
      PROVE  Evidence(v, t, x)
  <2>1. CASE AnsweredVote(v, t, x)'
      BY <1>2, <2>1 DEF NoNewGrant, AnsweredVote, Granting, Evidence
  <2>2. CASE CountedVote(v, t, x)' /\ x # i
      BY <1>7, <2>2 DEF CountedVote, Evidence
  <2>3. CASE CountedVote(v, t, x)' /\ x = i
      BY <1>3, <1>6, <1>7, <2>3 DEF CountedVote
  <2>. QED  BY <1>9, <2>1, <2>2, <2>3 DEF Evidence
<1>10. ASSUME NEW e \in elected' \ elected
       PROVE  \E Q \in Quorum : \A v \in Q :
                 Evidence(v, e[1], e[2]) \/ NewVote(v, e[1], e[2])
  <2>1. e = <<s.current_term, i>> /\ s.role = Leader
      BY <1>1 DEF RecordElected
  <2>2. e[1] = c.req.term /\ e[2] = i /\ votes \in Quorum
      BY <1>6, <2>1
  <2>. QED  BY <1>3, <2>2
<1>. QED  BY <1>7, <1>8, <1>9, <1>10 DEF Lawful

-----------------------------------------------------------------------------
(* The theorems.                                                           *)

LEMMA StepLawful == TypeInv /\ [Next]_vars => Lawful
<1>. SUFFICES ASSUME TypeInv, [Next]_vars  PROVE Lawful
    OBVIOUS
<1>1. CASE ElectionStep
    BY <1>1, StartElectionLawful, HandleRequestVoteLawful, RecordVoteLawful,
       AbandonsQuiet, VoteFromNewerTermQuiet, QuietIsLawful DEF ElectionStep
<1>2. CASE ReplicationStep
    BY <1>2, SendsQuiet, AdvanceCommitQuiet, HandleAppendEntriesQuiet, DropsQuiet,
       AnswerFromNewerTermQuiet, QuietIsLawful DEF ReplicationStep
<1>3. CASE ClientStep
    BY <1>3, LocalQuiet, QuietIsLawful DEF ClientStep
<1>4. CASE SnapshotStep
    BY <1>4, LocalQuiet, HandleInstallSnapshotQuiet, RejectSnapshotQuiet,
       QuietIsLawful DEF SnapshotStep
<1>5. CASE TransferStep
    BY <1>5, LocalQuiet, SendsQuiet, HandleTimeoutNowQuiet, TransferAnsweredQuiet,
       QuietIsLawful DEF TransferStep
<1>6. CASE CrashStep
    BY <1>6, CrashQuiet, CrashInHandlerQuiet, RestartQuiet, QuietIsLawful
    DEF CrashStep
<1>7. CASE LossStep
    BY <1>7, AbandonsQuiet, DropsQuiet, QuietIsLawful DEF LossStep
<1>8. CASE UNCHANGED vars
  <2>1. UNCHANGED <<state, elected, rpcs>>
      BY <1>8 DEF vars, memory, history
  <2>. QED  BY <2>1, FewerNoGrant, QuietCalls, QuietIsLawful
<1>. QED  BY <1>1, <1>2, <1>3, <1>4, <1>5, <1>6, <1>7, <1>8 DEF Next

(* A term never goes back, and within a term a vote is never taken back,   *)
(* by any handler, crash or restart (vote.py with _persist_state).         *)
THEOREM VotesStick == Spec => VoteSticky
<1>1. Lawful => \A i \in Node :
         /\ state'[i].current_term >= state[i].current_term
         /\ state'[i].current_term = state[i].current_term
              => \/ state[i].voted_for = None
                 \/ state'[i].voted_for = state[i].voted_for
    BY DEF Lawful, Sticks
<1>2. TypeInv /\ [Next]_vars =>
         [\A i \in Node :
            /\ state'[i].current_term >= state[i].current_term
            /\ state'[i].current_term = state[i].current_term
                 => \/ state[i].voted_for = None
                    \/ state'[i].voted_for = state[i].voted_for]_vars
    BY <1>1, StepLawful
<1>. QED  BY <1>2, TypeInvHolds, PTL DEF Spec, VoteSticky

LEMMA InitElection == Init => ElectionInv
<1>. SUFFICES ASSUME Init  PROVE ElectionInv
    OBVIOUS
<1>1. ASSUME NEW v \in Node, NEW x \in Node, NEW t \in Nat
      PROVE  ~Evidence(v, t, x)
    BY DEF Init, Evidence, AnsweredVote, CountedVote, InitialState
<1>2. EvidenceSupported /\ EvidenceUnique
    BY <1>1 DEF EvidenceSupported, EvidenceUnique
<1>3. ElectedBacked /\ ElectionSafety
    BY DEF Init, ElectedBacked, ElectionSafety
<1>. QED  BY <1>2, <1>3, InitTyped DEF ElectionInv

LEMMA ElectionInvHolds == Spec => []ElectionInv
<1>1. ElectionInv /\ [Next]_vars => ElectionInv'
  <2>1. ElectionInv => TypeInv
      BY DEF ElectionInv
  <2>. QED  BY <2>1, StepTyped, StepLawful, LawfulKeepsElectionInv
<1>. QED  BY <1>1, InitElection, PTL DEF Spec

(* At most one node ever leads in a term, however calls are delayed or     *)
(* lost and whenever processes crash (election.py, vote.py and the answers *)
(* tick looks at).                                                         *)
THEOREM OneLeaderPerTerm == Spec => []ElectionSafety
<1>1. ElectionInv => ElectionSafety
    BY DEF ElectionInv
<1>. QED  BY <1>1, ElectionInvHolds, PTL

-----------------------------------------------------------------------------
(* What a step touches.                                                    *)

(* Nothing of any node but i changes.                                      *)
OnlyTouches(i) ==
    \A j \in Node \ {i} :
        /\ j \in up' <=> j \in up
        /\ state'[j] = state[j]
        /\ log'[j] = log[j]
        /\ snapshot'[j] = snapshot[j]
        /\ replication'[j] = replication[j]
        /\ pending'[j] = pending[j]

NodeBecomes(i, s, lg, snap, r, p) ==
    /\ OnlyTouches(i)
    /\ state'[i] = s /\ log'[i] = lg /\ snapshot'[i] = snap
    /\ replication'[i] = r /\ pending'[i] = p

(* Every call is new, one of the set added, or a call there was, possibly  *)
(* given up; only the call e is answered, with ok.                         *)
CallsBecome(added, e, ok) ==
    \A c \in rpcs' :
        \/ c \in added
        \/ \E d \in rpcs :
              /\ c.src = d.src /\ c.dst = d.dst /\ c.req = d.req
              /\ c.st # "late" => d.st # "late"
              /\ c.st = "answered" => c = d \/ (d = e /\ c.resp.ok = ok)

(* i keeps its log and goes on as it was or becomes a follower.            *)
Settles(i) ==
    /\ i \in Node /\ OnlyTouches(i) /\ up' = up
    /\ log'[i] = log[i] /\ snapshot'[i] = snapshot[i]
    /\ elected' = elected /\ committed' = committed
    /\ state'[i].commit_index = state[i].commit_index
    /\ state'[i].last_applied = state[i].last_applied
    /\ \/ state'[i].role = Follower
       \/ /\ state'[i].role = state[i].role
          /\ state'[i].current_term = state[i].current_term
    /\ replication'[i] \in {replication[i], NoReplication}
    /\ pending'[i] \in {pending[i], NoBatch}

LEMMA TouchOne ==
    ASSUME TypeInv, NEW i \in Node, NEW s, NEW lg, NEW snap, NEW r, NEW p,
           \A j \in Node \ {i} : j \in up' <=> j \in up,
           state' = [state EXCEPT ![i] = s],
           log' = [log EXCEPT ![i] = lg],
           snapshot' = [snapshot EXCEPT ![i] = snap],
           replication' = [replication EXCEPT ![i] = r],
           pending' = [pending EXCEPT ![i] = p]
    PROVE  NodeBecomes(i, s, lg, snap, r, p)
<1>1. /\ state \in [Node -> StateType] /\ log \in [Node -> LogType]
      /\ snapshot \in [Node -> SnapshotType]
      /\ replication = [j \in Node |-> replication[j]]
      /\ pending \in [Node -> PendingType]
    BY DEF TypeInv, TypeOK, PendingType
<1>2. state'[i] = s /\ \A j \in Node \ {i} : state'[j] = state[j]
    BY <1>1
<1>3. log'[i] = lg /\ \A j \in Node \ {i} : log'[j] = log[j]
    BY <1>1
<1>4. snapshot'[i] = snap /\ \A j \in Node \ {i} : snapshot'[j] = snapshot[j]
    BY <1>1
<1>5. replication'[i] = r /\ \A j \in Node \ {i} : replication'[j] = replication[j]
    BY <1>1
<1>6. pending'[i] = p /\ \A j \in Node \ {i} : pending'[j] = pending[j]
    BY <1>1
<1>. QED  BY <1>2, <1>3, <1>4, <1>5, <1>6 DEF NodeBecomes, OnlyTouches

LEMMA SettlesIf ==
    ASSUME TypeInv, NEW i \in Node, NEW s, NEW r, NEW p,
           UNCHANGED <<up, log, snapshot, elected, committed>>,
           state' = [state EXCEPT ![i] = s],
           replication' = [replication EXCEPT ![i] = r],
           pending' = [pending EXCEPT ![i] = p],
           s.commit_index = state[i].commit_index,
           s.last_applied = state[i].last_applied,
           \/ s.role = Follower
           \/ s.role = state[i].role /\ s.current_term = state[i].current_term,
           r \in {replication[i], NoReplication},
           p \in {pending[i], NoBatch}
    PROVE  Settles(i)
<1>1. NodeBecomes(i, s, log[i], snapshot[i], r, p)
    BY TouchOne, Unchanged
<1>. QED  BY <1>1 DEF NodeBecomes, Settles

(* Steps that only touch calls, a transfer's local or a client's batch.    *)
LEMMA IdleSettles ==
    ASSUME TypeInv, NEW i \in Node,
           UNCHANGED <<up, state, log, snapshot, replication, elected, committed>>,
           pending' = pending \/ pending' = [pending EXCEPT ![i] = NoBatch]
    PROVE  Settles(i)
<1>1. CASE pending' = pending
    BY <1>1 DEF Settles, OnlyTouches
<1>2. CASE pending' = [pending EXCEPT ![i] = NoBatch]
  <2>1. state' = [state EXCEPT ![i] = state[i]] /\ replication' = [replication EXCEPT ![i] = replication[i]]
      BY Unchanged
  <2>. QED  BY <1>2, <2>1, SettlesIf
<1>. QED  BY <1>1, <1>2

-----------------------------------------------------------------------------
(* Calls.                                                                  *)

LEMMA AnswerCalls ==
    ASSUME TypeInv, NEW c \in rpcs, NEW term, NEW ok, Answer(c, term, ok)
    PROVE  CallsBecome({}, c, ok)
<1>. DEFINE a == [c EXCEPT !.st = "answered", !.resp = [term |-> term, ok |-> ok]]
<1>0. c \in CallType
    BY CallOnNetwork
<1>1. a.src = c.src /\ a.dst = c.dst /\ a.req = c.req /\ a.resp.ok = ok
    BY <1>0 DEF CallType
<1>2. \A d \in rpcs' : d \in rpcs \/ (d = a /\ c.st # "late")
    BY DEF Answer
<1>. HIDE DEF a
<1>. QED  BY <1>1, <1>2 DEF CallsBecome

LEMMA AbandonCalls ==
    ASSUME TypeInv, NEW calls \in SUBSET rpcs, NEW done, AbandonAfter(calls, done)
    PROVE  CallsBecome({}, None, FALSE)
<1>0. rpcs \subseteq CallType
    BY DEF TypeInv, TypeOK
<1>1. \A c \in rpcs' : c \in rpcs \/ \E d \in calls : c = [d EXCEPT !.st = "late"]
    BY DEF AbandonAfter
<1>2. ASSUME NEW d \in calls, NEW c, c = [d EXCEPT !.st = "late"]
      PROVE  c.src = d.src /\ c.dst = d.dst /\ c.req = d.req /\ c.st = "late"
    BY <1>0, <1>2 DEF CallType
<1>. QED  BY <1>1, <1>2 DEF CallsBecome

LEMMA FewerCalls == rpcs' \subseteq rpcs => CallsBecome({}, None, FALSE)
<1>. QED  BY DEF CallsBecome

LEMMA MoreCalls ==
    ASSUME NEW calls, rpcs' = rpcs \cup calls
    PROVE  CallsBecome(calls, None, FALSE)
<1>. QED  BY DEF CallsBecome

-----------------------------------------------------------------------------
(* Steps after which every node has the log it had and none has won.       *)

LEMMA CallsOnlySettle ==
    ASSUME TypeInv, UNCHANGED <<up, memory, elected, committed>>
    PROVE  \A i \in Node : Settles(i)
<1>. QED  BY IdleSettles DEF memory

LEMMA AbandonsSettle ==
    ASSUME TypeInv, NEW c \in rpcs, VoteAfterElection(c) \/ CallFails(c)
    PROVE  Settles(c.src) /\ CallsBecome({}, None, FALSE)
<1>0. c.src \in Node
    BY CallOnNetwork
<1>1. CallsOf(c.src, {"RequestVote"}) \subseteq rpcs /\ {c} \subseteq rpcs
    BY DEF CallsOf
<1>2. CallsBecome({}, None, FALSE)
    BY <1>1, AbandonCalls DEF VoteAfterElection, CallFails, Abandon
<1>3. CASE VoteAfterElection(c)
    BY <1>0, <1>2, <1>3, CallsOnlySettle DEF VoteAfterElection, history
<1>4. CASE CallFails(c)
  <2>1. UNCHANGED <<up, state, log, snapshot, replication, pending, elected, committed>>
      BY <1>4 DEF CallFails, history
  <2>. QED  BY <1>0, <1>2, <2>1, IdleSettles
<1>. QED  BY <1>3, <1>4

LEMMA DropsSettle ==
    ASSUME TypeInv, NEW c \in rpcs, AnswerAfterLeadership(c) \/ LateRequestLost(c)
    PROVE  Settles(c.src) /\ CallsBecome({}, None, FALSE)
<1>0. c.src \in Node
    BY CallOnNetwork
<1>1. rpcs' \subseteq rpcs /\ UNCHANGED <<up, memory, elected, committed>>
    BY DEF AnswerAfterLeadership, LateRequestLost, history
<1>. QED  BY <1>0, <1>1, CallsOnlySettle, FewerCalls

LEMMA LocalSettles ==
    ASSUME TypeInv, NEW i \in Node,
           SubmitReturns(i) \/ BeginTransfer(i) \/ AbortTransfer(i)
    PROVE  Settles(i) /\ CallsBecome({}, None, FALSE)
<1>1. /\ UNCHANGED <<up, state, log, snapshot, replication, elected, committed, rpcs>>
      /\ pending' = pending \/ pending' = [pending EXCEPT ![i] = NoBatch]
    BY DEF SubmitReturns, BeginTransfer, AbortTransfer, history
<1>. QED  BY <1>1, IdleSettles, FewerCalls

Sent(i, f) == Call(i, f, IF NeedsSnapshot(i, f) THEN InstallSnapshot(i)
                                               ELSE AppendEntries(i, f))

LEMMA SendToFollowerSettles ==
    ASSUME TypeInv, NEW i \in Node, NEW f \in Node, SendToFollower(i, f)
    PROVE  Settles(i) /\ CallsBecome({Sent(i, f)}, None, FALSE)
<1>1. /\ UNCHANGED <<up, memory, elected, committed>>
      /\ rpcs' = rpcs \cup {Sent(i, f)}
    BY DEF SendToFollower, Sent, history
<1>. QED  BY <1>1, CallsOnlySettle, MoreCalls

TimeoutCall(i, f) == Call(i, f, [kind |-> "TimeoutNow", term |-> transfer_term[i]])

LEMMA SendTimeoutNowSettles ==
    ASSUME TypeInv, NEW i \in Node, NEW f \in Node, SendTimeoutNow(i, f)
    PROVE  Settles(i) /\ CallsBecome({TimeoutCall(i, f)}, None, FALSE)
<1>1. /\ UNCHANGED <<up, memory, elected, committed>>
      /\ rpcs' = rpcs \cup {TimeoutCall(i, f)}
    BY DEF SendTimeoutNow, TimeoutCall, history
<1>. QED  BY <1>1, CallsOnlySettle, MoreCalls

(* i adopts a term that is not older than its own.                         *)
LEMMA AdoptingSettles ==
    ASSUME TypeInv, NEW i \in Node, NEW term \in Nat, NEW leader \in Node \cup {None},
           UNCHANGED <<up, log, snapshot, pending, elected, committed>>,
           state' = [state EXCEPT ![i] = BecomeFollower(state[i], term, leader)],
           replication' = [replication EXCEPT ![i] = NoReplication]
                \/ replication' = replication
    PROVE  Settles(i)
<1>. DEFINE old == state[i]
            s == BecomeFollower(old, term, leader)
<1>1. old \in StateType
    BY Current
<1>. HIDE DEF old
<1>2. s.role = Follower /\ s.commit_index = old.commit_index
      /\ s.last_applied = old.last_applied
    BY <1>1, BecomeFollowerType
<1>3. state' = [state EXCEPT ![i] = s]
    BY DEF old
<1>4. pending' = [pending EXCEPT ![i] = pending[i]]
    BY Unchanged
<1>. HIDE DEF s
<1>5. CASE replication' = replication
  <2>1. replication' = [replication EXCEPT ![i] = replication[i]]
      BY <1>5, Unchanged
  <2>. QED  BY <1>2, <1>3, <1>4, <2>1, SettlesIf DEF old
<1>6. CASE replication' = [replication EXCEPT ![i] = NoReplication]
    BY <1>2, <1>3, <1>4, <1>6, SettlesIf DEF old
<1>. QED  BY <1>5, <1>6

LEMMA VoteFromNewerTermSettles ==
    ASSUME TypeInv, NEW c \in rpcs, VoteFromNewerTerm(c)
    PROVE  Settles(c.src) /\ CallsBecome({}, None, FALSE)
<1>0. c.src \in Node /\ c.resp.term \in Nat /\ None \in Node \cup {None}
    BY CallOnNetwork
<1>1. /\ UNCHANGED <<up, log, snapshot, pending, elected, committed>>
      /\ state' = [state EXCEPT ![c.src] =
                      BecomeFollower(state[c.src], c.resp.term, None)]
      /\ replication' = [replication EXCEPT ![c.src] = NoReplication]
    BY DEF VoteFromNewerTerm, history
<1>2. CallsOf(c.src, {"RequestVote"}) \subseteq rpcs
    BY DEF CallsOf
<1>3. CallsBecome({}, None, FALSE)
    BY <1>2, AbandonCalls DEF VoteFromNewerTerm, Abandon
<1>. QED  BY <1>0, <1>1, <1>3, AdoptingSettles

LEMMA AnswerFromNewerTermSettles ==
    ASSUME TypeInv, NEW c \in rpcs, AnswerFromNewerTerm(c)
    PROVE  Settles(c.src) /\ CallsBecome({}, None, FALSE)
<1>0. c.src \in Node /\ c.resp.term \in Nat /\ None \in Node \cup {None}
    BY CallOnNetwork
<1>1. /\ UNCHANGED <<up, log, snapshot, pending, elected, committed>>
      /\ state' = [state EXCEPT ![c.src] =
                      BecomeFollower(state[c.src], c.resp.term, None)]
      /\ replication' = [replication EXCEPT ![c.src] = NoReplication]
      /\ rpcs' \subseteq rpcs
    BY DEF AnswerFromNewerTerm, history
<1>. QED  BY <1>0, <1>1, FewerCalls, AdoptingSettles

LEMMA HandleRequestVoteSettles ==
    ASSUME TypeInv, NEW c \in rpcs, HandleRequestVote(c)
    PROVE  Settles(c.dst) /\ \E ok : CallsBecome({}, c, ok)
<1>. DEFINE i == c.dst
            r == c.req
            old == state[i]
            s == IF r.term > old.current_term
                 THEN BecomeFollower(old, r.term, None) ELSE old
            granted == Grants(s, r, c.src, log[i])
            t == IF granted THEN [s EXCEPT !.voted_for = c.src] ELSE s
<1>0. /\ i \in Node /\ r.term \in Nat /\ old \in StateType
      /\ None \in Node \cup {None}
    BY CallOnNetwork, Current
<1>1. /\ state' = [state EXCEPT ![i] = t]
      /\ replication' = [replication EXCEPT ![i] = KeepIfLeader(@, t)]
      /\ Answer(c, t.current_term, granted)
      /\ UNCHANGED <<up, log, snapshot, pending, elected, committed>>
    BY DEF HandleRequestVote, history
<1>2. /\ s \in StateType
      /\ s.commit_index = old.commit_index /\ s.last_applied = old.last_applied
      /\ \/ s.role = Follower
         \/ s.role = old.role /\ s.current_term = old.current_term
  <2>1. CASE r.term > old.current_term
    <3>. HIDE DEF old
    <3>1. s = BecomeFollower(old, r.term, None)
        BY <2>1
    <3>. QED  BY <1>0, <3>1, BecomeFollowerType
  <2>2. CASE ~(r.term > old.current_term)
      BY <1>0, <2>2
  <2>. QED  BY <2>1, <2>2
<1>3. pending' = [pending EXCEPT ![i] = pending[i]]
    BY <1>0, <1>1, Unchanged
<1>. HIDE DEF granted, s, old
<1>4. /\ t.commit_index = s.commit_index /\ t.last_applied = s.last_applied
      /\ t.role = s.role /\ t.current_term = s.current_term
    BY <1>2 DEF StateType
<1>5. CallsBecome({}, c, granted)
    BY <1>1, AnswerCalls
<1>. HIDE DEF t
<1>6. replication' = [replication EXCEPT ![i] = KeepIfLeader(replication[i], t)]
    BY <1>1
<1>7. KeepIfLeader(replication[i], t) \in {replication[i], NoReplication}
    BY DEF KeepIfLeader
<1>8. /\ t.commit_index = state[i].commit_index
      /\ t.last_applied = state[i].last_applied
      /\ \/ t.role = Follower
         \/ t.role = state[i].role /\ t.current_term = state[i].current_term
    BY <1>2, <1>4 DEF old
<1>9. Settles(i)
  <2>. HIDE DEF i
  <2>. QED  BY <1>0, <1>1, <1>3, <1>6, <1>7, <1>8, SettlesIf
<1>. QED  BY <1>5, <1>9

LEMMA StaleAppendSettles ==
    ASSUME TypeInv, NEW c \in rpcs, HandleAppendEntries(c),
           c.req.term < state[c.dst].current_term
    PROVE  Settles(c.dst) /\ CallsBecome({}, c, FALSE)
<1>. DEFINE i == c.dst
<1>0. i \in Node
    BY CallOnNetwork
<1>1. /\ UNCHANGED <<up, state, log, snapshot, pending, elected, committed>>
      /\ replication' = [replication EXCEPT ![i] = KeepIfLeader(@, state[i])]
      /\ Answer(c, state[i].current_term, FALSE)
    BY DEF HandleAppendEntries, history
<1>2. state' = [state EXCEPT ![i] = state[i]] /\ pending' = [pending EXCEPT ![i] = pending[i]]
    BY <1>0, <1>1, Unchanged
<1>3. replication' = [replication EXCEPT ![i] = KeepIfLeader(replication[i], state[i])]
    BY <1>1
<1>4. KeepIfLeader(replication[i], state[i]) \in {replication[i], NoReplication}
    BY DEF KeepIfLeader
<1>. HIDE DEF i
<1>5. Settles(i)
    BY <1>0, <1>1, <1>2, <1>3, <1>4, SettlesIf
<1>. QED  BY <1>1, <1>5, AnswerCalls DEF i

LEMMA RejectSnapshotSettles ==
    ASSUME TypeInv, NEW c \in rpcs, RejectSnapshot(c)
    PROVE  /\ Settles(c.dst)
           /\ CallsBecome({}, c, /\ ~(c.req.term < state[c.dst].current_term)
                                 /\ OlderSnapshot(c.dst, c.req))
<1>. DEFINE i == c.dst
            r == c.req
            stale == r.term < state[i].current_term
            s == IF stale THEN state[i] ELSE BecomeFollower(state[i], r.term, c.src)
<1>0. /\ i \in Node /\ r.term \in Nat /\ c.src \in Node \cup {None}
    BY CallOnNetwork
<1>1. /\ UNCHANGED <<up, log, snapshot, pending, elected, committed>>
      /\ state' = [state EXCEPT ![i] = s]
      /\ replication' = [replication EXCEPT ![i] = IF stale THEN @ ELSE NoReplication]
      /\ Answer(c, s.current_term, ~stale /\ OlderSnapshot(i, r))
    BY DEF RejectSnapshot, history
<1>2. CallsBecome({}, c, ~stale /\ OlderSnapshot(i, r))
    BY <1>1, AnswerCalls
<1>3. CASE stale
  <2>1. state' = [state EXCEPT ![i] = state[i]] /\ replication' = [replication EXCEPT ![i] = replication[i]]
      BY <1>1, <1>3
  <2>2. state' = state /\ replication' = replication
      BY <1>0, <2>1, Unchanged
  <2>. QED  BY <1>0, <1>1, <1>2, <2>2, IdleSettles
<1>4. CASE ~stale
  <2>1. /\ state' = [state EXCEPT ![i] = BecomeFollower(state[i], r.term, c.src)]
        /\ replication' = [replication EXCEPT ![i] = NoReplication]
      BY <1>1, <1>4
  <2>. HIDE DEF s, i, r, stale
  <2>2. Settles(i)
      BY <1>0, <1>1, <2>1, AdoptingSettles
  <2>. QED  BY <1>2, <2>2 DEF i, r, stale
<1>. QED  BY <1>3, <1>4

LEMMA HandleTimeoutNowSettles ==
    ASSUME TypeInv, NEW c \in rpcs, HandleTimeoutNow(c)
    PROVE  Settles(c.dst) /\ \E ok : CallsBecome({}, c, ok)
<1>. DEFINE i == c.dst
            s == IF c.req.term > state[i].current_term
                 THEN BecomeFollower(state[i], c.req.term, c.src) ELSE state[i]
            ok == /\ c.req.term = s.current_term
                  /\ s.role = Follower
                  /\ s.leader_id = c.src
<1>0. /\ i \in Node /\ c.req.term \in Nat /\ c.src \in Node \cup {None}
    BY CallOnNetwork
<1>1. /\ UNCHANGED <<up, log, snapshot, replication, pending, elected, committed>>
      /\ state' = [state EXCEPT ![i] = s]
      /\ Answer(c, s.current_term, ok)
    BY DEF HandleTimeoutNow, history
<1>2. CallsBecome({}, c, ok)
    BY <1>1, AnswerCalls
<1>3. CASE c.req.term > state[i].current_term
  <2>1. state' = [state EXCEPT ![i] = BecomeFollower(state[i], c.req.term, c.src)]
      BY <1>1, <1>3
  <2>. HIDE DEF s, i, ok
  <2>2. Settles(i)
      BY <1>0, <1>1, <2>1, AdoptingSettles
  <2>. QED  BY <1>2, <2>2 DEF i
<1>4. CASE ~(c.req.term > state[i].current_term)
  <2>1. state' = [state EXCEPT ![i] = state[i]]
      BY <1>1, <1>4
  <2>2. state' = state
      BY <1>0, <2>1, Unchanged
  <2>. HIDE DEF s, i, ok
  <2>3. Settles(i)
      BY <1>0, <1>1, <2>2, IdleSettles
  <2>. QED  BY <1>2, <2>3 DEF i
<1>. QED  BY <1>3, <1>4

LEMMA TransferAnsweredSettles ==
    ASSUME TypeInv, NEW c \in rpcs, TransferAnswered(c)
    PROVE  Settles(c.src) /\ CallsBecome({}, None, FALSE)
<1>. DEFINE i == c.src
            s == IF ~LeadsTransfer(i) THEN state[i]
                 ELSE IF c.resp.term > state[i].current_term
                      THEN BecomeFollower(state[i], c.resp.term, None)
                 ELSE IF c.resp.ok
                      THEN BecomeFollower(state[i], transfer_term[i], None)
                 ELSE state[i]
<1>0. /\ i \in Node /\ c.resp.term \in Nat /\ None \in Node \cup {None}
      /\ transfer_term[i] \in Nat /\ state[i] \in StateType
    BY CallOnNetwork, Current
<1>1. /\ UNCHANGED <<up, log, snapshot, pending, elected, committed>>
      /\ state' = [state EXCEPT ![i] = s]
      /\ replication' = [replication EXCEPT ![i] =
                            IF s = state[i] THEN @ ELSE NoReplication]
      /\ rpcs' \subseteq rpcs
    BY DEF TransferAnswered, history
<1>2. CallsBecome({}, None, FALSE)
    BY <1>1, FewerCalls
<1>3. CASE s = state[i]
  <2>1. state' = [state EXCEPT ![i] = state[i]] /\ replication' = [replication EXCEPT ![i] = replication[i]]
      BY <1>1, <1>3
  <2>2. state' = state /\ replication' = replication
      BY <1>0, <2>1, Unchanged
  <2>. HIDE DEF s, i
  <2>3. Settles(i)
      BY <1>0, <1>1, <2>2, IdleSettles
  <2>. QED  BY <1>2, <2>3 DEF i
<1>4. CASE s # state[i]
  <2>1. /\ s = BecomeFollower(state[i], c.resp.term, None)
           \/ s = BecomeFollower(state[i], transfer_term[i], None)
        /\ replication' = [replication EXCEPT ![i] = NoReplication]
      BY <1>1, <1>4
  <2>2. PICK t \in Nat : s = BecomeFollower(state[i], t, None)
      BY <1>0, <2>1
  <2>3. state' = [state EXCEPT ![i] = BecomeFollower(state[i], t, None)]
      BY <1>1, <2>2
  <2>. HIDE DEF s, i
  <2>4. Settles(i)
      BY <1>0, <1>1, <2>1, <2>3, AdoptingSettles
  <2>. QED  BY <1>2, <2>4 DEF i
<1>. QED  BY <1>3, <1>4

-----------------------------------------------------------------------------
(* The other steps.                                                        *)

LEMMA Adopts ==
    ASSUME NEW s \in StateType, NEW term \in Nat, NEW leader \in Node \cup {None},
           NEW b, b = BecomeFollower(s, term, leader)
    PROVE  /\ b \in StateType /\ b.current_term = term /\ b.role = Follower
           /\ b.commit_index = s.commit_index /\ b.last_applied = s.last_applied
<1>. QED  BY BecomeFollowerType

Same == up' = up /\ elected' = elected /\ committed' = committed

LEMMA AnswerToLeaderEffect ==
    ASSUME TypeInv, NEW c \in rpcs, AnswerToLeader(c)
    PROVE  /\ NodeBecomes(c.src, state[c.src], log[c.src], snapshot[c.src],
                  IF c.resp.ok THEN RecordSuccess(replication[c.src], c.dst, ReplicatedBy(c))
                  ELSE IF c.req.kind = "AppendEntries"
                  THEN RecordFailure(replication[c.src], c.dst)
                  ELSE replication[c.src], pending[c.src])
           /\ Same /\ CallsBecome({}, None, FALSE)
<1>. DEFINE i == c.src
            r == IF c.resp.ok THEN RecordSuccess(replication[i], c.dst, ReplicatedBy(c))
                 ELSE IF c.req.kind = "AppendEntries"
                 THEN RecordFailure(replication[i], c.dst) ELSE replication[i]
<1>0. i \in Node
    BY CallOnNetwork
<1>1. /\ UNCHANGED <<up, state, log, snapshot, pending, elected, committed>>
      /\ rpcs' \subseteq rpcs
      /\ replication' = [replication EXCEPT ![i] =
            IF c.resp.ok THEN RecordSuccess(@, c.dst, ReplicatedBy(c))
            ELSE IF c.req.kind = "AppendEntries" THEN RecordFailure(@, c.dst) ELSE @]
    BY DEF AnswerToLeader, history
<1>2. replication' = [replication EXCEPT ![i] = r]
    BY <1>1
<1>. HIDE DEF r
<1>3. NodeBecomes(i, state[i], log[i], snapshot[i], r, pending[i])
    BY <1>0, <1>1, <1>2, Unchanged, TouchOne
<1>. QED  BY <1>1, <1>3, FewerCalls DEF r, Same

LEMMA AdvanceCommitEffect ==
    ASSUME TypeInv, NEW i \in Node, AdvanceCommit(i)
    PROVE  /\ OnlyTouches(i) /\ up' = up /\ elected' = elected /\ Leads(i)
           /\ state'[i].current_term = state[i].current_term
           /\ state'[i].role = state[i].role
           /\ state'[i].commit_index = CommitCandidate(i)
           /\ state'[i].last_applied = CommitCandidate(i)
           /\ CommitCandidate(i) > state[i].commit_index
           /\ log'[i] = log[i] /\ snapshot'[i] = snapshot[i]
           /\ replication'[i] = replication[i] /\ pending'[i] = pending[i]
           /\ rpcs' = rpcs /\ CallsBecome({}, None, FALSE)
<1>. DEFINE index == CommitCandidate(i)
            s == [state[i] EXCEPT !.commit_index = index, !.last_applied = index]
<1>1. /\ UNCHANGED <<up, log, snapshot, pending, replication, elected, rpcs>>
      /\ state' = [state EXCEPT ![i] = s]
      /\ Leads(i) /\ index > state[i].commit_index
    BY DEF AdvanceCommit, history
<1>. HIDE DEF index
<1>2. /\ s.current_term = state[i].current_term /\ s.role = state[i].role
      /\ s.commit_index = index /\ s.last_applied = index
    BY Current DEF StateType
<1>. HIDE DEF s
<1>3. NodeBecomes(i, s, log[i], snapshot[i], replication[i], pending[i])
    BY <1>1, Unchanged, TouchOne
<1>. QED  BY <1>1, <1>2, <1>3, FewerCalls DEF index, NodeBecomes

(* An AppendEntries that is not stale.                                     *)
Adopted(c) ==
    IF Accepts(log[c.dst], c.req)
    THEN Synchronize(log[c.dst], c.req.prev_log_index, c.req.entries)
    ELSE log[c.dst]

AdoptedCommit(c) ==
    IF Accepts(log[c.dst], c.req)
    THEN FollowerCommit(state[c.dst], Adopted(c), c.req)
    ELSE state[c.dst].commit_index

LEMMA HandleAppendEntriesEffect ==
    ASSUME TypeInv, NEW c \in rpcs, HandleAppendEntries(c),
           ~(c.req.term < state[c.dst].current_term)
    PROVE  LET i == c.dst IN
           /\ OnlyTouches(i) /\ Same /\ i \in up
           /\ state'[i].current_term = c.req.term
           /\ state'[i].role = Follower
           /\ state'[i].commit_index = AdoptedCommit(c)
           /\ state'[i].last_applied = IF AdoptedCommit(c) > state[i].last_applied
                                       THEN AdoptedCommit(c) ELSE state[i].last_applied
           /\ log'[i] = Adopted(c) /\ snapshot'[i] = snapshot[i]
           /\ replication'[i] = NoReplication /\ pending'[i] = pending[i]
           /\ CallsBecome({}, c, Accepts(log[i], c.req))
<1>. DEFINE i == c.dst
            r == c.req
            ok == Accepts(log[i], r)
            lg == IF ok THEN Synchronize(log[i], r.prev_log_index, r.entries) ELSE log[i]
            commit == IF ok THEN FollowerCommit(state[i], lg, r) ELSE state[i].commit_index
            b == BecomeFollower(state[i], r.term, c.src)
            t == [b EXCEPT !.commit_index = commit,
                           !.last_applied = IF commit > @ THEN commit ELSE @]
<1>0. /\ i \in Node /\ r.term \in Nat /\ c.src \in Node \cup {None}
      /\ state[i] \in StateType
    BY CallOnNetwork, Current
<1>1. /\ UNCHANGED <<up, snapshot, pending, elected, committed>>
      /\ state' = [state EXCEPT ![i] = t]
      /\ log' = [log EXCEPT ![i] = lg]
      /\ replication' = [replication EXCEPT ![i] = NoReplication]
      /\ Answer(c, t.current_term, ok)
      /\ i \in up
    BY DEF HandleAppendEntries, Deliverable, history
<1>2. lg = Adopted(c) /\ commit = AdoptedCommit(c)
    BY DEF Adopted, AdoptedCommit
<1>3. CallsBecome({}, c, ok)
    BY <1>1, AnswerCalls
<1>. HIDE DEF lg, commit, ok
<1>4. /\ b \in StateType /\ b.current_term = r.term /\ b.role = Follower
      /\ b.last_applied = state[i].last_applied
  <2>1. b = BecomeFollower(state[i], r.term, c.src)
      OBVIOUS
  <2>. HIDE DEF b, i, r
  <2>. QED  BY <1>0, <2>1, Adopts
<1>. HIDE DEF b
<1>5. /\ t.current_term = r.term /\ t.role = Follower /\ t.commit_index = commit
      /\ t.last_applied = IF commit > state[i].last_applied
                          THEN commit ELSE state[i].last_applied
    BY <1>4 DEF StateType
<1>. HIDE DEF t
<1>6. NodeBecomes(i, t, lg, snapshot[i], NoReplication, pending[i])
  <2>. HIDE DEF i
  <2>. QED  BY <1>0, <1>1, Unchanged, TouchOne
<1>. HIDE DEF i
<1>7. /\ OnlyTouches(i) /\ state'[i] = t /\ log'[i] = lg /\ snapshot'[i] = snapshot[i]
      /\ replication'[i] = NoReplication /\ pending'[i] = pending[i]
    BY <1>6 DEF NodeBecomes
<1>8. ok = Accepts(log[i], c.req)
    BY DEF ok
<1>. QED  BY <1>1, <1>2, <1>3, <1>5, <1>7, <1>8 DEF i, Same

LEMMA HandleInstallSnapshotEffect ==
    ASSUME TypeInv, NEW c \in rpcs, HandleInstallSnapshot(c)
    PROVE  LET i == c.dst
               commit == CommitAfterInstall(i, c.req) IN
           /\ OnlyTouches(i) /\ Same /\ i \in up
           /\ c.req.kind = "InstallSnapshot" /\ CanInstall(i, c.req)
           /\ c.req.term >= state[i].current_term
           /\ state'[i].current_term = c.req.term
           /\ state'[i].role = Follower
           /\ state'[i].commit_index = commit
           /\ state'[i].last_applied = commit
           /\ log'[i] = Installed(i, c.req) /\ snapshot'[i] = SnapshotOf(c.req)
           /\ replication'[i] = NoReplication /\ pending'[i] = pending[i]
           /\ CallsBecome({}, c, TRUE)
<1>. DEFINE i == c.dst
            r == c.req
            lg == Installed(i, r)
            commit == CommitAfterInstall(i, r)
            b == BecomeFollower(state[i], r.term, c.src)
            t == [b EXCEPT !.commit_index = commit, !.last_applied = commit]
<1>0. /\ i \in Node /\ r.term \in Nat /\ c.src \in Node \cup {None}
      /\ state[i] \in StateType
    BY CallOnNetwork, Current
<1>1. /\ UNCHANGED <<up, pending, elected, committed>>
      /\ state' = [state EXCEPT ![i] = t]
      /\ log' = [log EXCEPT ![i] = lg]
      /\ snapshot' = [snapshot EXCEPT ![i] = SnapshotOf(r)]
      /\ replication' = [replication EXCEPT ![i] = NoReplication]
      /\ Answer(c, t.current_term, TRUE)
      /\ i \in up /\ r.kind = "InstallSnapshot"
      /\ CanInstall(i, r) /\ r.term >= state[i].current_term
    BY DEF HandleInstallSnapshot, Deliverable, history
<1>2. CallsBecome({}, c, TRUE)
    BY <1>1, AnswerCalls
<1>. HIDE DEF lg, commit
<1>3. b \in StateType /\ b.current_term = r.term /\ b.role = Follower
  <2>1. b = BecomeFollower(state[i], r.term, c.src)
      OBVIOUS
  <2>. HIDE DEF b, i, r
  <2>. QED  BY <1>0, <2>1, Adopts
<1>. HIDE DEF b
<1>4. /\ t.current_term = r.term /\ t.role = Follower /\ t.commit_index = commit
      /\ t.last_applied = commit
    BY <1>3 DEF StateType
<1>. HIDE DEF t
<1>5. NodeBecomes(i, t, lg, SnapshotOf(r), NoReplication, pending[i])
  <2>. HIDE DEF i, r
  <2>. QED  BY <1>0, <1>1, Unchanged, TouchOne
<1>. QED  BY <1>1, <1>2, <1>4, <1>5 DEF NodeBecomes, Same, lg, commit

LEMMA SubmitEffect ==
    ASSUME TypeInv, NEW i \in Node, NEW b \in Batch, Submit(i, b)
    PROVE  LET lg == AppendAll(log[i], NewEntries(i, b)) IN
           /\ CanSubmit(i, b) /\ Same /\ CallsBecome({}, None, FALSE) /\ rpcs' = rpcs
           /\ NodeBecomes(i, state[i], lg, snapshot[i],
                          InitializeReplication(i, replication[i], lg),
                          [first |-> LastIndex(log[i]) + 1,
                           entries |-> NewEntries(i, b)])
<1>. DEFINE lg == AppendAll(log[i], NewEntries(i, b))
            p == [first |-> LastIndex(log[i]) + 1, entries |-> NewEntries(i, b)]
<1>1. /\ UNCHANGED <<up, state, snapshot, elected, committed, rpcs>>
      /\ log' = [log EXCEPT ![i] = lg]
      /\ pending' = [pending EXCEPT ![i] = p]
      /\ replication' = [replication EXCEPT ![i] =
                            InitializeReplication(i, replication[i], lg)]
      /\ CanSubmit(i, b)
    BY DEF Submit, history
<1>. HIDE DEF lg, p
<1>2. NodeBecomes(i, state[i], lg, snapshot[i],
                  InitializeReplication(i, replication[i], lg), p)
    BY <1>1, Unchanged, TouchOne
<1>. QED  BY <1>1, <1>2, FewerCalls DEF lg, p, Same

LEMMA CreateSnapshotEffect ==
    ASSUME TypeInv, NEW i \in Node, CreateSnapshot(i)
    PROVE  /\ Compactable(i) /\ Same /\ CallsBecome({}, None, FALSE) /\ rpcs' = rpcs
           /\ NodeBecomes(i, state[i], CompactThrough(log[i], SnapshotNow(i).index),
                          SnapshotNow(i), replication[i], pending[i])
<1>1. /\ UNCHANGED <<up, state, replication, pending, elected, committed, rpcs>>
      /\ log' = [log EXCEPT ![i] = CompactThrough(log[i], SnapshotNow(i).index)]
      /\ snapshot' = [snapshot EXCEPT ![i] = SnapshotNow(i)]
      /\ Compactable(i)
    BY DEF CreateSnapshot, history
<1>2. NodeBecomes(i, state[i], CompactThrough(log[i], SnapshotNow(i).index),
                  SnapshotNow(i), replication[i], pending[i])
    BY <1>1, Unchanged, TouchOne
<1>. QED  BY <1>1, <1>2, FewerCalls DEF Same

(* i is down with lg and snap on disk.                                     *)
Falls(i, lg, snap) ==
    /\ OnlyTouches(i) /\ i \notin up'
    /\ elected' = elected /\ committed' = committed
    /\ state'[i].current_term = state[i].current_term
    /\ state'[i].commit_index = state[i].commit_index
    /\ state'[i].role = Follower
    /\ log'[i] = lg /\ snapshot'[i] = snap
    /\ replication'[i] = NoReplication /\ pending'[i] = NoBatch
    /\ CallsBecome({}, None, FALSE)
    /\ \A c \in rpcs' : c.src = i => c.st = "late"

LEMMA DiesEffect ==
    ASSUME TypeInv, NEW i \in Node, NEW lg \in LogType, NEW snap \in SnapshotType,
           NEW done, Dies(i, Written(disk[i], lg, snap), done)
    PROVE  Falls(i, lg, snap)
<1>. DEFINE d == Written(disk[i], lg, snap)
            calls == {c \in rpcs : c.src = i /\ c.st # "late"}
<1>1. /\ d \in DiskType /\ d.log = lg /\ d.snapshot = snap
      /\ d.current_term = state[i].current_term
      /\ d.commit_index = state[i].commit_index
    BY DiskFields, WrittenType
<1>2. /\ up' = up \ {i}
      /\ state' = [state EXCEPT ![i] = Loaded(d)]
      /\ log' = [log EXCEPT ![i] = d.log]
      /\ snapshot' = [snapshot EXCEPT ![i] = d.snapshot]
      /\ replication' = [replication EXCEPT ![i] = NoReplication]
      /\ pending' = [pending EXCEPT ![i] = NoBatch]
      /\ AbandonAfter(calls, done)
      /\ elected' = elected /\ committed' = committed
    BY DEF Dies, history
<1>. HIDE DEF d
<1>3. /\ Loaded(d).current_term = d.current_term /\ Loaded(d).role = Follower
      /\ Loaded(d).commit_index = d.commit_index
    BY <1>1, LoadedType DEF Loaded, InitialState
<1>4. NodeBecomes(i, Loaded(d), lg, snap, NoReplication, NoBatch)
    BY <1>1, <1>2, TouchOne
<1>5. CallsBecome({}, None, FALSE)
    BY <1>2, AbandonCalls
<1>6. ASSUME NEW c \in rpcs', c.src = i
      PROVE  c.st = "late"
  <2>0. rpcs \subseteq CallType
      BY DEF TypeInv, TypeOK
  <2>1. c \in rpcs \ calls \/ \E e \in calls : c = [e EXCEPT !.st = "late"]
      BY <1>2 DEF AbandonAfter
  <2>. QED  BY <1>6, <2>0, <2>1 DEF CallType
<1>. QED  BY <1>1, <1>2, <1>3, <1>4, <1>5, <1>6 DEF Falls, NodeBecomes

LEMMA CrashFalls ==
    ASSUME TypeInv, NEW i \in Node, Crash(i)
    PROVE  i \in up /\ Falls(i, log[i], snapshot[i])
<1>1. log[i] \in LogType /\ snapshot[i] \in SnapshotType
    BY Current
<1>2. disk[i] = Written(disk[i], log[i], snapshot[i])
    BY DiskFields DEF DiskType, Written
<1>. QED  BY <1>1, <1>2, DiesEffect DEF Crash

LEMMA CrashInCreateSnapshotFalls ==
    ASSUME TypeInv, NEW i \in Node, CrashInCreateSnapshot(i)
    PROVE  Compactable(i) /\ Falls(i, log[i], SnapshotNow(i))
<1>. DEFINE snap == SnapshotNow(i)
<1>0. Compactable(i)
    BY DEF CrashInCreateSnapshot
<1>1. snap \in SnapshotType /\ log[i] \in LogType
    BY <1>0, CompactionType, Current
<1>2. Dies(i, [disk[i] EXCEPT !.snapshot = snap], {})
    BY DEF CrashInCreateSnapshot
<1>. HIDE DEF snap
<1>3. [disk[i] EXCEPT !.snapshot = snap] = Written(disk[i], log[i], snap)
    BY <1>1, DiskFields DEF DiskType, Written
<1>. QED  BY <1>0, <1>1, <1>2, <1>3, DiesEffect DEF snap

LEMMA CrashInSubmitFalls ==
    ASSUME TypeInv, NEW i \in Node, NEW b \in Batch, CrashInSubmit(i, b)
    PROVE  /\ CanSubmit(i, b)
           /\ Falls(i, AppendAll(log[i], NewEntries(i, b)), snapshot[i])
<1>. DEFINE lg == AppendAll(log[i], NewEntries(i, b))
<1>1. lg \in LogType /\ snapshot[i] \in SnapshotType
    BY NewEntriesType, Current
<1>2. disk[i] \in DiskType /\ disk[i].log = log[i] /\ disk[i].snapshot = snapshot[i]
    BY DiskFields
<1>3. CanSubmit(i, b) /\ Dies(i, [disk[i] EXCEPT !.log = lg], {})
    BY <1>2 DEF CrashInSubmit, DiskType
<1>. HIDE DEF lg
<1>4. [disk[i] EXCEPT !.log = lg] = Written(disk[i], lg, snapshot[i])
    BY <1>1, <1>2 DEF DiskType, Written
<1>. QED  BY <1>1, <1>3, <1>4, DiesEffect DEF lg

LEMMA CrashInAppendEntriesFalls ==
    ASSUME TypeInv, NEW c \in rpcs, CrashInAppendEntries(c)
    PROVE  /\ c.req.kind = "AppendEntries" /\ c.dst \in up
           /\ ~(c.req.term < state[c.dst].current_term)
           /\ Accepts(log[c.dst], c.req)
           /\ \E written \in JournalPrefixes(log[c.dst], Adopted(c)) :
                 Falls(c.dst, written, snapshot[c.dst])
<1>. DEFINE i == c.dst
            lg == Synchronize(log[i], c.req.prev_log_index, c.req.entries)
<1>0. i \in Node /\ c.req.term \in Nat /\ state[i].current_term \in Nat
    BY CallOnNetwork, Current DEF StateType
<1>1. /\ c.req.kind = "AppendEntries" /\ Accepts(log[i], c.req)
      /\ i \in up /\ c.req.term >= state[i].current_term
    BY DEF CrashInAppendEntries, Deliverable
<1>2. log[i] \in LogType /\ snapshot[i] \in SnapshotType
    BY <1>0, Current
<1>3. disk[i] \in DiskType /\ disk[i].log = log[i] /\ disk[i].snapshot = snapshot[i]
    BY <1>0, DiskFields
<1>4. lg \in LogType /\ lg = Adopted(c)
    BY <1>1, <1>2, AppendRequestFields, SynchronizedType DEF Adopted
<1>5. PICK written \in JournalPrefixes(log[i], lg) :
            Dies(i, [disk[i] EXCEPT !.log = written], {c})
    BY DEF CrashInAppendEntries
<1>. HIDE DEF lg
<1>6. written \in LogType
    BY <1>2, <1>4, LogTypes, JournalPrefixesType
<1>7. [disk[i] EXCEPT !.log = written] = Written(disk[i], written, snapshot[i])
  <2>. HIDE DEF i
  <2>. QED  BY <1>2, <1>3, <1>6 DEF DiskType, Written
<1>8. Falls(i, written, snapshot[i])
  <2>. HIDE DEF i
  <2>. QED  BY <1>0, <1>2, <1>5, <1>6, <1>7, DiesEffect
<1>. QED  BY <1>0, <1>1, <1>4, <1>5, <1>8

LEMMA CrashInInstallSnapshotFalls ==
    ASSUME TypeInv, NEW c \in rpcs, CrashInInstallSnapshot(c)
    PROVE  /\ c.req.kind = "InstallSnapshot" /\ c.dst \in up
           /\ c.req.term >= state[c.dst].current_term
           /\ CanInstall(c.dst, c.req)
           /\ \E written \in {log[c.dst], Installed(c.dst, c.req)} :
                 Falls(c.dst, written, SnapshotOf(c.req))
<1>. DEFINE i == c.dst
            r == c.req
            snap == SnapshotOf(r)
<1>0. i \in Node
    BY CallOnNetwork
<1>1. /\ r.kind = "InstallSnapshot" /\ i \in up
      /\ r.term >= state[i].current_term /\ CanInstall(i, r)
    BY DEF CrashInInstallSnapshot, Deliverable
<1>2. log[i] \in LogType
    BY <1>0, Current
<1>3. disk[i] \in DiskType /\ disk[i].log = log[i] /\ disk[i].snapshot = snapshot[i]
    BY <1>0, DiskFields
<1>4. r.index \in Nat /\ r.index_term \in Nat /\ snap \in SnapshotType
    BY <1>1, InstallRequestFields
<1>5. PICK written \in {log[i], Installed(i, r)} :
            Dies(i, [disk[i] EXCEPT !.snapshot = snap, !.log = written], {c})
    BY DEF CrashInInstallSnapshot
<1>6. written \in LogType
  <2>1. Installed(i, r) \in LogType
      BY <1>2, <1>4, BoundaryType DEF Installed
  <2>. HIDE DEF i, r
  <2>. QED  BY <1>2, <1>5, <2>1
<1>. HIDE DEF snap
<1>7. [disk[i] EXCEPT !.snapshot = snap, !.log = written] = Written(disk[i], written, snap)
  <2>. HIDE DEF i
  <2>. QED  BY <1>3, <1>4, <1>6 DEF DiskType, Written
<1>8. Falls(i, written, snap)
  <2>. HIDE DEF i
  <2>. QED  BY <1>0, <1>4, <1>5, <1>6, <1>7, DiesEffect
<1>. QED  BY <1>1, <1>5, <1>8 DEF snap

LEMMA RestartEffect ==
    ASSUME TypeInv, NEW i \in Node, Restart(i)
    PROVE  LET d == disk[i]
               lg == RecoveredLog(d)
               commit == RecoveredCommit(d) IN
           /\ CanRestart(d) /\ i \notin up /\ i \in up'
           /\ OnlyTouches(i) /\ elected' = elected /\ committed' = committed
           /\ state'[i].current_term = state[i].current_term
           /\ state'[i].role = Follower
           /\ state'[i].commit_index = commit /\ state'[i].last_applied = commit
           /\ log'[i] = lg /\ snapshot'[i] = snapshot[i]
           /\ replication'[i] = replication[i] /\ pending'[i] = pending[i]
           /\ rpcs' = rpcs /\ CallsBecome({}, None, FALSE)
<1>. DEFINE d == disk[i]
            lg == RecoveredLog(d)
            commit == RecoveredCommit(d)
            l == Loaded(d)
            s == [l EXCEPT !.commit_index = commit, !.last_applied = commit]
<1>1. /\ CanRestart(d) /\ i \notin up /\ up' = up \cup {i}
      /\ state' = [state EXCEPT ![i] = s]
      /\ log' = [log EXCEPT ![i] = lg]
      /\ UNCHANGED <<snapshot, replication, pending, rpcs, elected, committed>>
    BY DEF Restart, history
<1>2. d \in DiskType /\ d.current_term = state[i].current_term
    BY DiskFields
<1>. HIDE DEF d
<1>3. l \in StateType /\ l.current_term = d.current_term /\ l.role = Follower
    BY <1>2, LoadedType DEF Loaded, InitialState
<1>. HIDE DEF lg, commit, l
<1>4. /\ s.current_term = l.current_term /\ s.role = Follower
      /\ s.commit_index = commit /\ s.last_applied = commit
    BY <1>3 DEF StateType
<1>. HIDE DEF s
<1>5. NodeBecomes(i, s, lg, snapshot[i], replication[i], pending[i])
    BY <1>1, Unchanged, TouchOne
<1>. QED  BY <1>1, <1>2, <1>3, <1>4, <1>5, FewerCalls DEF NodeBecomes, d, lg, commit

LEMMA PromotedRole ==
    ASSUME NEW s, NEW i, s.role = Candidate, NEW p, p = PromoteIfQuorum(s, i),
           s \in StateType, i \in Node
    PROVE  p.role \in {Candidate, Leader}
<1>1. CASE s.votes \in Quorum
    BY <1>1 DEF PromoteIfQuorum, StateType
<1>2. CASE s.votes \notin Quorum
    BY <1>2 DEF PromoteIfQuorum
<1>. QED  BY <1>1, <1>2

(* i, standing in term t with every vote of Q, goes on or leads.           *)
Stands(i, t, Q) ==
    /\ OnlyTouches(i) /\ up' = up /\ committed' = committed
    /\ state'[i].current_term = t
    /\ state'[i].commit_index = state[i].commit_index
    /\ state'[i].last_applied = state[i].last_applied
    /\ log'[i] = log[i] /\ snapshot'[i] = snapshot[i] /\ pending'[i] = pending[i]
    /\ \/ /\ state'[i].role = Candidate
          /\ elected' = elected /\ replication'[i] = replication[i]
       \/ /\ state'[i].role = Leader /\ Q \in Quorum
          /\ elected' = elected \cup {<<t, i>>}
          /\ replication'[i] = InitializeReplication(i, replication[i], log[i])

VoteCalls(i, t) ==
    {Call(i, j, [kind |-> "RequestVote", term |-> t,
                 last_log_index |-> LastIndex(log[i]),
                 last_log_term |-> LastTerm(log[i])]) : j \in Node}

LEMMA StartElectionEffect ==
    ASSUME TypeInv, NEW i \in Node, StartElection(i)
    PROVE  LET t == state[i].current_term + 1 IN
           /\ Stands(i, t, {i}) /\ i \in up /\ state[i].role # Leader
           /\ CallsBecome(VoteCalls(i, t), None, FALSE)
           /\ \A v, x \in Node, u \in Nat : Evidence(v, u, x)'
                 => Evidence(v, u, x) \/ (v = i /\ x = i /\ u = t)
<1>. DEFINE b == BecomeCandidate(state[i], i)
            s == PromoteIfQuorum(b, i)
            asked == IF s.role = Leader THEN {} ELSE Node \ {i}
            calls == {Call(i, j, RequestVote(s, log[i])) : j \in asked}
            t == state[i].current_term + 1
<1>1. /\ state' = [state EXCEPT ![i] = s]
      /\ rpcs' = rpcs \cup calls
      /\ elected' = IF s.role = Leader THEN elected \cup {<<s.current_term, i>>} ELSE elected
      /\ replication' = [replication EXCEPT ![i] =
             IF s.role = Leader THEN InitializeReplication(i, replication[i], log[i])
             ELSE replication[i]]
      /\ i \in up /\ state[i].role # Leader
      /\ UNCHANGED <<up, log, snapshot, pending, committed>>
    BY DEF StartElection, RecordElected
<1>2. /\ b \in StateType /\ b.current_term = t /\ b.role = Candidate
      /\ b.votes = {i} /\ t \in Nat
      /\ b.commit_index = state[i].commit_index
      /\ b.last_applied = state[i].last_applied
    BY Current, BecomeCandidateType DEF StateType
<1>. HIDE DEF b
<1>3. /\ s \in StateType /\ s.current_term = t
      /\ s.commit_index = state[i].commit_index
      /\ s.last_applied = state[i].last_applied
      /\ s.role \in {Candidate, Leader}
      /\ s.role = Candidate => s.votes = {i}
      /\ s.role = Leader => {i} \in Quorum
    BY <1>2, PromoteIfQuorumType, PromotedVotes, PromotedRole
<1>4. \A c \in calls : c.st = "sent"
    BY DEF Call
<1>5. calls \subseteq VoteCalls(i, t)
    BY <1>3 DEF VoteCalls, RequestVote
<1>. HIDE DEF s, calls
<1>6. NoNewGrant
    BY <1>1, <1>4, SendNoGrant
<1>7. CallsBecome(VoteCalls(i, t), None, FALSE)
    BY <1>1, <1>5 DEF CallsBecome
<1>. DEFINE r == IF s.role = Leader THEN InitializeReplication(i, replication[i], log[i])
                 ELSE replication[i]
<1>8. replication' = [replication EXCEPT ![i] = r]
    BY <1>1
<1>9. r = IF s.role = Leader THEN InitializeReplication(i, replication[i], log[i])
          ELSE replication[i]
    OBVIOUS
<1>. HIDE DEF r
<1>10. NodeBecomes(i, s, log[i], snapshot[i], r, pending[i])
    BY <1>1, <1>8, Unchanged, TouchOne
<1>11. Stands(i, t, {i})
    BY <1>1, <1>3, <1>9, <1>10 DEF Stands, NodeBecomes, Candidate, Leader
<1>12. ASSUME NEW v \in Node, NEW x \in Node, NEW u \in Nat, Evidence(v, u, x)'
       PROVE  Evidence(v, u, x) \/ (v = i /\ x = i /\ u = t)
  <2>1. CASE AnsweredVote(v, u, x)'
      BY <1>6, <2>1 DEF NoNewGrant, AnsweredVote, Granting, Evidence
  <2>2. CASE CountedVote(v, u, x)' /\ x # i
      BY <1>10, <2>2 DEF CountedVote, Evidence, NodeBecomes, OnlyTouches
  <2>3. CASE CountedVote(v, u, x)' /\ x = i
      BY <1>3, <1>10, <2>3 DEF CountedVote, NodeBecomes
  <2>. QED  BY <1>12, <2>1, <2>2, <2>3 DEF Evidence
<1>. QED  BY <1>1, <1>7, <1>11, <1>12

LEMMA RecordVoteEffect ==
    ASSUME TypeInv, NEW c \in rpcs, RecordVote(c)
    PROVE  LET i == c.src
               t == state[i].current_term IN
           /\ state[i].role = Candidate
           /\ \E Q \in SUBSET Node : /\ Stands(i, t, Q)
                                    /\ \A v \in Q : Evidence(v, t, i)
           /\ CallsBecome({}, None, FALSE)
           /\ \A v, x \in Node, u \in Nat : Evidence(v, u, x)' => Evidence(v, u, x)
<1>. DEFINE i == c.src
            counts == c.resp.ok /\ c.resp.term = state[i].current_term
            votes == IF counts THEN state[i].votes \cup {c.dst} ELSE state[i].votes
            b == [state[i] EXCEPT !.votes = votes]
            s == PromoteIfQuorum(b, i)
            t == state[i].current_term
            r == IF s.role = Leader THEN InitializeReplication(i, replication[i], log[i])
                 ELSE replication[i]
<1>0. /\ c \in CallType /\ i \in Node /\ c.dst \in Node
      /\ rpcs \subseteq CallType
      /\ state[i] \in StateType /\ state[i].current_term \in Nat
    BY CallOnNetwork, Current DEF StateType
<1>1. /\ state' = [state EXCEPT ![i] = s]
      /\ elected' = IF s.role = Leader THEN elected \cup {<<s.current_term, i>>} ELSE elected
      /\ c.req.kind = "RequestVote" /\ c.st = "answered"
      /\ state[i].role = Candidate /\ state[i].current_term = c.req.term
      /\ UNCHANGED <<up, log, snapshot, pending, committed>>
    BY DEF RecordVote, Answered, StillCandidate, RecordElected
<1>2. replication' = [replication EXCEPT ![i] = r]
  <2>1. CASE s.role = Leader
      BY <2>1 DEF RecordVote
  <2>2. CASE s.role # Leader
      BY <1>0, <2>2, Unchanged DEF RecordVote
  <2>. QED  BY <2>1, <2>2
<1>3. CallsOf(i, {"RequestVote"}) \subseteq rpcs
    BY DEF CallsOf
<1>4. NoNewGrant /\ CallsBecome({}, None, FALSE)
  <2>1. CASE rpcs' = rpcs \ {c}
      BY <2>1, FewerNoGrant, FewerCalls
  <2>2. CASE AbandonAfter(CallsOf(i, {"RequestVote"}), {})
      BY <1>0, <1>3, <2>2, AbandonNoGrant, AbandonCalls
  <2>. QED  BY <2>1, <2>2 DEF RecordVote, Abandon
<1>5. \A v \in votes : Evidence(v, t, i)
  <2>1. \A v \in state[i].votes : CountedVote(v, t, i)
      BY <1>1 DEF CountedVote
  <2>2. counts => AnsweredVote(c.dst, t, i)
      BY <1>1 DEF AnsweredVote, Granting
  <2>. QED  BY <2>1, <2>2 DEF Evidence
<1>. HIDE DEF counts
<1>6. votes \subseteq Node
    BY <1>0 DEF StateType
<1>. HIDE DEF votes
<1>7. /\ b \in StateType /\ b.current_term = t /\ b.role = Candidate
      /\ b.votes = votes /\ b.commit_index = state[i].commit_index
      /\ b.last_applied = state[i].last_applied
    BY <1>0, <1>1, <1>6 DEF StateType
<1>. HIDE DEF b
<1>8. /\ s.current_term = t
      /\ s.commit_index = state[i].commit_index
      /\ s.last_applied = state[i].last_applied
      /\ s.role \in {Candidate, Leader}
      /\ s.role = Candidate => s.votes = votes
      /\ s.role = Leader => votes \in Quorum
    BY <1>0, <1>7, PromoteIfQuorumType, PromotedVotes, PromotedRole
<1>. HIDE DEF s
<1>9. r = IF s.role = Leader THEN InitializeReplication(i, replication[i], log[i])
          ELSE replication[i]
    OBVIOUS
<1>. HIDE DEF r
<1>10. NodeBecomes(i, s, log[i], snapshot[i], r, pending[i])
  <2>. HIDE DEF i
  <2>. QED  BY <1>0, <1>1, <1>2, Unchanged, TouchOne
<1>11. Stands(i, t, votes)
    BY <1>1, <1>8, <1>9, <1>10 DEF Stands, NodeBecomes, Candidate, Leader
<1>12. ASSUME NEW v \in Node, NEW x \in Node, NEW u \in Nat, Evidence(v, u, x)'
       PROVE  Evidence(v, u, x)
  <2>1. CASE AnsweredVote(v, u, x)'
      BY <1>4, <2>1 DEF NoNewGrant, AnsweredVote, Granting, Evidence
  <2>2. CASE CountedVote(v, u, x)' /\ x # i
      BY <1>10, <2>2 DEF CountedVote, Evidence, NodeBecomes, OnlyTouches
  <2>3. CASE CountedVote(v, u, x)' /\ x = i
      BY <1>5, <1>8, <1>10, <2>3 DEF CountedVote, NodeBecomes
  <2>. QED  BY <1>12, <2>1, <2>2, <2>3 DEF Evidence
<1>. QED  BY <1>1, <1>4, <1>5, <1>6, <1>11, <1>12

LEMMA GrantedVote ==
    ASSUME TypeInv, NEW c \in rpcs, HandleRequestVote(c),
           NEW v \in Node, NEW x \in Node, NEW t \in Nat,
           Evidence(v, t, x)', ~Evidence(v, t, x)
    PROVE  /\ c.req.kind = "RequestVote" /\ v = c.dst /\ x = c.src
           /\ t = c.req.term
           /\ UpToDate(c.req.last_log_index, c.req.last_log_term,
                       LastIndex(log[v]), LastTerm(log[v]))
<1>. DEFINE i == c.dst
            r == c.req
            y == c.src
            newer == r.term > state[i].current_term
            s == IF newer THEN BecomeFollower(state[i], r.term, None) ELSE state[i]
            granted == Grants(s, r, y, log[i])
            n == IF granted THEN [s EXCEPT !.voted_for = y] ELSE s
            a == [c EXCEPT !.st = "answered",
                           !.resp = [term |-> n.current_term, ok |-> granted]]
<1>0. /\ c \in CallType /\ i \in Node /\ y \in Node /\ r.term \in Nat
      /\ state[i] \in StateType /\ state[i].current_term \in Nat
      /\ None \notin Node
    BY CallOnNetwork, Current, NodeAssumption DEF StateType
<1>1. /\ state' = [state EXCEPT ![i] = n]
      /\ rpcs' \subseteq rpcs \cup {a}
      /\ elected' = elected
    BY DEF HandleRequestVote, Answer, history
<1>2. /\ a.src = y /\ a.dst = i /\ a.req = r /\ a.resp.ok = granted
    BY <1>0 DEF CallType
<1>3. /\ granted => UpToDate(r.last_log_index, r.last_log_term,
                             LastIndex(log[i]), LastTerm(log[i]))
      /\ r.kind = "RequestVote"
    BY DEF Grants, HandleRequestVote, Deliverable
<1>. HIDE DEF i, y, r, granted, a
<1>4. /\ s \in StateType
      /\ newer => s.role = Follower
      /\ ~newer => s = state[i]
  <2>1. CASE newer
    <3>1. s = BecomeFollower(state[i], r.term, None) /\ None \in Node \cup {None}
        BY <2>1
    <3>. HIDE DEF s
    <3>2. s \in StateType /\ s.role = Follower
      <4>. DEFINE old == state[i]
                  term == r.term
      <4>1. old \in StateType /\ term \in Nat /\ s = BecomeFollower(old, term, None)
          BY <1>0, <3>1
      <4>. HIDE DEF old, term
      <4>. QED  BY <3>1, <4>1, Adopts
    <3>. HIDE DEF newer
    <3>. QED  BY <2>1, <3>2
  <2>2. CASE ~newer
      BY <1>0, <2>2
  <2>. QED  BY <2>1, <2>2
<1>. HIDE DEF s
<1>5. n.current_term = s.current_term /\ n.role = s.role /\ n.votes = s.votes
    BY <1>0, <1>4 DEF StateType
<1>. HIDE DEF n
<1>6. state'[i] = n /\ \A j \in Node \ {i} : state'[j] = state[j]
    BY <1>0, <1>1, OthersStick
<1>7. CASE AnsweredVote(v, t, x)'
  <2>1. PICK d \in rpcs' : Granting(d) /\ d.src = x /\ d.dst = v /\ d.req.term = t
      BY <1>7 DEF AnsweredVote, Granting
  <2>2. CASE d \in rpcs
      BY <2>1, <2>2 DEF AnsweredVote, Evidence
  <2>3. CASE d = a
    <3>1. granted /\ v = i /\ x = y /\ t = r.term
        BY <1>2, <2>1, <2>3 DEF Granting
    <3>. QED  BY <1>3, <3>1 DEF i, r, y
  <2>. QED  BY <1>1, <2>2, <2>3
<1>8. CASE CountedVote(v, t, x)' /\ x # i
    BY <1>6, <1>8 DEF CountedVote, Evidence
<1>9. CASE CountedVote(v, t, x)' /\ x = i
  <2>1. n.role = Candidate /\ n.current_term = t /\ v \in n.votes
      BY <1>6, <1>9 DEF CountedVote
  <2>2. ~newer
      BY <1>4, <1>5, <2>1 DEF Follower, Candidate
  <2>3. CountedVote(v, t, x)
      BY <1>4, <1>5, <1>9, <2>1, <2>2 DEF CountedVote
  <2>. QED  BY <2>3 DEF Evidence
<1>. QED  BY <1>7, <1>8, <1>9 DEF Evidence

-----------------------------------------------------------------------------
(* Roles.                                                                  *)

(* A process that is down does nothing, a candidate has not led in its     *)
(* term, and a leader was elected in its own.                              *)
RoleOK(i) ==
    /\ i \notin up => state[i].role = Follower /\ replication[i] = NoReplication
    /\ state[i].role = Candidate => /\ state[i].current_term > 0
                                    /\ <<state[i].current_term, i>> \notin elected
    /\ state[i].role = Leader => <<state[i].current_term, i>> \in elected

(* Only a leader replicates or hands over, and nobody stands in a term it  *)
(* has not reached.                                                        *)
CallRole(c) ==
    /\ c.req.kind # "RequestVote" => <<c.req.term, c.src>> \in elected
    /\ c.req.kind = "RequestVote" => c.req.term <= state[c.src].current_term
    /\ c.src \notin up => c.st = "late"

ElectedPast == \A e \in elected : e[1] > 0 /\ state[e[2]].current_term >= e[1]

RoleInv ==
    /\ ElectionInv
    /\ \A i \in Node : RoleOK(i)
    /\ ElectedPast
    /\ \A c \in rpcs : CallRole(c)

LEMMA RolesKept ==
    ASSUME RoleInv, ElectionInv', Lawful, NEW i \in Node, OnlyTouches(i),
           NEW added, NEW e, NEW ok, CallsBecome(added, e, ok),
           elected' = elected
             \/ /\ elected' = elected \cup {<<state'[i].current_term, i>>}
                /\ state'[i].current_term > 0,
           RoleOK(i)',
           i \notin up' => \A c \in rpcs' : c.src = i => c.st = "late",
           \A c \in added : CallRole(c)'
    PROVE  RoleInv'
<1>0. /\ \A j \in Node : /\ state[j].current_term \in Nat
                         /\ state'[j].current_term \in Nat
                         /\ state'[j].current_term >= state[j].current_term
      /\ elected \subseteq Nat \X Node
      /\ rpcs \subseteq CallType /\ rpcs' \subseteq CallType
    BY DEF RoleInv, ElectionInv, TypeInv, TypeOK, StateType, Lawful, Sticks
<1>1. ASSUME NEW j \in Node
      PROVE  RoleOK(j)'
  <2>1. CASE j = i
      BY <2>1
  <2>2. CASE j # i
    <3>1. RoleOK(j)
        BY DEF RoleInv
    <3>2. <<state[j].current_term, j>> \in elected' <=> <<state[j].current_term, j>> \in elected
        BY <2>2
    <3>. QED  BY <2>2, <3>1, <3>2 DEF RoleOK, OnlyTouches
  <2>. QED  BY <2>1, <2>2
<1>2. ElectedPast'
  <2>. SUFFICES ASSUME NEW f \in elected'
                PROVE  f[1] > 0 /\ state'[f[2]].current_term >= f[1]
      BY DEF ElectedPast
  <2>1. CASE f \in elected
    <3>1. f[1] > 0 /\ state[f[2]].current_term >= f[1] /\ f[1] \in Nat /\ f[2] \in Node
        BY <1>0, <2>1 DEF RoleInv, ElectedPast
    <3>. QED  BY <1>0, <3>1
  <2>2. CASE f \notin elected
    <3>1. f = <<state'[i].current_term, i>> /\ state'[i].current_term > 0
        BY <2>2
    <3>. QED  BY <1>0, <3>1
  <2>. QED  BY <2>1, <2>2
<1>3. ASSUME NEW c \in rpcs'
      PROVE  CallRole(c)'
  <2>1. CASE c \in added
      BY <2>1
  <2>2. CASE c \notin added
    <3>1. PICK d \in rpcs :
                  /\ c.src = d.src /\ c.dst = d.dst /\ c.req = d.req
                  /\ c.st # "late" => d.st # "late"
        BY <2>2 DEF CallsBecome
    <3>2. CallRole(d) /\ d.src \in Node /\ d.req.term \in Nat
        BY <1>0, <3>1, CallFields DEF RoleInv
    <3>3. c.req.kind # "RequestVote" => <<c.req.term, c.src>> \in elected'
        BY <3>1, <3>2 DEF CallRole
    <3>4. c.req.kind = "RequestVote" => c.req.term <= state'[c.src].current_term
        BY <1>0, <3>1, <3>2 DEF CallRole
    <3>5. c.src \notin up' => c.st = "late"
        BY <3>1, <3>2 DEF CallRole, OnlyTouches
    <3>. QED  BY <3>3, <3>4, <3>5 DEF CallRole
  <2>. QED  BY <2>1, <2>2
<1>. QED  BY <1>1, <1>2, <1>3 DEF RoleInv

LEMMA RolesKeptQuietly ==
    ASSUME RoleInv, ElectionInv', Lawful, NEW i \in Node, OnlyTouches(i),
           NEW e, NEW ok, CallsBecome({}, e, ok),
           elected' = elected
             \/ /\ elected' = elected \cup {<<state'[i].current_term, i>>}
                /\ state'[i].current_term > 0,
           RoleOK(i)',
           i \notin up' => \A c \in rpcs' : c.src = i => c.st = "late"
    PROVE  RoleInv'
<1>. DEFINE none == {}
<1>1. CallsBecome(none, e, ok) /\ \A c \in none : CallRole(c)'
    OBVIOUS
<1>. HIDE DEF none
<1>. QED  BY <1>1, RolesKept

LEMMA SettlesRole ==
    ASSUME RoleInv, NEW i, Settles(i)
    PROVE  /\ RoleOK(i)' /\ i \in Node /\ OnlyTouches(i) /\ elected' = elected
           /\ up' = up
<1>1. i \in Node /\ RoleOK(i)
    BY DEF Settles, RoleInv
<1>. QED  BY <1>1 DEF Settles, RoleOK, Follower, Candidate, Leader

LEMMA SettledRoles ==
    ASSUME RoleInv, ElectionInv', Lawful, NEW i, Settles(i),
           NEW added, NEW e, NEW ok, CallsBecome(added, e, ok),
           \A c \in added : CallRole(c)'
    PROVE  RoleInv'
<1>1. /\ RoleOK(i)' /\ i \in Node /\ OnlyTouches(i) /\ elected' = elected
      /\ up' = up
    BY SettlesRole
<1>2. i \notin up' => \A c \in rpcs' : c.src = i => c.st = "late"
  <2>1. ASSUME NEW c \in rpcs', c.src = i, i \notin up'
        PROVE  c.st = "late"
    <3>1. CASE c \in added
        BY <2>1, <3>1 DEF CallRole
    <3>2. CASE c \notin added
        BY <1>1, <2>1, <3>2 DEF CallsBecome, RoleInv, CallRole
    <3>. QED  BY <3>1, <3>2
  <2>. QED  BY <2>1
<1>. QED  BY <1>1, <1>2, RolesKept

LEMMA SettledQuietly ==
    ASSUME RoleInv, ElectionInv', Lawful, NEW i, Settles(i),
           NEW e, NEW ok, CallsBecome({}, e, ok)
    PROVE  RoleInv'
<1>. DEFINE none == {}
<1>1. CallsBecome(none, e, ok) /\ \A c \in none : CallRole(c)'
    OBVIOUS
<1>. HIDE DEF none
<1>. QED  BY <1>1, SettledRoles

LEMMA SettledSending ==
    ASSUME RoleInv, ElectionInv', Lawful, NEW i, Settles(i),
           NEW call, CallsBecome({call}, None, FALSE), CallRole(call)'
    PROVE  RoleInv'
<1>. DEFINE one == {call}
<1>1. CallsBecome(one, None, FALSE) /\ \A c \in one : CallRole(c)'
    OBVIOUS
<1>. HIDE DEF one
<1>. QED  BY <1>1, SettledRoles

LEMMA ElectionStepRoles ==
    ASSUME RoleInv, ElectionInv', Lawful, ElectionStep
    PROVE  RoleInv'
<1>0. TypeInv
    BY DEF RoleInv, ElectionInv
<1>1. ASSUME NEW i \in Node, StartElection(i)
      PROVE  RoleInv'
  <2>. DEFINE t == state[i].current_term + 1
  <2>0. t \in Nat /\ t > 0
      BY <1>0, Current DEF StateType
  <2>1. /\ Stands(i, t, {i}) /\ i \in up
        /\ CallsBecome(VoteCalls(i, t), None, FALSE)
      BY <1>0, <1>1, StartElectionEffect
  <2>2. <<t, i>> \notin elected
      BY <1>0, Current DEF RoleInv, ElectedPast, StateType
  <2>3. state'[i].current_term = t
      BY <2>1 DEF Stands
  <2>. HIDE DEF t
  <2>4. RoleOK(i)' /\ i \in up'
      BY <2>0, <2>1, <2>2, <2>3 DEF Stands, RoleOK, Follower, Candidate, Leader
  <2>5. \A c \in VoteCalls(i, t) : CallRole(c)'
      BY <2>0, <2>3, <2>4 DEF VoteCalls, CallRole, Call
  <2>6. /\ OnlyTouches(i)
        /\ elected' = elected \/ elected' = elected \cup {<<state'[i].current_term, i>>}
      BY <2>1 DEF Stands
  <2>. QED  BY <2>0, <2>1, <2>3, <2>4, <2>5, <2>6, RolesKept
<1>2. ASSUME NEW c \in rpcs, RecordVote(c)
      PROVE  RoleInv'
  <2>. DEFINE i == c.src
              t == state[i].current_term
  <2>0. i \in Node
      BY <1>0, CallOnNetwork
  <2>1. /\ state[i].role = Candidate
        /\ \E Q \in SUBSET Node : Stands(i, t, Q)
        /\ CallsBecome({}, None, FALSE)
      BY <1>0, <1>2, RecordVoteEffect
  <2>. HIDE DEF i
  <2>2. RoleOK(i) /\ i \in up /\ t > 0 /\ <<t, i>> \notin elected
      BY <2>0, <2>1 DEF RoleInv, RoleOK, Follower, Candidate
  <2>3. state'[i].current_term = t
      BY <2>1 DEF Stands
  <2>4. RoleOK(i)' /\ i \in up'
      BY <2>1, <2>2, <2>3 DEF Stands, RoleOK, Follower, Candidate, Leader
  <2>6. /\ OnlyTouches(i)
        /\ elected' = elected \/ elected' = elected \cup {<<state'[i].current_term, i>>}
      BY <2>1 DEF Stands
  <2>7. elected' = elected \/ /\ elected' = elected \cup {<<state'[i].current_term, i>>}
                              /\ state'[i].current_term > 0
      BY <2>2, <2>3, <2>6
  <2>. QED  BY <2>0, <2>1, <2>4, <2>6, <2>7, RolesKeptQuietly
<1>3. ASSUME NEW c \in rpcs, HandleRequestVote(c)
      PROVE  RoleInv'
  <2>1. PICK ok : CallsBecome({}, c, ok)
      BY <1>0, <1>3, HandleRequestVoteSettles
  <2>2. Settles(c.dst)
      BY <1>0, <1>3, HandleRequestVoteSettles
  <2>. QED  BY <2>1, <2>2, SettledQuietly
<1>4. ASSUME NEW c \in rpcs, VoteAfterElection(c)
      PROVE  RoleInv'
  <2>1. Settles(c.src) /\ CallsBecome({}, None, FALSE)
      BY <1>0, <1>4, AbandonsSettle
  <2>. QED  BY <2>1, SettledQuietly
<1>5. ASSUME NEW c \in rpcs, VoteFromNewerTerm(c)
      PROVE  RoleInv'
  <2>1. Settles(c.src) /\ CallsBecome({}, None, FALSE)
      BY <1>0, <1>5, VoteFromNewerTermSettles
  <2>. QED  BY <2>1, SettledQuietly
<1>. QED  BY <1>1, <1>2, <1>3, <1>4, <1>5 DEF ElectionStep

(* A step of i, which runs, that elects nobody and sends nothing.          *)
LEMMA UpRoles ==
    ASSUME RoleInv, ElectionInv', Lawful, NEW i \in Node, OnlyTouches(i), i \in up',
           elected' = elected, NEW e, NEW ok, CallsBecome({}, e, ok),
           \/ state'[i].role = Follower
           \/ /\ state'[i].role = state[i].role
              /\ state'[i].current_term = state[i].current_term
    PROVE  RoleInv'
<1>1. RoleOK(i)
    BY DEF RoleInv
<1>2. RoleOK(i)'
    BY <1>1 DEF RoleOK, Follower, Candidate, Leader
<1>. QED  BY <1>2, RolesKeptQuietly

LEMMA ReplicationStepRoles ==
    ASSUME RoleInv, ElectionInv', Lawful, ReplicationStep
    PROVE  RoleInv'
<1>0. TypeInv
    BY DEF RoleInv, ElectionInv
<1>1. ASSUME NEW i \in Node, NEW f \in Node, SendToFollower(i, f)
      PROVE  RoleInv'
  <2>1. Settles(i) /\ CallsBecome({Sent(i, f)}, None, FALSE)
      BY <1>0, <1>1, SendToFollowerSettles
  <2>2. Leads(i) /\ elected' = elected /\ up' = up
      BY <1>1 DEF SendToFollower, history
  <2>3. <<state[i].current_term, i>> \in elected' /\ i \in up'
      BY <2>2 DEF RoleInv, RoleOK, Leads
  <2>4. PICK call : call = Sent(i, f)
      OBVIOUS
  <2>5. /\ call.src = i /\ call.req.term = state[i].current_term
        /\ call.req.kind # "RequestVote"
      BY <2>4 DEF Sent, Call, InstallSnapshot, AppendEntries
  <2>6. CallRole(call)'
      BY <2>3, <2>5 DEF CallRole
  <2>7. CallsBecome({call}, None, FALSE)
      BY <2>1, <2>4
  <2>. QED  BY <2>1, <2>6, <2>7, SettledSending
<1>2. ASSUME NEW i \in Node, AdvanceCommit(i)
      PROVE  RoleInv'
  <2>1. /\ OnlyTouches(i) /\ up' = up /\ elected' = elected /\ Leads(i)
        /\ state'[i].current_term = state[i].current_term
        /\ state'[i].role = state[i].role
        /\ CallsBecome({}, None, FALSE)
      BY <1>0, <1>2, AdvanceCommitEffect
  <2>2. i \in up'
      BY <2>1 DEF Leads
  <2>. QED  BY <2>1, <2>2, UpRoles
<1>3. ASSUME NEW c \in rpcs, HandleAppendEntries(c)
      PROVE  RoleInv'
  <2>0. c.dst \in Node
      BY <1>0, CallOnNetwork
  <2>1. CASE c.req.term < state[c.dst].current_term
    <3>1. Settles(c.dst) /\ CallsBecome({}, c, FALSE)
        BY <1>0, <1>3, <2>1, StaleAppendSettles
    <3>. QED  BY <3>1, SettledQuietly
  <2>2. CASE ~(c.req.term < state[c.dst].current_term)
    <3>. DEFINE i == c.dst
                ok == Accepts(log[i], c.req)
    <3>1. /\ OnlyTouches(i) /\ i \in up' /\ elected' = elected
          /\ state'[i].role = Follower /\ CallsBecome({}, c, ok)
        BY <1>0, <1>3, <2>2, HandleAppendEntriesEffect DEF Same
    <3>. HIDE DEF i, ok
    <3>. QED  BY <2>0, <3>1, UpRoles DEF i
  <2>. QED  BY <2>1, <2>2
<1>4. ASSUME NEW c \in rpcs, AnswerAfterLeadership(c)
      PROVE  RoleInv'
  <2>1. Settles(c.src) /\ CallsBecome({}, None, FALSE)
      BY <1>0, <1>4, DropsSettle
  <2>. QED  BY <2>1, SettledQuietly
<1>5. ASSUME NEW c \in rpcs, AnswerFromNewerTerm(c)
      PROVE  RoleInv'
  <2>1. Settles(c.src) /\ CallsBecome({}, None, FALSE)
      BY <1>0, <1>5, AnswerFromNewerTermSettles
  <2>. QED  BY <2>1, SettledQuietly
<1>6. ASSUME NEW c \in rpcs, AnswerToLeader(c)
      PROVE  RoleInv'
  <2>0. c.src \in Node /\ c.src \in up
      BY <1>0, <1>6, CallOnNetwork DEF AnswerToLeader, StillLeader, Leads
  <2>1. /\ OnlyTouches(c.src) /\ Same /\ CallsBecome({}, None, FALSE)
        /\ state'[c.src] = state[c.src]
      BY <1>0, <1>6, AnswerToLeaderEffect DEF NodeBecomes
  <2>. QED  BY <2>0, <2>1, UpRoles DEF Same
<1>. QED  BY <1>1, <1>2, <1>3, <1>4, <1>5, <1>6 DEF ReplicationStep

LEMMA FallsRoles ==
    ASSUME RoleInv, ElectionInv', Lawful, NEW i \in Node, NEW lg, NEW snap,
           Falls(i, lg, snap)
    PROVE  RoleInv'
<1>1. RoleOK(i)'
    BY DEF Falls, RoleOK, Follower, Candidate, Leader
<1>2. /\ OnlyTouches(i) /\ elected' = elected /\ CallsBecome({}, None, FALSE)
      /\ i \notin up' => \A c \in rpcs' : c.src = i => c.st = "late"
    BY DEF Falls
<1>. QED  BY <1>1, <1>2, RolesKeptQuietly

LEMMA OtherStepRoles ==
    ASSUME RoleInv, ElectionInv', Lawful,
           ClientStep \/ SnapshotStep \/ TransferStep \/ LossStep
    PROVE  RoleInv'
<1>0. TypeInv
    BY DEF RoleInv, ElectionInv
<1>1. ASSUME NEW i \in Node, SubmitReturns(i) \/ BeginTransfer(i) \/ AbortTransfer(i)
      PROVE  RoleInv'
  <2>1. Settles(i) /\ CallsBecome({}, None, FALSE)
      BY <1>0, <1>1, LocalSettles
  <2>. QED  BY <2>1, SettledQuietly
<1>2. ASSUME NEW i \in Node, NEW b \in Batch, Submit(i, b)
      PROVE  RoleInv'
  <2>1. /\ CanSubmit(i, b) /\ Same /\ CallsBecome({}, None, FALSE)
        /\ OnlyTouches(i) /\ state'[i] = state[i]
      BY <1>0, <1>2, SubmitEffect DEF NodeBecomes
  <2>. QED  BY <2>1, UpRoles DEF Same, CanSubmit
<1>3. ASSUME NEW i \in Node, CreateSnapshot(i)
      PROVE  RoleInv'
  <2>1. /\ Compactable(i) /\ Same /\ CallsBecome({}, None, FALSE)
        /\ OnlyTouches(i) /\ state'[i] = state[i]
      BY <1>0, <1>3, CreateSnapshotEffect DEF NodeBecomes
  <2>. QED  BY <2>1, UpRoles DEF Same, Compactable
<1>4. ASSUME NEW c \in rpcs, HandleInstallSnapshot(c)
      PROVE  RoleInv'
  <2>. DEFINE i == c.dst
  <2>1. /\ OnlyTouches(i) /\ i \in up' /\ elected' = elected
        /\ state'[i].role = Follower /\ CallsBecome({}, c, TRUE) /\ i \in Node
      BY <1>0, <1>4, HandleInstallSnapshotEffect, CallOnNetwork DEF Same
  <2>. HIDE DEF i
  <2>. QED  BY <2>1, UpRoles
<1>5. ASSUME NEW c \in rpcs, RejectSnapshot(c)
      PROVE  RoleInv'
  <2>1. PICK ok : CallsBecome({}, c, ok)
      BY <1>0, <1>5, RejectSnapshotSettles
  <2>2. Settles(c.dst)
      BY <1>0, <1>5, RejectSnapshotSettles
  <2>. QED  BY <2>1, <2>2, SettledQuietly
<1>6. ASSUME NEW i \in Node, NEW f \in Node, SendTimeoutNow(i, f)
      PROVE  RoleInv'
  <2>1. Settles(i) /\ CallsBecome({TimeoutCall(i, f)}, None, FALSE)
      BY <1>0, <1>6, SendTimeoutNowSettles
  <2>2. LeadsTransfer(i) /\ elected' = elected /\ up' = up
      BY <1>6 DEF SendTimeoutNow, history
  <2>3. <<transfer_term[i], i>> \in elected' /\ i \in up'
      BY <2>2 DEF RoleInv, RoleOK, Leads, LeadsTransfer
  <2>4. PICK call : call = TimeoutCall(i, f)
      OBVIOUS
  <2>5. /\ call.src = i /\ call.req.term = transfer_term[i]
        /\ call.req.kind # "RequestVote"
      BY <2>4 DEF TimeoutCall, Call
  <2>6. CallRole(call)'
      BY <2>3, <2>5 DEF CallRole
  <2>7. CallsBecome({call}, None, FALSE)
      BY <2>1, <2>4
  <2>. QED  BY <2>1, <2>6, <2>7, SettledSending
<1>7. ASSUME NEW c \in rpcs, HandleTimeoutNow(c)
      PROVE  RoleInv'
  <2>1. PICK ok : CallsBecome({}, c, ok)
      BY <1>0, <1>7, HandleTimeoutNowSettles
  <2>2. Settles(c.dst)
      BY <1>0, <1>7, HandleTimeoutNowSettles
  <2>. QED  BY <2>1, <2>2, SettledQuietly
<1>8. ASSUME NEW c \in rpcs, TransferAnswered(c)
      PROVE  RoleInv'
  <2>1. Settles(c.src) /\ CallsBecome({}, None, FALSE)
      BY <1>0, <1>8, TransferAnsweredSettles
  <2>. QED  BY <2>1, SettledQuietly
<1>9. ASSUME NEW c \in rpcs, CallFails(c)
      PROVE  RoleInv'
  <2>1. Settles(c.src) /\ CallsBecome({}, None, FALSE)
      BY <1>0, <1>9, AbandonsSettle
  <2>. QED  BY <2>1, SettledQuietly
<1>10. ASSUME NEW c \in rpcs, LateRequestLost(c)
       PROVE  RoleInv'
  <2>1. Settles(c.src) /\ CallsBecome({}, None, FALSE)
      BY <1>0, <1>10, DropsSettle
  <2>. QED  BY <2>1, SettledQuietly
<1>11. CASE ClientStep
    BY <1>1, <1>2, <1>11 DEF ClientStep
<1>12. CASE SnapshotStep
    BY <1>3, <1>4, <1>5, <1>12 DEF SnapshotStep
<1>13. CASE TransferStep
    BY <1>1, <1>6, <1>7, <1>8, <1>13 DEF TransferStep
<1>14. CASE LossStep
    BY <1>9, <1>10, <1>14 DEF LossStep
<1>. QED  BY <1>11, <1>12, <1>13, <1>14

LEMMA CrashStepRoles ==
    ASSUME RoleInv, ElectionInv', Lawful, CrashStep
    PROVE  RoleInv'
<1>0. TypeInv
    BY DEF RoleInv, ElectionInv
<1>1. ASSUME NEW i \in Node,
             Crash(i) \/ CrashInCreateSnapshot(i) \/ \E b \in Batch : CrashInSubmit(i, b)
      PROVE  RoleInv'
  <2>1. PICK lg, snap : Falls(i, lg, snap)
      BY <1>0, <1>1, CrashFalls, CrashInCreateSnapshotFalls, CrashInSubmitFalls
  <2>. QED  BY <2>1, FallsRoles
<1>2. ASSUME NEW i \in Node, Restart(i)
      PROVE  RoleInv'
  <2>1. /\ OnlyTouches(i) /\ i \in up' /\ elected' = elected
        /\ state'[i].role = Follower /\ CallsBecome({}, None, FALSE)
      BY <1>0, <1>2, RestartEffect
  <2>. QED  BY <2>1, UpRoles
<1>3. ASSUME NEW c \in rpcs, CrashInAppendEntries(c) \/ CrashInInstallSnapshot(c)
      PROVE  RoleInv'
  <2>1. PICK i, lg, snap : i = c.dst /\ Falls(i, lg, snap)
      BY <1>0, <1>3, CrashInAppendEntriesFalls, CrashInInstallSnapshotFalls
  <2>2. i \in Node
      BY <1>0, <2>1, CallOnNetwork
  <2>. QED  BY <2>1, <2>2, FallsRoles
<1>. QED  BY <1>1, <1>2, <1>3 DEF CrashStep

LEMMA RoleStep == RoleInv /\ [Next]_vars => RoleInv'
<1>. SUFFICES ASSUME RoleInv, [Next]_vars  PROVE RoleInv'
    OBVIOUS
<1>1. TypeInv /\ Lawful
    BY StepLawful DEF RoleInv, ElectionInv
<1>2. ElectionInv'
    BY <1>1, StepTyped, LawfulKeepsElectionInv DEF RoleInv
<1>3. CASE UNCHANGED vars
  <2>1. UNCHANGED <<up, state, replication, elected, rpcs>>
      BY <1>3 DEF vars, memory, history
  <2>. QED  BY <1>2, <2>1 DEF RoleInv, RoleOK, ElectedPast, CallRole
<1>. QED  BY <1>1, <1>2, <1>3, ElectionStepRoles, ReplicationStepRoles,
             CrashStepRoles, OtherStepRoles DEF Next

LEMMA InitRole == Init => RoleInv
<1>. SUFFICES ASSUME Init  PROVE RoleInv
    OBVIOUS
<1>1. /\ up = Node /\ elected = {} /\ rpcs = {}
      /\ \A i \in Node : state[i].role = Follower
    BY DEF Init, InitialState
<1>2. \A i \in Node : RoleOK(i)
    BY <1>1 DEF RoleOK, Follower, Candidate, Leader
<1>. QED  BY <1>1, <1>2, InitElection DEF RoleInv, ElectedPast

LEMMA RoleInvHolds == Spec => []RoleInv
<1>. QED  BY InitRole, RoleStep, PTL DEF Spec
=============================================================================
