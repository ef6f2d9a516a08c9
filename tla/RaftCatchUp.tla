---------------------------- MODULE RaftCatchUp ----------------------------
(***************************************************************************)
(* How a leader that stays in office brings its followers up to date: the  *)
(* rounds of replicate_log (raft/node.py), which the background loop of    *)
(* runtime.py starts again and again, the workers they start, and          *)
(* followers that compact, crash and restart while calls fail.             *)
(*                                                                         *)
(* A round starts a worker for every follower that has none and waits, for *)
(* a quorum or 0.25 s, before it advances the commit index; a worker may   *)
(* outlive its round.  Between two rounds nothing but the workers runs, so *)
(* the end of a round and the beginning of the next are one step.  A       *)
(* future that is done counts as none: it is collected, and replaced, when *)
(* the next round begins at the latest.                                    *)
(***************************************************************************)
EXTENDS Raft

CONSTANTS
    Chief,          \* the leader
    Laggard         \* the follower that is behind when Chief is elected

ASSUME CatchUpAssumption == {Chief, Laggard} \subseteq Node /\ Chief # Laggard

VARIABLE
    workers         \* followers whose future in _replication_futures runs

allVars == <<vars, workers>>

Followers == Node \ {Chief}

-----------------------------------------------------------------------------
(* Rounds: replicate_log.  The first one has nothing to commit.            *)

Round ==
    /\ Leads(Chief)
    /\ IF CommitCandidate(Chief) > state[Chief].commit_index
       THEN AdvanceCommit(Chief) ELSE UNCHANGED vars
    /\ workers' = Followers

-----------------------------------------------------------------------------
(* Workers: _replicate_to_follower.                                        *)

WorkerSends(f) ==
    /\ f \in workers
    /\ SendToFollower(Chief, f)
    /\ UNCHANGED workers

(* The follower has the whole log and the commit index.                    *)
Informed(c) ==
    /\ replication'[c.src].next_index[c.dst] > LastIndex(log[c.src])
    /\ \/ c.req.kind = "InstallSnapshot"
       \/ c.req.leader_commit >= state[c.src].commit_index

(* After any other answer but a refused snapshot the worker sends again.   *)
WorkerAnswered(c) ==
    /\ AnswerToLeader(c)
    /\ workers' = IF IF c.resp.ok THEN Informed(c)
                     ELSE c.req.kind = "InstallSnapshot"
                  THEN workers \ {c.dst} ELSE workers

WorkerFails(c) ==
    /\ c.dst = Laggard
    /\ CallFails(c)
    /\ workers' = workers \ {c.dst}

-----------------------------------------------------------------------------
(* Followers and clients.  Only Laggard crashes, compacts and misses calls. *)

FollowerHandles(c) ==
    /\ HandleAppendEntries(c) \/ HandleInstallSnapshot(c) \/ RejectSnapshot(c)
    /\ UNCHANGED workers

LaggardRestarts == Restart(Laggard) /\ UNCHANGED workers

ClientWrites ==
    /\ \E b \in Batch : Submit(Chief, b)
    /\ UNCHANGED workers

Compacts ==
    /\ \E i \in {Chief, Laggard} : CreateSnapshot(i)
    /\ UNCHANGED workers

LaggardCrashes ==
    /\ Crash(Laggard)
    /\ UNCHANGED workers

-----------------------------------------------------------------------------
(* The election of Chief, as the Laggard missed it.                        *)

Entry(term) == [term |-> term, command |-> [operation |-> "DELETE",
                                             key |-> CHOOSE k \in Key : TRUE]]
OneEntry(term) == [EmptyLog EXCEPT !.entries = <<Entry(term)>>]

(* Nobody wrote before.                                                    *)
Fresh == [term |-> 1, behind |-> EmptyLog, other |-> EmptyLog,
          chief |-> EmptyLog, commit |-> 0, elected |-> {<<1, Chief>>}]

(* Chief led term 1 and Laggard term 2, and each kept a write to itself.   *)
Diverged == [term |-> 3, behind |-> OneEntry(2), other |-> EmptyLog,
             chief |-> OneEntry(1), commit |-> 0,
             elected |-> {<<1, Chief>>, <<2, Laggard>>, <<3, Chief>>}]

(* Chief committed in term 1 without Laggard and was elected again.        *)
Behind == [term |-> 2, behind |-> EmptyLog, other |-> OneEntry(1),
           chief |-> OneEntry(1), commit |-> 1,
           elected |-> {<<1, Chief>>, <<2, Chief>>}]

Elected(at) ==
    LET lg == [i \in Node |-> CASE i = Chief -> at.chief
                                [] i = Laggard -> at.behind
                                [] OTHER -> at.other]
        commit == [i \in Node |-> IF i = Chief THEN at.commit ELSE 0]
        vote == [i \in Node |-> IF i = Laggard THEN None ELSE Chief]
    IN /\ log = lg
       /\ state = [i \in Node |->
             [InitialState EXCEPT
                !.current_term = at.term,
                !.voted_for = vote[i],
                !.role = IF i = Chief THEN Leader ELSE Follower,
                !.leader_id = IF i = Chief THEN Chief ELSE None,
                !.commit_index = commit[i], !.last_applied = commit[i]]]
       /\ disk = [i \in Node |->
             [current_term |-> at.term, voted_for |-> vote[i],
              commit_index |-> commit[i], log |-> lg[i],
              snapshot |-> InitialSnapshot]]
       /\ replication = [i \in Node |-> IF i = Chief
                            THEN LeaderReplication(Chief, at.chief)
                            ELSE NoReplication]
       /\ elected = at.elected
       /\ committed = [n \in 1..at.commit |-> [entry |-> Entry(1), by |-> 1]]

CatchUpInit ==
    /\ \E at \in {Fresh, Diverged, Behind} : Elected(at)
    /\ up = Node
    /\ snapshot = [i \in Node |-> InitialSnapshot]
    /\ store = [i \in Node |-> EmptyStore]
    /\ transfer_term = [i \in Node |-> 0]
    /\ pending = [i \in Node |-> NoBatch]
    /\ rpcs = {}
    /\ acked = {}
    /\ workers = {}

CatchUpNext ==
    \/ Round
    \/ \E f \in Followers : WorkerSends(f)
    \/ \E c \in rpcs : WorkerAnswered(c) \/ WorkerFails(c) \/ FollowerHandles(c)
    \/ ClientWrites
    \/ Compacts
    \/ LaggardCrashes \/ LaggardRestarts

(* The background loop always starts another round, the deadline ends it,  *)
(* and threads run.  Calls may fail for ever, but not all of them: of the  *)
(* requests to a follower some are handled, of the answers some arrive.    *)
CatchUpFairness ==
    /\ WF_allVars(Round)
    /\ \A f \in Followers :
          /\ WF_allVars(WorkerSends(f))
          /\ SF_allVars(\E c \in rpcs : c.dst = f /\ FollowerHandles(c))
          /\ SF_allVars(\E c \in rpcs : c.dst = f /\ WorkerAnswered(c))

CatchUpSpec == CatchUpInit /\ [][CatchUpNext]_allVars /\ CatchUpFairness

-----------------------------------------------------------------------------
(* Liveness.                                                               *)

UpToDateWithChief(f) ==
    /\ f \in up
    /\ LastIndex(log[f]) = LastIndex(log[Chief])
    /\ state[f].commit_index = state[Chief].commit_index

(* The follower has compacted entries that Chief still asks it about, and  *)
(* Chief has not compacted as many.                                        *)
Stranded(f) ==
    /\ log[f].base > log[Chief].base
    /\ replication[Chief].next_index[f] <= log[f].base

(* As long as Chief leads, every follower is again and again brought up to *)
(* date, whatever it missed, refused or forgot in a crash, unless it is    *)
(* stranded (the loop of _replicate_to_follower and the rounds) or crashes *)
(* for ever.                                                               *)
CatchesUpUnlessStranded ==
    \A f \in Followers :
        <>[](f \in up) => []<>(UpToDateWithChief(f) \/ Stranded(f))

(* README.md:1134: "Follower is slightly behind | Catch up through         *)
(* `AppendEntries`".  As PROPERTY of the same configuration it is violated *)
(* by a follower that is stranded: it handles requests while its answers   *)
(* are lost, learns what is committed and compacts it.                     *)
CatchesUp ==
    \A f \in Followers : <>[](f \in up) => []<>UpToDateWithChief(f)
============================================================================
