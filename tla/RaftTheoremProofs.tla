------------------------- MODULE RaftTheoremProofs --------------------------
(***************************************************************************)
(* What SafetyInv says of Raft, for any number of nodes and any bounds:    *)
(* the invariants of the runs, each as a theorem of Spec.                  *)
(*                                                                         *)
(* First the logs and the commit indexes; then the stores, whose           *)
(* invariant (StoreInv) follows a snapshot from the node that made it      *)
(* over the network to the one that installs it; then what a leader knows  *)
(* of its own commits (OwnCommits), on which reads rest; last the          *)
(* transfer of leadership, whose invariant (TransferInv) says that a       *)
(* TimeoutNow under way was sent to a follower that had caught up, in the  *)
(* term the sender still leads or has lost.                                *)
(***************************************************************************)
EXTENDS RaftSafetyProofs

-----------------------------------------------------------------------------
(* What the invariant says of one node.                                    *)

LEMMA NodeUnfolds ==
    ASSUME RoleInv, NEW L, NEW F, NEW K, Remembers(L, F, K), NEW i \in Node
    PROVE  /\ log[i] \in LogOf(Command) /\ log[i] \in LogType
           /\ F[i] \in Full /\ F[i] \in FullOf(Command)
           /\ Unfolds(log[i], F[i]) /\ Traceable(L, F[i]) /\ Sorted(F[i])
           /\ LastIndex(log[i]) \in Nat /\ log[i].base \in Nat
           /\ log[i].base <= LastIndex(log[i])
           /\ state[i].current_term \in Nat /\ state[i].commit_index \in Nat
<1>1. /\ log[i] \in LogOf(Command) /\ log[i] \in LogType
      /\ LastIndex(log[i]) \in Nat /\ log[i].base \in Nat
      /\ log[i].base <= LastIndex(log[i])
      /\ state[i].current_term \in Nat /\ state[i].commit_index \in Nat
    BY NodeTypes
<1>2. /\ F[i] \in Full /\ L \in [Nat -> Full] /\ LeaderLogs(L)
      /\ Unfolds(log[i], F[i]) /\ Traceable(L, F[i])
    BY DEF Remembers, Bound, Shadow, NodeOK, NodeLog
<1>3. Sorted(F[i])
    BY <1>2, TraceableSorted
<1>. QED  BY <1>1, <1>2, <1>3 DEF Full

LEMMA UnfoldedHolds ==
    ASSUME NEW lg \in LogType, NEW f \in Full, Unfolds(lg, f),
           NEW n \in Nat, 0 < n, n <= LastIndex(lg), NEW e, f[n] = e
    PROVE  Holds(lg, n, e)
<1>1. lg.base \in Nat
    BY DEF LogType
<1>2. CASE n < lg.base
    BY <1>2 DEF Holds
<1>3. CASE n = lg.base
    BY <1>3 DEF Holds, Unfolds
<1>4. CASE lg.base < n
    BY <1>4 DEF Holds, Retains, Unfolds
<1>. QED  BY <1>1, <1>2, <1>3, <1>4

-----------------------------------------------------------------------------
(* The logs.                                                               *)

LEMMA LogsMatch == SafetyInv => LogMatching
<1>. SUFFICES ASSUME SafetyInv, NEW i \in Node, NEW j \in Node,
                     NEW n \in 1..LastIndex(log[i]), TermAt(log[i], n) # NoTerm,
                     TermAt(log[i], n) = TermAt(log[j], n),
                     NEW m \in 1..n, Retains(log[i], m), Retains(log[j], m)
              PROVE  EntryAt(log[i], m) = EntryAt(log[j], m)
    BY DEF LogMatching
<1>1. PICK L, F, K : Remembers(L, F, K)
    BY DEF SafetyInv, Remembered
<1>2. /\ log[i] \in LogOf(Command) /\ log[j] \in LogOf(Command)
      /\ F[i] \in FullOf(Command) /\ F[j] \in FullOf(Command)
      /\ Unfolds(log[i], F[i]) /\ Unfolds(log[j], F[j])
      /\ Traceable(L, F[i]) /\ Traceable(L, F[j])
      /\ F[i] \in Full /\ F[j] \in Full /\ LastIndex(log[i]) \in Nat
    BY <1>1, NodeUnfolds DEF SafetyInv
<1>3. n \in Nat /\ n > 0 /\ m \in Nat /\ m \in 0..n
    BY <1>2
<1>4. TermAt(log[i], n) = F[i][n].term
    BY <1>2, <1>3, UnfoldsTermAt
<1>5. TermAt(log[j], n) = F[j][n].term
    BY <1>2, <1>3, UnfoldsTermAt
<1>6. F[i][n].term > 0
    BY <1>2, <1>3 DEF Unfolds
<1>7. Agree(F[i], F[j], n)
    BY <1>2, <1>3, <1>4, <1>5, <1>6, TraceableMatches DEF Matches
<1>8. F[i][m] = F[j][m]
    BY <1>3, <1>7 DEF Agree
<1>. QED  BY <1>2, <1>3, <1>8 DEF Unfolds

(* Two logs with an entry of one term at one index hold the same entries   *)
(* up to it, for every number of nodes: handle_append_entries checks the   *)
(* entry before the new ones and truncates at the first conflict, and no   *)
(* crash or snapshot boundary breaks the match.                            *)
THEOREM LogMatchingHolds == Spec => []LogMatching
<1>. QED  BY SafetyInvHolds, LogsMatch, PTL

-----------------------------------------------------------------------------
(* What was committed.                                                     *)

LEMMA CommittedFacts ==
    ASSUME RoleInv, NEW c, c = Len(committed)
    PROVE  /\ c \in Nat
           /\ \A n \in 1..c : /\ committed[n].entry \in EntryType
                              /\ committed[n].entry.term \in Nat
                              /\ committed[n].by \in Nat
<1>1. committed \in Seq([entry : EntryType, by : Nat])
    BY DEF RoleInv, ElectionInv, TypeInv, TypeOK
<1>2. c \in Nat /\ \A n \in 1..c : committed[n] \in [entry : EntryType, by : Nat]
    BY <1>1, ElementOfSeq, LenProperties
<1>. QED  BY <1>2 DEF EntryType

(* A chosen entry lies on the committed history.                           *)
LEMMA ChosenCommitted ==
    ASSUME RoleInv, NEW L, NEW F, NEW K, Remembers(L, F, K),
           NEW s \in Nat, NEW n \in Nat, Chosen(L, K, s, n), n <= Len(committed)
    PROVE  \A m \in 1..n : committed[m].entry = L[s][m]
<1>1. PICK c \in Nat : c = Len(committed)
    BY CommittedFacts
<1>2. SUFFICES ASSUME NEW m \in 1..n  PROVE committed[m].entry = L[s][m]
    OBVIOUS
<1>3. m \in Nat /\ m \in 0..n /\ m \in 1..c /\ c > 0 /\ c \in 1..c
    BY <1>1
<1>4. PICK u \in Nat : u = committed[c].entry.term
    BY <1>1, <1>3, CommittedFacts
<1>5. Chosen(L, K, u, c) /\ committed[m].entry = L[u][m]
    BY <1>1, <1>3, <1>4 DEF Remembers, History
<1>6. Agree(L[s], L[u], n)
    BY <1>1, <1>5, Comparable DEF Remembers, Bound
<1>. QED  BY <1>3, <1>5, <1>6 DEF Agree

LEMMA CommittedHeld ==
    ASSUME RoleInv, NEW L, NEW F, NEW K, Remembers(L, F, K), NEW i \in Node,
           NEW c, c = state[i].commit_index
    PROVE  /\ c \in Nat /\ c <= Len(committed) /\ c <= LastIndex(log[i])
           /\ \A n \in 1..c : F[i][n] = committed[n].entry
<1>1. c \in Nat /\ c <= Len(committed) /\ c <= LastIndex(log[i])
  <2>1. TypeInv
      BY DEF RoleInv, ElectionInv
  <2>. QED  BY <2>1, Current, NodeUnfolds DEF Remembers, NodeOK, CommitChosen
<1>2. ASSUME NEW n \in 1..c  PROVE F[i][n] = committed[n].entry
  <2>1. c > 0 /\ n \in 0..c
      BY <1>1
  <2>2. PICK s \in Nat : s = F[i][c].term
      BY <1>1, NodeUnfolds, FullFacts
  <2>3. Chosen(L, K, s, c)
      BY <2>1, <2>2 DEF Remembers, NodeOK, CommitChosen
  <2>4. Agree(F[i], L[s], c)
    <3>1. s > 0
        BY <2>3 DEF Chosen
    <3>. QED  BY <1>1, <2>2, <3>1, NodeUnfolds DEF Traceable
  <2>5. committed[n].entry = L[s][n]
      BY <1>1, <2>3, ChosenCommitted
  <2>. QED  BY <2>1, <2>4, <2>5 DEF Agree
<1>. QED  BY <1>1, <1>2

LEMMA CommitsAgree == SafetyInv => CommittedAgree
<1>. SUFFICES ASSUME SafetyInv, NEW i \in Node
              PROVE  /\ state[i].commit_index <= Len(committed)
                     /\ \A n \in 1..state[i].commit_index :
                           Holds(log[i], n, committed[n].entry)
    BY DEF CommittedAgree
<1>1. PICK L, F, K : RoleInv /\ Remembers(L, F, K)
    BY DEF SafetyInv, Remembered
<1>2. PICK c : c = state[i].commit_index
    OBVIOUS
<1>3. /\ c \in Nat /\ c <= Len(committed) /\ c <= LastIndex(log[i])
      /\ \A n \in 1..c : F[i][n] = committed[n].entry
    BY <1>1, <1>2, CommittedHeld
<1>4. ASSUME NEW n \in 1..c  PROVE Holds(log[i], n, committed[n].entry)
  <2>1. n \in Nat /\ 0 < n /\ n <= LastIndex(log[i])
      BY <1>1, <1>3, NodeUnfolds
  <2>. QED  BY <1>1, <1>3, <2>1, NodeUnfolds, UnfoldedHolds
<1>. QED  BY <1>2, <1>3, <1>4

(* What any node takes for committed is what some leader committed at that *)
(* index, so no committed entry is ever replaced: commit_index of a leader *)
(* (advance_commit), of a follower (handle_append_entries), and the commit *)
(* index a snapshot or a restart brings.                                   *)
THEOREM CommittedAgreeHolds == Spec => []CommittedAgree
<1>. QED  BY SafetyInvHolds, CommitsAgree, PTL

(* The leader of term t has all that was committed up to term t.           *)
LEMMA LeadersComplete == SafetyInv => LeaderCompleteness
<1>. SUFFICES ASSUME SafetyInv, NEW i \in up, state[i].role = Leader,
                     NEW n \in 1..Len(committed),
                     committed[n].by <= state[i].current_term
              PROVE  Holds(log[i], n, committed[n].entry)
    BY DEF LeaderCompleteness
<1>1. PICK L, F, K : RoleInv /\ Remembers(L, F, K)
    BY DEF SafetyInv, Remembered
<1>2. PICK c \in Nat : c = Len(committed)
    BY <1>1, CommittedFacts
<1>3. i \in Node
    BY <1>1 DEF RoleInv, ElectionInv, TypeInv, TypeOK
<1>4. PICK t \in Nat : t = state[i].current_term
    BY <1>1, <1>3, NodeUnfolds
<1>5. Led(t) /\ F[i] = L[t]
    BY <1>1, <1>3, <1>4 DEF RoleInv, RoleOK, Led, Remembers, NodeOK, NodeLog
<1>6. n \in Nat /\ n > 0 /\ c > 0
    BY <1>2
<1>7. PICK m \in n..c : Chosen(L, K, committed[n].by, m)
    BY <1>1, <1>2, <1>6 DEF Remembers, History
<1>8. PICK b \in Nat : b = committed[n].by /\ b <= t
    BY <1>1, <1>2, <1>4, CommittedFacts
<1>9. m \in Nat /\ m <= c /\ n \in 1..m /\ n \in 0..m /\ n <= m
    BY <1>2, <1>6
<1>10. committed[n].entry = L[b][n]
    BY <1>1, <1>2, <1>7, <1>8, <1>9, ChosenCommitted
<1>11. L[t][m].term = b /\ Agree(L[t], L[b], m)
    BY <1>1, <1>5, <1>7, <1>8, <1>9, ChosenKept DEF Remembers, Bound
<1>12. F[i][n] = committed[n].entry
    BY <1>5, <1>9, <1>10, <1>11 DEF Agree
<1>13. n <= LastIndex(log[i])
  <2>1. F[i][m].term > 0
      BY <1>5, <1>7, <1>8, <1>11 DEF Chosen
  <2>2. m <= LastIndex(log[i])
      BY <1>1, <1>3, <1>9, <2>1, NodeUnfolds, UnfoldsHolds
  <2>. QED  BY <1>1, <1>3, <1>9, <2>2, NodeUnfolds
<1>. QED  BY <1>1, <1>3, <1>6, <1>12, <1>13, NodeUnfolds, UnfoldedHolds

(* A leader has every entry committed in its own or an earlier term, for   *)
(* every number of nodes (handle_request_vote with                         *)
(* is_candidate_log_up_to_date, against the commit rule of                 *)
(* quorum_match_index).                                                    *)
THEOREM LeaderCompletenessHolds == Spec => []LeaderCompleteness
<1>. QED  BY SafetyInvHolds, LeadersComplete, PTL

LEMMA ElectablesComplete == SafetyInv => ElectableHasCommitted
<1>. SUFFICES ASSUME SafetyInv, NEW i \in Node, Electable(i),
                     NEW n \in 1..Len(committed)
              PROVE  Holds(log[i], n, committed[n].entry)
    BY DEF ElectableHasCommitted
<1>1. PICK L, F, K : RoleInv /\ Remembers(L, F, K)
    BY DEF SafetyInv, Remembered
<1>2. PICK c \in Nat : c = Len(committed)
    BY <1>1, CommittedFacts
<1>3. n \in Nat /\ n > 0 /\ n <= c /\ c > 0 /\ c \in 1..c /\ n \in 0..c /\ n \in 1..c
    BY <1>2
<1>4. PICK s \in Nat : s = committed[c].entry.term
    BY <1>1, <1>2, <1>3, CommittedFacts
<1>5. Chosen(L, K, s, c) /\ committed[n].entry = L[s][n]
    BY <1>1, <1>2, <1>3, <1>4 DEF Remembers, History
<1>6. s > 0 /\ L[s][c].term = s
    BY <1>5 DEF Chosen
<1>7. PICK P \in Quorum : \A v \in P : K[v][s] >= c
    BY <1>5 DEF Chosen
<1>8. PICK last \in Nat, term \in Nat : last = LastIndex(log[i]) /\ term = LastTerm(log[i])
    BY <1>1, NodeUnfolds, LastTermType
<1>9. PICK Q \in Quorum : \A v \in Q :
          UpToDate(last, term, LastIndex(log[v]), LastTerm(log[v]))
    BY <1>8 DEF Electable
<1>10. PICK v \in P \cap Q : v \in Node
    BY QuorumsIntersect
<1>. PICK u \in Nat : u = s + 1
    OBVIOUS
<1>11. Covered(L, F, K, v, i, u)
  <2>1. Describes(F[i], last, term)
      BY <1>1, <1>8, NodeUnfolds, LogDescribed
  <2>3. UpToDate(last, term, LastIndex(log[v]), LastTerm(log[v]))
      BY <1>9, <1>10
  <2>4. Shadow(L, F, K) /\ Bound(L, F, K)
      BY <1>1 DEF Remembers
  <2>5. log[v] \in LogOf(Command) /\ Unfolds(log[v], F[v])
      BY <1>1, <1>10, NodeUnfolds
  <2>. QED  BY <1>10, <2>1, <2>3, <2>4, <2>5, UpToDateCovers
<1>12. c <= K[v][s]
  <2>1. K[v][s] \in Nat
      BY <1>1, <1>10, ShadowFacts DEF Remembers
  <2>. QED  BY <1>7, <1>10, <2>1
<1>13. F[i][c].term = s
  <2>1. F[i][c].term = s \/ Dead(K, s, c)
      BY <1>6, <1>11, <1>12 DEF Covered
  <2>. QED  BY <1>1, <1>5, <2>1, ChosenNotDead DEF Remembers
<1>14. Agree(F[i], L[s], c)
    BY <1>1, <1>6, <1>13, NodeUnfolds DEF Traceable
<1>15. F[i][n] = committed[n].entry
    BY <1>3, <1>5, <1>14 DEF Agree
<1>16. n <= LastIndex(log[i])
  <2>1. c <= LastIndex(log[i])
      BY <1>1, <1>6, <1>13, NodeUnfolds, UnfoldsHolds
  <2>. QED  BY <1>1, <1>3, <2>1, NodeUnfolds
<1>. QED  BY <1>1, <1>3, <1>15, <1>16, NodeUnfolds, UnfoldedHolds

(* Whoever a quorum would vote for has every committed entry, before       *)
(* anybody stands (is_candidate_log_up_to_date on both logs).              *)
THEOREM ElectableHasCommittedHolds == Spec => []ElectableHasCommitted
<1>. QED  BY SafetyInvHolds, ElectablesComplete, PTL

LEMMA LeadersCover == SafetyInv => LeaderTermCoversLog
<1>. SUFFICES ASSUME SafetyInv, NEW i \in up, state[i].role = Leader
              PROVE  LastTerm(log[i]) <= state[i].current_term
    BY DEF LeaderTermCoversLog
<1>1. PICK L, F, K : RoleInv /\ Remembers(L, F, K)
    BY DEF SafetyInv, Remembered
<1>2. i \in Node
    BY <1>1 DEF RoleInv, ElectionInv, TypeInv, TypeOK
<1>3. F[i] = L[state[i].current_term]
    BY <1>1, <1>2 DEF Remembers, NodeOK, NodeLog
<1>4. F[i][LastIndex(log[i])].term <= state[i].current_term
    BY <1>1, <1>2, <1>3, NodeUnfolds DEF Remembers, Bound, LeaderLogs, LeaderLog
<1>. QED  BY <1>1, <1>2, <1>4, NodeUnfolds, UnfoldsLastTerm

(* A leader has no entry of a term beyond its own, although a crash        *)
(* between the journal and raft-state.json leaves a node with such entries *)
(* (it is then barred: a quorum has passed the terms it could win).        *)
THEOREM LeaderTermCoversLogHolds == Spec => []LeaderTermCoversLog
<1>. QED  BY SafetyInvHolds, LeadersCover, PTL

LEMMA AppliesInOrder == SafetyInv => AppliedInOrder
<1>. SUFFICES ASSUME SafetyInv, NEW i \in up
              PROVE  /\ snapshot[i].index = log[i].base
                     /\ snapshot[i].index <= state[i].last_applied
                     /\ state[i].last_applied <= state[i].commit_index
                     /\ state[i].commit_index <= LastIndex(log[i])
    BY DEF AppliedInOrder
<1>1. PICK L, F, K : RoleInv /\ Remembers(L, F, K)
    BY DEF SafetyInv, Remembered
<1>2. i \in Node /\ log[i].base <= state[i].last_applied
    BY <1>1 DEF RoleInv, ElectionInv, TypeInv, TypeOK, AppliedAboveBase
<1>. QED  BY <1>1, <1>2 DEF Remembers, NodeOK, SnapshotChosen, CommitChosen

(* On every running node the snapshot is below last_applied, last_applied  *)
(* not above commit_index and commit_index not above the last entry        *)
(* (docs/raft.md), after a restart and an installed snapshot as well.      *)
THEOREM AppliedInOrderHolds == Spec => []AppliedInOrder
<1>. QED  BY SafetyInvHolds, AppliesInOrder, PTL

-----------------------------------------------------------------------------
(* Restart.                                                                *)

LEMMA FilesAccepted == SafetyInv => RestartsFromWholeRecords
<1>. SUFFICES ASSUME SafetyInv, NEW i \in Node  PROVE CanRestart(disk[i])
    BY DEF RestartsFromWholeRecords
<1>1. PICK L, F, K : RoleInv /\ Remembers(L, F, K)
    BY DEF SafetyInv, Remembered
<1>2. TypeInv
    BY <1>1 DEF RoleInv, ElectionInv
<1>3. PICK d, n, t, after, old, m :
         /\ d = disk[i] /\ n = snapshot[i].index /\ t = snapshot[i].term
         /\ after = RecoveredLog(d) /\ m = RecoveredCommit(d)
         /\ old = state[i].commit_index
    OBVIOUS
<1>4. /\ d.log = log[i] /\ d.snapshot.index = n /\ d.snapshot.term = t
      /\ d.commit_index = old
    BY <1>2, <1>3, DiskFields
<1>5. n \in Nat /\ t \in Nat /\ log[i].base \in Nat /\ old \in Nat
    BY <1>1, <1>3, NodeTypes
<1>6. SnapshotChosen(L, K, i) /\ CommitChosen(L, F, K, i)
    BY <1>1 DEF Remembers, NodeOK
<1>7. /\ n > 0 => Chosen(L, K, t, n)
      /\ n = 0 => t = 0
      /\ BoundaryFits(log[i], n, t) /\ n >= log[i].base
      /\ n = log[i].base => t = log[i].bterm
    BY <1>3, <1>5, <1>6 DEF SnapshotChosen, BoundaryFits
<1>8. after = InstallBoundary(log[i], n, t)
    BY <1>3, <1>4, <1>5, <1>6 DEF RecoveredLog, InstallBoundary, SnapshotChosen
<1>9. /\ after.base = n /\ after.bterm = t
      /\ \E g \in Full : /\ Unfolds(after, g)
                         /\ n > 0 => Agree(g, L[t], n)
                         /\ Installs(L, F, K, i, n, t, after, g)
    BY <1>1, <1>5, <1>7, <1>8, BoundaryTaken
<1>10. PICK g \in Full : Unfolds(after, g) /\ Installs(L, F, K, i, n, t, after, g)
    BY <1>9
<1>11. /\ F[i] \in Full /\ Unfolds(log[i], F[i]) /\ log[i] \in LogOf(Command)
       /\ F[i] \in FullOf(Command) /\ Traceable(L, F[i])
       /\ LastIndex(log[i]) \in Nat /\ old <= LastIndex(log[i])
    BY <1>1, <1>3, <1>6, NodeUnfolds DEF CommitChosen
<1>12. CASE LastIndex(after) = LastIndex(log[i]) /\ g = F[i]
  <2>1. n <= LastIndex(log[i])
    <3>1. CASE n = 0
        BY <1>11, <3>1
    <3>2. CASE n > 0
      <4>1. t > 0
          BY <1>7, <3>2 DEF Chosen
      <4>2. F[i][n].term = t
          BY <1>5, <1>9, <1>10, <1>12 DEF Unfolds
      <4>. QED  BY <1>5, <1>11, <4>1, <4>2, UnfoldsHolds
    <3>. QED  BY <1>5, <3>1, <3>2
  <2>2. m = IF old >= n THEN old ELSE n
      BY <1>3, <1>4, <1>5, MaxOfTwo DEF RecoveredCommit
  <2>. QED  BY <1>3, <1>4, <1>7, <1>11, <1>12, <2>1, <2>2 DEF CanRestart
<1>13. CASE /\ LastIndex(after) = n /\ n > 0
            /\ Chosen(L, K, t, n) /\ F[i][n].term # t
  <2>1. old <= n
    <3>1. SUFFICES ASSUME n < old  PROVE FALSE
        BY <1>5
    <3>2. PICK s \in Nat : s = F[i][old].term
        BY <1>5, <1>11, FullFacts
    <3>3. Chosen(L, K, s, old)
        BY <1>3, <1>5, <1>6, <3>1, <3>2 DEF CommitChosen
    <3>4. Agree(L[t], L[s], n)
        BY <1>1, <1>5, <1>13, <3>1, <3>3, Comparable DEF Remembers, Bound
    <3>5. Agree(F[i], L[s], old)
        BY <1>5, <1>11, <3>2, <3>3 DEF Traceable, Chosen
    <3>6. L[t][n] = L[s][n] /\ F[i][n] = L[s][n]
        BY <1>5, <3>1, <3>4, <3>5 DEF Agree
    <3>. QED  BY <1>13, <3>6 DEF Chosen
  <2>2. m = IF old >= n THEN old ELSE n
      BY <1>3, <1>4, <1>5, MaxOfTwo DEF RecoveredCommit
  <2>. QED  BY <1>3, <1>4, <1>5, <1>7, <1>13, <2>1, <2>2 DEF CanRestart
<1>. QED  BY <1>10, <1>12, <1>13 DEF Installs

(* RaftNode.__init__ accepts the files a process left, whenever it died    *)
(* and whichever of a handler's writes it had made, as long as every       *)
(* record of the journal is whole; of a record that was cut RaftJournal    *)
(* says that load_log may refuse it.                                       *)
THEOREM RestartsFromWholeRecordsHolds == Spec => []RestartsFromWholeRecords
<1>. QED  BY SafetyInvHolds, FilesAccepted, PTL

-----------------------------------------------------------------------------
(* What a leader believes of its followers.                                *)

LEMMA RequestsCanBeBuilt == SafetyInv => WorkerNeverRaises
<1>. SUFFICES ASSUME SafetyInv, NEW i \in up, Leads(i), NEW f \in Node \ {i}
              PROVE  CanBuildRequest(i, f)
    BY DEF WorkerNeverRaises
<1>1. PICK L, F, K : RoleInv /\ Remembers(L, F, K)
    BY DEF SafetyInv, Remembered
<1>2. i \in Node /\ replication[i] # NoReplication
    BY <1>1 DEF RoleInv, ElectionInv, TypeInv, TypeOK, Leads
<1>3. snapshot[i].index = log[i].base /\ snapshot[i].term = log[i].bterm
    BY <1>1, <1>2 DEF Remembers, NodeOK, SnapshotChosen
<1>4. PICK next \in Nat : next = replication[i].next_index[f]
  <2>1. replication[i] \in ReplicationType(i)
      BY <1>1, <1>2, NodeTypes DEF ReplicationOrNone
  <2>. QED  BY <2>1 DEF ReplicationType
<1>5. next <= LastIndex(log[i]) + 1
    BY <1>1, <1>2, <1>4 DEF Remembers, NodeOK, Progress
<1>6. CASE NeedsSnapshot(i, f)
    BY <1>3, <1>6 DEF CanBuildRequest
<1>7. CASE ~NeedsSnapshot(i, f)
  <2>1. PICK p \in Int : p = next - 1
      OBVIOUS
  <2>2. log[i].base <= p /\ p <= LastIndex(log[i])
      BY <1>1, <1>2, <1>4, <1>5, <1>7, <2>1, NodeUnfolds DEF NeedsSnapshot
  <2>3. TermAt(log[i], p) # NoTerm
      BY <1>1, <1>2, <2>2, NodeUnfolds, TermAtType
  <2>. QED  BY <1>4, <1>7, <2>1, <2>3 DEF CanBuildRequest
<1>. QED  BY <1>6, <1>7

(* A leader can always build the request its progress record asks for: the *)
(* replication worker never raises in _build_append_entries_request or     *)
(* _build_install_snapshot_request.                                        *)
THEOREM WorkerNeverRaisesHolds == Spec => []WorkerNeverRaises
<1>. QED  BY SafetyInvHolds, RequestsCanBeBuilt, PTL

LEMMA AcknowledgementsKept == SafetyInv => MatchIndexTruthful
<1>. SUFFICES ASSUME SafetyInv, NEW i \in up, Leads(i), NotSucceeded(i),
                     NEW f \in Node \ {i}, NEW n \in 1..replication[i].match_index[f],
                     TermAt(log[i], n) = state[i].current_term
              PROVE  /\ n <= LastIndex(disk[f].log)
                     /\ \A m \in 1..n :
                           Retains(log[i], m)
                           => Holds(disk[f].log, m, EntryAt(log[i], m))
    BY DEF MatchIndexTruthful
<1>1. PICK L, F, K : RoleInv /\ Remembers(L, F, K)
    BY DEF SafetyInv, Remembered
<1>2. /\ i \in Node /\ TypeInv
      /\ state[i].role = Leader /\ replication[i] # NoReplication
    BY <1>1 DEF RoleInv, ElectionInv, TypeInv, TypeOK, Leads
<1>3. PICK match \in Nat : match = replication[i].match_index[f]
  <2>1. replication[i] \in ReplicationType(i)
      BY <1>1, <1>2, NodeTypes DEF ReplicationOrNone
  <2>. QED  BY <2>1 DEF ReplicationType
<1>4. PICK t \in Nat : t = state[i].current_term
    BY <1>1, <1>2, NodeUnfolds
<1>5. n \in Nat /\ 0 < n /\ n <= match
    BY <1>3
<1>6. F[i] = L[t]
    BY <1>1, <1>2, <1>4 DEF Remembers, NodeOK, NodeLog
<1>7. F[i][n].term = t /\ n <= LastIndex(log[i])
  <2>1. TermAt(log[i], n) # NoTerm
      BY <1>4 DEF NoTerm
  <2>. QED  BY <1>1, <1>2, <1>4, <1>5, <2>1, NodeUnfolds, UnfoldsTermAt
<1>8. n <= K[f][t]
    BY <1>1, <1>2, <1>3, <1>4, <1>5, <1>7 DEF Remembers, NodeOK, Progress
<1>9. Agree(F[f], F[i], K[f][t]) /\ K[f][t] \in Nat
    BY <1>1, <1>4, <1>6, ShadowFacts DEF Remembers, Bound, AcksHere, NotSucceeded
<1>10. disk[f].log = log[f]
    BY <1>2, DiskFields
<1>11. ASSUME NEW m \in 1..n
       PROVE  /\ m \in Nat /\ 0 < m /\ F[f][m] = F[i][m] /\ m <= LastIndex(log[f])
  <2>1. m \in Nat /\ 0 < m /\ m \in 0..K[f][t] /\ m <= LastIndex(log[i])
    <3>1. LastIndex(log[i]) \in Nat
        BY <1>1, <1>2, NodeUnfolds
    <3>. QED  BY <1>5, <1>7, <1>8, <1>9, <3>1
  <2>2. F[f][m] = F[i][m]
      BY <1>9, <2>1 DEF Agree
  <2>3. F[i][m].term > 0
      BY <1>1, <1>2, <2>1, NodeUnfolds DEF Unfolds
  <2>4. m <= LastIndex(log[f])
      BY <1>1, <2>1, <2>2, <2>3, NodeUnfolds, UnfoldsHolds
  <2>. QED  BY <2>1, <2>2, <2>4
<1>12. ASSUME NEW m \in 1..n, Retains(log[i], m)
       PROVE  Holds(log[f], m, EntryAt(log[i], m))
  <2>1. F[i][m] = EntryAt(log[i], m)
      BY <1>1, <1>2, <1>11, <1>12, NodeUnfolds DEF Unfolds
  <2>. QED  BY <1>1, <1>11, <2>1, NodeUnfolds, UnfoldedHolds
<1>13. n \in 1..n
    BY <1>5
<1>. QED  BY <1>10, <1>11, <1>12, <1>13

(* While no later leader was elected, match_index is not ahead of what the *)
(* follower has on disk, for every entry of the leader's own term, which   *)
(* are the ones that may count towards a commit                            *)
(* (record_append_entries_success, quorum_match_index).                    *)
THEOREM MatchIndexTruthfulHolds == Spec => []MatchIndexTruthful
<1>. QED  BY SafetyInvHolds, AcknowledgementsKept, PTL

LEMMA AnswersTrue == SafetyInv => AnswersInTermAreTrue
<1>. SUFFICES ASSUME SafetyInv, NEW i \in Node, NEW p, p = pending[i],
                     NEW k \in 1..Len(p.entries), NEW e, e = p.entries[k],
                     NEW index, index = p.first + k - 1, Acknowledged(i, k),
                     state[i].current_term = e.term
              PROVE  index <= Len(committed) /\ committed[index].entry = e
    BY DEF AnswersInTermAreTrue
<1>1. PICK L, F, K : RoleInv /\ Remembers(L, F, K)
    BY DEF SafetyInv, Remembered
<1>2. PICK c : c = state[i].commit_index
    OBVIOUS
<1>3. /\ c \in Nat /\ c <= Len(committed)
      /\ \A n \in 1..c : F[i][n] = committed[n].entry
    BY <1>1, <1>2, CommittedHeld
<1>4. index \in Nat /\ Len(committed) \in Nat
  <2>1. p \in PendingType
      BY <1>1, NodeTypes
  <2>2. p.first \in Nat /\ Len(p.entries) \in Nat
      BY <2>1, LenProperties DEF PendingType
  <2>. QED  BY <1>1, <2>2, CommittedFacts
<1>5. index <= c /\ state[i].role = Leader
    BY <1>2 DEF Acknowledged, Leads
<1>6. e.term > 0 /\ L[e.term][index] = e
    BY <1>1 DEF Remembers, NodeOK, PendingKept
<1>7. F[i] = L[e.term]
    BY <1>1, <1>5 DEF Remembers, NodeOK, NodeLog
<1>8. index # 0
    BY <1>1, <1>6, <1>7, NodeUnfolds DEF Unfolds, Blank
<1>9. index \in 1..c
    BY <1>3, <1>4, <1>5, <1>8
<1>. QED  BY <1>3, <1>4, <1>5, <1>6, <1>7, <1>9

(* A write that would now be acknowledged, in the term it was submitted    *)
(* in, is committed: submit_commands compares indexes only, and what the   *)
(* leader has at that index is the client's entry.                         *)
THEOREM AnswersInTermAreTrueHolds == Spec => []AnswersInTermAreTrue
<1>. QED  BY SafetyInvHolds, AnswersTrue, PTL

-----------------------------------------------------------------------------
(* What a node knows to be committed.                                      *)

CommitsKept == \A i \in Node : state'[i].commit_index >= state[i].commit_index

LEMMA OneCommit ==
    ASSUME RoleInv, NEW i, OnlyTouches(i),
           i \in Node => state'[i].commit_index >= state[i].commit_index
    PROVE  CommitsKept
<1>1. \A j \in Node \ {i} : state'[j] = state[j]
    BY DEF OnlyTouches
<1>2. \A j \in Node : state[j].commit_index \in Nat
    BY NodeTypes
<1>. QED  BY <1>1, <1>2 DEF CommitsKept

LEMMA SameCommit ==
    ASSUME RoleInv, NEW i \in Node, OnlyTouches(i),
           state'[i].commit_index = state[i].commit_index
    PROVE  CommitsKept
<1>1. state[i].commit_index \in Nat
    BY NodeTypes
<1>. QED  BY <1>1, OneCommit

LEMMA SettledCommits ==
    ASSUME RoleInv, NEW i, Settles(i)
    PROVE  CommitsKept
<1>. QED  BY SameCommit DEF Settles

LEMMA RaisedCommit ==
    ASSUME RoleInv, NEW i \in Node, OnlyTouches(i), NEW n \in Nat,
           state'[i].commit_index = Max({state[i].commit_index, n})
    PROVE  CommitsKept
<1>1. state[i].commit_index \in Nat
    BY NodeTypes
<1>2. state'[i].commit_index >= state[i].commit_index
    BY <1>1, MaxOfTwo
<1>. QED  BY <1>2, OneCommit

LEMMA AppendKeepsCommits ==
    ASSUME RoleInv, Remembered, NEW c \in rpcs, HandleAppendEntries(c),
           ~(c.req.term < state[c.dst].current_term)
    PROVE  CommitsKept
<1>0. TypeInv /\ c.req.kind = "AppendEntries"
    BY DEF RoleInv, ElectionInv, HandleAppendEntries, Deliverable
<1>1. PICK i \in Node : i = c.dst
    BY <1>0, CallOnNetwork
<1>2. PICK u, k, after, m : /\ u = c.req.term /\ k = ReplicatedBy(c)
                            /\ after = Adopted(c) /\ m = AdoptedCommit(c)
    OBVIOUS
<1>3. /\ OnlyTouches(i) /\ state'[i].current_term = u /\ log'[i] = after
      /\ state'[i].commit_index = m
    BY <1>0, <1>1, <1>2, HandleAppendEntriesEffect
<1>4. CASE Accepts(log[i], c.req)
  <2>1. PICK L, F, K : Remembers(L, F, K)
      BY DEF Remembered
  <2>2. PICK prev, entries : prev = c.req.prev_log_index /\ entries = c.req.entries
      OBVIOUS
  <2>3. ~(c.req.term < state[i].current_term)
      BY <1>1
  <2>4. u \in Nat /\ k \in Nat
      BY ONLY RoleInv, c \in rpcs, i \in Node, <1>0, <1>1, <1>2, <1>4, <2>1, <2>2, <2>3,
              AcceptedFacts
  <2>5. \E g \in Full :
           /\ Unfolds(after, g) /\ Agree(g, L[u], k)
           /\ \/ after = log[i] /\ g = F[i]
              \/ /\ g = Cut(L[u], k) /\ Replaces(F[i], L[u], k)
                 /\ LastIndex(after) = k
      BY ONLY RoleInv, c \in rpcs, i \in Node, <1>0, <1>1, <1>2, <1>4, <2>1, <2>3,
              AdoptedFacts
  <2>6. PICK g \in Full : /\ Unfolds(after, g) /\ Agree(g, L[u], k)
                          /\ TakesOver(L, F, i, u, k, after, g)
      BY <2>5 DEF TakesOver
  <2>7. m >= state[i].commit_index
      BY ONLY RoleInv, c \in rpcs, i \in Node, <1>0, <1>1, <1>2, <1>3, <1>4, <2>1, <2>3,
              <2>6, FollowerCommitChosen
  <2>. QED  BY <1>3, <2>7, OneCommit
<1>5. CASE ~Accepts(log[i], c.req)
  <2>1. m = state[i].commit_index
      BY <1>1, <1>2, <1>5 DEF AdoptedCommit
  <2>. QED  BY <1>3, <2>1, SameCommit
<1>. QED  BY <1>4, <1>5

LEMMA ElectionKeepsCommits ==
    ASSUME RoleInv, ElectionStep
    PROVE  CommitsKept
<1>0. TypeInv
    BY DEF RoleInv, ElectionInv
<1>1. ASSUME NEW i \in Node, StartElection(i)  PROVE CommitsKept
  <2>1. OnlyTouches(i) /\ state'[i].commit_index = state[i].commit_index
      BY <1>0, <1>1, StartElectionEffect DEF Stands
  <2>. QED  BY <2>1, SameCommit
<1>2. ASSUME NEW c \in rpcs, RecordVote(c)  PROVE CommitsKept
  <2>1. PICK i \in Node : i = c.src
      BY <1>0, CallOnNetwork
  <2>2. OnlyTouches(i) /\ state'[i].commit_index = state[i].commit_index
      BY <1>0, <1>2, <2>1, RecordVoteEffect DEF Stands
  <2>. QED  BY <2>2, SameCommit
<1>. QED  BY <1>0, <1>1, <1>2, SettledCommits, HandleRequestVoteSettles, AbandonsSettle,
             VoteFromNewerTermSettles DEF ElectionStep

LEMMA ReplicationKeepsCommits ==
    ASSUME RoleInv, RoleInv', Remembered, ReplicationStep
    PROVE  CommitsKept
<1>0. TypeInv
    BY DEF RoleInv, ElectionInv
<1>1. ASSUME NEW i \in Node, AdvanceCommit(i)  PROVE CommitsKept
  <2>1. PICK m : m = CommitCandidate(i)
      OBVIOUS
  <2>2. OnlyTouches(i) /\ state'[i].commit_index = m /\ m > state[i].commit_index
      BY <1>0, <1>1, <2>1, AdvanceCommitEffect
  <2>3. state[i].commit_index \in Nat
      BY NodeTypes
  <2>4. m \in Nat
    <3>1. state'[i] \in StateType
        BY DEF RoleInv, ElectionInv, TypeInv, TypeOK
    <3>. QED  BY <2>2, <3>1 DEF StateType
  <2>. QED  BY <2>2, <2>3, <2>4, OneCommit
<1>2. ASSUME NEW c \in rpcs, HandleAppendEntries(c)  PROVE CommitsKept
    BY <1>0, <1>2, AppendKeepsCommits, StaleAppendSettles, SettledCommits
<1>3. ASSUME NEW c \in rpcs, AnswerToLeader(c)  PROVE CommitsKept
  <2>1. PICK i \in Node : i = c.src
      BY <1>0, CallOnNetwork
  <2>2. OnlyTouches(i) /\ state'[i] = state[i]
      BY <1>0, <1>3, <2>1, AnswerToLeaderEffect DEF NodeBecomes
  <2>. QED  BY <2>2, SameCommit
<1>. QED  BY <1>0, <1>1, <1>2, <1>3, SettledCommits, SendToFollowerSettles, DropsSettle,
             AnswerFromNewerTermSettles DEF ReplicationStep

LEMMA OthersKeepCommits ==
    ASSUME RoleInv, ClientStep \/ SnapshotStep \/ TransferStep \/ LossStep
    PROVE  CommitsKept
<1>0. TypeInv
    BY DEF RoleInv, ElectionInv
<1>1. ASSUME NEW i \in Node, NEW b \in Batch, Submit(i, b)  PROVE CommitsKept
  <2>1. OnlyTouches(i) /\ state'[i] = state[i]
      BY <1>0, <1>1, SubmitEffect DEF NodeBecomes
  <2>. QED  BY <2>1, SameCommit
<1>2. ASSUME NEW i \in Node, CreateSnapshot(i)  PROVE CommitsKept
  <2>1. OnlyTouches(i) /\ state'[i] = state[i]
      BY <1>0, <1>2, CreateSnapshotEffect DEF NodeBecomes
  <2>. QED  BY <2>1, SameCommit
<1>3. ASSUME NEW c \in rpcs, HandleInstallSnapshot(c)  PROVE CommitsKept
  <2>1. PICK i \in Node : i = c.dst
      BY <1>0, CallOnNetwork
  <2>2. PICK n : n = c.req.index
      OBVIOUS
  <2>3. /\ OnlyTouches(i) /\ c.req.kind = "InstallSnapshot"
        /\ state'[i].commit_index = CommitAfterInstall(i, c.req)
      BY <1>0, <1>3, <2>1, HandleInstallSnapshotEffect
  <2>4. state'[i].commit_index = Max({state[i].commit_index, n})
      BY <2>2, <2>3 DEF CommitAfterInstall
  <2>5. n \in Nat
      BY <1>0, <2>2, <2>3, CallOnNetwork, InstallRequestFields
  <2>. QED  BY <2>3, <2>4, <2>5, RaisedCommit
<1>4. CASE ClientStep
    BY <1>0, <1>1, <1>4, SettledCommits, LocalSettles DEF ClientStep
<1>5. CASE SnapshotStep
    BY <1>0, <1>2, <1>3, <1>5, SettledCommits, RejectSnapshotSettles DEF SnapshotStep
<1>6. CASE TransferStep
    BY <1>0, <1>6, SettledCommits, LocalSettles, SendTimeoutNowSettles,
       HandleTimeoutNowSettles, TransferAnsweredSettles DEF TransferStep
<1>7. CASE LossStep
    BY <1>0, <1>7, SettledCommits, AbandonsSettle, DropsSettle DEF LossStep
<1>. QED  BY <1>4, <1>5, <1>6, <1>7

LEMMA CrashKeepsCommits ==
    ASSUME RoleInv, CrashStep
    PROVE  CommitsKept
<1>0. TypeInv
    BY DEF RoleInv, ElectionInv
<1>1. ASSUME NEW i \in Node, NEW lg, NEW snap, Falls(i, lg, snap)  PROVE CommitsKept
    BY <1>1, SameCommit DEF Falls
<1>2. ASSUME NEW c \in rpcs, CrashInAppendEntries(c) \/ CrashInInstallSnapshot(c)
      PROVE  CommitsKept
  <2>1. c.dst \in Node
      BY <1>0, CallOnNetwork
  <2>. QED  BY <1>0, <1>1, <1>2, <2>1, CrashInAppendEntriesFalls, CrashInInstallSnapshotFalls
<1>3. ASSUME NEW i \in Node, Restart(i)  PROVE CommitsKept
  <2>1. PICK d, n : d = disk[i] /\ n = snapshot[i].index
      OBVIOUS
  <2>2. OnlyTouches(i) /\ state'[i].commit_index = RecoveredCommit(d)
      BY <1>0, <1>3, <2>1, RestartEffect
  <2>3. d.snapshot.index = n /\ d.commit_index = state[i].commit_index
      BY <1>0, <2>1, DiskFields
  <2>4. state'[i].commit_index = Max({state[i].commit_index, n})
      BY <2>2, <2>3 DEF RecoveredCommit
  <2>5. n \in Nat
      BY <2>1, NodeTypes
  <2>. QED  BY <2>2, <2>4, <2>5, RaisedCommit
<1>. QED  BY <1>0, <1>1, <1>2, <1>3, CrashFalls, CrashInCreateSnapshotFalls,
             CrashInSubmitFalls DEF CrashStep

LEMMA StepKeepsCommits == SafetyInv /\ [Next]_vars => CommitsKept
<1>. SUFFICES ASSUME SafetyInv, [Next]_vars  PROVE CommitsKept
    OBVIOUS
<1>0. RoleInv /\ Remembered /\ RoleInv'
    BY RoleStep DEF SafetyInv
<1>1. CASE UNCHANGED vars
  <2>1. state' = state /\ \A i \in Node : state[i].commit_index \in Nat
      BY <1>0, <1>1, NodeTypes DEF vars, memory
  <2>. QED  BY <2>1 DEF CommitsKept
<1>. QED  BY <1>0, <1>1, ElectionKeepsCommits, ReplicationKeepsCommits, OthersKeepCommits,
             CrashKeepsCommits DEF Next

(* No node forgets that an entry is committed: handle_append_entries never *)
(* truncates below the commit index, handle_install_snapshot and           *)
(* RaftNode.__init__ take the larger of the snapshot's and their own, and  *)
(* a crash at any point of a handler leaves the one on disk.               *)
THEOREM CommitsNeverDecrease == Spec => CommitNeverDecreases
<1>1. SafetyInv /\ [Next]_vars
      => [\A i \in Node : state'[i].commit_index >= state[i].commit_index]_vars
    BY StepKeepsCommits DEF CommitsKept
<1>. QED  BY <1>1, SafetyInvHolds, PTL DEF Spec, CommitNeverDecreases

-----------------------------------------------------------------------------
(* Applying entries.                                                       *)

(* After the entries es on kv, the value under k is v.                     *)
Leaves(kv, es, k, v) ==
    \/ \E n \in 1..Len(es) : /\ Writes(es, n, k) /\ v = Outcome(es[n].command)
                             /\ \A m \in (n + 1)..Len(es) : ~Writes(es, m, k)
    \/ v = kv[k] /\ \A n \in 1..Len(es) : ~Writes(es, n, k)

LEMMA ApplyLeaves ==
    ASSUME NEW kv, NEW S, NEW es \in Seq(S)
    PROVE  /\ ApplyEntries(kv, es) = [k \in Key |-> ApplyEntries(kv, es)[k]]
           /\ \A k \in Key : Leaves(kv, es, k, ApplyEntries(kv, es)[k])
<1>. DEFINE Last(k, n) == /\ Writes(es, n, k)
                          /\ \A m \in (n + 1)..Len(es) : ~Writes(es, m, k)
            last(k) == CHOOSE n \in 1..Len(es) : Last(k, n)
            new(k) == IF \E n \in 1..Len(es) : Writes(es, n, k)
                      THEN Outcome(es[last(k)].command) ELSE kv[k]
<1>0. Len(es) \in Nat
    BY LenProperties
<1>1. ASSUME NEW k \in Key, \E n \in 1..Len(es) : Writes(es, n, k)
      PROVE  last(k) \in 1..Len(es) /\ Last(k, last(k))
  <2>. DEFINE W == {n \in 1..Len(es) : Writes(es, n, k)}
  <2>1. W \in SUBSET (0..Len(es)) /\ W # {}
      BY <1>0, <1>1
  <2>2. PICK n \in W : \A m \in W : n >= m
    <3>. HIDE DEF W
    <3>. QED  BY <1>0, <2>1, GreatestNat
  <2>3. n \in 1..Len(es) /\ Last(k, n)
      BY <1>0, <2>2
  <2>. QED  BY <2>3
<1>2. ApplyEntries(kv, es) = [k \in Key |-> new(k)]
    BY DEF ApplyEntries
<1>3. \A k \in Key : Leaves(kv, es, k, new(k))
  <2>. SUFFICES ASSUME NEW k \in Key  PROVE Leaves(kv, es, k, new(k))
      OBVIOUS
  <2>1. CASE \E n \in 1..Len(es) : Writes(es, n, k)
    <3>1. new(k) = Outcome(es[last(k)].command)
        BY <2>1
    <3>2. last(k) \in 1..Len(es) /\ Last(k, last(k))
        BY <1>1, <2>1
    <3>. HIDE DEF last, new
    <3>. QED  BY <3>1, <3>2 DEF Leaves
  <2>2. CASE ~\E n \in 1..Len(es) : Writes(es, n, k)
      BY <2>2 DEF Leaves
  <2>. QED  BY <2>1, <2>2
<1>. HIDE DEF new
<1>4. \A k \in Key : ApplyEntries(kv, es)[k] = new(k)
    BY <1>2
<1>. QED  BY <1>2, <1>3, <1>4

LEMMA LeavesOne ==
    ASSUME NEW kv, NEW es, Len(es) \in Nat, NEW k, NEW v, NEW w,
           Leaves(kv, es, k, v), Leaves(kv, es, k, w)
    PROVE  v = w
<1>1. CASE \A n \in 1..Len(es) : ~Writes(es, n, k)
    BY <1>1 DEF Leaves
<1>2. CASE \E n \in 1..Len(es) : Writes(es, n, k)
  <2>1. PICK n \in 1..Len(es) :
           /\ Writes(es, n, k) /\ v = Outcome(es[n].command)
           /\ \A m \in (n + 1)..Len(es) : ~Writes(es, m, k)
      BY <1>2 DEF Leaves
  <2>2. PICK l \in 1..Len(es) :
           /\ Writes(es, l, k) /\ w = Outcome(es[l].command)
           /\ \A m \in (l + 1)..Len(es) : ~Writes(es, m, k)
      BY <1>2 DEF Leaves
  <2>3. n = l
    <3>1. ~(l \in (n + 1)..Len(es)) /\ ~(n \in (l + 1)..Len(es))
        BY <2>1, <2>2
    <3>. QED  BY <3>1
  <2>. QED  BY <2>1, <2>2, <2>3
<1>. QED  BY <1>1, <1>2

(* all is es followed by rest.                                             *)
Follows(es, rest, all) ==
    /\ Len(all) = Len(es) + Len(rest)
    /\ \A n \in 1..Len(es) : all[n] = es[n]
    /\ \A n \in 1..Len(rest) : all[Len(es) + n] = rest[n]

LEMMA LeavesLonger ==
    ASSUME NEW kv, NEW kv2, NEW es, NEW rest, NEW all, Follows(es, rest, all),
           Len(es) \in Nat, Len(rest) \in Nat, NEW k, NEW w,
           Leaves(kv, es, k, kv2[k]), Leaves(kv2, rest, k, w)
    PROVE  Leaves(kv, all, k, w)
<1>. DEFINE a == Len(es)
            b == Len(rest)
<1>0. /\ a \in Nat /\ b \in Nat /\ Len(all) = a + b
      /\ \A n \in 1..a : Writes(all, n, k) <=> Writes(es, n, k)
      /\ \A n \in 1..b : Writes(all, a + n, k) <=> Writes(rest, n, k)
    BY DEF Follows, Writes
<1>1. ASSUME NEW n \in 1..(a + b)
      PROVE  n \in 1..a \/ (n - a \in 1..b /\ a + (n - a) = n)
    BY <1>0
<1>2. CASE \E n \in 1..b : /\ Writes(rest, n, k) /\ w = Outcome(rest[n].command)
                           /\ \A m \in (n + 1)..b : ~Writes(rest, m, k)
  <2>1. PICK n \in 1..b : /\ Writes(rest, n, k) /\ w = Outcome(rest[n].command)
                          /\ \A m \in (n + 1)..b : ~Writes(rest, m, k)
      BY <1>2
  <2>2. PICK l : l = a + n
      OBVIOUS
  <2>3. l \in 1..(a + b) /\ Writes(all, l, k) /\ w = Outcome(all[l].command)
      BY <1>0, <2>1, <2>2 DEF Follows
  <2>4. ASSUME NEW m \in (l + 1)..(a + b)  PROVE ~Writes(all, m, k)
    <3>1. m - a \in (n + 1)..b /\ m - a \in 1..b /\ a + (m - a) = m
        BY <1>0, <2>2
    <3>. QED  BY <1>0, <2>1, <3>1
  <2>. QED  BY <1>0, <2>3, <2>4 DEF Leaves
<1>3. CASE w = kv2[k] /\ \A n \in 1..b : ~Writes(rest, n, k)
  <2>1. ASSUME NEW n \in 1..(a + b), Writes(all, n, k)
        PROVE  n \in 1..a /\ Writes(es, n, k)
      BY <1>0, <1>1, <1>3, <2>1
  <2>2. CASE \E n \in 1..a : /\ Writes(es, n, k) /\ w = Outcome(es[n].command)
                             /\ \A m \in (n + 1)..a : ~Writes(es, m, k)
    <3>1. PICK n \in 1..a : /\ Writes(es, n, k) /\ w = Outcome(es[n].command)
                            /\ \A m \in (n + 1)..a : ~Writes(es, m, k)
        BY <2>2
    <3>2. n \in 1..(a + b) /\ Writes(all, n, k) /\ w = Outcome(all[n].command)
        BY <1>0, <3>1 DEF Follows
    <3>3. ASSUME NEW m \in (n + 1)..(a + b), Writes(all, m, k)  PROVE FALSE
      <4>1. m \in 1..(a + b)
          BY <1>0
      <4>2. m \in 1..a /\ Writes(es, m, k)
          BY <2>1, <3>3, <4>1
      <4>3. m \in (n + 1)..a
          BY <4>2
      <4>. QED  BY <3>1, <4>2, <4>3
    <3>. QED  BY <1>0, <3>2, <3>3 DEF Leaves
  <2>3. CASE w = kv[k] /\ \A n \in 1..a : ~Writes(es, n, k)
      BY <1>0, <2>1, <2>3 DEF Leaves
  <2>. QED  BY <1>3, <2>2, <2>3 DEF Leaves
<1>. QED  BY <1>2, <1>3 DEF Leaves

(* Entries applied in two parts leave what they leave applied at once.     *)
LEMMA ApplyInTurn ==
    ASSUME NEW kv, NEW S, NEW es \in Seq(S), NEW rest \in Seq(S), NEW all \in Seq(S),
           Follows(es, rest, all)
    PROVE  ApplyEntries(ApplyEntries(kv, es), rest) = ApplyEntries(kv, all)
<1>1. PICK kv2, one, other : /\ kv2 = ApplyEntries(kv, es)
                             /\ one = ApplyEntries(kv2, rest)
                             /\ other = ApplyEntries(kv, all)
    OBVIOUS
<1>2. Len(es) \in Nat /\ Len(rest) \in Nat /\ Len(all) \in Nat
    BY LenProperties
<1>3. /\ one = [k \in Key |-> one[k]] /\ other = [k \in Key |-> other[k]]
      /\ \A k \in Key : /\ Leaves(kv, es, k, kv2[k]) /\ Leaves(kv2, rest, k, one[k])
                        /\ Leaves(kv, all, k, other[k])
    BY <1>1, ApplyLeaves
<1>4. ASSUME NEW k \in Key  PROVE one[k] = other[k]
  <2>1. Leaves(kv, all, k, one[k])
      BY <1>2, <1>3, LeavesLonger
  <2>. QED  BY <1>2, <1>3, <2>1, LeavesOne
<1>. QED  BY <1>1, <1>3, <1>4

-----------------------------------------------------------------------------
(* The committed history applied.                                          *)

History0(h, n) == [m \in 1..n |-> h[m].entry]
ReplayOf(h, n) == ApplyEntries(EmptyStore, History0(h, n))
HistoryType == Seq([entry : EntryType, by : Nat])

LEMMA ReplayIs ==
    ASSUME NEW h, h = committed, NEW n
    PROVE  Replay(n) = ReplayOf(h, n)
<1>. QED  BY DEF Replay, ReplayOf, History0

LEMMA ReplayNone ==
    ASSUME NEW h
    PROVE  ReplayOf(h, 0) = EmptyStore
<1>1. PICK es : es = History0(h, 0)
    OBVIOUS
<1>2. es \in Seq({}) /\ Len(es) = 0
  <2>1. es = << >>
      BY <1>1 DEF History0
  <2>. QED  BY <2>1
<1>3. \A k \in Key : Leaves(EmptyStore, es, k, EmptyStore[k])
    BY <1>2 DEF Leaves
<1>4. PICK one : one = ApplyEntries(EmptyStore, es)
    OBVIOUS
<1>5. one = [k \in Key |-> one[k]] /\ \A k \in Key : Leaves(EmptyStore, es, k, one[k])
    BY <1>2, <1>4, ApplyLeaves
<1>6. \A k \in Key : one[k] = EmptyStore[k]
    BY <1>2, <1>3, <1>5, LeavesOne
<1>7. EmptyStore = [k \in Key |-> EmptyStore[k]]
    BY DEF EmptyStore
<1>. QED  BY <1>1, <1>4, <1>5, <1>6, <1>7 DEF ReplayOf

LEMMA HistoryEntries ==
    ASSUME NEW h \in HistoryType, NEW n \in Nat, n <= Len(h)
    PROVE  /\ History0(h, n) \in Seq(EntryType) /\ Len(History0(h, n)) = n
           /\ \A m \in 1..n : History0(h, n)[m] = h[m].entry
<1>1. ASSUME NEW m \in 1..n  PROVE h[m].entry \in EntryType
  <2>1. PICK len \in Nat : len = Len(h)
      BY LenProperties DEF HistoryType
  <2>2. m \in 1..len
      BY <2>1
  <2>3. h[m] \in [entry : EntryType, by : Nat]
      BY <2>1, <2>2, ElementOfSeq DEF HistoryType
  <2>. QED  BY <2>3
<1>2. [m \in 1..n |-> h[m].entry] \in Seq(EntryType)
    BY <1>1, IsASeq
<1>3. PICK es : es = History0(h, n)
    OBVIOUS
<1>4. es \in Seq(EntryType) /\ DOMAIN es = 1..n /\ \A m \in 1..n : es[m] = h[m].entry
    BY <1>2, <1>3 DEF History0
<1>5. Len(es) = n
    BY <1>4, LenProperties
<1>. QED  BY <1>3, <1>4, <1>5

(* More of the history applied.                                            *)
LEMMA ReplayMore ==
    ASSUME NEW h \in HistoryType, NEW a \in Nat, NEW c \in Nat, a <= c, c <= Len(h),
           NEW rest \in Seq(EntryType), Len(rest) = c - a,
           \A n \in 1..(c - a) : rest[n] = h[a + n].entry
    PROVE  ApplyEntries(ReplayOf(h, a), rest) = ReplayOf(h, c)
<1>1. PICK es, all : es = History0(h, a) /\ all = History0(h, c)
    OBVIOUS
<1>2. a <= Len(h)
    BY LenProperties DEF HistoryType
<1>3. /\ es \in Seq(EntryType) /\ Len(es) = a
      /\ \A m \in 1..a : es[m] = h[m].entry
    BY <1>1, <1>2, HistoryEntries
<1>4. /\ all \in Seq(EntryType) /\ Len(all) = c
      /\ \A m \in 1..c : all[m] = h[m].entry
    BY <1>1, HistoryEntries
<1>5. Follows(es, rest, all)
  <2>1. \A n \in 1..(c - a) : a + n \in 1..c
      OBVIOUS
  <2>2. \A n \in 1..a : n \in 1..c
      OBVIOUS
  <2>3. c = a + (c - a)
      OBVIOUS
  <2>. QED  BY <1>3, <1>4, <2>1, <2>2, <2>3 DEF Follows
<1>6. ApplyEntries(ApplyEntries(EmptyStore, es), rest) = ApplyEntries(EmptyStore, all)
    BY <1>3, <1>4, <1>5, ApplyInTurn
<1>. QED  BY <1>1, <1>6 DEF ReplayOf

(* The history is only ever extended.                                      *)
LEMMA ReplayKept ==
    ASSUME NEW h, NEW h2, NEW n \in Nat,
           \A m \in 1..n : h2[m] = h[m]
    PROVE  ReplayOf(h2, n) = ReplayOf(h, n)
<1>1. History0(h2, n) = History0(h, n)
    BY DEF History0
<1>. QED  BY <1>1 DEF ReplayOf

(* apply_committed_entries on a log that holds the history.                *)
LEMMA AppliedExactly ==
    ASSUME NEW h \in HistoryType, NEW lg \in LogType, NEW a \in Nat, NEW c \in Nat,
           lg.base <= a, a <= c, c <= Len(h), c <= LastIndex(lg),
           \A n \in (a + 1)..c : EntryAt(lg, n) = h[n].entry,
           NEW kv, kv = ReplayOf(h, a)
    PROVE  ApplyCommitted(kv, lg, a, c) = ReplayOf(h, c)
<1>1. PICK base \in Nat, first \in Nat, last \in Int, size \in Nat :
         /\ base = lg.base /\ first = a + 1 - base /\ last = c - base
         /\ size = Len(lg.entries) /\ first > 0 /\ last <= size
         /\ lg.entries \in Seq(EntryType)
  <2>1. PICK base \in Nat, size \in Nat :
           base = lg.base /\ size = Len(lg.entries) /\ lg.entries \in Seq(EntryType)
      BY LenProperties DEF LogType
  <2>2. a + 1 - base \in Nat /\ a + 1 - base > 0 /\ c - base \in Int
      BY <2>1
  <2>3. c <= base + size
      BY <2>1 DEF LastIndex
  <2>4. c - base <= size
      BY <2>1, <2>3
  <2>. QED  BY <2>1, <2>2, <2>4
<1>2. PICK rest : rest = SubSeq(lg.entries, first, last)
    OBVIOUS
<1>3. /\ rest \in Seq(EntryType)
      /\ Len(rest) = IF first <= last THEN last - first + 1 ELSE 0
      /\ \A k \in 1..Len(rest) : rest[k] = lg.entries[first + k - 1]
  <2>1. last <= Len(lg.entries) /\ lg.entries \in Seq(EntryType) /\ first > 0
      BY <1>1
  <2>. QED  BY ONLY <2>1, first \in Nat, last \in Int, <1>2, SliceExactly
<1>4. Len(rest) = c - a
  <2>1. last - first + 1 = c - a
    <3>1. \A x, y, z \in Nat : (x - z) - (y + 1 - z) + 1 = x - y
        OBVIOUS
    <3>2. first = a + 1 - base /\ last = c - base
        BY <1>1
    <3>. QED  BY ONLY a \in Nat, c \in Nat, base \in Nat, <3>1, <3>2
  <2>2. ~(first <= last) => c - a = 0
    <3>1. \A x, y, z \in Nat : y <= x /\ ~(y + 1 - z <= x - z) => x - y = 0
        OBVIOUS
    <3>2. a \in Nat /\ c \in Nat /\ a <= c
        OBVIOUS
    <3>. QED  BY ONLY <1>1, <3>1, <3>2
  <2>. QED  BY <1>3, <2>1, <2>2
<1>5. ASSUME NEW n \in 1..(c - a)  PROVE rest[n] = h[a + n].entry
  <2>1. a + n \in (a + 1)..c /\ first + n - 1 = (a + n) - base
    <3>1. \A x, y, z, k \in Int : 0 < k /\ k <= y - x =>
              /\ x + k \in (x + 1)..y /\ (x + 1 - z) + k - 1 = (x + k) - z
        OBVIOUS
    <3>2. a \in Int /\ c \in Int /\ n \in Int /\ 0 < n /\ n <= c - a /\ base \in Int
        OBVIOUS
    <3>3. first = a + 1 - base
        BY <1>1
    <3>4. a + n \in (a + 1)..c /\ (a + 1 - base) + n - 1 = (a + n) - base
        BY ONLY <3>1, <3>2
    <3>. QED  BY ONLY <3>3, <3>4
  <2>2. rest[n] = lg.entries[(a + n) - base]
      BY <1>3, <1>4, <2>1
  <2>. QED  BY <1>1, <2>1, <2>2 DEF EntryAt
<1>6. ApplyEntries(kv, rest) = ReplayOf(h, c)
    BY <1>3, <1>4, <1>5, ReplayMore
<1>. QED  BY <1>1, <1>2, <1>6 DEF ApplyCommitted

-----------------------------------------------------------------------------
(* The stores, the snapshots and the snapshots on the network hold the     *)
(* committed history applied.                                              *)

Stored(h, i) == i \in up => store[i] = ReplayOf(h, state[i].last_applied)
SnapshotStored(h, i) == snapshot[i].state = ReplayOf(h, snapshot[i].index)
Carries(h, c) == c.req.kind = "InstallSnapshot" => c.req.kv = ReplayOf(h, c.req.index)

StoreInv ==
    /\ \A i \in Node : Stored(committed, i) /\ SnapshotStored(committed, i)
    /\ \A c \in rpcs : Carries(committed, c)

Established == SafetyInv /\ CommittedAgree /\ AppliedInOrder

LEMMA EstablishedHolds == SafetyInv => Established
<1>. QED  BY CommitsAgree, AppliesInOrder DEF Established

LEMMA EstablishedTypes ==
    ASSUME Established
    PROVE  RoleInv /\ TypeInv /\ Remembered
<1>. QED  BY DEF Established, SafetyInv, RoleInv, ElectionInv

(* What has been applied, and what a snapshot covers, was committed.       *)
LEMMA AppliedCommitted ==
    ASSUME Established, NEW h, h = committed, NEW i \in Node
    PROVE  /\ h \in HistoryType /\ Len(h) \in Nat
           /\ snapshot[i].index \in Nat /\ snapshot[i].index <= Len(h)
           /\ state[i].last_applied \in Nat /\ state[i].commit_index \in Nat
           /\ i \in up => /\ state[i].commit_index = state[i].last_applied
                          /\ state[i].last_applied <= Len(h)
                          /\ snapshot[i].index <= state[i].last_applied
<1>1. h \in HistoryType /\ Len(h) \in Nat
    BY EstablishedTypes, LenProperties DEF TypeInv, TypeOK, HistoryType
<1>2. /\ snapshot[i].index \in Nat
      /\ state[i].last_applied \in Nat /\ state[i].commit_index \in Nat
    BY EstablishedTypes, NodeTypes
<1>3. snapshot[i].index <= Len(h) /\ state[i].commit_index <= Len(h)
    BY EstablishedTypes DEF TypeInv, WithinHistory
<1>4. ASSUME i \in up
      PROVE  /\ state[i].commit_index = state[i].last_applied
             /\ snapshot[i].index <= state[i].last_applied
  <2>1. state[i].commit_index <= state[i].last_applied
      BY <1>4, EstablishedTypes DEF TypeInv, AppliedAboveBase
  <2>2. /\ state[i].last_applied <= state[i].commit_index
        /\ snapshot[i].index <= state[i].last_applied
      BY <1>4 DEF Established, AppliedInOrder
  <2>. QED  BY <1>2, <2>1, <2>2
<1>. QED  BY <1>1, <1>2, <1>3, <1>4

Extends(h, h2) == \A m \in 1..Len(h) : h2[m] = h[m]

LEMMA ReplayExtended ==
    ASSUME NEW h, Len(h) \in Nat, NEW h2, Extends(h, h2), NEW n \in Nat, n <= Len(h)
    PROVE  ReplayOf(h2, n) = ReplayOf(h, n)
<1>1. \A m \in 1..n : h2[m] = h[m]
    BY DEF Extends
<1>. QED  BY <1>1, ReplayKept

(* A step of i that sends added and answers e.                             *)
LEMMA StoreKept ==
    ASSUME Established, StoreInv, NEW h, h = committed, NEW h2, h2 = committed',
           Extends(h, h2), NEW i \in Node, OnlyTouches(i),
           \A j \in Node \ {i} : store'[j] = store[j],
           Stored(h2, i)', SnapshotStored(h2, i)',
           NEW added, NEW e, NEW ok, CallsBecome(added, e, ok),
           \A c \in added : Carries(h2, c)
    PROVE  StoreInv'
<1>1. ASSUME NEW j \in Node  PROVE (Stored(h2, j) /\ SnapshotStored(h2, j))'
  <2>1. CASE j = i
      BY <2>1
  <2>2. CASE j # i
    <3>1. /\ j \in up' <=> j \in up
          /\ state'[j] = state[j] /\ snapshot'[j] = snapshot[j] /\ store'[j] = store[j]
        BY <2>2 DEF OnlyTouches
    <3>2. SnapshotStored(h, j) /\ Stored(h, j)
        BY DEF StoreInv
    <3>3. ReplayOf(h2, snapshot[j].index) = ReplayOf(h, snapshot[j].index)
        BY AppliedCommitted, ReplayExtended
    <3>4. j \in up => ReplayOf(h2, state[j].last_applied) = ReplayOf(h, state[j].last_applied)
        BY AppliedCommitted, ReplayExtended
    <3>. QED  BY <3>1, <3>2, <3>3, <3>4 DEF Stored, SnapshotStored
  <2>. QED  BY <2>1, <2>2
<1>2. ASSUME NEW c \in rpcs'  PROVE Carries(h2, c)
  <2>1. CASE c \in added
      BY <2>1
  <2>2. CASE \E d \in rpcs : c.req = d.req
    <3>1. PICK d \in rpcs : c.req = d.req
        BY <2>2
    <3>2. Carries(h, d)
        BY DEF StoreInv
    <3>3. ASSUME d.req.kind = "InstallSnapshot"
          PROVE  ReplayOf(h2, d.req.index) = ReplayOf(h, d.req.index)
      <4>1. d.req.index \in Nat
          BY <3>3, EstablishedTypes, CallOnNetwork, InstallRequestFields
      <4>2. d.req.index <= Len(h)
          BY <3>3, EstablishedTypes DEF TypeInv, WithinHistory, RequestWithin
      <4>. QED  BY <4>1, <4>2, AppliedCommitted, ReplayExtended
    <3>. QED  BY <3>1, <3>2, <3>3 DEF Carries
  <2>. QED  BY <2>1, <2>2 DEF CallsBecome
<1>. QED  BY <1>1, <1>2 DEF StoreInv, Stored, SnapshotStored

LEMMA SameHistory ==
    ASSUME NEW h, h = committed, NEW h2, h2 = committed', h2 = h
    PROVE  Extends(h, h2)
<1>. QED  BY DEF Extends

(* A step that applies nothing and takes no snapshot.                      *)
LEMMA UntouchedStore ==
    ASSUME Established, StoreInv, NEW i \in Node, OnlyTouches(i), up' = up,
           store' = store, snapshot'[i] = snapshot[i], committed' = committed,
           state'[i].last_applied = state[i].last_applied,
           NEW added, NEW e, NEW ok, CallsBecome(added, e, ok),
           NEW h, h = committed, \A c \in added : Carries(h, c)
    PROVE  StoreInv'
<1>1. PICK h2 : h2 = committed'
    OBVIOUS
<1>2. h2 = h /\ Extends(h, h2)
    BY <1>1, SameHistory
<1>3. Stored(h2, i)' /\ SnapshotStored(h2, i)'
    BY <1>2 DEF StoreInv, Stored, SnapshotStored
<1>4. \A j \in Node \ {i} : store'[j] = store[j]
    OBVIOUS
<1>5. \A c \in added : Carries(h2, c)
    BY <1>2
<1>. QED
    BY ONLY Established, StoreInv, h = committed, i \in Node, OnlyTouches(i),
            CallsBecome(added, e, ok), <1>1, <1>2, <1>3, <1>4, <1>5, StoreKept

LEMMA SettledStore ==
    ASSUME Established, StoreInv, NEW i, Settles(i), store' = store,
           NEW e, NEW ok, CallsBecome({}, e, ok)
    PROVE  StoreInv'
<1>1. PICK h, added : h = committed /\ added = {}
    OBVIOUS
<1>2. CallsBecome(added, e, ok) /\ \A c \in added : Carries(h, c)
    BY <1>1
<1>3. /\ i \in Node /\ OnlyTouches(i) /\ up' = up /\ snapshot'[i] = snapshot[i]
      /\ committed' = committed /\ state'[i].last_applied = state[i].last_applied
    BY DEF Settles
<1>. QED  BY ONLY Established, StoreInv, store' = store, <1>1, <1>2, <1>3, UntouchedStore

LEMMA SendsStore ==
    ASSUME Established, StoreInv, NEW i \in Node, NEW f \in Node,
           SendToFollower(i, f) \/ SendTimeoutNow(i, f)
    PROVE  StoreInv'
<1>0. TypeInv /\ store' = store
    BY EstablishedTypes DEF SendToFollower, SendTimeoutNow, memory
<1>1. PICK h : h = committed
    OBVIOUS
<1>2. CASE SendToFollower(i, f)
  <2>1. PICK call, added : call = Sent(i, f) /\ added = {call}
      OBVIOUS
  <2>2. Settles(i) /\ CallsBecome(added, None, FALSE)
      BY <1>0, <1>2, <2>1, SendToFollowerSettles
  <2>3. Carries(h, call)
      BY <1>1, <2>1
         DEF Carries, Sent, Call, InstallSnapshot, AppendEntries, StoreInv, SnapshotStored
  <2>4. \A c \in added : Carries(h, c)
      BY <2>1, <2>3
  <2>. QED  BY <1>0, <1>1, <2>2, <2>4, UntouchedStore DEF Settles
<1>3. CASE SendTimeoutNow(i, f)
  <2>1. PICK call, added : call = TimeoutCall(i, f) /\ added = {call}
      OBVIOUS
  <2>2. Settles(i) /\ CallsBecome(added, None, FALSE)
      BY <1>0, <1>3, <2>1, SendTimeoutNowSettles
  <2>3. Carries(h, call)
      BY <2>1 DEF Carries, TimeoutCall, Call
  <2>4. \A c \in added : Carries(h, c)
      BY <2>1, <2>3
  <2>. QED  BY <1>0, <1>1, <2>2, <2>4, UntouchedStore DEF Settles
<1>. QED  BY <1>2, <1>3

LEMMA StandsStore ==
    ASSUME Established, StoreInv, NEW i \in Node, NEW t, NEW Q, Stands(i, t, Q), store' = store,
           NEW added, CallsBecome(added, None, FALSE),
           \A c \in added : c.req.kind # "InstallSnapshot"
    PROVE  StoreInv'
<1>1. PICK h : h = committed
    OBVIOUS
<1>2. \A c \in added : Carries(h, c)
    BY DEF Carries
<1>3. /\ OnlyTouches(i) /\ up' = up /\ snapshot'[i] = snapshot[i]
      /\ committed' = committed /\ state'[i].last_applied = state[i].last_applied
    BY DEF Stands
<1>. QED
    BY ONLY Established, StoreInv, i \in Node, store' = store, CallsBecome(added, None, FALSE),
            <1>1, <1>2, <1>3, UntouchedStore

LEMMA ElectionStore ==
    ASSUME Established, StoreInv, ElectionStep
    PROVE  StoreInv'
<1>0. TypeInv
    BY EstablishedTypes
<1>1. ASSUME NEW i \in Node, StartElection(i)  PROVE StoreInv'
  <2>1. store' = store
      BY <1>1 DEF StartElection
  <2>2. PICK t, added, Q : t = state[i].current_term + 1 /\ added = VoteCalls(i, t) /\ Q = {i}
      OBVIOUS
  <2>3. Stands(i, t, Q) /\ CallsBecome(added, None, FALSE)
      BY <1>0, <1>1, <2>2, StartElectionEffect
  <2>4. \A c \in added : c.req.kind # "InstallSnapshot"
      BY <2>2 DEF VoteCalls, Call
  <2>. QED  BY <2>1, <2>3, <2>4, StandsStore
<1>2. ASSUME NEW c \in rpcs, RecordVote(c)  PROVE StoreInv'
  <2>1. store' = store
      BY <1>2 DEF RecordVote
  <2>2. PICK i \in Node, t \in Nat : i = c.src /\ t = state[i].current_term
      BY <1>0, CallOnNetwork, EstablishedTypes DEF StateType, TypeInv, TypeOK
  <2>3. (\E Q \in SUBSET Node : Stands(i, t, Q)) /\ CallsBecome({}, None, FALSE)
      BY <1>0, <1>2, <2>2, RecordVoteEffect
  <2>4. PICK Q, added : Stands(i, t, Q) /\ added = {}
      BY <2>3
  <2>5. CallsBecome(added, None, FALSE)
      BY <2>3, <2>4
  <2>6. \A d \in added : d.req.kind # "InstallSnapshot"
      BY <2>4
  <2>. QED  BY <2>1, <2>4, <2>5, <2>6, StandsStore
<1>3. ASSUME NEW c \in rpcs, HandleRequestVote(c)  PROVE StoreInv'
  <2>1. store' = store
      BY <1>3 DEF HandleRequestVote
  <2>2. PICK ok : CallsBecome({}, c, ok)
      BY <1>0, <1>3, HandleRequestVoteSettles
  <2>3. Settles(c.dst)
      BY <1>0, <1>3, HandleRequestVoteSettles
  <2>. QED  BY <2>1, <2>2, <2>3, SettledStore
<1>4. ASSUME NEW c \in rpcs, VoteAfterElection(c)  PROVE StoreInv'
  <2>1. store' = store
      BY <1>4 DEF VoteAfterElection, memory
  <2>. QED  BY <1>0, <1>4, <2>1, AbandonsSettle, SettledStore
<1>5. ASSUME NEW c \in rpcs, VoteFromNewerTerm(c)  PROVE StoreInv'
  <2>1. store' = store
      BY <1>5 DEF VoteFromNewerTerm
  <2>. QED  BY <1>0, <1>5, <2>1, VoteFromNewerTermSettles, SettledStore
<1>. QED  BY <1>1, <1>2, <1>3, <1>4, <1>5 DEF ElectionStep

-----------------------------------------------------------------------------
(* Steps that apply entries or take a snapshot.                            *)

(* What i has applied, and what its snapshot covers, is in its log as it   *)
(* was committed.                                                          *)
Applied(i) ==
    /\ committed \in HistoryType /\ Len(committed) \in Nat
    /\ log[i] \in LogType /\ log[i].base \in Nat /\ LastIndex(log[i]) \in Nat
    /\ snapshot[i].index \in Nat /\ snapshot[i].index <= Len(committed)
    /\ state[i].commit_index \in Nat /\ state[i].commit_index <= Len(committed)
    /\ \A n \in 1..state[i].commit_index : Holds(log[i], n, committed[n].entry)
    /\ i \in up => /\ state[i].commit_index = state[i].last_applied
                   /\ state[i].commit_index <= LastIndex(log[i])
                   /\ snapshot[i].index = log[i].base
                   /\ log[i].base <= state[i].commit_index

LEMMA AppliedFacts == Established => \A i \in Node : Applied(i)
<1>. SUFFICES ASSUME Established, NEW i \in Node, NEW h, h = committed
              PROVE  Applied(i)
    OBVIOUS
<1>1. /\ h \in HistoryType /\ Len(h) \in Nat
      /\ snapshot[i].index \in Nat /\ snapshot[i].index <= Len(h)
      /\ state[i].last_applied \in Nat /\ state[i].commit_index \in Nat
      /\ i \in up => state[i].commit_index = state[i].last_applied
    BY AppliedCommitted
<1>2. /\ log[i] \in LogType /\ log[i].base \in Nat /\ LastIndex(log[i]) \in Nat
    BY EstablishedTypes, NodeTypes
<1>3. /\ state[i].commit_index <= Len(h)
      /\ \A n \in 1..state[i].commit_index : Holds(log[i], n, h[n].entry)
    BY DEF Established, CommittedAgree
<1>4. i \in up => /\ state[i].commit_index <= LastIndex(log[i])
                  /\ snapshot[i].index = log[i].base
                  /\ log[i].base <= state[i].commit_index
    BY <1>1 DEF Established, AppliedInOrder
<1>. QED  BY <1>1, <1>2, <1>3, <1>4 DEF Applied

LEMMA AppliedNext == Established' => \A i \in Node : Applied(i)'
<1>1. Established' => (\A i \in Node : Applied(i))'
    BY AppliedFacts, PTL
<1>. QED  BY <1>1

LEMMA StoreApplied ==
    ASSUME Established', NEW h2, h2 = committed', NEW i \in Node, i \in up',
           NEW lg, lg = log'[i], NEW a \in Nat, lg.base <= a,
           NEW kv, kv = ReplayOf(h2, a),
           NEW c, c = state'[i].commit_index, a <= c,
           store'[i] = ApplyCommitted(kv, lg, a, c)
    PROVE  Stored(h2, i)'
<1>1. Applied(i)'
    BY AppliedNext
<1>2. /\ h2 \in HistoryType /\ Len(h2) \in Nat /\ lg \in LogType /\ lg.base \in Nat
      /\ c \in Nat /\ c <= Len(h2) /\ c <= LastIndex(lg) /\ LastIndex(lg) \in Nat
      /\ state'[i].last_applied = c
      /\ \A n \in 1..c : Holds(lg, n, h2[n].entry)
    BY <1>1 DEF Applied
<1>3. ASSUME NEW n \in (a + 1)..c  PROVE EntryAt(lg, n) = h2[n].entry
  <2>1. n \in 1..c /\ lg.base < n
      BY <1>2
  <2>2. Holds(lg, n, h2[n].entry) /\ ~(n < lg.base) /\ n # lg.base
      BY <1>2, <2>1
  <2>. QED  BY <2>2 DEF Holds
<1>4. ApplyCommitted(kv, lg, a, c) = ReplayOf(h2, c)
  <2>1. h2 \in HistoryType /\ lg \in LogType /\ c \in Nat /\ c <= Len(h2) /\ c <= LastIndex(lg)
      BY <1>2
  <2>2. \A n \in (a + 1)..c : EntryAt(lg, n) = h2[n].entry
      BY <1>3
  <2>. QED
      BY ONLY a \in Nat, lg.base <= a, a <= c, kv = ReplayOf(h2, a), <2>1, <2>2,
              AppliedExactly
<1>. QED  BY <1>2, <1>4 DEF Stored

(* Steps after which every store and snapshot is as it was.                *)
LEMMA QuietStore ==
    ASSUME Established, StoreInv, NEW c \in rpcs,
           \/ AnswerAfterLeadership(c) \/ AnswerFromNewerTerm(c) \/ RejectSnapshot(c)
           \/ HandleTimeoutNow(c) \/ TransferAnswered(c) \/ CallFails(c)
           \/ LateRequestLost(c)
    PROVE  StoreInv'
<1>0. TypeInv
    BY EstablishedTypes
<1>1. store' = store
    BY DEF AnswerAfterLeadership, AnswerFromNewerTerm, RejectSnapshot, HandleTimeoutNow,
           TransferAnswered, CallFails, LateRequestLost, memory
<1>2. \E i, e, ok : Settles(i) /\ CallsBecome({}, e, ok)
    BY <1>0, AbandonsSettle, DropsSettle, AnswerFromNewerTermSettles,
       RejectSnapshotSettles, HandleTimeoutNowSettles, TransferAnsweredSettles
<1>. QED  BY <1>1, <1>2, SettledStore

LEMMA LocalStore ==
    ASSUME Established, StoreInv, NEW i \in Node,
           SubmitReturns(i) \/ BeginTransfer(i) \/ AbortTransfer(i)
    PROVE  StoreInv'
<1>1. store' = store
    BY DEF SubmitReturns, BeginTransfer, AbortTransfer
<1>2. Settles(i) /\ CallsBecome({}, None, FALSE)
    BY EstablishedTypes, LocalSettles
<1>. QED  BY <1>1, <1>2, SettledStore

LEMMA BecomesStore ==
    ASSUME Established, StoreInv, NEW i \in Node, NEW s, NEW lg, NEW snap, NEW r, NEW p,
           NodeBecomes(i, s, lg, snap, r, p), s = state[i], snap = snapshot[i],
           Same, store' = store, CallsBecome({}, None, FALSE)
    PROVE  StoreInv'
<1>1. PICK h, added : h = committed /\ added = {}
    OBVIOUS
<1>2. CallsBecome(added, None, FALSE) /\ \A c \in added : Carries(h, c)
    BY <1>1
<1>3. /\ OnlyTouches(i) /\ up' = up /\ snapshot'[i] = snapshot[i]
      /\ committed' = committed /\ state'[i].last_applied = state[i].last_applied
    BY DEF NodeBecomes, Same
<1>. QED
    BY ONLY Established, StoreInv, i \in Node, store' = store, <1>1, <1>2, <1>3, UntouchedStore

LEMMA SubmitStore ==
    ASSUME Established, StoreInv, NEW i \in Node, NEW b \in Batch, Submit(i, b)
    PROVE  StoreInv'
<1>1. store' = store
    BY DEF Submit
<1>. QED  BY <1>1, EstablishedTypes, SubmitEffect, BecomesStore

LEMMA AnswerStore ==
    ASSUME Established, StoreInv, NEW c \in rpcs, AnswerToLeader(c)
    PROVE  StoreInv'
<1>1. store' = store
    BY DEF AnswerToLeader
<1>2. c.src \in Node
    BY EstablishedTypes, CallOnNetwork
<1>. QED  BY <1>1, <1>2, EstablishedTypes, AnswerToLeaderEffect, BecomesStore

LEMMA StaleAppendStore ==
    ASSUME Established, StoreInv, NEW c \in rpcs, HandleAppendEntries(c),
           c.req.term < state[c.dst].current_term
    PROVE  StoreInv'
<1>1. store' = store
    BY DEF HandleAppendEntries
<1>. QED  BY <1>1, EstablishedTypes, StaleAppendSettles, SettledStore

(* A step of i that sends nothing.                                         *)
LEMMA StoreKeptQuietly ==
    ASSUME Established, StoreInv, NEW h, h = committed, NEW h2, h2 = committed',
           Extends(h, h2), NEW i \in Node, OnlyTouches(i),
           \A j \in Node \ {i} : store'[j] = store[j],
           Stored(h2, i)', SnapshotStored(h2, i)',
           NEW e, NEW ok, CallsBecome({}, e, ok)
    PROVE  StoreInv'
<1>1. PICK added : added = {}
    OBVIOUS
<1>2. CallsBecome(added, e, ok) /\ \A c \in added : Carries(h2, c)
    BY <1>1
<1>. QED
    BY ONLY Established, StoreInv, h = committed, h2 = committed', Extends(h, h2), i \in Node,
            OnlyTouches(i), \A j \in Node \ {i} : store'[j] = store[j],
            Stored(h2, i)', SnapshotStored(h2, i)', <1>2, StoreKept

LEMMA SnapshotKept ==
    ASSUME Established, StoreInv, NEW h, h = committed, NEW h2, h2 = committed',
           Extends(h, h2), NEW i \in Node, snapshot'[i] = snapshot[i]
    PROVE  SnapshotStored(h2, i)'
<1>1. ReplayOf(h2, snapshot[i].index) = ReplayOf(h, snapshot[i].index)
    BY AppliedCommitted, ReplayExtended
<1>2. snapshot[i].state = ReplayOf(h, snapshot[i].index)
    BY DEF StoreInv, SnapshotStored
<1>. QED  BY <1>1, <1>2 DEF SnapshotStored

LEMMA StoreUpdate ==
    ASSUME Established, NEW i \in Node, NEW kv, store' = [store EXCEPT ![i] = kv]
    PROVE  store'[i] = kv /\ \A j \in Node \ {i} : store'[j] = store[j]
<1>1. store \in [Node -> StoreType]
    BY EstablishedTypes DEF TypeInv, TypeOK
<1>. QED  BY <1>1

LEMMA AdvanceCommitStore ==
    ASSUME Established, Established', StoreInv, NEW i \in Node, AdvanceCommit(i)
    PROVE  StoreInv'
<1>0. TypeInv /\ RoleInv
    BY EstablishedTypes
<1>1. PICK h, h2, lg, a, c, t : /\ h = committed /\ h2 = committed' /\ lg = log[i]
                                /\ a = state[i].last_applied /\ c = CommitCandidate(i)
                                /\ t = state[i].current_term
    OBVIOUS
<1>2. /\ OnlyTouches(i) /\ up' = up /\ Leads(i)
      /\ state'[i].commit_index = c /\ c > state[i].commit_index
      /\ log'[i] = lg /\ snapshot'[i] = snapshot[i]
      /\ CallsBecome({}, None, FALSE)
    BY <1>0, <1>1, AdvanceCommitEffect
<1>3. /\ h2 = CommittedUpTo(h, lg, c, t)
      /\ store' = [store EXCEPT ![i] = ApplyCommitted(store[i], lg, a, c)]
    BY <1>0, <1>1, Current DEF AdvanceCommit, CommittedUpTo, StateType
<1>4. i \in up /\ i \in up'
    BY <1>2 DEF Leads
<1>5. /\ h \in HistoryType /\ Len(h) \in Nat /\ lg \in LogType /\ lg.base \in Nat
      /\ lg.base <= a /\ a \in Nat /\ a <= Len(h) /\ state[i].commit_index = a
    BY <1>1, <1>4, AppliedFacts DEF Applied
<1>6. c \in Nat /\ c <= LastIndex(lg)
    BY <1>2, <1>4, AppliedNext DEF Applied
<1>7. Extends(h, h2)
  <2>1. t \in Nat
      BY <1>0, <1>1, NodeTypes
  <2>2. lg.base <= Len(h)
      BY <1>5
  <2>3. Recorded(h, lg, c, t, h2)
      BY ONLY <1>3, <1>5, <1>6, <2>1, <2>2, CommittedExactly DEF HistoryType
  <2>. QED  BY <2>3 DEF Recorded, Extends
<1>8. store[i] = ReplayOf(h2, a)
  <2>1. store[i] = ReplayOf(h, a)
      BY <1>1, <1>4 DEF StoreInv, Stored
  <2>. QED  BY <1>5, <1>7, <2>1, ReplayExtended
<1>9. PICK kv : kv = store[i]
    OBVIOUS
<1>10. /\ store'[i] = ApplyCommitted(kv, lg, a, c)
       /\ \A j \in Node \ {i} : store'[j] = store[j]
    BY <1>3, <1>9, StoreUpdate
<1>11. Stored(h2, i)'
  <2>1. a <= c /\ lg = log'[i] /\ c = state'[i].commit_index /\ kv = ReplayOf(h2, a)
      BY <1>2, <1>5, <1>6, <1>8, <1>9
  <2>. QED
      BY ONLY Established', i \in Node, <1>1, <1>4, <1>5, <1>10, <2>1, StoreApplied
<1>12. SnapshotStored(h2, i)'
    BY <1>1, <1>2, <1>7, SnapshotKept
<1>. QED
    BY ONLY Established, StoreInv, i \in Node, <1>1, <1>2, <1>7, <1>10, <1>11, <1>12,
            StoreKeptQuietly

LEMMA AppendStore ==
    ASSUME Established, Established', StoreInv, CommitsKept, NEW c \in rpcs, HandleAppendEntries(c),
           ~(c.req.term < state[c.dst].current_term)
    PROVE  StoreInv'
<1>0. TypeInv /\ RoleInv
    BY EstablishedTypes
<1>1. PICK i \in Node : i = c.dst
    BY <1>0, CallOnNetwork
<1>2. PICK h, h2, lg, a, m, ok : /\ h = committed /\ h2 = committed' /\ lg = Adopted(c)
                                 /\ a = state[i].last_applied /\ m = AdoptedCommit(c)
                                 /\ ok = Accepts(log[i], c.req)
    OBVIOUS
<1>3. /\ OnlyTouches(i) /\ Same /\ i \in up
      /\ state'[i].commit_index = m /\ log'[i] = lg /\ snapshot'[i] = snapshot[i]
      /\ CallsBecome({}, c, ok)
    BY <1>0, <1>1, <1>2, HandleAppendEntriesEffect
<1>4. store' = [store EXCEPT ![i] = ApplyCommitted(store[i], lg, a, m)]
    BY <1>1, <1>2 DEF HandleAppendEntries, Adopted, AdoptedCommit
<1>5. i \in up' /\ h2 = h
    BY <1>2, <1>3 DEF Same
<1>6. Extends(h, h2)
    BY <1>2, <1>5, SameHistory
<1>7. a \in Nat /\ state[i].commit_index = a /\ snapshot[i].index <= a
    BY <1>2, <1>3, AppliedFacts DEF Applied
<1>8. m \in Nat /\ a <= m
  <2>1. state'[i].commit_index >= state[i].commit_index
      BY DEF CommitsKept
  <2>2. m \in Nat
      BY <1>3, AppliedNext DEF Applied
  <2>. QED  BY <1>3, <1>7, <2>1, <2>2
<1>9. lg.base <= a
  <2>1. snapshot'[i].index = log'[i].base
      BY <1>5, AppliedNext DEF Applied
  <2>. QED  BY <1>3, <1>7, <2>1
<1>10. PICK kv : kv = store[i]
    OBVIOUS
<1>11. /\ store'[i] = ApplyCommitted(kv, lg, a, m)
       /\ \A j \in Node \ {i} : store'[j] = store[j]
    BY <1>4, <1>10, StoreUpdate
<1>12. Stored(h2, i)'
  <2>1. lg = log'[i] /\ m = state'[i].commit_index
      BY <1>3
  <2>2. kv = ReplayOf(h2, a)
      BY <1>2, <1>3, <1>5, <1>10 DEF StoreInv, Stored
  <2>. QED
      BY ONLY Established', i \in Node, <1>2, <1>5, <1>7, <1>8, <1>9, <1>11, <2>1, <2>2,
              StoreApplied
<1>13. SnapshotStored(h2, i)'
    BY <1>2, <1>3, <1>6, SnapshotKept
<1>. QED
    BY ONLY Established, StoreInv, i \in Node, <1>2, <1>3, <1>6, <1>11, <1>12, <1>13,
            StoreKeptQuietly

LEMMA InstallStore ==
    ASSUME Established, Established', StoreInv, NEW c \in rpcs, HandleInstallSnapshot(c)
    PROVE  StoreInv'
<1>0. TypeInv /\ RoleInv
    BY EstablishedTypes
<1>1. PICK i \in Node : i = c.dst
    BY <1>0, CallOnNetwork
<1>2. PICK h, h2, lg, a, m, kv, snap :
         /\ h = committed /\ h2 = committed' /\ lg = Installed(i, c.req)
         /\ a = c.req.index /\ m = CommitAfterInstall(i, c.req)
         /\ kv = c.req.kv /\ snap = SnapshotOf(c.req)
    OBVIOUS
<1>3. /\ OnlyTouches(i) /\ Same /\ i \in up /\ c.req.kind = "InstallSnapshot"
      /\ state'[i].commit_index = m /\ log'[i] = lg /\ snapshot'[i] = snap
    BY <1>0, <1>1, <1>2, HandleInstallSnapshotEffect
<1>4. PICK ok : CallsBecome({}, c, ok)
    BY <1>0, <1>1, HandleInstallSnapshotEffect
<1>5. store' = [store EXCEPT ![i] = ApplyCommitted(kv, lg, a, m)]
    BY <1>1, <1>2 DEF HandleInstallSnapshot
<1>6. i \in up' /\ h2 = h
    BY <1>2, <1>3 DEF Same
<1>7. Extends(h, h2)
    BY <1>2, <1>6, SameHistory
<1>8. a \in Nat /\ snap.index = a /\ snap.state = kv
    BY <1>0, <1>2, <1>3, InstallRequestFields DEF SnapshotOf
<1>9. kv = ReplayOf(h2, a)
    BY <1>2, <1>3, <1>6 DEF StoreInv, Carries
<1>10. lg.base = a /\ a <= m
    BY <1>3, <1>6, <1>8, AppliedNext DEF Applied
<1>11. /\ store'[i] = ApplyCommitted(kv, lg, a, m)
       /\ \A j \in Node \ {i} : store'[j] = store[j]
    BY <1>5, StoreUpdate
<1>12. Stored(h2, i)'
  <2>1. lg = log'[i] /\ m = state'[i].commit_index /\ lg.base <= a
      BY <1>3, <1>8, <1>10
  <2>. QED
      BY ONLY Established', i \in Node, <1>2, <1>6, <1>8, <1>9, <1>10, <1>11, <2>1, StoreApplied
<1>13. SnapshotStored(h2, i)'
    BY <1>3, <1>8, <1>9 DEF SnapshotStored
<1>. QED
    BY ONLY Established, StoreInv, i \in Node, <1>2, <1>3, <1>4, <1>7, <1>11, <1>12, <1>13,
            StoreKeptQuietly

(* What create_snapshot writes.                                            *)
LEMMA SnapshotNowStored ==
    ASSUME Established, StoreInv, NEW h, h = committed, NEW i \in Node, i \in up,
           NEW snap, snap = SnapshotNow(i)
    PROVE  snap.state = ReplayOf(h, snap.index)
<1>1. PICK a \in Nat : /\ a = state[i].last_applied /\ state[i].commit_index = a
    BY AppliedFacts DEF Applied
<1>2. Min({a, a}) = a
    BY MinOfTwo
<1>3. snap.state = store[i] /\ snap.index = a
    BY <1>1, <1>2 DEF SnapshotNow
<1>4. store[i] = ReplayOf(h, a)
    BY <1>1 DEF StoreInv, Stored
<1>. QED  BY <1>3, <1>4

LEMMA CreateSnapshotStore ==
    ASSUME Established, StoreInv, NEW i \in Node, CreateSnapshot(i)
    PROVE  StoreInv'
<1>1. PICK h, h2, snap : /\ h = committed /\ h2 = committed' /\ snap = SnapshotNow(i)
    OBVIOUS
<1>2. /\ Compactable(i) /\ Same /\ CallsBecome({}, None, FALSE)
      /\ OnlyTouches(i) /\ state'[i] = state[i] /\ snapshot'[i] = snap
    BY <1>1, EstablishedTypes, CreateSnapshotEffect DEF NodeBecomes
<1>3. store' = store
    BY DEF CreateSnapshot
<1>4. i \in up /\ h2 = h /\ up' = up
    BY <1>1, <1>2 DEF Compactable, Same
<1>5. Extends(h, h2)
    BY <1>1, <1>4, SameHistory
<1>6. snap.state = ReplayOf(h2, snap.index)
    BY <1>1, <1>4, SnapshotNowStored
<1>7. Stored(h2, i)' /\ SnapshotStored(h2, i)'
    BY <1>1, <1>2, <1>3, <1>4, <1>6 DEF Stored, SnapshotStored, StoreInv
<1>8. \A j \in Node \ {i} : store'[j] = store[j]
    BY <1>3
<1>. QED
    BY ONLY Established, StoreInv, i \in Node, <1>1, <1>2, <1>5, <1>7, <1>8, StoreKeptQuietly

(* A crash leaves a snapshot that holds what was applied.                  *)
LEMMA FallenStore ==
    ASSUME Established, StoreInv, NEW h, h = committed, NEW i \in Node, NEW lg, NEW snap,
           Falls(i, lg, snap), store' = [store EXCEPT ![i] = EmptyStore],
           snap.state = ReplayOf(h, snap.index)
    PROVE  StoreInv'
<1>1. PICK h2, e, ok : h2 = committed' /\ e = None /\ ok = FALSE
    OBVIOUS
<1>2. /\ OnlyTouches(i) /\ i \notin up' /\ committed' = committed /\ snapshot'[i] = snap
      /\ CallsBecome({}, e, ok)
    BY <1>1 DEF Falls
<1>3. h2 = h /\ Extends(h, h2)
    BY <1>1, <1>2, SameHistory
<1>4. Stored(h2, i)' /\ SnapshotStored(h2, i)'
    BY <1>2, <1>3 DEF Stored, SnapshotStored
<1>5. \A j \in Node \ {i} : store'[j] = store[j]
    BY StoreUpdate
<1>. QED
    BY ONLY Established, StoreInv, h = committed, i \in Node, <1>1, <1>2, <1>3, <1>4, <1>5,
            StoreKeptQuietly

LEMMA CrashStore ==
    ASSUME Established, StoreInv, NEW i \in Node,
           \/ Crash(i) \/ CrashInCreateSnapshot(i)
           \/ \E b \in Batch : CrashInSubmit(i, b)
    PROVE  StoreInv'
<1>0. TypeInv /\ store' = [store EXCEPT ![i] = EmptyStore]
    BY EstablishedTypes DEF Crash, CrashInCreateSnapshot, CrashInSubmit, Dies
<1>1. PICK h : h = committed
    OBVIOUS
<1>2. snapshot[i].state = ReplayOf(h, snapshot[i].index)
    BY <1>1 DEF StoreInv, SnapshotStored
<1>3. CASE Crash(i)
    BY <1>0, <1>1, <1>2, <1>3, CrashFalls, FallenStore
<1>4. CASE CrashInCreateSnapshot(i)
  <2>1. PICK lg, snap : lg = log[i] /\ snap = SnapshotNow(i)
      OBVIOUS
  <2>2. Compactable(i) /\ Falls(i, lg, snap)
      BY <1>0, <1>4, <2>1, CrashInCreateSnapshotFalls
  <2>3. i \in up
      BY <2>2 DEF Compactable
  <2>4. snap.state = ReplayOf(h, snap.index)
      BY <1>1, <2>1, <2>3, SnapshotNowStored
  <2>. QED  BY <1>0, <1>1, <2>2, <2>4, FallenStore
<1>5. CASE \E b \in Batch : CrashInSubmit(i, b)
  <2>1. PICK b \in Batch : CrashInSubmit(i, b)
      BY <1>5
  <2>2. PICK lg : Falls(i, lg, snapshot[i])
      BY <1>0, <2>1, CrashInSubmitFalls
  <2>. QED  BY <1>0, <1>1, <1>2, <2>2, FallenStore
<1>. QED  BY <1>3, <1>4, <1>5

LEMMA CrashInHandlerStore ==
    ASSUME Established, StoreInv, NEW c \in rpcs,
           CrashInAppendEntries(c) \/ CrashInInstallSnapshot(c)
    PROVE  StoreInv'
<1>1. PICK h : h = committed
    OBVIOUS
<1>2. PICK i \in Node : i = c.dst
    BY EstablishedTypes, CallOnNetwork
<1>0. TypeInv /\ store' = [store EXCEPT ![i] = EmptyStore]
    BY <1>2, EstablishedTypes DEF CrashInAppendEntries, CrashInInstallSnapshot, Dies
<1>3. CASE CrashInAppendEntries(c)
  <2>1. PICK lg : Falls(i, lg, snapshot[i])
      BY <1>0, <1>2, <1>3, CrashInAppendEntriesFalls
  <2>2. snapshot[i].state = ReplayOf(h, snapshot[i].index)
      BY <1>1 DEF StoreInv, SnapshotStored
  <2>. QED  BY <1>0, <1>1, <2>1, <2>2, FallenStore
<1>4. CASE CrashInInstallSnapshot(c)
  <2>1. PICK snap : snap = SnapshotOf(c.req)
      OBVIOUS
  <2>2. c.req.kind = "InstallSnapshot" /\ \E lg : Falls(i, lg, snap)
      BY <1>0, <1>2, <1>4, <2>1, CrashInInstallSnapshotFalls
  <2>3. snap.state = ReplayOf(h, snap.index)
      BY <1>1, <2>1, <2>2 DEF SnapshotOf, StoreInv, Carries
  <2>. QED  BY <1>0, <1>1, <2>2, <2>3, FallenStore
<1>. QED  BY <1>3, <1>4

LEMMA RestartStore ==
    ASSUME Established, Established', StoreInv, NEW i \in Node, Restart(i)
    PROVE  StoreInv'
<1>0. TypeInv
    BY EstablishedTypes
<1>1. PICK h, h2, lg, a, m, kv, e, ok :
         /\ h = committed /\ h2 = committed' /\ lg = RecoveredLog(disk[i])
         /\ a = snapshot[i].index /\ m = RecoveredCommit(disk[i])
         /\ kv = snapshot[i].state /\ e = None /\ ok = FALSE
    OBVIOUS
<1>2. /\ OnlyTouches(i) /\ i \in up' /\ committed' = committed
      /\ state'[i].commit_index = m /\ log'[i] = lg /\ snapshot'[i] = snapshot[i]
      /\ CallsBecome({}, e, ok)
    BY <1>0, <1>1, RestartEffect
<1>3. store' = [store EXCEPT ![i] = ApplyCommitted(kv, lg, a, m)]
    BY <1>0, <1>1, DiskFields DEF Restart
<1>4. h2 = h /\ Extends(h, h2)
    BY <1>1, <1>2, SameHistory
<1>5. kv = ReplayOf(h2, a)
    BY <1>1, <1>4 DEF StoreInv, SnapshotStored
<1>6. a \in Nat /\ lg.base = a /\ lg.base <= a /\ a <= m
    BY <1>1, <1>2, AppliedNext DEF Applied
<1>7. /\ store'[i] = ApplyCommitted(kv, lg, a, m)
      /\ \A j \in Node \ {i} : store'[j] = store[j]
    BY <1>3, StoreUpdate
<1>8. Stored(h2, i)'
  <2>1. lg = log'[i] /\ m = state'[i].commit_index /\ i \in up'
      BY <1>2
  <2>. QED  BY ONLY Established', i \in Node, <1>1, <1>5, <1>6, <1>7, <2>1, StoreApplied
<1>9. SnapshotStored(h2, i)'
    BY <1>1, <1>2, <1>4, SnapshotKept
<1>. QED
    BY ONLY Established, StoreInv, i \in Node, <1>1, <1>2, <1>4, <1>7, <1>8, <1>9,
            StoreKeptQuietly

-----------------------------------------------------------------------------
(* State machine safety.                                                   *)

LEMMA StoreInit == Init => StoreInv
<1>. SUFFICES ASSUME Init, NEW h, h = committed  PROVE StoreInv
    OBVIOUS
<1>1. ReplayOf(h, 0) = EmptyStore
    BY ReplayNone
<1>2. ASSUME NEW i \in Node
      PROVE  /\ store[i] = EmptyStore /\ state[i].last_applied = 0
             /\ snapshot[i].state = EmptyStore /\ snapshot[i].index = 0
    BY DEF Init, InitialState, InitialSnapshot
<1>3. rpcs = {}
    BY DEF Init
<1>. QED  BY <1>1, <1>2, <1>3 DEF StoreInv, Stored, SnapshotStored

LEMMA StoreStep == Established /\ Established' /\ SafetyInv /\ StoreInv /\ [Next]_vars => StoreInv'
<1>. SUFFICES ASSUME Established, Established', SafetyInv, StoreInv, [Next]_vars  PROVE StoreInv'
    OBVIOUS
<1>0. CommitsKept
    BY StepKeepsCommits
<1>1. CASE UNCHANGED vars
    BY <1>1 DEF vars, memory, history, StoreInv, Stored, SnapshotStored, Carries
<1>2. CASE ElectionStep
    BY <1>2, ElectionStore
<1>3. CASE ReplicationStep
    BY <1>0, <1>3, SendsStore, AdvanceCommitStore, StaleAppendStore, AppendStore,
       QuietStore, AnswerStore DEF ReplicationStep
<1>4. CASE ClientStep
    BY <1>4, LocalStore, SubmitStore DEF ClientStep
<1>5. CASE SnapshotStep
    BY <1>5, CreateSnapshotStore, InstallStore, QuietStore DEF SnapshotStep
<1>6. CASE TransferStep
    BY <1>6, LocalStore, SendsStore, QuietStore DEF TransferStep
<1>7. CASE CrashStep
    BY <1>7, CrashStore, CrashInHandlerStore, RestartStore DEF CrashStep
<1>8. CASE LossStep
    BY <1>8, QuietStore DEF LossStep
<1>. QED  BY <1>1, <1>2, <1>3, <1>4, <1>5, <1>6, <1>7, <1>8 DEF Next

LEMMA StoresSafe == StoreInv => StateMachineSafety
<1>. SUFFICES ASSUME StoreInv, NEW h, h = committed  PROVE StateMachineSafety
    OBVIOUS
<1>1. \A n : Replay(n) = ReplayOf(h, n)
    BY ReplayIs
<1>. QED  BY <1>1 DEF StoreInv, Stored, SnapshotStored, StateMachineSafety

(* Every running node's store is the committed history applied in order,   *)
(* and so is the state inside every snapshot: apply_committed_entries, the *)
(* replay of RaftNode.__init__ and handle_install_snapshot neither skip,   *)
(* repeat nor reorder a command, whatever crashes in between.              *)
THEOREM StateMachineSafetyHolds == Spec => []StateMachineSafety
<1>1. SafetyInv => Established
    BY EstablishedHolds
<1>2. Init => StoreInv
    BY StoreInit
<1>3. Established /\ Established' /\ SafetyInv /\ StoreInv /\ [Next]_vars => StoreInv'
    BY StoreStep
<1>4. StoreInv => StateMachineSafety
    BY StoresSafe
<1>. QED  BY <1>1, <1>2, <1>3, <1>4, SafetyInvHolds, PTL DEF Spec

-----------------------------------------------------------------------------
(* Who starts to lead, and who commits.                                    *)

(* A leader led in its term already, or nobody saw it elected in it.       *)
Promoted(i) ==
    state'[i].role = Leader =>
        \/ state[i].role = Leader /\ state'[i].current_term = state[i].current_term
        \/ /\ <<state'[i].current_term, i>> \notin elected
           /\ replication'[i] = InitializeReplication(i, replication[i], log[i])

Promotions == \A i \in Node : Promoted(i)

LEMMA OnePromoted ==
    ASSUME NEW i, OnlyTouches(i), i \in Node => Promoted(i)
    PROVE  Promotions
<1>1. ASSUME NEW j \in Node  PROVE Promoted(j)
  <2>1. CASE j = i
      BY <2>1
  <2>2. CASE j # i
      BY <2>2 DEF OnlyTouches, Promoted
  <2>. QED  BY <2>1, <2>2
<1>. QED  BY <1>1 DEF Promotions

LEMMA FollowerPromoted ==
    ASSUME NEW i, OnlyTouches(i), state'[i].role = Follower
    PROVE  Promotions
<1>1. Promoted(i)
    BY DEF Promoted, Follower, Leader
<1>. QED  BY <1>1, OnePromoted

LEMMA SamePromoted ==
    ASSUME NEW i, OnlyTouches(i), state'[i].role = state[i].role,
           state'[i].current_term = state[i].current_term
    PROVE  Promotions
<1>1. Promoted(i)
    BY DEF Promoted
<1>. QED  BY <1>1, OnePromoted

LEMMA SettledPromoted ==
    ASSUME NEW i, Settles(i)
    PROVE  Promotions
<1>. QED  BY FollowerPromoted, SamePromoted DEF Settles

LEMMA StandsPromoted ==
    ASSUME NEW i \in Node, NEW t, NEW Q, Stands(i, t, Q), <<t, i>> \notin elected
    PROVE  Promotions
<1>1. OnlyTouches(i) /\ state'[i].current_term = t
    BY DEF Stands
<1>2. Promoted(i)
    BY DEF Stands, Promoted, Candidate, Leader
<1>. QED  BY <1>1, <1>2, OnePromoted

LEMMA ElectionPromotes ==
    ASSUME RoleInv, ElectionStep
    PROVE  Promotions
<1>0. TypeInv
    BY DEF RoleInv, ElectionInv
<1>1. ASSUME NEW i \in Node, StartElection(i)  PROVE Promotions
  <2>1. PICK n \in Nat : n = state[i].current_term
      BY NodeTypes
  <2>2. PICK t, Q : t = n + 1 /\ Q = {i}
      OBVIOUS
  <2>3. Stands(i, t, Q)
      BY <1>0, <1>1, <2>1, <2>2, StartElectionEffect
  <2>4. <<t, i>> \notin elected
    <3>1. ~(n >= t)
        BY <2>2
    <3>. QED  BY <2>1, <3>1 DEF RoleInv, ElectedPast
  <2>. QED  BY <2>3, <2>4, StandsPromoted
<1>2. ASSUME NEW c \in rpcs, RecordVote(c)  PROVE Promotions
  <2>1. PICK i \in Node, t \in Nat : i = c.src /\ t = state[i].current_term
      BY <1>0, CallOnNetwork, NodeTypes
  <2>2. PICK Q : Stands(i, t, Q)
      BY <1>0, <1>2, <2>1, RecordVoteEffect
  <2>3. state[i].role = Candidate
      BY <1>2, <2>1 DEF RecordVote, StillCandidate
  <2>4. <<t, i>> \notin elected
      BY <2>1, <2>3 DEF RoleInv, RoleOK
  <2>. QED  BY <2>2, <2>4, StandsPromoted
<1>. QED  BY <1>0, <1>1, <1>2, SettledPromoted, HandleRequestVoteSettles, AbandonsSettle,
             VoteFromNewerTermSettles DEF ElectionStep

LEMMA ReplicationPromotes ==
    ASSUME RoleInv, ReplicationStep
    PROVE  Promotions
<1>0. TypeInv
    BY DEF RoleInv, ElectionInv
<1>1. ASSUME NEW i \in Node, AdvanceCommit(i)  PROVE Promotions
    BY <1>0, <1>1, AdvanceCommitEffect, SamePromoted
<1>2. ASSUME NEW c \in rpcs, HandleAppendEntries(c)  PROVE Promotions
    BY <1>0, <1>2, HandleAppendEntriesEffect, FollowerPromoted, StaleAppendSettles,
       SettledPromoted
<1>3. ASSUME NEW c \in rpcs, AnswerToLeader(c)  PROVE Promotions
    BY <1>0, <1>3, AnswerToLeaderEffect, SamePromoted DEF NodeBecomes
<1>. QED  BY <1>0, <1>1, <1>2, <1>3, SettledPromoted, SendToFollowerSettles, DropsSettle,
             AnswerFromNewerTermSettles DEF ReplicationStep

LEMMA OthersPromote ==
    ASSUME RoleInv, ClientStep \/ SnapshotStep \/ TransferStep \/ LossStep
    PROVE  Promotions
<1>0. TypeInv
    BY DEF RoleInv, ElectionInv
<1>1. ASSUME NEW i \in Node, NEW b \in Batch, Submit(i, b)  PROVE Promotions
    BY <1>0, <1>1, SubmitEffect, SamePromoted DEF NodeBecomes
<1>2. ASSUME NEW i \in Node, CreateSnapshot(i)  PROVE Promotions
    BY <1>0, <1>2, CreateSnapshotEffect, SamePromoted DEF NodeBecomes
<1>3. ASSUME NEW c \in rpcs, HandleInstallSnapshot(c)  PROVE Promotions
    BY <1>0, <1>3, HandleInstallSnapshotEffect, FollowerPromoted
<1>4. CASE ClientStep
    BY <1>0, <1>1, <1>4, SettledPromoted, LocalSettles DEF ClientStep
<1>5. CASE SnapshotStep
    BY <1>0, <1>2, <1>3, <1>5, SettledPromoted, RejectSnapshotSettles DEF SnapshotStep
<1>6. CASE TransferStep
    BY <1>0, <1>6, SettledPromoted, LocalSettles, SendTimeoutNowSettles,
       HandleTimeoutNowSettles, TransferAnsweredSettles DEF TransferStep
<1>7. CASE LossStep
    BY <1>0, <1>7, SettledPromoted, AbandonsSettle, DropsSettle DEF LossStep
<1>. QED  BY <1>4, <1>5, <1>6, <1>7

LEMMA CrashPromotes ==
    ASSUME RoleInv, CrashStep
    PROVE  Promotions
<1>0. TypeInv
    BY DEF RoleInv, ElectionInv
<1>1. ASSUME NEW i, NEW lg, NEW snap, Falls(i, lg, snap)  PROVE Promotions
    BY <1>1, FollowerPromoted DEF Falls
<1>2. ASSUME NEW c \in rpcs, CrashInAppendEntries(c) \/ CrashInInstallSnapshot(c)
      PROVE  Promotions
    BY <1>0, <1>1, <1>2, CrashInAppendEntriesFalls, CrashInInstallSnapshotFalls
<1>3. ASSUME NEW i \in Node, Restart(i)  PROVE Promotions
    BY <1>0, <1>3, RestartEffect, FollowerPromoted
<1>. QED  BY <1>0, <1>1, <1>2, <1>3, CrashFalls, CrashInCreateSnapshotFalls,
             CrashInSubmitFalls DEF CrashStep

LEMMA StepPromotes == RoleInv /\ [Next]_vars => Promotions
<1>. SUFFICES ASSUME RoleInv, [Next]_vars  PROVE Promotions
    OBVIOUS
<1>1. CASE UNCHANGED vars
    BY <1>1 DEF vars, memory, Promotions, Promoted
<1>. QED  BY <1>1, ElectionPromotes, ReplicationPromotes, OthersPromote, CrashPromotes
             DEF Next

LEMMA OnlyLeadersCommit ==
    [Next]_vars => committed' = committed \/ \E i \in Node : AdvanceCommit(i)
<1>. SUFFICES ASSUME [Next]_vars, ~\E i \in Node : AdvanceCommit(i)
              PROVE  committed' = committed
    OBVIOUS
<1>1. CASE UNCHANGED vars
    BY <1>1 DEF vars, history
<1>2. CASE ElectionStep
    BY <1>2 DEF ElectionStep, StartElection, HandleRequestVote, VoteAfterElection,
                VoteFromNewerTerm, RecordVote, history
<1>3. CASE ReplicationStep
    BY <1>3 DEF ReplicationStep, SendToFollower, HandleAppendEntries,
                AnswerAfterLeadership, AnswerFromNewerTerm, AnswerToLeader, history
<1>4. CASE ClientStep
    BY <1>4 DEF ClientStep, Submit, SubmitReturns, history
<1>5. CASE SnapshotStep
    BY <1>5 DEF SnapshotStep, CreateSnapshot, HandleInstallSnapshot, RejectSnapshot,
                history
<1>6. CASE TransferStep
    BY <1>6 DEF TransferStep, BeginTransfer, AbortTransfer, SendTimeoutNow,
                HandleTimeoutNow, TransferAnswered, history
<1>7. CASE CrashStep
    BY <1>7 DEF CrashStep, Crash, CrashInCreateSnapshot, Restart, CrashInSubmit,
                CrashInAppendEntries, CrashInInstallSnapshot, Dies, history
<1>8. CASE LossStep
    BY <1>8 DEF LossStep, CallFails, LateRequestLost, history
<1>. QED  BY <1>1, <1>2, <1>3, <1>4, <1>5, <1>6, <1>7, <1>8 DEF Next

LEMMA StepsElect == [Next]_vars => elected \subseteq elected'
<1>. SUFFICES ASSUME [Next]_vars  PROVE elected \subseteq elected'
    OBVIOUS
<1>1. CASE UNCHANGED vars
    BY <1>1 DEF vars, history
<1>2. CASE ElectionStep
    BY <1>2 DEF ElectionStep, StartElection, HandleRequestVote, VoteAfterElection,
                VoteFromNewerTerm, RecordVote, RecordElected, history
<1>3. CASE ReplicationStep
    BY <1>3 DEF ReplicationStep, SendToFollower, AdvanceCommit, HandleAppendEntries,
                AnswerAfterLeadership, AnswerFromNewerTerm, AnswerToLeader, history
<1>4. CASE ClientStep
    BY <1>4 DEF ClientStep, Submit, SubmitReturns, history
<1>5. CASE SnapshotStep
    BY <1>5 DEF SnapshotStep, CreateSnapshot, HandleInstallSnapshot, RejectSnapshot,
                history
<1>6. CASE TransferStep
    BY <1>6 DEF TransferStep, BeginTransfer, AbortTransfer, SendTimeoutNow,
                HandleTimeoutNow, TransferAnswered, history
<1>7. CASE CrashStep
    BY <1>7 DEF CrashStep, Crash, CrashInCreateSnapshot, Restart, CrashInSubmit,
                CrashInAppendEntries, CrashInInstallSnapshot, Dies, history
<1>8. CASE LossStep
    BY <1>8 DEF LossStep, CallFails, LateRequestLost, history
<1>. QED  BY <1>1, <1>2, <1>3, <1>4, <1>5, <1>6, <1>7, <1>8 DEF Next

(* Whoever committed an entry led in that term.                            *)
LEMMA CommittedByLeader ==
    ASSUME SafetyInv, NEW n \in 1..Len(committed)
    PROVE  committed[n].by > 0 /\ \E x \in Node : <<committed[n].by, x>> \in elected
<1>1. PICK L, F, K : RoleInv /\ Remembers(L, F, K)
    BY DEF SafetyInv, Remembered
<1>2. PICK c \in Nat : c = Len(committed)
    BY <1>1, CommittedFacts
<1>3. n \in Nat /\ n > 0 /\ c > 0
    BY <1>2
<1>4. PICK m \in n..c : Chosen(L, K, committed[n].by, m)
    BY <1>1, <1>2, <1>3 DEF Remembers, History
<1>5. PICK b \in Nat : b = committed[n].by
    BY <1>1, <1>2, CommittedFacts
<1>6. b > 0 /\ L[b][m].term = b /\ m \in Nat
    BY <1>4, <1>5 DEF Chosen
<1>7. L[b][m] # Blank
    BY <1>6 DEF Blank
<1>8. Led(b)
    BY <1>1, <1>6, <1>7 DEF Remembers, Bound, LeaderLogs, LeaderLog
<1>. QED  BY <1>5, <1>6, <1>8 DEF Led

(* What a leader committed in its term it still knows to be committed.     *)
OwnCommits ==
    \A i \in Node : state[i].role = Leader =>
        \A n \in 1..Len(committed) :
            committed[n].by = state[i].current_term => n <= state[i].commit_index

LEMMA OwnCommitsKept ==
    ASSUME SafetyInv, SafetyInv', OwnCommits, Promotions, CommitsKept,
           elected \subseteq elected', NEW i \in Node, state'[i].role = Leader,
           NEW n \in 1..Len(committed), committed[n].by = state'[i].current_term
    PROVE  n <= state'[i].commit_index
<1>1. PICK t : t = state'[i].current_term
    OBVIOUS
<1>2. CASE state[i].role = Leader /\ t = state[i].current_term
  <2>1. n <= state[i].commit_index
      BY <1>1, <1>2 DEF OwnCommits
  <2>2. state'[i].commit_index >= state[i].commit_index
      BY DEF CommitsKept
  <2>3. /\ n \in Nat /\ state[i].commit_index \in Nat /\ state'[i].commit_index \in Nat
    <3>1. state'[i] \in StateType
        BY DEF SafetyInv, RoleInv, ElectionInv, TypeInv, TypeOK
    <3>2. Len(committed) \in Nat
        BY CommittedFacts DEF SafetyInv
    <3>. QED  BY <3>1, <3>2, NodeTypes DEF SafetyInv, StateType
  <2>. QED  BY <2>1, <2>2, <2>3
<1>3. CASE <<t, i>> \notin elected
  <2>1. PICK x \in Node : <<t, x>> \in elected
      BY <1>1, CommittedByLeader
  <2>2. <<t, i>> \in elected' /\ <<t, x>> \in elected'
      BY <1>1, <2>1 DEF SafetyInv, RoleInv, RoleOK
  <2>3. ElectionSafety'
      BY DEF SafetyInv, RoleInv, ElectionInv
  <2>4. x = i
      BY <2>2, <2>3 DEF ElectionSafety
  <2>. QED  BY <1>3, <2>1, <2>4
<1>. QED  BY <1>1, <1>2, <1>3 DEF Promotions, Promoted

LEMMA AdvanceCommitOwns ==
    ASSUME SafetyInv, SafetyInv', OwnCommits, Promotions, CommitsKept,
           NEW j \in Node, AdvanceCommit(j)
    PROVE  OwnCommits'
<1>0. TypeInv /\ RoleInv /\ elected' = elected
    BY AdvanceCommitEffect DEF SafetyInv, RoleInv, ElectionInv
<1>. SUFFICES ASSUME NEW i \in Node, (state[i].role = Leader)',
                     NEW n \in (1..Len(committed))',
                     (committed[n].by = state[i].current_term)'
              PROVE  (n <= state[i].commit_index)'
    BY DEF OwnCommits
<1>1. PICK old, new, lg, m, t : /\ old = committed /\ new = committed' /\ lg = log[j]
                                /\ m = CommitCandidate(j) /\ t = state[j].current_term
    OBVIOUS
<1>2. /\ OnlyTouches(j) /\ state'[j].commit_index = m /\ state'[j].current_term = t
      /\ Leads(j) /\ m > state[j].commit_index /\ log'[j] = lg
    BY <1>0, <1>1, AdvanceCommitEffect
<1>3. new = CommittedUpTo(old, lg, m, t)
    BY <1>0, <1>1, Current DEF AdvanceCommit, CommittedUpTo, StateType
<1>4. Established /\ Established'
    BY EstablishedHolds, PTL
<1>5. /\ old \in HistoryType /\ Len(old) \in Nat /\ lg \in LogType /\ lg.base <= Len(old)
      /\ lg.base \in Nat
    BY <1>1, <1>2, <1>4, AppliedFacts DEF Applied, Leads
<1>6. m \in Nat /\ m <= LastIndex(lg) /\ Len(new) \in Nat
    BY <1>0, <1>1, <1>2, <1>4, AppliedNext, AdvanceCommitEffect DEF Applied, Leads
<1>7. t \in Nat
    BY <1>0, <1>1, NodeTypes
<1>8. Recorded(old, lg, m, t, new)
    BY ONLY <1>3, <1>5, <1>6, <1>7, CommittedExactly DEF HistoryType
<1>9. n \in Nat /\ n <= Len(new)
    BY <1>1, <1>6
<1>10. CASE n <= Len(old)
  <2>1. n \in 1..Len(committed) /\ committed[n].by = state'[i].current_term
      BY <1>1, <1>5, <1>8, <1>9, <1>10 DEF Recorded
  <2>. QED  BY <1>0, <2>1, OwnCommitsKept
<1>11. CASE ~(n <= Len(old))
  <2>1. n \in (Len(old) + 1)..m /\ new[n].by = t
    <3>1. PICK len \in Nat : len = Len(old)
        BY <1>5
    <3>2. ~(m <= len /\ new = old)
        BY <1>9, <1>11, <3>1
    <3>3. /\ Len(new) = m
          /\ \A x \in (len + 1)..m : new[x] = [entry |-> EntryAt(lg, x), by |-> t]
        BY <1>8, <3>1, <3>2 DEF Recorded
    <3>4. n \in (len + 1)..m
        BY <1>6, <1>9, <1>11, <3>1, <3>3
    <3>5. new[n] = [entry |-> EntryAt(lg, n), by |-> t]
        BY <3>3, <3>4
    <3>6. new[n].by = t
        BY <3>5
    <3>7. n \in (Len(old) + 1)..m
        BY <3>1, <3>4
    <3>. QED  BY <3>6, <3>7
  <2>2. <<t, j>> \in elected' /\ <<t, i>> \in elected'
    <3>1. <<t, j>> \in elected
        BY <1>0, <1>1, <1>2 DEF Leads, RoleInv, RoleOK
    <3>2. state'[i].current_term = t
        BY <1>1, <2>1
    <3>. QED  BY <1>0, <3>1, <3>2 DEF SafetyInv, RoleInv, RoleOK
  <2>3. i = j
    <3>1. ElectionSafety'
        BY DEF SafetyInv, RoleInv, ElectionInv
    <3>. QED  BY <2>2, <3>1 DEF ElectionSafety
  <2>. QED  BY <1>2, <1>6, <2>1, <2>3
<1>. QED  BY <1>10, <1>11

LEMMA OwnCommitsStep == SafetyInv /\ SafetyInv' /\ OwnCommits /\ [Next]_vars => OwnCommits'
<1>. SUFFICES ASSUME SafetyInv, SafetyInv', OwnCommits, [Next]_vars  PROVE OwnCommits'
    OBVIOUS
<1>1. Promotions /\ CommitsKept
    BY StepPromotes, StepKeepsCommits DEF SafetyInv
<1>2. elected \subseteq elected'
    BY StepsElect
<1>3. CASE committed' = committed
    BY <1>1, <1>2, <1>3, OwnCommitsKept DEF OwnCommits
<1>4. ASSUME NEW i \in Node, AdvanceCommit(i)  PROVE OwnCommits'
    BY <1>1, <1>4, AdvanceCommitOwns
<1>. QED  BY <1>3, <1>4, OnlyLeadersCommit

LEMMA OwnCommitsHold == Spec => []OwnCommits
<1>1. Init => OwnCommits
    BY DEF Init, OwnCommits
<1>. QED  BY <1>1, OwnCommitsStep, SafetyInvHolds, PTL DEF Spec

-----------------------------------------------------------------------------
(* i goes on with the transfer it is in: nothing it relied on is lost.     *)
Continues(i) ==
    /\ transfer_term'[i] = transfer_term[i] /\ LeadsTransfer(i)'
    /\ <<transfer_term[i], i>> \in elected
    => /\ LeadsTransfer(i)
       /\ LastIndex(log'[i]) = LastIndex(log[i])
       /\ \A f \in Node \ {i} : \A n \in Nat :
             replication[i].match_index[f] >= n => replication'[i].match_index[f] >= n

Continuing == \A i \in Node : Continues(i)

LEMMA OneContinues ==
    ASSUME NEW i, OnlyTouches(i), i \in Node => Continues(i)
    PROVE  Continuing
<1>1. ASSUME NEW j \in Node  PROVE Continues(j)
  <2>1. CASE j = i
      BY <2>1
  <2>2. CASE j # i
      BY <2>2 DEF OnlyTouches, Continues, LeadsTransfer, Leads
  <2>. QED  BY <2>1, <2>2
<1>. QED  BY <1>1 DEF Continuing

LEMMA FollowerContinues ==
    ASSUME NEW i, OnlyTouches(i), state'[i].role = Follower
    PROVE  Continuing
<1>1. Continues(i)
    BY DEF Continues, LeadsTransfer, Leads, Follower, Leader
<1>. QED  BY <1>1, OneContinues

LEMMA SameContinues ==
    ASSUME RoleInv, NEW i \in Node, OnlyTouches(i), up' = up,
           state'[i].role = state[i].role,
           state'[i].current_term = state[i].current_term,
           LastIndex(log'[i]) = LastIndex(log[i]),
           replication'[i] \in {replication[i], NoReplication}
    PROVE  Continuing
<1>1. Continues(i)
    BY DEF Continues, LeadsTransfer, Leads
<1>. QED  BY <1>1, OneContinues

LEMMA SettledContinues ==
    ASSUME RoleInv, NEW i, Settles(i)
    PROVE  Continuing
<1>1. i \in Node /\ OnlyTouches(i)
    BY DEF Settles
<1>2. CASE state'[i].role = Follower
    BY <1>1, <1>2, FollowerContinues
<1>3. CASE ~(state'[i].role = Follower)
    BY <1>1, <1>3, SameContinues DEF Settles
<1>. QED  BY <1>2, <1>3

LEMMA StandsContinues ==
    ASSUME NEW i \in Node, NEW t, NEW Q, Stands(i, t, Q), <<t, i>> \notin elected
    PROVE  Continuing
<1>1. OnlyTouches(i) /\ state'[i].current_term = t
    BY DEF Stands
<1>2. Continues(i)
    BY <1>1 DEF Continues, LeadsTransfer
<1>. QED  BY <1>1, <1>2, OneContinues

LEMMA ElectionContinues ==
    ASSUME RoleInv, ElectionStep
    PROVE  Continuing
<1>0. TypeInv
    BY DEF RoleInv, ElectionInv
<1>1. ASSUME NEW i \in Node, StartElection(i)  PROVE Continuing
  <2>1. PICK n \in Nat : n = state[i].current_term
      BY NodeTypes
  <2>2. PICK t, Q : t = n + 1 /\ Q = {i}
      OBVIOUS
  <2>3. Stands(i, t, Q)
      BY <1>0, <1>1, <2>1, <2>2, StartElectionEffect
  <2>4. <<t, i>> \notin elected
    <3>1. ~(n >= t)
        BY <2>2
    <3>. QED  BY <2>1, <3>1 DEF RoleInv, ElectedPast
  <2>. QED  BY <2>3, <2>4, StandsContinues
<1>2. ASSUME NEW c \in rpcs, RecordVote(c)  PROVE Continuing
  <2>1. PICK i \in Node, t \in Nat : i = c.src /\ t = state[i].current_term
      BY <1>0, CallOnNetwork, NodeTypes
  <2>2. PICK Q : Stands(i, t, Q)
      BY <1>0, <1>2, <2>1, RecordVoteEffect
  <2>3. state[i].role = Candidate
      BY <1>2, <2>1 DEF RecordVote, StillCandidate
  <2>4. <<t, i>> \notin elected
      BY <2>1, <2>3 DEF RoleInv, RoleOK
  <2>. QED  BY <2>2, <2>4, StandsContinues
<1>. QED  BY <1>0, <1>1, <1>2, SettledContinues, HandleRequestVoteSettles, AbandonsSettle,
             VoteFromNewerTermSettles DEF ElectionStep

(* A success raises the match index of one follower, a failure none.       *)
LEMMA AnswersRaiseMatch ==
    ASSUME NEW i \in Node, NEW repl \in ReplicationType(i), NEW f \in Node,
           NEW index \in Nat, NEW r,
           \/ r = RecordSuccess(repl, f, index)
           \/ r = RecordFailure(repl, f)
           \/ r = repl,
           NEW g \in Node \ {i}, NEW n \in Nat, repl.match_index[g] >= n
    PROVE  r.match_index[g] >= n
<1>1. PICK old \in Nat : old = repl.match_index[g]
    BY DEF ReplicationType
<1>2. CASE r = RecordSuccess(repl, f, index)
  <2>1. CASE g # f
      BY <1>2, <2>1 DEF RecordSuccess, ReplicationType
  <2>2. CASE g = f
    <3>1. r.match_index[g] = Max({old, index})
        BY <1>1, <1>2, <2>2 DEF RecordSuccess, ReplicationType
    <3>. QED  BY <1>1, <3>1, MaxOfTwo
  <2>. QED  BY <2>1, <2>2
<1>3. CASE r = RecordFailure(repl, f)
    BY <1>3 DEF RecordFailure, ReplicationType
<1>. QED  BY <1>2, <1>3

LEMMA AnswerContinues ==
    ASSUME SafetyInv, NEW c \in rpcs, AnswerToLeader(c)
    PROVE  Continuing
<1>0. TypeInv /\ RoleInv
    BY DEF SafetyInv, RoleInv, ElectionInv
<1>1. PICK i \in Node, f \in Node : i = c.src /\ f = c.dst
    BY <1>0, CallOnNetwork
<1>2. PICK x, r :
          /\ x = ReplicatedBy(c)
          /\ r = IF c.resp.ok THEN RecordSuccess(replication[i], f, x)
                 ELSE IF c.req.kind = "AppendEntries"
                 THEN RecordFailure(replication[i], f) ELSE replication[i]
    OBVIOUS
<1>3. /\ OnlyTouches(i) /\ up' = up /\ state'[i] = state[i] /\ log'[i] = log[i]
      /\ replication'[i] = r
    BY <1>0, <1>1, <1>2, AnswerToLeaderEffect DEF NodeBecomes, Same
<1>4. Leads(i) /\ c.req.kind \in AppendKinds
    BY <1>1 DEF AnswerToLeader, Answered, StillLeader
<1>5. x \in Nat
  <2>1. PICK L, F, K : Shadow(L, F, K) /\ CallOK(L, F, K, c)
      BY DEF SafetyInv, Remembered, Remembers, Bound
  <2>. QED  BY <1>0, <1>1, <1>2, <1>4, <2>1, ReplicatedCell
<1>6. replication[i] \in ReplicationType(i)
    BY <1>0, <1>4, NodeTypes DEF Leads, ReplicationOrNone
<1>7. \/ r = RecordSuccess(replication[i], f, x)
      \/ r = RecordFailure(replication[i], f)
      \/ r = replication[i]
    BY <1>2
<1>8. \A g \in Node \ {i} : \A n \in Nat :
         replication[i].match_index[g] >= n => r.match_index[g] >= n
    BY <1>5, <1>6, <1>7, AnswersRaiseMatch
<1>9. Continues(i)
    BY <1>3, <1>4, <1>8 DEF Continues, LeadsTransfer
<1>. QED  BY <1>3, <1>9, OneContinues

LEMMA SubmitContinues ==
    ASSUME RoleInv, NEW i \in Node, NEW b \in Batch, Submit(i, b)
    PROVE  Continuing
<1>0. TypeInv
    BY DEF RoleInv, ElectionInv
<1>1. OnlyTouches(i)
    BY <1>0, SubmitEffect DEF NodeBecomes
<1>2. transfer_term[i] = 0 /\ transfer_term' = transfer_term
    BY DEF Submit, CanSubmit
<1>3. Continues(i)
    BY <1>2 DEF Continues, LeadsTransfer
<1>. QED  BY <1>1, <1>3, OneContinues

LEMMA CreateSnapshotContinues ==
    ASSUME SafetyInv, NEW i \in Node, CreateSnapshot(i)
    PROVE  Continuing
<1>0. TypeInv /\ RoleInv
    BY DEF SafetyInv, RoleInv, ElectionInv
<1>1. PICK snap, lg : snap = SnapshotNow(i) /\ lg = CompactThrough(log[i], snap.index)
    OBVIOUS
<1>2. /\ OnlyTouches(i) /\ up' = up /\ state'[i] = state[i] /\ log'[i] = lg
      /\ replication'[i] = replication[i] /\ Compactable(i)
    BY <1>0, <1>1, CreateSnapshotEffect DEF NodeBecomes, Same
<1>3. PICK L, F, K : Remembers(L, F, K)
    BY DEF SafetyInv, Remembered
<1>4. /\ Shadow(L, F, K) /\ NodeOK(L, F, K, i) /\ F[i] \in Full
      /\ Unfolds(log[i], F[i])
    BY <1>0, <1>3, ShadowFacts DEF Remembers, NodeOK, NodeLog
<1>5. snap.index \in Nat /\ TermAt(log[i], snap.index) # NoTerm
    BY <1>0, <1>1, <1>2, <1>3, <1>4, CompactableFacts
<1>6. LastIndex(lg) = LastIndex(log[i])
    BY <1>0, <1>1, <1>4, <1>5, NodeTypes, UnfoldsCompactThrough DEF Full
<1>. QED  BY <1>0, <1>2, <1>6, SameContinues

LEMMA ReplicationContinues ==
    ASSUME SafetyInv, ReplicationStep
    PROVE  Continuing
<1>0. TypeInv /\ RoleInv
    BY DEF SafetyInv, RoleInv, ElectionInv
<1>1. ASSUME NEW i \in Node, AdvanceCommit(i)  PROVE Continuing
  <2>1. /\ OnlyTouches(i) /\ up' = up /\ state'[i].role = state[i].role
        /\ state'[i].current_term = state[i].current_term
        /\ log'[i] = log[i] /\ replication'[i] = replication[i]
      BY <1>0, <1>1, AdvanceCommitEffect
  <2>. QED  BY <1>0, <2>1, SameContinues
<1>2. ASSUME NEW c \in rpcs, HandleAppendEntries(c)  PROVE Continuing
    BY <1>0, <1>2, HandleAppendEntriesEffect, FollowerContinues, StaleAppendSettles,
       SettledContinues
<1>3. ASSUME NEW c \in rpcs, AnswerToLeader(c)  PROVE Continuing
    BY <1>3, AnswerContinues
<1>. QED  BY <1>0, <1>1, <1>2, <1>3, SettledContinues, SendToFollowerSettles, DropsSettle,
             AnswerFromNewerTermSettles DEF ReplicationStep

LEMMA OthersContinue ==
    ASSUME SafetyInv, ClientStep \/ SnapshotStep \/ TransferStep \/ LossStep
    PROVE  Continuing
<1>0. TypeInv /\ RoleInv
    BY DEF SafetyInv, RoleInv, ElectionInv
<1>1. ASSUME NEW c \in rpcs, HandleInstallSnapshot(c)  PROVE Continuing
    BY <1>0, <1>1, HandleInstallSnapshotEffect, FollowerContinues
<1>2. CASE ClientStep
    BY <1>0, <1>2, SubmitContinues, SettledContinues, LocalSettles DEF ClientStep
<1>3. CASE SnapshotStep
    BY <1>0, <1>1, <1>3, CreateSnapshotContinues, SettledContinues, RejectSnapshotSettles
       DEF SnapshotStep
<1>4. CASE TransferStep
    BY <1>0, <1>4, SettledContinues, LocalSettles, SendTimeoutNowSettles,
       HandleTimeoutNowSettles, TransferAnsweredSettles DEF TransferStep
<1>5. CASE LossStep
    BY <1>0, <1>5, SettledContinues, AbandonsSettle, DropsSettle DEF LossStep
<1>. QED  BY <1>2, <1>3, <1>4, <1>5

LEMMA CrashContinues ==
    ASSUME RoleInv, CrashStep
    PROVE  Continuing
<1>0. TypeInv
    BY DEF RoleInv, ElectionInv
<1>1. ASSUME NEW i, NEW lg, NEW snap, Falls(i, lg, snap)  PROVE Continuing
    BY <1>1, FollowerContinues DEF Falls
<1>2. ASSUME NEW c \in rpcs, CrashInAppendEntries(c) \/ CrashInInstallSnapshot(c)
      PROVE  Continuing
    BY <1>0, <1>1, <1>2, CrashInAppendEntriesFalls, CrashInInstallSnapshotFalls
<1>3. ASSUME NEW i \in Node, Restart(i)  PROVE Continuing
    BY <1>0, <1>3, RestartEffect, FollowerContinues
<1>. QED  BY <1>0, <1>1, <1>2, <1>3, CrashFalls, CrashInCreateSnapshotFalls,
             CrashInSubmitFalls DEF CrashStep

LEMMA StepContinues == SafetyInv /\ [Next]_vars => Continuing
<1>. SUFFICES ASSUME SafetyInv, [Next]_vars  PROVE Continuing
    OBVIOUS
<1>0. RoleInv
    BY DEF SafetyInv
<1>1. CASE UNCHANGED vars
    BY <1>1 DEF vars, memory, Continuing, Continues, LeadsTransfer, Leads
<1>. QED  BY <1>0, <1>1, ElectionContinues, ReplicationContinues, OthersContinue,
             CrashContinues DEF Next

-----------------------------------------------------------------------------
(* The calls of a transfer.                                                *)

Handover(c) == c.req.kind = "TimeoutNow" /\ c.st # "late"

(* What the leader checked before it sent the call (eligible targets).     *)
Offered(c) ==
    /\ c.dst # c.src /\ c.req.term # 0
    /\ transfer_term[c.src] = c.req.term
    /\ LeadsTransfer(c.src)
       => replication[c.src].match_index[c.dst] >= LastIndex(log[c.src])

TransferInv ==
    /\ \A i \in Node : transfer_term[i] # 0 => <<transfer_term[i], i>> \in elected
    /\ \A c \in rpcs : Handover(c) => Offered(c)
    /\ \A c, d \in rpcs : Handover(c) /\ Handover(d) /\ c.src = d.src => c = d

(* A transfer begins in the term of its leader.                            *)
Begins(i) ==
    \/ transfer_term'[i] \in {transfer_term[i], 0}
    \/ transfer_term'[i] = state[i].current_term /\ Leads(i)

(* No handover is new, and those left are of transfers that go on.         *)
NoNewHandover ==
    \A c \in rpcs' : Handover(c) =>
        c \in rpcs /\ transfer_term'[c.src] = transfer_term[c.src]

(* The handover e is answered.                                             *)
Replies(e) ==
    /\ e \in rpcs /\ Handover(e) /\ transfer_term' = transfer_term
    /\ \E x : /\ x.src = e.src /\ x.dst = e.dst /\ x.req = e.req
              /\ rpcs' \subseteq (rpcs \ {e}) \cup {x}

LEMMA OfferKept ==
    ASSUME SafetyInv, SafetyInv', TransferInv, Continuing,
           NEW c, NEW e \in rpcs, Handover(e),
           c.src = e.src, c.dst = e.dst, c.req = e.req,
           transfer_term'[e.src] = transfer_term[e.src]
    PROVE  Offered(c)'
<1>0. TypeInv /\ RoleInv
    BY DEF SafetyInv, RoleInv, ElectionInv
<1>1. PICK i \in Node, f \in Node : i = e.src /\ f = e.dst
    BY <1>0, CallOnNetwork
<1>2. PICK t : t = e.req.term
    OBVIOUS
<1>3. f # i /\ t # 0 /\ transfer_term[i] = t /\ transfer_term'[i] = t
    BY <1>1, <1>2 DEF TransferInv, Offered
<1>4. <<t, i>> \in elected
    BY <1>3 DEF TransferInv
<1>5. ASSUME LeadsTransfer(i)'  PROVE replication'[i].match_index[f] >= LastIndex(log'[i])
  <2>1. /\ LeadsTransfer(i) /\ LastIndex(log'[i]) = LastIndex(log[i])
        /\ \A n \in Nat : replication[i].match_index[f] >= n
                          => replication'[i].match_index[f] >= n
      BY <1>3, <1>4, <1>5 DEF Continuing, Continues
  <2>2. replication[i].match_index[f] >= LastIndex(log[i])
      BY <1>1, <2>1 DEF TransferInv, Offered
  <2>3. LastIndex(log[i]) \in Nat
      BY <1>0, NodeTypes
  <2>. QED  BY <2>1, <2>2, <2>3
<1>. QED  BY <1>1, <1>2, <1>3, <1>5 DEF Offered

LEMMA TermsKept ==
    ASSUME SafetyInv, TransferInv, elected \subseteq elected',
           \A i \in Node : Begins(i)
    PROVE  \A i \in Node : transfer_term'[i] # 0 => <<transfer_term'[i], i>> \in elected'
<1>1. ASSUME NEW i \in Node, Leads(i)  PROVE <<state[i].current_term, i>> \in elected
    BY <1>1 DEF SafetyInv, RoleInv, RoleOK, Leads
<1>. QED  BY <1>1 DEF Begins, TransferInv

LEMMA HandoversKept ==
    ASSUME SafetyInv, SafetyInv', TransferInv, Continuing, elected \subseteq elected',
           \A i \in Node : Begins(i), NoNewHandover
    PROVE  TransferInv'
<1>1. ASSUME NEW c \in rpcs', Handover(c)  PROVE Offered(c)'
    BY <1>1, OfferKept DEF NoNewHandover
<1>2. \A c, d \in rpcs' : Handover(c) /\ Handover(d) /\ c.src = d.src => c = d
    BY DEF NoNewHandover, TransferInv
<1>. QED  BY <1>1, <1>2, TermsKept DEF TransferInv, Handover

LEMMA ReplyKeeps ==
    ASSUME SafetyInv, SafetyInv', TransferInv, Continuing, elected \subseteq elected',
           NEW e, Replies(e)
    PROVE  TransferInv'
<1>1. PICK x : /\ x.src = e.src /\ x.dst = e.dst /\ x.req = e.req
               /\ rpcs' \subseteq (rpcs \ {e}) \cup {x}
    BY DEF Replies
<1>2. e \in rpcs /\ Handover(e) /\ transfer_term' = transfer_term
    BY DEF Replies
<1>3. ASSUME NEW c \in rpcs', Handover(c)  PROVE Offered(c)'
    BY <1>1, <1>2, <1>3, OfferKept
<1>4. ASSUME NEW c \in rpcs', NEW d \in rpcs', Handover(c), Handover(d), c.src = d.src
      PROVE  c = d
    BY <1>1, <1>2, <1>4 DEF TransferInv
<1>5. \A i \in Node : Begins(i)
    BY <1>2 DEF Begins
<1>. QED  BY <1>3, <1>4, <1>5, TermsKept DEF TransferInv, Handover

LEMMA OfferMade ==
    ASSUME SafetyInv, SafetyInv', TransferInv, Continuing,
           NEW i \in Node, NEW f \in Node, SendTimeoutNow(i, f)
    PROVE  TransferInv'
<1>1. PICK x, t : /\ t = transfer_term[i]
                  /\ x = Call(i, f, [kind |-> "TimeoutNow", term |-> t])
    OBVIOUS
<1>2. /\ x.src = i /\ x.dst = f /\ x.req.kind = "TimeoutNow" /\ x.req.term = t
    BY <1>1 DEF Call
<1>3. /\ rpcs' = rpcs \cup {x} /\ UNCHANGED <<up, memory, disk, history>>
      /\ LeadsTransfer(i) /\ f # i /\ CallsOf(i, {"TimeoutNow"}) = {}
      /\ replication[i].match_index[f] >= LastIndex(log[i])
    BY <1>1 DEF SendTimeoutNow
<1>4. UNCHANGED <<state, log, replication, transfer_term, elected, up>>
    BY <1>3 DEF memory, history
<1>5. Offered(x)'
    BY <1>1, <1>2, <1>3, <1>4 DEF Offered, LeadsTransfer
<1>6. ASSUME NEW c \in rpcs', Handover(c)  PROVE Offered(c)'
  <2>1. CASE c \in rpcs
      BY <1>4, <1>6, <2>1, OfferKept
  <2>2. CASE c = x
      BY <1>5, <2>2
  <2>. QED  BY <1>3, <2>1, <2>2
<1>7. ASSUME NEW c \in rpcs', NEW d \in rpcs', Handover(c), Handover(d), c.src = d.src
      PROVE  c = d
  <2>1. ASSUME NEW e \in rpcs, Handover(e)  PROVE e.src # i
      BY <1>3, <2>1 DEF CallsOf, Handover
  <2>. QED  BY <1>2, <1>3, <1>7, <2>1 DEF TransferInv
<1>8. \A j \in Node : transfer_term'[j] # 0 => <<transfer_term'[j], j>> \in elected'
    BY <1>4 DEF TransferInv
<1>. QED  BY <1>6, <1>7, <1>8 DEF TransferInv, Handover

-----------------------------------------------------------------------------
(* Which calls a step leaves.                                              *)

LEMMA CallsLeft ==
    ASSUME transfer_term' = transfer_term,
           \A c \in rpcs' : Handover(c) => c \in rpcs
    PROVE  NoNewHandover /\ \A i \in Node : Begins(i)
<1>. QED  BY DEF NoNewHandover, Begins

LEMMA AbandonLeaves ==
    ASSUME NEW calls, NEW done, AbandonAfter(calls, done), calls \subseteq rpcs,
           TypeInv
    PROVE  \A c \in rpcs' : Handover(c) => c \in rpcs /\ c \notin calls
<1>0. rpcs \subseteq CallType
    BY DEF TypeInv, TypeOK
<1>1. \A c \in rpcs' : \/ c \in rpcs /\ c \notin calls
                       \/ \E d \in calls : c = [d EXCEPT !.st = "late"]
    BY DEF AbandonAfter
<1>2. ASSUME NEW d \in calls, NEW c, c = [d EXCEPT !.st = "late"]  PROVE ~Handover(c)
    BY <1>0, <1>2 DEF CallType, Handover
<1>. QED  BY <1>1, <1>2

LEMMA AnswerLeaves ==
    ASSUME TypeInv, NEW c \in rpcs, NEW term, NEW ok, Answer(c, term, ok),
           c.req.kind # "TimeoutNow"
    PROVE  \A d \in rpcs' : Handover(d) => d \in rpcs
<1>. DEFINE a == [c EXCEPT !.st = "answered", !.resp = [term |-> term, ok |-> ok]]
<1>0. c \in CallType
    BY CallOnNetwork
<1>1. a.req = c.req
    BY <1>0 DEF CallType
<1>2. \A d \in rpcs' : d \in rpcs \/ d = a
    BY DEF Answer
<1>. HIDE DEF a
<1>. QED  BY <1>1, <1>2 DEF Handover

HandoversLeft == NoNewHandover /\ \A i \in Node : Begins(i)

LEMMA ElectionLeaves ==
    ASSUME TypeInv, ElectionStep
    PROVE  HandoversLeft
<1>0. transfer_term' = transfer_term
    BY DEF ElectionStep, StartElection, HandleRequestVote, VoteAfterElection,
           VoteFromNewerTerm, RecordVote, memory
<1>1. ASSUME NEW i \in Node, StartElection(i)
      PROVE  \A c \in rpcs' : Handover(c) => c \in rpcs
  <2>1. PICK s, asked :
            rpcs' = rpcs \cup {Call(i, j, RequestVote(s, log[i])) : j \in asked}
      BY <1>1 DEF StartElection
  <2>. QED  BY <2>1 DEF Handover, Call, RequestVote
<1>2. ASSUME NEW c \in rpcs, HandleRequestVote(c)
      PROVE  \A d \in rpcs' : Handover(d) => d \in rpcs
  <2>1. \E term, ok : Answer(c, term, ok)
      BY <1>2 DEF HandleRequestVote
  <2>2. c.req.kind # "TimeoutNow"
      BY <1>2 DEF HandleRequestVote, Deliverable
  <2>. QED  BY <2>1, <2>2, AnswerLeaves
<1>3. ASSUME NEW i, Abandon(CallsOf(i, {"RequestVote"}))
      PROVE  \A d \in rpcs' : Handover(d) => d \in rpcs
    BY <1>3, AbandonLeaves DEF Abandon, CallsOf
<1>4. ASSUME NEW c \in rpcs, VoteAfterElection(c) \/ VoteFromNewerTerm(c)
      PROVE  \A d \in rpcs' : Handover(d) => d \in rpcs
    BY <1>3, <1>4 DEF VoteAfterElection, VoteFromNewerTerm
<1>5. ASSUME NEW c \in rpcs, RecordVote(c)
      PROVE  \A d \in rpcs' : Handover(d) => d \in rpcs
  <2>1. Abandon(CallsOf(c.src, {"RequestVote"})) \/ rpcs' = rpcs \ {c}
      BY <1>5 DEF RecordVote
  <2>. QED  BY <1>3, <2>1
<1>6. \A c \in rpcs' : Handover(c) => c \in rpcs
    BY <1>1, <1>2, <1>4, <1>5 DEF ElectionStep
<1>. QED  BY <1>0, <1>6, CallsLeft DEF HandoversLeft

LEMMA ReplicationLeaves ==
    ASSUME TypeInv, ReplicationStep
    PROVE  HandoversLeft
<1>0. transfer_term' = transfer_term
    BY DEF ReplicationStep, SendToFollower, AdvanceCommit, HandleAppendEntries,
           AnswerAfterLeadership, AnswerFromNewerTerm, AnswerToLeader, memory
<1>1. ASSUME NEW i \in Node, NEW f \in Node, SendToFollower(i, f)
      PROVE  \A c \in rpcs' : Handover(c) => c \in rpcs
  <2>1. rpcs' = rpcs \cup {Sent(i, f)}
      BY <1>1 DEF SendToFollower, Sent
  <2>2. Sent(i, f).req.kind # "TimeoutNow"
      BY DEF Sent, Call, InstallSnapshot, AppendEntries
  <2>. QED  BY <2>1, <2>2 DEF Handover
<1>2. ASSUME NEW c \in rpcs, HandleAppendEntries(c)
      PROVE  \A d \in rpcs' : Handover(d) => d \in rpcs
  <2>1. \E term, ok : Answer(c, term, ok)
      BY <1>2 DEF HandleAppendEntries
  <2>2. c.req.kind # "TimeoutNow"
      BY <1>2 DEF HandleAppendEntries, Deliverable
  <2>. QED  BY <2>1, <2>2, AnswerLeaves
<1>3. \A c \in rpcs' : Handover(c) => c \in rpcs
    BY <1>1, <1>2 DEF ReplicationStep, AdvanceCommit, AnswerAfterLeadership,
                      AnswerFromNewerTerm, AnswerToLeader
<1>. QED  BY <1>0, <1>3, CallsLeft DEF HandoversLeft

LEMMA ClientLeaves ==
    ASSUME TypeInv, ClientStep \/ SnapshotStep
    PROVE  HandoversLeft
<1>0. transfer_term' = transfer_term
    BY DEF ClientStep, SubmitReturns, Submit, SnapshotStep, CreateSnapshot,
           HandleInstallSnapshot, RejectSnapshot
<1>1. ASSUME NEW c \in rpcs, HandleInstallSnapshot(c) \/ RejectSnapshot(c)
      PROVE  \A d \in rpcs' : Handover(d) => d \in rpcs
  <2>1. \E term, ok : Answer(c, term, ok)
      BY <1>1 DEF HandleInstallSnapshot, RejectSnapshot
  <2>2. c.req.kind # "TimeoutNow"
      BY <1>1 DEF HandleInstallSnapshot, RejectSnapshot, Deliverable
  <2>. QED  BY <2>1, <2>2, AnswerLeaves
<1>2. \A c \in rpcs' : Handover(c) => c \in rpcs
    BY <1>1 DEF ClientStep, SubmitReturns, Submit, SnapshotStep, CreateSnapshot
<1>. QED  BY <1>0, <1>2, CallsLeft DEF HandoversLeft

LEMMA CrashLeaves ==
    ASSUME TypeInv, CrashStep
    PROVE  HandoversLeft
<1>1. ASSUME NEW i \in Node, NEW d, NEW done, Dies(i, d, done)  PROVE HandoversLeft
  <2>1. PICK calls : calls = {c \in rpcs : c.src = i /\ c.st # "late"}
      OBVIOUS
  <2>2. /\ AbandonAfter(calls, done)
        /\ transfer_term' = [transfer_term EXCEPT ![i] = 0]
      BY <1>1, <2>1 DEF Dies
  <2>3. \A c \in rpcs' : Handover(c) => c \in rpcs /\ c \notin calls
      BY <2>1, <2>2, AbandonLeaves
  <2>4. \A j \in Node : transfer_term'[j] = IF j = i THEN 0 ELSE transfer_term[j]
      BY <2>2 DEF TypeInv, TypeOK
  <2>5. \A c \in rpcs : c.src \in Node
      BY CallOnNetwork
  <2>. QED  BY <2>1, <2>3, <2>4, <2>5 DEF HandoversLeft, NoNewHandover, Begins, Handover
<1>2. ASSUME NEW c \in rpcs, CrashInAppendEntries(c) \/ CrashInInstallSnapshot(c)
      PROVE  HandoversLeft
  <2>1. c.dst \in Node
      BY CallOnNetwork
  <2>2. \E d, done : Dies(c.dst, d, done)
      BY <1>2 DEF CrashInAppendEntries, CrashInInstallSnapshot
  <2>. QED  BY <1>1, <2>1, <2>2
<1>3. ASSUME NEW i \in Node, Restart(i)  PROVE HandoversLeft
    BY <1>3, CallsLeft DEF Restart, HandoversLeft
<1>4. ASSUME NEW i \in Node, NEW b \in Batch, CrashInSubmit(i, b)
      PROVE  HandoversLeft
  <2>1. \E d, done : Dies(i, d, done)
      BY <1>4 DEF CrashInSubmit
  <2>. QED  BY <1>1, <2>1
<1>5. ASSUME NEW i \in Node, Crash(i) \/ CrashInCreateSnapshot(i)  PROVE HandoversLeft
  <2>1. \E d, done : Dies(i, d, done)
      BY <1>5 DEF Crash, CrashInCreateSnapshot
  <2>. QED  BY <1>1, <2>1
<1>. QED  BY <1>2, <1>3, <1>4, <1>5 DEF CrashStep

LEMMA LossLeaves ==
    ASSUME TypeInv, TransferInv, LossStep
    PROVE  HandoversLeft
<1>1. ASSUME NEW c \in rpcs, CallFails(c)  PROVE HandoversLeft
  <2>1. PICK calls : /\ AbandonAfter(calls, {}) /\ calls \subseteq rpcs
                     /\ c.req.kind = "TimeoutNow" => c \in calls
      BY <1>1 DEF CallFails, Abandon, CallsOf
  <2>2. \A d \in rpcs' : Handover(d) => d \in rpcs /\ d \notin calls
      BY <2>1, AbandonLeaves
  <2>3. CASE c.req.kind # "TimeoutNow"
      BY <1>1, <2>2, <2>3, CallsLeft DEF CallFails, HandoversLeft
  <2>4. CASE c.req.kind = "TimeoutNow"
    <3>1. transfer_term' = [transfer_term EXCEPT ![c.src] = 0] /\ c.st # "late"
        BY <1>1, <2>4 DEF CallFails
    <3>2. \A j \in Node : transfer_term'[j] = IF j = c.src THEN 0 ELSE transfer_term[j]
        BY <3>1 DEF TypeInv, TypeOK
    <3>3. \A d \in rpcs : d.src \in Node
        BY CallOnNetwork
    <3>4. \A d \in rpcs' : Handover(d) => d.src # c.src
        BY <2>1, <2>2, <2>4, <3>1 DEF TransferInv, Handover
    <3>. QED  BY <2>2, <3>2, <3>3, <3>4 DEF HandoversLeft, NoNewHandover, Begins
  <2>. QED  BY <2>3, <2>4
<1>2. ASSUME NEW c \in rpcs, LateRequestLost(c)  PROVE HandoversLeft
    BY <1>2, CallsLeft DEF LateRequestLost, HandoversLeft, memory
<1>. QED  BY <1>1, <1>2 DEF LossStep

LEMMA TimeoutNowReplies ==
    ASSUME TypeInv, TransferInv, NEW c \in rpcs, HandleTimeoutNow(c)
    PROVE  HandoversLeft \/ Replies(c)
<1>1. PICK term, ok : Answer(c, term, ok)
    BY DEF HandleTimeoutNow
<1>2. transfer_term' = transfer_term /\ c.req.kind = "TimeoutNow"
    BY DEF HandleTimeoutNow, Deliverable
<1>3. CASE c.st = "late"
  <2>1. rpcs' \subseteq rpcs
      BY <1>1, <1>3 DEF Answer
  <2>. QED  BY <1>2, <2>1, CallsLeft DEF HandoversLeft
<1>4. CASE c.st # "late"
  <2>1. PICK x : x = [c EXCEPT !.st = "answered", !.resp = [term |-> term, ok |-> ok]]
      OBVIOUS
  <2>2. x.src = c.src /\ x.dst = c.dst /\ x.req = c.req
      BY <2>1, CallOnNetwork DEF CallType
  <2>3. rpcs' \subseteq (rpcs \ {c}) \cup {x}
      BY <1>1, <2>1 DEF Answer
  <2>. QED  BY <1>2, <1>4, <2>2, <2>3 DEF Replies, Handover
<1>. QED  BY <1>3, <1>4

LEMMA TransferLeaves ==
    ASSUME SafetyInv, TransferInv, TransferStep
    PROVE  \/ HandoversLeft
           \/ \E c \in rpcs : Replies(c)
           \/ \E i, f \in Node : SendTimeoutNow(i, f)
<1>0. TypeInv
    BY DEF SafetyInv, RoleInv, ElectionInv
<1>1. ASSUME NEW i \in Node, BeginTransfer(i)  PROVE HandoversLeft
  <2>1. /\ transfer_term[i] = 0 /\ Leads(i) /\ rpcs' = rpcs
        /\ transfer_term' = [transfer_term EXCEPT ![i] = state[i].current_term]
      BY <1>1 DEF BeginTransfer
  <2>2. \A j \in Node : transfer_term'[j] =
                           IF j = i THEN state[i].current_term ELSE transfer_term[j]
      BY <1>0, <2>1 DEF TypeInv, TypeOK
  <2>3. \A c \in rpcs : Handover(c) => c.src # i
      BY <2>1 DEF TransferInv, Offered
  <2>4. \A c \in rpcs : c.src \in Node
      BY <1>0, CallOnNetwork
  <2>. QED  BY <2>1, <2>2, <2>3, <2>4 DEF HandoversLeft, NoNewHandover, Begins
<1>2. ASSUME NEW i \in Node, AbortTransfer(i)  PROVE HandoversLeft
  <2>1. /\ CallsOf(i, {"TimeoutNow"}) = {} /\ rpcs' = rpcs
        /\ transfer_term' = [transfer_term EXCEPT ![i] = 0]
      BY <1>2 DEF AbortTransfer
  <2>2. \A j \in Node : transfer_term'[j] = IF j = i THEN 0 ELSE transfer_term[j]
      BY <1>0, <2>1 DEF TypeInv, TypeOK
  <2>3. \A c \in rpcs : Handover(c) => c.src # i
      BY <2>1 DEF CallsOf, Handover
  <2>4. \A c \in rpcs : c.src \in Node
      BY <1>0, CallOnNetwork
  <2>. QED  BY <2>1, <2>2, <2>3, <2>4 DEF HandoversLeft, NoNewHandover, Begins
<1>3. ASSUME NEW c \in rpcs, TransferAnswered(c)  PROVE HandoversLeft
  <2>1. /\ Handover(c) /\ rpcs' = rpcs \ {c}
        /\ transfer_term' = [transfer_term EXCEPT ![c.src] = 0]
      BY <1>3 DEF TransferAnswered, Answered, Handover
  <2>2. \A j \in Node : transfer_term'[j] = IF j = c.src THEN 0 ELSE transfer_term[j]
      BY <1>0, <2>1 DEF TypeInv, TypeOK
  <2>3. \A d \in rpcs' : Handover(d) => d.src # c.src
      BY <2>1 DEF TransferInv
  <2>4. \A d \in rpcs : d.src \in Node
      BY <1>0, CallOnNetwork
  <2>. QED  BY <2>1, <2>2, <2>3, <2>4 DEF HandoversLeft, NoNewHandover, Begins
<1>. QED  BY <1>0, <1>1, <1>2, <1>3, TimeoutNowReplies DEF TransferStep

LEMMA TransferInvStep == SafetyInv /\ SafetyInv' /\ TransferInv /\ [Next]_vars => TransferInv'
<1>. SUFFICES ASSUME SafetyInv, SafetyInv', TransferInv, [Next]_vars  PROVE TransferInv'
    OBVIOUS
<1>0. TypeInv /\ Continuing /\ elected \subseteq elected'
    BY StepContinues, StepsElect DEF SafetyInv, RoleInv, ElectionInv
<1>1. CASE UNCHANGED vars
  <2>1. rpcs' = rpcs /\ transfer_term' = transfer_term
      BY <1>1 DEF vars, memory
  <2>2. HandoversLeft
      BY <2>1, CallsLeft DEF HandoversLeft
  <2>. QED  BY <1>0, <2>2, HandoversKept DEF HandoversLeft
<1>2. CASE HandoversLeft
    BY <1>0, <1>2, HandoversKept DEF HandoversLeft
<1>3. CASE TransferStep
    BY <1>0, <1>2, <1>3, TransferLeaves, ReplyKeeps, OfferMade
<1>. QED  BY <1>0, <1>1, <1>2, <1>3, ElectionLeaves, ReplicationLeaves, ClientLeaves,
             CrashLeaves, LossLeaves DEF Next

LEMMA TransferInvHolds == Spec => []TransferInv
<1>1. Init => TransferInv
    BY DEF Init, TransferInv
<1>. QED  BY <1>1, TransferInvStep, SafetyInvHolds, PTL DEF Spec

LEMMA LastTermAt ==
    ASSUME NEW C, NEW lg \in LogOf(C)
    PROVE  TermAt(lg, LastIndex(lg)) = LastTerm(lg)
<1>0. lg.entries \in Seq(EntryOf(C)) /\ lg.base \in Nat
    BY DEF LogOf
<1>1. PICK size \in Nat : size = Len(lg.entries)
    BY <1>0, LenProperties
<1>2. CASE lg.entries = <<>>
  <2>1. LastIndex(lg) = lg.base
      BY <1>0, <1>2, EmptySeq DEF LastIndex
  <2>. QED  BY <1>2, <2>1 DEF LastTerm, TermAt
<1>3. CASE lg.entries # <<>>
  <2>1. size > 0
      BY <1>0, <1>1, <1>3, EmptySeq
  <2>2. LastIndex(lg) # lg.base /\ Retains(lg, LastIndex(lg))
        /\ LastIndex(lg) - lg.base = size
      BY <1>0, <1>1, <2>1 DEF Retains, LastIndex
  <2>. QED  BY <1>1, <1>3, <2>2 DEF LastTerm, TermAt, EntryAt
<1>. QED  BY <1>2, <1>3

LEMMA TargetsCaughtUp == SafetyInv /\ TransferInv => TransferTargetCaughtUp
<1>. SUFFICES ASSUME SafetyInv, TransferInv, NEW c \in rpcs, Handover(c),
                     LeadsTransfer(c.src), NotSucceeded(c.src),
                     LastTerm(log[c.src]) = c.req.term
              PROVE  /\ LastIndex(log[c.src]) <= LastIndex(disk[c.dst].log)
                     /\ \A n \in 1..LastIndex(log[c.src]) :
                           Retains(log[c.src], n)
                           => Holds(disk[c.dst].log, n, EntryAt(log[c.src], n))
    BY DEF TransferTargetCaughtUp, Handover
<1>0. TypeInv /\ RoleInv /\ MatchIndexTruthful
    BY AcknowledgementsKept DEF SafetyInv, RoleInv, ElectionInv
<1>1. PICK i \in Node, f \in Node, last \in Nat :
          i = c.src /\ f = c.dst /\ last = LastIndex(log[i])
    BY <1>0, CallOnNetwork, NodeTypes
<1>2. /\ f # i /\ c.req.term # 0 /\ c.req.term = state[i].current_term
      /\ Leads(i) /\ i \in up /\ replication[i].match_index[f] >= last
    BY <1>1 DEF TransferInv, Offered, LeadsTransfer, Leads
<1>3. last \in Nat /\ replication[i].match_index[f] \in Nat
  <2>1. replication[i] \in ReplicationType(i)
      BY <1>0, <1>2, NodeTypes DEF Leads, ReplicationOrNone
  <2>. QED  BY <1>0, <1>1, <1>2, <2>1, NodeTypes DEF ReplicationType
<1>4. CASE last = 0
  <2>1. LastIndex(disk[f].log) \in Nat
      BY <1>0, NodeTypes, DiskFields
  <2>. QED  BY <1>1, <1>4, <2>1
<1>5. CASE last > 0
  <2>1. TermAt(log[i], last) = state[i].current_term
    <3>1. TermAt(log[i], last) = LastTerm(log[i])
        BY <1>0, <1>1, NodeTypes, LastTermAt
    <3>. QED  BY <1>1, <1>2, <3>1
  <2>2. last \in 1..replication[i].match_index[f]
      BY <1>2, <1>3, <1>5
  <2>. QED  BY <1>0, <1>1, <1>2, <2>1, <2>2 DEF MatchIndexTruthful
<1>. QED  BY <1>3, <1>4, <1>5

(* Until a later leader is elected, the target of a transfer has all of    *)
(* the log of a leader that has written in its term: transfer_leadership   *)
(* refuses writes while it runs, and match_index never overstates what the *)
(* follower has of the leader's term.                                      *)
THEOREM TransferTargetCaughtUpHolds == Spec => []TransferTargetCaughtUp
<1>. QED  BY SafetyInvHolds, TransferInvHolds, TargetsCaughtUp, PTL
=============================================================================
