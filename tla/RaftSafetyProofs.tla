-------------------------- MODULE RaftSafetyProofs --------------------------
(***************************************************************************)
(* The safety of the replicated log, for any number of nodes and any       *)
(* bounds: SafetyInv, the inductive invariant from which                   *)
(* RaftTheoremProofs draws what is stated of Raft.                         *)
(*                                                                         *)
(* None of the safety properties of Raft is inductive, nor is their        *)
(* conjunction: a node that crashes, installs a snapshot or compacts its   *)
(* log forgets what the proof needs. SafetyInv therefore says that there   *)
(* is a past that explains the state (Remembers): the log L[t] of the      *)
(* leader of every term t as it was when it was longest, the full log      *)
(* F[i] of every node i as it would be without compaction, and the         *)
(* highest index K[v][t] that node v acknowledged to the leader of term    *)
(* t. Bound relates the three: an acknowledged log stays whole until a     *)
(* later leader is elected, after that a leader's own entry is kept        *)
(* unless it is Dead (a quorum has left its term without it), and a voter  *)
(* passes what it acknowledged on to the candidate it votes for. NodeOK,   *)
(* CallOK and History tie them to the nodes, to the calls under way and    *)
(* to what was committed.                                                  *)
(*                                                                         *)
(* A step that moves from one past to the next is described by Grows;      *)
(* first come the lemmas that say which part of the invariant survives     *)
(* what kind of change, then one lemma per action.                         *)
(***************************************************************************)
EXTENDS RaftElectionProofs

-----------------------------------------------------------------------------
(* What the invariant remembers.  L[t] is the log of the leader of term t, *)
(* as long as it grew; F[i] is the full log of node i; K[v][t] is the      *)
(* highest index v acknowledged to the leader of term t.                   *)

Full == FullOf(Command)

Shadow(L, F, K) ==
    /\ L \in [Nat -> Full] /\ F \in [Node -> Full]
    /\ K \in [Node -> [Nat -> Nat]]

Led(t) == \E x \in Node : <<t, x>> \in elected

(* Every entry of f, and all before it, was in the log of the leader of    *)
(* its term.                                                               *)
Traceable(L, f) ==
    \A n \in Nat : f[n].term > 0 => Agree(f, L[f[n].term], n)

(* No gaps, and terms never decrease.                                      *)
Sorted(f) ==
    /\ f[0] = Blank
    /\ \A n \in Nat : \A m \in 1..n :
          f[n].term > 0 => 0 < f[m].term /\ f[m].term <= f[n].term

LeaderLog(L, t) ==
    /\ Sorted(L[t]) /\ Traceable(L, L[t])
    /\ \A n \in Nat : L[t][n].term <= t
    /\ (\E n \in Nat : L[t][n] # Blank) => Led(t)

LeaderLogs(L) == \A t \in Nat : LeaderLog(L, t)

(* A quorum acknowledged the leader of term s up to its own entry at n.    *)
Chosen(L, K, s, n) ==
    /\ s > 0 /\ L[s][n].term = s
    /\ \E Q \in Quorum : \A v \in Q : K[v][s] >= n

(* A quorum has left term t without having acknowledged n to its leader:   *)
(* the entry at n can no longer be chosen.                                 *)
Dead(K, t, n) ==
    \E Q \in Quorum : \A w \in Q : state[w].current_term > t /\ K[w][t] < n

(* Nothing is acknowledged beyond the leader's log or ahead of time.       *)
AcksTrue(L, K) ==
    \A v \in Node, t \in Nat :
        K[v][t] > 0 => L[t][K[v][t]].term > 0 /\ state[v].current_term >= t

(* An acknowledged log stays whole until a later leader is elected.        *)
AcksHere(L, F, K) ==
    \A v \in Node, t \in Nat :
        (\A e \in elected : e[1] <= t) => Agree(F[v], L[t], K[v][t])

(* After that, a leader's own entry stays unless it can not be chosen.     *)
AcksKept(L, F, K) ==
    \A v \in Node, t \in Nat, n \in Nat :
        t > 0 /\ n <= K[v][t] /\ L[t][n].term = t
        => F[v][n].term = t \/ Dead(K, t, n)

LeadersKeep(L, K) ==
    \A e \in elected, t \in Nat, n \in Nat :
        0 < t /\ t < e[1] /\ L[t][n].term = t
        => L[e[1]][n].term = t \/ Dead(K, t, n)

(* x has all that v acknowledged to leaders before term s.                 *)
Covered(L, F, K, v, x, s) ==
    \A t \in Nat, n \in Nat :
        0 < t /\ t < s /\ n <= K[v][t] /\ L[t][n].term = t
        => F[x][n].term = t \/ Dead(K, t, n)

VotersCovered(L, F, K) ==
    \A v, x \in Node, s \in Nat :
        state[x].role = Candidate /\ state[x].current_term = s /\ Evidence(v, s, x)
        => Covered(L, F, K, v, x, s)

(* No election before term u can still be won by i.                        *)
Barred(i, u) ==
    \E Q \in Quorum : \A v \in Q :
        /\ state[v].current_term >= u
        /\ \A w \in Nat : w < u => ~Evidence(v, w, i)

(* A crash can leave entries on disk of a term the node has not reached.   *)
AheadBarred(F) ==
    \A i \in Node, n \in Nat :
        F[i][n].term > state[i].current_term => Barred(i, F[i][n].term)

Bound(L, F, K) ==
    /\ LeaderLogs(L) /\ \A i \in Node : Traceable(L, F[i])
    /\ AcksTrue(L, K) /\ AcksHere(L, F, K) /\ AcksKept(L, F, K)
    /\ LeadersKeep(L, K) /\ VotersCovered(L, F, K) /\ AheadBarred(F)

-----------------------------------------------------------------------------
(* Full logs.                                                              *)

LEMMA FullFacts ==
    ASSUME NEW f \in Full, NEW n \in Nat
    PROVE  /\ f[n].term \in Nat
           /\ f[n].term = 0 <=> f[n] = Blank
           /\ ~(f[n].term > 0) <=> f[n] = Blank
<1>1. f[n].term \in Nat /\ (f[n].term = 0 <=> f[n] = Blank)
    BY CellFacts DEF Full
<1>. QED  BY <1>1

LEMMA ShadowFacts ==
    ASSUME NEW L, NEW F, NEW K, Shadow(L, F, K),
           NEW i \in Node, NEW t \in Nat
    PROVE  L[t] \in Full /\ F[i] \in Full /\ K[i][t] \in Nat
<1>. QED  BY DEF Shadow

LEMMA TraceableSorted ==
    ASSUME NEW L \in [Nat -> Full], LeaderLogs(L), NEW f \in Full, Traceable(L, f)
    PROVE  Sorted(f)
<1>1. ASSUME NEW n \in Nat, f[n].term > 0
      PROVE  /\ f[n].term \in Nat /\ Agree(f, L[f[n].term], n)
             /\ Sorted(L[f[n].term])
    BY <1>1, FullFacts DEF Traceable, LeaderLogs, LeaderLog
<1>2. f[0] = Blank
  <2>1. CASE f[0].term > 0
    <3>1. f[0] = L[f[0].term][0] /\ L[f[0].term][0] = Blank
        BY <1>1, <2>1 DEF Agree, Sorted
    <3>. QED  BY <3>1
  <2>. QED  BY <2>1, FullFacts
<1>3. ASSUME NEW n \in Nat, NEW m \in 1..n, f[n].term > 0
      PROVE  0 < f[m].term /\ f[m].term <= f[n].term
  <2>. DEFINE g == L[f[n].term]
  <2>1. Agree(f, g, n) /\ Sorted(g)
      BY <1>1, <1>3
  <2>. HIDE DEF g
  <2>2. f[n] = g[n] /\ f[m] = g[m]
      BY <2>1 DEF Agree
  <2>. QED  BY <1>3, <2>1, <2>2 DEF Sorted
<1>. QED  BY <1>2, <1>3 DEF Sorted

LEMMA TraceableMatches ==
    ASSUME NEW L, NEW f \in Full, NEW h \in Full, Traceable(L, f), Traceable(L, h)
    PROVE  Matches(f, h)
<1>1. ASSUME NEW n \in Nat, f[n].term > 0, f[n].term = h[n].term
      PROVE  Agree(f, h, n)
  <2>1. Agree(f, L[f[n].term], n) /\ Agree(h, L[f[n].term], n)
      BY <1>1 DEF Traceable
  <2>. QED  BY <2>1 DEF Agree
<1>. QED  BY <1>1 DEF Matches

LEMMA CutTraceable ==
    ASSUME NEW L, NEW h \in Full, Traceable(L, h), NEW k \in Nat
    PROVE  Traceable(L, Cut(h, k)) /\ Cut(h, k) \in Full
<1>1. /\ Cut(h, k) \in Full
      /\ \A n \in Nat : Cut(h, k)[n] = IF n <= k THEN h[n] ELSE Blank
    BY CutType DEF Full
<1>2. ASSUME NEW n \in Nat, Cut(h, k)[n].term > 0
      PROVE  Agree(Cut(h, k), L[Cut(h, k)[n].term], n)
  <2>1. n <= k /\ Cut(h, k)[n] = h[n]
      BY <1>1, <1>2 DEF Blank
  <2>2. Agree(h, L[h[n].term], n)
      BY <1>2, <2>1 DEF Traceable
  <2>. QED  BY <1>1, <2>1, <2>2 DEF Agree
<1>. QED  BY <1>1, <1>2 DEF Traceable

LEMMA SortedStart ==
    ASSUME NEW f \in Full, Sorted(f), NEW n \in Nat, f[n].term > 0
    PROVE  n > 0 /\ \A m \in 1..n : f[m].term > 0
<1>1. f[0].term = 0
    BY DEF Sorted, Blank
<1>. QED  BY <1>1 DEF Sorted

-----------------------------------------------------------------------------
(* What a step may do to what is remembered.                               *)

Moves == RoleInv /\ RoleInv' /\ Lawful /\ elected \subseteq elected'

LogsGrow(L, L2) == \A t, n \in Nat : L[t][n].term > 0 => L2[t][n] = L[t][n]

(* A node acknowledges what it has, in its term.                           *)
AcksGrow(K, L2, F2, K2) ==
    \A v \in Node, t \in Nat :
        /\ K2[v][t] >= K[v][t]
        /\ K2[v][t] # K[v][t] => /\ state'[v].current_term = t
                                 /\ L2[t][K2[v][t]].term > 0
                                 /\ Agree(F2[v], L2[t], K2[v][t])

Longer(f, g) == \A n \in Nat : f[n].term > 0 => g[n] = f[n]

(* v takes over the log of the leader of term u up to k, from a request or *)
(* from a boundary that was chosen.                                        *)
Replaced(L, F, K, F2, v, u, k) ==
    /\ F2[v] = Cut(L[u], k) /\ Replaces(F[v], L[u], k)
    /\ state'[v].role = Follower
    /\ \/ Led(u) /\ state[v].current_term <= u
       \/ Chosen(L, K, u, k) /\ F[v][k].term # u
    /\ \/ u <= state'[v].current_term
       \/ \A y \in Node, w \in Nat : ~Evidence(y, w, v)'

Carried(L, F, K, F2, v) ==
    \/ Longer(F[v], F2[v])
    \/ \E u, k \in Nat : Replaced(L, F, K, F2, v, u, k)

LEMMA TermsGrow ==
    ASSUME Moves, NEW v \in Node
    PROVE  /\ state[v].current_term \in Nat /\ state'[v].current_term \in Nat
           /\ state'[v].current_term >= state[v].current_term
<1>1. state[v] \in StateType /\ state'[v] \in StateType
    BY DEF Moves, RoleInv, ElectionInv, TypeInv, TypeOK
<1>. QED  BY <1>1 DEF Moves, Lawful, Sticks, StateType

LEMMA ElectedGrows ==
    ASSUME Moves, NEW e \in elected
    PROVE  e[1] \in Nat /\ e[1] > 0 /\ e[2] \in Node /\ e = <<e[1], e[2]>>
<1>1. e \in Nat \X Node
    BY DEF Moves, RoleInv, ElectionInv, TypeInv, TypeOK
<1>. QED  BY <1>1 DEF Moves, RoleInv, ElectedPast

(* Behind every leader there ever was stands a quorum in its term or a     *)
(* later one.                                                              *)
LEMMA LeadersBacked ==
    ASSUME RoleInv, NEW e \in elected
    PROVE  /\ e[1] \in Nat /\ e[1] > 0 /\ e[2] \in Node
           /\ \E Q \in Quorum : \A v \in Q : state[v].current_term >= e[1]
<1>1. e \in Nat \X Node /\ e[1] > 0
    BY DEF RoleInv, ElectionInv, TypeInv, TypeOK, ElectedPast
<1>2. PICK Q \in Quorum : Backs(Q, e[1], e[2])
    BY DEF RoleInv, ElectionInv, ElectedBacked
<1>3. \A v \in Q : state[v] \in StateType
    BY DEF Quorum, RoleInv, ElectionInv, TypeInv, TypeOK
<1>4. \A v \in Q : state[v].current_term >= e[1]
    BY <1>1, <1>2, <1>3 DEF Backs, Supports, StateType
<1>. QED  BY <1>1, <1>4

LEMMA ChosenStays ==
    ASSUME NEW L, NEW F, NEW K, Shadow(L, F, K), NEW L2, NEW F2, NEW K2,
           Shadow(L2, F2, K2), LogsGrow(L, L2), AcksGrow(K, L2, F2, K2),
           NEW s \in Nat, NEW n \in Nat, Chosen(L, K, s, n)
    PROVE  Chosen(L2, K2, s, n)
<1>1. L2[s][n].term = s
    BY DEF LogsGrow, Chosen
<1>2. PICK Q \in Quorum : \A v \in Q : K[v][s] >= n
    BY DEF Chosen
<1>3. \A v \in Q : K2[v][s] >= n
  <2>1. ASSUME NEW v \in Q
        PROVE  K2[v][s] >= n
    <3>1. v \in Node
        BY DEF Quorum
    <3>2. K[v][s] \in Nat /\ K2[v][s] \in Nat /\ K2[v][s] >= K[v][s]
        BY <3>1, ShadowFacts DEF AcksGrow
    <3>. QED  BY <1>2, <3>2
  <2>. QED  BY <2>1
<1>. QED  BY <1>1, <1>3 DEF Chosen

LEMMA DeadStays ==
    ASSUME Moves, NEW K, NEW L2, NEW F2, NEW K2, AcksGrow(K, L2, F2, K2),
           NEW t \in Nat, NEW n \in Nat, Dead(K, t, n)
    PROVE  Dead(K2, t, n)'
<1>1. PICK Q \in Quorum : \A w \in Q : state[w].current_term > t /\ K[w][t] < n
    BY DEF Dead
<1>2. ASSUME NEW w \in Q
      PROVE  state'[w].current_term > t /\ K2[w][t] < n
  <2>1. w \in Node
      BY DEF Quorum
  <2>2. state'[w].current_term > t
      BY <1>1, <2>1, TermsGrow
  <2>3. K2[w][t] = K[w][t]
      BY <2>1, <2>2, TermsGrow DEF AcksGrow
  <2>. QED  BY <1>1, <2>2, <2>3
<1>. QED  BY <1>2 DEF Dead

LEMMA ChosenNotDead ==
    ASSUME NEW L, NEW F, NEW K, Shadow(L, F, K), NEW s \in Nat, NEW n \in Nat,
           Chosen(L, K, s, n)
    PROVE  ~Dead(K, s, n)
<1>1. SUFFICES ASSUME Dead(K, s, n)  PROVE FALSE
    OBVIOUS
<1>2. PICK P \in Quorum : \A v \in P : K[v][s] >= n
    BY DEF Chosen
<1>3. PICK Q \in Quorum : \A w \in Q : K[w][s] < n
    BY <1>1 DEF Dead
<1>4. PICK v \in P \cap Q : v \in Node
    BY QuorumsIntersect
<1>. QED  BY <1>2, <1>3, <1>4, ShadowFacts

(* A leader of a later term has what was chosen.                           *)
LEMMA ChosenKept ==
    ASSUME NEW L, NEW F, NEW K, Shadow(L, F, K), LeaderLogs(L), LeadersKeep(L, K),
           NEW s \in Nat, NEW n \in Nat, Chosen(L, K, s, n),
           NEW t \in Nat, Led(t), s <= t
    PROVE  L[t][n].term = s /\ Agree(L[t], L[s], n)
<1>1. L[t][n].term = s
  <2>1. CASE s = t
      BY <2>1 DEF Chosen
  <2>2. CASE s # t
    <3>1. PICK x \in Node : <<t, x>> \in elected
        BY DEF Led
    <3>2. <<t, x>>[1] = t /\ s < t /\ 0 < s /\ L[s][n].term = s
        BY <2>2 DEF Chosen
    <3>3. L[t][n].term = s \/ Dead(K, s, n)
        BY <3>1, <3>2 DEF LeadersKeep
    <3>. QED  BY <3>3, ChosenNotDead
  <2>. QED  BY <2>1, <2>2
<1>2. Agree(L[t], L[s], n)
    BY <1>1 DEF LeaderLogs, LeaderLog, Traceable, Chosen
<1>. QED  BY <1>1, <1>2

-----------------------------------------------------------------------------
(* What the acknowledgements say is kept.                                  *)

LEMMA AckedCell ==
    ASSUME NEW L, NEW F, NEW K, Shadow(L, F, K), LeaderLogs(L), AcksTrue(L, K),
           NEW v \in Node, NEW t \in Nat, NEW m \in Nat, 0 < m, m <= K[v][t]
    PROVE  L[t][m].term > 0 /\ Led(t) /\ state[v].current_term >= t
<1>1. K[v][t] \in Nat /\ K[v][t] > 0 /\ L[t] \in Full
    BY ShadowFacts
<1>2. L[t][K[v][t]].term > 0 /\ state[v].current_term >= t
    BY <1>1 DEF AcksTrue
<1>3. L[t][m].term > 0
    BY <1>1, <1>2 DEF LeaderLogs, LeaderLog, Sorted
<1>4. L[t][m] # Blank
    BY <1>3 DEF Blank
<1>. QED  BY <1>2, <1>3, <1>4 DEF LeaderLogs, LeaderLog

LEMMA AcksTrueKept ==
    ASSUME Moves, NEW L, NEW F, NEW K, Shadow(L, F, K),
           NEW L2, NEW F2, NEW K2, Shadow(L2, F2, K2),
           LogsGrow(L, L2), AcksGrow(K, L2, F2, K2), AcksTrue(L, K)
    PROVE  AcksTrue(L2, K2)'
<1>1. ASSUME NEW v \in Node, NEW t \in Nat, K2[v][t] > 0
      PROVE  L2[t][K2[v][t]].term > 0 /\ state'[v].current_term >= t
  <2>1. CASE K2[v][t] = K[v][t]
    <3>1. K[v][t] \in Nat /\ L[t][K[v][t]].term > 0 /\ state[v].current_term >= t
        BY <1>1, <2>1, ShadowFacts DEF AcksTrue
    <3>2. L2[t][K[v][t]] = L[t][K[v][t]]
        BY <3>1 DEF LogsGrow
    <3>. QED  BY <2>1, <3>1, <3>2, TermsGrow
  <2>2. CASE K2[v][t] # K[v][t]
      BY <2>2, TermsGrow DEF AcksGrow
  <2>. QED  BY <2>1, <2>2
<1>. QED  BY <1>1 DEF AcksTrue

(* What a node that acknowledged an index keeps when its log is replaced.  *)
LEMMA AcksCovered ==
    ASSUME Moves, NEW L, NEW F, NEW K, Shadow(L, F, K), LeaderLogs(L),
           AcksTrue(L, K), LeadersKeep(L, K),
           NEW F2, NEW v \in Node, NEW u \in Nat, NEW k \in Nat,
           Replaced(L, F, K, F2, v, u, k), F[v] \in Full, Traceable(L, F[v]),
           NEW t \in Nat, NEW n \in Nat, 0 < n, n <= K[v][t],
           Agree(F[v], L[t], n)
    PROVE  \/ t <= u /\ (Agree(F[v], L[u], n) => n <= k)
           \/ /\ u < t /\ n < k /\ Agree(L[t], L[u], n)
<1>1. L[t][n].term > 0 /\ Led(t) /\ state[v].current_term >= t
    BY AckedCell
<1>2. F[v][n].term > 0
    BY <1>1 DEF Agree
<1>3. CASE t <= u
    BY <1>2, <1>3 DEF Replaced, Replaces
<1>4. CASE ~(t <= u)
  <2>1. Chosen(L, K, u, k) /\ F[v][k].term # u
      BY <1>1, <1>4, TermsGrow DEF Replaced
  <2>2. L[t][k].term = u /\ Agree(L[t], L[u], k)
      BY <1>1, <1>4, <2>1, ChosenKept
  <2>3. n < k
      BY <2>1, <2>2 DEF Agree
  <2>. QED  BY <1>4, <2>2, <2>3 DEF Agree
<1>. QED  BY <1>3, <1>4

LEMMA AcksHereKept ==
    ASSUME Moves, NEW L, NEW F, NEW K, Shadow(L, F, K), Bound(L, F, K),
           NEW L2, NEW F2, NEW K2, Shadow(L2, F2, K2), LeaderLogs(L2)',
           LogsGrow(L, L2), AcksGrow(K, L2, F2, K2),
           \A v \in Node : Carried(L, F, K, F2, v),
           \A v \in Node : F2[v][0] = Blank
    PROVE  AcksHere(L2, F2, K2)'
<1>0. /\ LeaderLogs(L) /\ AcksTrue(L, K) /\ LeadersKeep(L, K)
      /\ \A i \in Node : Traceable(L, F[i])
    BY DEF Bound
<1>1. ASSUME NEW v \in Node, NEW t \in Nat, \A e \in elected' : e[1] <= t,
             NEW m \in 0..K2[v][t]
      PROVE  F2[v][m] = L2[t][m]
  <2>0. m \in Nat /\ K[v][t] \in Nat /\ K2[v][t] \in Nat /\ F[v] \in Full
      BY ShadowFacts
  <2>1. CASE K2[v][t] # K[v][t]
      BY <2>1 DEF AcksGrow, Agree
  <2>2. CASE m = 0
      BY <2>2 DEF LeaderLogs, LeaderLog, Sorted
  <2>3. CASE K2[v][t] = K[v][t] /\ m > 0
    <3>1. \A e \in elected : e[1] <= t
      <4>1. elected \subseteq elected'
          BY DEF Moves
      <4>. QED  BY <1>1, <4>1
    <3>2. Agree(F[v], L[t], K[v][t]) /\ m <= K[v][t]
        BY <2>0, <2>3, <3>1 DEF Bound, AcksHere
    <3>3. L[t][m].term > 0 /\ Led(t) /\ F[v][m] = L[t][m]
        BY <1>0, <2>0, <2>3, <3>2, AckedCell DEF Agree
    <3>4. L2[t][m] = L[t][m]
        BY <2>0, <3>3 DEF LogsGrow
    <3>5. CASE Longer(F[v], F2[v])
        BY <2>0, <3>3, <3>4, <3>5 DEF Longer
    <3>6. ASSUME NEW u \in Nat, NEW k \in Nat, Replaced(L, F, K, F2, v, u, k)
          PROVE  F2[v][m] = L2[t][m]
      <4>1. Agree(F[v], L[t], m)
          BY <3>2, <2>0 DEF Agree
      <4>2. \/ t <= u /\ (Agree(F[v], L[u], m) => m <= k)
            \/ u < t /\ m < k /\ Agree(L[t], L[u], m)
          BY <1>0, <2>0, <2>3, <3>2, <3>6, <4>1, AcksCovered
      <4>3. m <= k => F2[v][m] = L[u][m]
          BY <2>0, <3>6, ShadowFacts, CutType DEF Replaced, Full
      <4>4. CASE u < t /\ m < k /\ Agree(L[t], L[u], m)
        <5>1. L[t][m] = L[u][m]
            BY <2>0, <4>4 DEF Agree
        <5>. QED  BY <2>0, <3>4, <4>3, <4>4, <5>1
      <4>5. CASE t <= u /\ (Agree(F[v], L[u], m) => m <= k)
        <5>1. Led(u)
          <6>1. CASE Led(u)
              BY <6>1
          <6>2. CASE Chosen(L, K, u, k)
            <7>1. L[u][k] # Blank
                BY <6>2 DEF Chosen, Blank
            <7>. QED  BY <1>0, <7>1 DEF LeaderLogs, LeaderLog
          <6>. QED  BY <3>6, <6>1, <6>2 DEF Replaced
        <5>2. u <= t
          <6>1. PICK x \in Node : <<u, x>> \in elected
              BY <5>1 DEF Led
          <6>. QED  BY <3>1, <6>1
        <5>3. u = t
            BY <4>5, <5>2
        <5>. QED  BY <2>0, <3>4, <4>1, <4>3, <4>5, <5>3
      <4>. QED  BY <4>2, <4>4, <4>5
    <3>. QED  BY <3>5, <3>6 DEF Carried
  <2>. QED  BY <2>0, <2>1, <2>2, <2>3
<1>. QED  BY <1>1 DEF AcksHere, Agree

LEMMA AcksKeptKept ==
    ASSUME Moves, NEW L, NEW F, NEW K, Shadow(L, F, K), Bound(L, F, K),
           NEW L2, NEW F2, NEW K2, Shadow(L2, F2, K2), LeaderLogs(L2)',
           LogsGrow(L, L2), AcksGrow(K, L2, F2, K2),
           \A v \in Node : Carried(L, F, K, F2, v)
    PROVE  AcksKept(L2, F2, K2)'
<1>0. /\ LeaderLogs(L) /\ AcksTrue(L, K) /\ LeadersKeep(L, K)
      /\ \A i \in Node : Traceable(L, F[i])
    BY DEF Bound
<1>1. ASSUME NEW v \in Node, NEW t \in Nat, NEW n \in Nat,
             t > 0, n <= K2[v][t], L2[t][n].term = t
      PROVE  F2[v][n].term = t \/ Dead(K2, t, n)'
  <2>0. K[v][t] \in Nat /\ K2[v][t] \in Nat /\ F[v] \in Full /\ n > 0
      BY <1>1, ShadowFacts, SortedStart DEF LeaderLogs, LeaderLog
  <2>1. CASE K2[v][t] # K[v][t]
    <3>1. F2[v][n] = L2[t][n]
        BY <1>1, <2>0, <2>1 DEF AcksGrow, Agree
    <3>. QED  BY <1>1, <3>1
  <2>2. CASE K2[v][t] = K[v][t]
    <3>1. L[t][n].term > 0 /\ Led(t) /\ state[v].current_term >= t
        BY <1>0, <1>1, <2>0, <2>2, AckedCell
    <3>2. L[t][n].term = t
        BY <1>1, <3>1 DEF LogsGrow
    <3>3. F[v][n].term = t \/ Dead(K, t, n)
        BY <1>1, <2>2, <3>2 DEF Bound, AcksKept
    <3>4. Dead(K, t, n) => Dead(K2, t, n)'
        BY DeadStays
    <3>5. ASSUME F[v][n].term = t  PROVE F2[v][n].term = t \/ Dead(K2, t, n)'
      <4>1. Agree(F[v], L[t], n)
          BY <1>0, <1>1, <3>5 DEF Traceable
      <4>2. CASE Longer(F[v], F2[v])
          BY <1>1, <3>5, <4>2 DEF Longer
      <4>3. ASSUME NEW u \in Nat, NEW k \in Nat, Replaced(L, F, K, F2, v, u, k)
            PROVE  F2[v][n].term = t \/ Dead(K2, t, n)'
        <5>1. \/ t <= u /\ (Agree(F[v], L[u], n) => n <= k)
              \/ u < t /\ n < k /\ Agree(L[t], L[u], n)
            BY <1>0, <1>1, <2>0, <2>2, <4>1, <4>3, AcksCovered
        <5>2. n <= k => F2[v][n] = L[u][n]
            BY <4>3, ShadowFacts, CutType DEF Replaced, Full
        <5>3. CASE u < t /\ n < k /\ Agree(L[t], L[u], n)
            BY <3>2, <5>2, <5>3 DEF Agree
        <5>4. CASE t = u /\ (Agree(F[v], L[u], n) => n <= k)
            BY <3>2, <4>1, <5>2, <5>4
        <5>5. CASE t < u /\ (Agree(F[v], L[u], n) => n <= k)
          <6>1. Led(u)
            <7>1. CASE Led(u)
                BY <7>1
            <7>2. CASE Chosen(L, K, u, k)
              <8>1. L[u][k] # Blank
                  BY <7>2 DEF Chosen, Blank
              <8>. QED  BY <1>0, <8>1 DEF LeaderLogs, LeaderLog
            <7>. QED  BY <4>3, <7>1, <7>2 DEF Replaced
          <6>2. PICK x \in Node : <<u, x>> \in elected
              BY <6>1 DEF Led
          <6>3. L[u][n].term = t \/ Dead(K, t, n)
            <7>1. <<u, x>>[1] = u
                OBVIOUS
            <7>. QED  BY <1>0, <1>1, <3>2, <5>5, <6>2, <7>1 DEF LeadersKeep
          <6>4. CASE L[u][n].term = t
            <7>1. Agree(L[u], L[t], n)
                BY <1>0, <1>1, <6>4 DEF LeaderLogs, LeaderLog, Traceable
            <7>2. Agree(F[v], L[u], n)
                BY <4>1, <7>1 DEF Agree
            <7>. QED  BY <5>2, <5>5, <6>4, <7>2
          <6>. QED  BY <3>4, <6>3, <6>4
        <5>. QED  BY <5>1, <5>3, <5>4, <5>5
      <4>. QED  BY <4>2, <4>3 DEF Carried
    <3>. QED  BY <3>3, <3>4, <3>5
  <2>. QED  BY <2>1, <2>2
<1>. QED  BY <1>1 DEF AcksKept

-----------------------------------------------------------------------------
(* Leaders and candidates.                                                 *)

(* A new leader starts from its own log and was voted for by a quorum that *)
(* it covers.                                                              *)
Wins(L, F, K, L2, e) ==
    /\ L2[e[1]] = F[e[2]]
    /\ \E Q \in Quorum : \A v \in Q :
          /\ state'[v].current_term >= e[1]
          /\ Covered(L, F, K, v, e[2], e[1])

(* A vote is only counted by a candidate that covers the voter.            *)
Polled(L, F, K, F2) ==
    \A v, x \in Node, s \in Nat :
        state'[x].role = Candidate /\ state'[x].current_term = s /\ Evidence(v, s, x)'
        => Longer(F[x], F2[x]) /\ Covered(L, F, K, v, x, s)

(* What an acknowledgement covers was there before, unless the node is in  *)
(* that term now.                                                          *)
LEMMA AckedBefore ==
    ASSUME Moves, NEW L, NEW F, NEW K, Shadow(L, F, K), LeaderLogs(L), AcksTrue(L, K),
           NEW L2, NEW F2, NEW K2, AcksGrow(K, L2, F2, K2), LogsGrow(L, L2),
           NEW v \in Node, NEW t \in Nat, NEW n \in Nat, 0 < n,
           n <= K2[v][t], state'[v].current_term # t
    PROVE  n <= K[v][t] /\ L[t][n].term > 0 /\ L2[t][n] = L[t][n]
<1>1. K2[v][t] = K[v][t]
    BY DEF AcksGrow
<1>2. L[t][n].term > 0
    BY <1>1, AckedCell
<1>. QED  BY <1>1, <1>2 DEF LogsGrow

LEMMA LeadersKeepKept ==
    ASSUME Moves, NEW L, NEW F, NEW K, Shadow(L, F, K), Bound(L, F, K),
           NEW L2, NEW F2, NEW K2, Shadow(L2, F2, K2), LeaderLogs(L2)',
           LogsGrow(L, L2), AcksGrow(K, L2, F2, K2),
           \A e \in elected' \ elected : Wins(L, F, K, L2, e)
    PROVE  LeadersKeep(L2, K2)'
<1>0. LeaderLogs(L) /\ AcksTrue(L, K) /\ LeadersKeep(L, K)
    BY DEF Bound
<1>1. ASSUME NEW e \in elected', NEW t \in Nat, NEW n \in Nat,
             0 < t, t < e[1], L2[t][n].term = t
      PROVE  L2[e[1]][n].term = t \/ Dead(K2, t, n)'
  <2>1. /\ e[1] \in Nat /\ e[1] > 0 /\ e[2] \in Node
        /\ \E Q \in Quorum : \A v \in Q : state'[v].current_term >= e[1]
    <3>1. e \in Nat \X Node /\ e[1] > 0
        BY DEF Moves, RoleInv, ElectionInv, TypeInv, TypeOK, ElectedPast
    <3>2. PICK Q \in Quorum : Backs(Q, e[1], e[2])'
        BY DEF Moves, RoleInv, ElectionInv, ElectedBacked
    <3>3. \A v \in Q : v \in Node
        BY DEF Quorum
    <3>4. \A v \in Q : state'[v].current_term >= e[1]
        BY <3>1, <3>2, <3>3, TermsGrow DEF Backs, Supports
    <3>. QED  BY <3>1, <3>4
  <2>2. n > 0
      BY <1>1, SortedStart, ShadowFacts DEF LeaderLogs, LeaderLog, Shadow
  <2>3. ASSUME NEW Q \in Quorum,
               \A v \in Q : state'[v].current_term >= e[1] /\ ~(n <= K[v][t])
        PROVE  Dead(K2, t, n)'
    <3>1. ASSUME NEW v \in Q
          PROVE  state'[v].current_term > t /\ K2[v][t] < n
      <4>1. v \in Node
          BY DEF Quorum
      <4>2. state'[v].current_term > t
          BY <1>1, <2>1, <2>3, <4>1, TermsGrow
      <4>3. K2[v][t] = K[v][t] /\ K[v][t] \in Nat
          BY <4>1, <4>2, TermsGrow, ShadowFacts DEF AcksGrow
      <4>. QED  BY <2>3, <4>2, <4>3
    <3>. QED  BY <3>1 DEF Dead
  <2>4. CASE ~(L[t][n].term > 0)
    <3>1. PICK Q \in Quorum : \A v \in Q : state'[v].current_term >= e[1]
        BY <2>1
    <3>2. ASSUME NEW v \in Q, n <= K[v][t]
          PROVE  FALSE
      <4>1. v \in Node
          BY DEF Quorum
      <4>. QED  BY <1>0, <2>2, <2>4, <3>2, <4>1, AckedCell
    <3>. QED  BY <2>3, <3>1, <3>2
  <2>5. CASE L[t][n].term > 0 /\ e \in elected
    <3>1. L[t][n].term = t
        BY <1>1, <2>5 DEF LogsGrow
    <3>2. L[e[1]][n].term = t \/ Dead(K, t, n)
        BY <1>0, <1>1, <2>5, <3>1 DEF LeadersKeep
    <3>3. L[e[1]][n].term = t => L2[e[1]][n].term = t
        BY <1>1, <2>1 DEF LogsGrow
    <3>. QED  BY <3>2, <3>3, DeadStays
  <2>6. CASE L[t][n].term > 0 /\ e \notin elected
    <3>1. L[t][n].term = t
        BY <1>1, <2>6 DEF LogsGrow
    <3>2. Wins(L, F, K, L2, e)
        BY <2>6
    <3>3. PICK Q \in Quorum : \A v \in Q :
             /\ state'[v].current_term >= e[1]
             /\ Covered(L, F, K, v, e[2], e[1])
        BY <3>2 DEF Wins
    <3>4. CASE \A v \in Q : ~(n <= K[v][t])
        BY <2>3, <3>3, <3>4
    <3>5. CASE \E v \in Q : n <= K[v][t]
      <4>1. F[e[2]][n].term = t \/ Dead(K, t, n)
          BY <1>1, <3>1, <3>3, <3>5 DEF Covered
      <4>. QED  BY <3>2, <4>1, DeadStays DEF Wins
    <3>. QED  BY <3>4, <3>5
  <2>. QED  BY <2>4, <2>5, <2>6
<1>. QED  BY <1>1 DEF LeadersKeep

LEMMA VotersCoveredKept ==
    ASSUME Moves, NEW L, NEW F, NEW K, Shadow(L, F, K), Bound(L, F, K),
           NEW L2, NEW F2, NEW K2, Shadow(L2, F2, K2), LeaderLogs(L2)',
           LogsGrow(L, L2), AcksGrow(K, L2, F2, K2), Polled(L, F, K, F2)
    PROVE  VotersCovered(L2, F2, K2)'
<1>0. LeaderLogs(L) /\ AcksTrue(L, K)
    BY DEF Bound
<1>1. ASSUME NEW v \in Node, NEW x \in Node, NEW s \in Nat, state'[x].role = Candidate,
             state'[x].current_term = s, Evidence(v, s, x)',
             NEW t \in Nat, NEW n \in Nat, 0 < t, t < s,
             n <= K2[v][t], L2[t][n].term = t
      PROVE  F2[x][n].term = t \/ Dead(K2, t, n)'
  <2>1. Longer(F[x], F2[x]) /\ Covered(L, F, K, v, x, s)
      BY <1>1 DEF Polled
  <2>2. state'[v].current_term >= s
    <3>1. Supports(v, s, x)'
        BY <1>1 DEF Moves, RoleInv, ElectionInv, EvidenceSupported
    <3>. QED  BY <3>1, TermsGrow DEF Supports
  <2>3. n > 0
      BY <1>1, SortedStart, ShadowFacts DEF LeaderLogs, LeaderLog, Shadow
  <2>4. n <= K[v][t] /\ L2[t][n] = L[t][n]
      BY <1>0, <1>1, <2>2, <2>3, TermsGrow, AckedBefore
  <2>5. F[x][n].term = t \/ Dead(K, t, n)
      BY <1>1, <2>1, <2>4 DEF Covered
  <2>6. F[x][n].term = t => F2[x][n].term = t
      BY <1>1, <2>1 DEF Longer
  <2>. QED  BY <2>5, <2>6, DeadStays
<1>2. ASSUME NEW v \in Node, NEW x \in Node, NEW s \in Nat, state'[x].role = Candidate,
             state'[x].current_term = s, Evidence(v, s, x)'
      PROVE  Covered(L2, F2, K2, v, x, s)'
    BY <1>1, <1>2 DEF Covered
<1>. QED  BY <1>2 DEF VotersCovered

(* The terms of a new entry on disk are those of the node or of a leader.  *)
LEMMA AheadBarredKept ==
    ASSUME Moves, NEW L, NEW F, NEW K, Shadow(L, F, K), Bound(L, F, K),
           NEW F2, F2 \in [Node -> Full],
           \A v \in Node : \/ \A n \in Nat : \/ F2[v][n] = F[v][n]
                                             \/ F2[v][n].term <= state'[v].current_term
                           \/ \E u, k \in Nat : Replaced(L, F, K, F2, v, u, k)
    PROVE  AheadBarred(F2)'
<1>0. LeaderLogs(L) /\ AcksTrue(L, K) /\ AheadBarred(F)
    BY DEF Bound
<1>1. ASSUME NEW i \in Node, NEW n \in Nat, F2[i][n].term > state'[i].current_term
      PROVE  Barred(i, F2[i][n].term)'
  <2>. DEFINE u == F2[i][n].term
  <2>0. u \in Nat
      BY FullFacts
  <2>. HIDE DEF u
  <2>1. CASE F2[i][n] = F[i][n]
    <3>1. Barred(i, u)
        BY <1>0, <1>1, <2>0, <2>1, TermsGrow DEF AheadBarred, u
    <3>2. PICK Q \in Quorum : \A v \in Q :
             state[v].current_term >= u /\ \A w \in Nat : w < u => ~Evidence(v, w, i)
        BY <3>1 DEF Barred
    <3>3. ASSUME NEW v \in Q
          PROVE  state'[v].current_term >= u /\ \A w \in Nat : w < u => ~Evidence(v, w, i)'
      <4>1. v \in Node
          BY DEF Quorum
      <4>2. state'[v].current_term >= u
          BY <2>0, <3>2, <4>1, TermsGrow
      <4>3. ASSUME NEW w \in Nat, w < u, Evidence(v, w, i)'
            PROVE  FALSE
        <5>1. NewVote(v, w, i)
            BY <3>2, <4>1, <4>3 DEF Moves, Lawful
        <5>. QED  BY <2>0, <4>1, <4>2, <4>3, <5>1, TermsGrow DEF NewVote
      <4>. QED  BY <4>2, <4>3
    <3>. QED  BY <3>3 DEF Barred, u
  <2>2. ASSUME NEW s \in Nat, NEW k \in Nat, Replaced(L, F, K, F2, i, s, k)
        PROVE  Barred(i, u)'
    <3>1. F2[i][n] # Blank
        BY <1>1, TermsGrow DEF Blank
    <3>2. F2[i][n] = L[s][n] /\ u <= s
      <4>1. L[s] \in Full /\ F2[i] = Cut(L[s], k)
          BY <2>2, ShadowFacts DEF Replaced
      <4>2. F2[i][n] = L[s][n]
          BY <3>1, <4>1, CutType DEF Full
      <4>. QED  BY <1>0, <4>2 DEF LeaderLogs, LeaderLog, u
    <3>3. \A y \in Node, w \in Nat : ~Evidence(y, w, i)'
        BY <1>1, <2>0, <2>2, <3>2, TermsGrow DEF Replaced, u
    <3>4. \E Q \in Quorum : \A v \in Q : state[v].current_term >= s
      <4>1. CASE Led(s)
        <5>1. PICK x \in Node : <<s, x>> \in elected
            BY <4>1 DEF Led
        <5>2. PICK e \in elected : e = <<s, x>>
            BY <5>1
        <5>. QED  BY <5>2, LeadersBacked DEF Moves
      <4>2. CASE Chosen(L, K, s, k)
        <5>1. PICK Q \in Quorum : \A v \in Q : K[v][s] >= k
            BY <4>2 DEF Chosen
        <5>2. L[s][k].term > 0 /\ k > 0
          <6>1. L[s][k].term > 0
              BY <4>2 DEF Chosen
          <6>. QED  BY <1>0, <6>1, SortedStart, ShadowFacts DEF LeaderLogs, LeaderLog, Shadow
        <5>3. ASSUME NEW v \in Q
              PROVE  state[v].current_term >= s
          <6>1. v \in Node
              BY DEF Quorum
          <6>. QED  BY <1>0, <5>1, <5>2, <6>1, ShadowFacts, AckedCell
        <5>. QED  BY <5>3
      <4>. QED  BY <2>2, <4>1, <4>2 DEF Replaced
    <3>5. PICK Q \in Quorum : \A v \in Q : state[v].current_term >= s
        BY <3>4
    <3>6. ASSUME NEW v \in Q
          PROVE  state'[v].current_term >= u /\ \A w \in Nat : w < u => ~Evidence(v, w, i)'
      <4>1. v \in Node
          BY DEF Quorum
      <4>. QED  BY <2>0, <3>2, <3>3, <3>5, <4>1, TermsGrow
    <3>. QED  BY <3>6 DEF Barred
  <2>. QED  BY <1>1, <2>1, <2>2, TermsGrow, FullFacts DEF u
<1>. QED  BY <1>1 DEF AheadBarred

-----------------------------------------------------------------------------
(* The logs of the leaders.                                                *)

LEMMA TraceableStays ==
    ASSUME NEW L \in [Nat -> Full], LeaderLogs(L), NEW L2 \in [Nat -> Full],
           LogsGrow(L, L2), \A t \in Nat : L2[t][0] = Blank,
           NEW f \in Full, Traceable(L, f)
    PROVE  Traceable(L2, f)
<1>1. ASSUME NEW n \in Nat, NEW u \in Nat, f[n].term = u, u > 0, NEW m \in 0..n
      PROVE  f[m] = L2[u][m]
  <2>1. Agree(f, L[u], n)
      BY <1>1 DEF Traceable
  <2>2. f[m] = L[u][m] /\ L[u][n].term = u
      BY <1>1, <2>1 DEF Agree
  <2>3. m > 0 => L[u][m].term > 0
      BY <1>1, <2>2 DEF LeaderLogs, LeaderLog, Sorted
  <2>4. m = 0 => L[u][m] = Blank
      BY DEF LeaderLogs, LeaderLog, Sorted
  <2>. QED  BY <2>2, <2>3, <2>4 DEF LogsGrow
<1>2. \A n \in Nat : f[n].term \in Nat
    BY FullFacts
<1>. QED  BY <1>1, <1>2 DEF Traceable, Agree

LEMMA LeaderLogsSame ==
    ASSUME Moves, NEW L, LeaderLogs(L)
    PROVE  LeaderLogs(L)' /\ LogsGrow(L, L)
<1>1. \A t \in Nat : Led(t) => Led(t)'
    BY DEF Led, Moves
<1>2. LeaderLogs(L)'
    BY <1>1 DEF LeaderLogs, LeaderLog
<1>. QED  BY <1>2 DEF LogsGrow

(* A leader of a term nobody has led yet.                                  *)
LEMMA LeaderLogsMade ==
    ASSUME Moves, NEW L \in [Nat -> Full], LeaderLogs(L), NEW t \in Nat, ~Led(t), Led(t)',
           NEW f \in Full, Traceable(L, f), \A n \in Nat : f[n].term < t
    PROVE  LET L2 == [L EXCEPT ![t] = f] IN
           L2 \in [Nat -> Full] /\ LeaderLogs(L2)' /\ LogsGrow(L, L2)
<1>. DEFINE L2 == [L EXCEPT ![t] = f]
<1>1. L2 \in [Nat -> Full] /\ L2[t] = f /\ \A u \in Nat \ {t} : L2[u] = L[u]
    OBVIOUS
<1>. HIDE DEF L2
<1>2. \A n \in Nat : L[t][n] = Blank
    BY DEF LeaderLogs, LeaderLog
<1>3. LogsGrow(L, L2)
    BY <1>1, <1>2 DEF LogsGrow, Blank
<1>4. Sorted(f)
    BY TraceableSorted
<1>5. \A u \in Nat : L2[u][0] = Blank
    BY <1>1, <1>4 DEF LeaderLogs, LeaderLog, Sorted
<1>6. \A u \in Nat : Led(u) => Led(u)'
    BY DEF Led, Moves
<1>7. ASSUME NEW u \in Nat  PROVE LeaderLog(L2, u)'
  <2>1. CASE u = t
    <3>1. Traceable(L2, f)
        BY <1>1, <1>3, <1>5, TraceableStays
    <3>2. \A n \in Nat : f[n].term <= t
        BY FullFacts
    <3>. QED  BY <1>1, <1>4, <2>1, <3>1, <3>2 DEF LeaderLog
  <2>2. CASE u # t
    <3>1. LeaderLog(L, u) /\ L2[u] = L[u] /\ L[u] \in Full
        BY <1>1, <2>2 DEF LeaderLogs
    <3>2. Traceable(L2, L[u])
        BY <1>1, <1>3, <1>5, <3>1, TraceableStays DEF LeaderLog
    <3>. QED  BY <1>6, <3>1, <3>2 DEF LeaderLog
  <2>. QED  BY <2>1, <2>2
<1>. QED  BY <1>1, <1>3, <1>7 DEF LeaderLogs, L2

(* A leader adds entries of its term.                                      *)
LEMMA LeaderLogsExtended ==
    ASSUME Moves, NEW L \in [Nat -> Full], LeaderLogs(L), NEW t \in Nat, Led(t),
           NEW g \in Full, Longer(L[t], g), g[0] = Blank,
           \A n \in Nat : g[n] # L[t][n] => g[n].term = t,
           \A n \in Nat : \A m \in 1..n : g[n].term > 0 => g[m].term > 0
    PROVE  LET L2 == [L EXCEPT ![t] = g] IN
           L2 \in [Nat -> Full] /\ LeaderLogs(L2)' /\ LogsGrow(L, L2)
<1>. DEFINE L2 == [L EXCEPT ![t] = g]
<1>1. L2 \in [Nat -> Full] /\ L2[t] = g /\ \A u \in Nat \ {t} : L2[u] = L[u]
    OBVIOUS
<1>. HIDE DEF L2
<1>2. /\ Sorted(L[t]) /\ Traceable(L, L[t]) /\ L[t] \in Full
      /\ \A n \in Nat : L[t][n].term <= t
    BY DEF LeaderLogs, LeaderLog
<1>3. LogsGrow(L, L2)
    BY <1>1 DEF LogsGrow, Longer
<1>4. \A n \in Nat : g[n].term <= t
    BY <1>2
<1>5. Sorted(g)
  <2>1. ASSUME NEW n \in Nat, NEW m \in 1..n, g[n].term > 0
        PROVE  0 < g[m].term /\ g[m].term <= g[n].term
    <3>1. 0 < g[m].term /\ g[m].term <= t
        BY <1>4, <2>1
    <3>2. CASE g[n] # L[t][n]
        BY <3>1, <3>2
    <3>3. CASE g[n] = L[t][n]
      <4>1. 0 < L[t][m].term /\ L[t][m].term <= L[t][n].term
          BY <1>2, <2>1, <3>3 DEF Sorted
      <4>. QED  BY <3>3, <4>1 DEF Longer
    <3>. QED  BY <3>2, <3>3
  <2>. QED  BY <2>1 DEF Sorted
<1>6. \A u \in Nat : L2[u][0] = Blank
    BY <1>1 DEF LeaderLogs, LeaderLog, Sorted
<1>7. Traceable(L2, L[t])
    BY <1>1, <1>2, <1>3, <1>6, TraceableStays
<1>8. Traceable(L2, g)
  <2>1. ASSUME NEW n \in Nat, g[n].term > 0, NEW u \in Nat, u = g[n].term
        PROVE  Agree(g, L2[u], n)
    <3>1. CASE u = t
        BY <1>1, <3>1 DEF Agree
    <3>2. CASE u # t
      <4>1. g[n] = L[t][n] /\ L[t][n].term = u
          BY <2>1, <3>2
      <4>2. Agree(L[t], L2[u], n)
          BY <1>7, <2>1, <4>1 DEF Traceable
      <4>3. \A m \in 0..n : g[m] = L[t][m]
          BY <1>2, <2>1, <4>1 DEF Sorted, Longer
      <4>. QED  BY <4>2, <4>3 DEF Agree
    <3>. QED  BY <3>1, <3>2
  <2>. QED  BY <2>1, FullFacts DEF Traceable
<1>9. \A u \in Nat : Led(u) => Led(u)'
    BY DEF Led, Moves
<1>10. ASSUME NEW u \in Nat  PROVE LeaderLog(L2, u)'
  <2>1. CASE u = t
      BY <1>1, <1>4, <1>5, <1>8, <1>9, <2>1 DEF LeaderLog
  <2>2. CASE u # t
    <3>1. LeaderLog(L, u) /\ L2[u] = L[u] /\ L[u] \in Full
        BY <1>1, <2>2 DEF LeaderLogs
    <3>2. Traceable(L2, L[u])
        BY <1>1, <1>3, <1>6, <3>1, TraceableStays DEF LeaderLog
    <3>. QED  BY <1>9, <3>1, <3>2 DEF LeaderLog
  <2>. QED  BY <2>1, <2>2
<1>. QED  BY <1>1, <1>3, <1>10 DEF LeaderLogs, L2

(* All of it.                                                              *)
LEMMA BoundKept ==
    ASSUME Moves, NEW L, NEW F, NEW K, Shadow(L, F, K), Bound(L, F, K),
           NEW L2, NEW F2, NEW K2, Shadow(L2, F2, K2), LeaderLogs(L2)',
           LogsGrow(L, L2), AcksGrow(K, L2, F2, K2), Polled(L, F, K, F2),
           \A e \in elected' \ elected : Wins(L, F, K, L2, e),
           \A v \in Node :
              \/ /\ Longer(F[v], F2[v])
                 /\ F2[v] = F[v] \/ \E t \in Nat : F2[v] = L2[t]
                 /\ \A n \in Nat : F2[v][n] = F[v][n]
                                   \/ F2[v][n].term <= state'[v].current_term
              \/ \E u, k \in Nat : Replaced(L, F, K, F2, v, u, k)
    PROVE  Bound(L2, F2, K2)'
<1>0. /\ L \in [Nat -> Full] /\ L2 \in [Nat -> Full] /\ LeaderLogs(L)
      /\ F \in [Node -> Full] /\ F2 \in [Node -> Full]
    BY DEF Shadow, Bound
<1>1. \A t \in Nat : L2[t][0] = Blank
    BY DEF LeaderLogs, LeaderLog, Sorted
<1>2. ASSUME NEW v \in Node  PROVE Traceable(L2, F2[v])
  <2>1. CASE F2[v] = F[v]
    <3>1. F[v] \in Full /\ Traceable(L, F[v])
        BY <1>0 DEF Bound
    <3>. QED  BY <1>0, <1>1, <2>1, <3>1, TraceableStays
  <2>2. CASE \E t \in Nat : F2[v] = L2[t]
      BY <2>2 DEF LeaderLogs, LeaderLog
  <2>3. ASSUME NEW u \in Nat, NEW k \in Nat, Replaced(L, F, K, F2, v, u, k)
        PROVE  Traceable(L2, F2[v])
    <3>1. L[u] \in Full /\ Traceable(L, L[u])
        BY <1>0 DEF LeaderLogs, LeaderLog
    <3>2. Traceable(L, Cut(L[u], k)) /\ Cut(L[u], k) \in Full
        BY <3>1, CutTraceable
    <3>. QED  BY <1>0, <1>1, <2>3, <3>2, TraceableStays DEF Replaced
  <2>. QED  BY <2>1, <2>2, <2>3
<1>3. \A v \in Node : Carried(L, F, K, F2, v)
    BY DEF Carried
<1>4. \A v \in Node : F2[v][0] = Blank
  <2>1. ASSUME NEW v \in Node  PROVE F2[v][0] = Blank
    <3>1. F2[v] \in Full /\ Traceable(L2, F2[v])
        BY <1>0, <1>2
    <3>2. CASE F2[v][0].term > 0
      <4>1. PICK t \in Nat : t = F2[v][0].term
          BY <3>1, FullFacts
      <4>2. F2[v][0] = L2[t][0]
          BY <3>1, <3>2, <4>1 DEF Traceable, Agree
      <4>. QED  BY <1>1, <4>2
    <3>. QED  BY <3>1, <3>2, FullFacts
  <2>. QED  BY <2>1
<1>5. AcksTrue(L, K)
    BY DEF Bound
<1>6. AcksTrue(L2, K2)'
    BY <1>5, AcksTrueKept
<1>7. AcksHere(L2, F2, K2)'
    BY <1>3, <1>4, AcksHereKept
<1>8. AcksKept(L2, F2, K2)'
    BY <1>3, AcksKeptKept
<1>9. LeadersKeep(L2, K2)'
    BY LeadersKeepKept
<1>10. VotersCovered(L2, F2, K2)'
    BY VotersCoveredKept
<1>11. AheadBarred(F2)'
    BY <1>0, AheadBarredKept
<1>. QED  BY <1>2, <1>6, <1>7, <1>8, <1>9, <1>10, <1>11 DEF Bound

-----------------------------------------------------------------------------
(* Elections.                                                              *)

LEMMA PolledQuietly ==
    ASSUME Quiet, NEW L, NEW F, NEW K, VotersCovered(L, F, K), NEW F2,
           \A x \in Node : state'[x].role = Candidate => Longer(F[x], F2[x])
    PROVE  Polled(L, F, K, F2)
<1>1. ASSUME NEW v \in Node, NEW x \in Node, NEW s \in Nat,
             state'[x].role = Candidate, state'[x].current_term = s, Evidence(v, s, x)'
      PROVE  Covered(L, F, K, v, x, s)
  <2>1. /\ state[x].role = Candidate /\ state[x].current_term = s
        /\ state'[x].votes \subseteq state[x].votes
      BY <1>1 DEF Quiet, KeepsVotes
  <2>2. CASE CountedVote(v, s, x)'
      BY <2>1, <2>2 DEF CountedVote, VotersCovered, Evidence
  <2>3. CASE AnsweredVote(v, s, x)'
    <3>1. AnsweredVote(v, s, x)
        BY <2>3 DEF Quiet, AnsweredVote
    <3>. QED  BY <2>1, <3>1 DEF VotersCovered, Evidence
  <2>. QED  BY <1>1, <2>2, <2>3 DEF Evidence
<1>. QED  BY <1>1 DEF Polled

(* A node that has just been elected leads a term nobody has led, and has  *)
(* no entry of that term.                                                  *)
LEMMA TakesOffice ==
    ASSUME Moves, NEW L, NEW F, NEW K, Shadow(L, F, K), Bound(L, F, K),
           NEW i \in Node, NEW t \in Nat, t > 0,
           <<t, i>> \in elected', <<t, i>> \notin elected,
           \A n \in Nat : F[i][n].term <= t
    PROVE  ~Led(t) /\ Led(t)' /\ \A n \in Nat : F[i][n].term < t
<1>1. ASSUME NEW x \in Node, <<t, x>> \in elected  PROVE FALSE
  <2>1. <<t, x>>[1] = <<t, i>>[1] /\ <<t, x>>[2] = x /\ <<t, i>>[2] = i
      OBVIOUS
  <2>2. x = i
      BY <1>1, <2>1 DEF Moves, RoleInv, ElectionInv, ElectionSafety
  <2>. QED  BY <1>1, <2>2
<1>2. ASSUME NEW n \in Nat, F[i][n].term = t  PROVE FALSE
  <2>1. F[i][n] = L[t][n]
      BY <1>2 DEF Bound, Traceable, Agree
  <2>2. L[t][n] # Blank
      BY <1>2, <2>1 DEF Blank
  <2>. QED  BY <1>1, <2>2 DEF Bound, LeaderLogs, LeaderLog, Led
<1>3. ASSUME NEW n \in Nat  PROVE F[i][n].term < t
  <2>1. F[i][n].term \in Nat /\ F[i][n].term <= t /\ F[i][n].term # t
      BY <1>2, FullFacts, ShadowFacts
  <2>. QED  BY <2>1
<1>4. ~Led(t) /\ Led(t)'
    BY <1>1 DEF Led
<1>. QED  BY <1>3, <1>4

(* A candidate stands, and leads if its voters are a quorum.               *)
LEMMA StandsBound ==
    ASSUME Moves, NEW L, NEW F, NEW K, Shadow(L, F, K), Bound(L, F, K),
           NEW i \in Node, NEW t \in Nat, NEW Q, Stands(i, t, Q), t > 0,
           <<t, i>> \notin elected, Polled(L, F, K, F),
           Q \in Quorum => /\ \A n \in Nat : F[i][n].term <= t
                           /\ \A v \in Q : /\ state'[v].current_term >= t
                                           /\ Covered(L, F, K, v, i, t)
    PROVE  \E L2 : /\ Shadow(L2, F, K) /\ Bound(L2, F, K)' /\ LogsGrow(L, L2)
                   /\ \A u \in Nat : u # t => L2[u] = L[u]
                   /\ state'[i].role = Leader => L2[t] = F[i]
                   /\ state'[i].role # Leader => L2 = L
<1>0. /\ L \in [Nat -> Full] /\ F \in [Node -> Full] /\ LeaderLogs(L)
      /\ F[i] \in Full /\ Traceable(L, F[i])
    BY DEF Shadow, Bound
<1>1. ASSUME NEW L2 \in [Nat -> Full], LeaderLogs(L2)', LogsGrow(L, L2),
             \A e \in elected' \ elected : Wins(L, F, K, L2, e)
      PROVE  Shadow(L2, F, K) /\ Bound(L2, F, K)'
  <2>1. Shadow(L2, F, K)
      BY DEF Shadow
  <2>2. AcksGrow(K, L2, F, K)
      BY ShadowFacts DEF AcksGrow
  <2>3. \A v \in Node : Longer(F[v], F[v])
      BY DEF Longer
  <2>. QED  BY <1>1, <2>1, <2>2, <2>3, BoundKept
<1>2. CASE state'[i].role # Leader
  <2>1. elected' = elected
      BY <1>2 DEF Stands
  <2>2. LeaderLogs(L)' /\ LogsGrow(L, L)
      BY <1>0, LeaderLogsSame
  <2>. QED  BY <1>0, <1>1, <1>2, <2>1, <2>2
<1>3. CASE state'[i].role = Leader
  <2>1. Q \in Quorum /\ elected' = elected \cup {<<t, i>>}
      BY <1>3 DEF Stands, Leader, Candidate
  <2>2. ~Led(t) /\ Led(t)' /\ \A n \in Nat : F[i][n].term < t
      BY <2>1, TakesOffice
  <2>. DEFINE L2 == [L EXCEPT ![t] = F[i]]
  <2>3. L2 \in [Nat -> Full] /\ LeaderLogs(L2)' /\ LogsGrow(L, L2)
      BY <1>0, <2>2, LeaderLogsMade
  <2>4. L2[t] = F[i] /\ \A u \in Nat : u # t => L2[u] = L[u]
      BY <1>0
  <2>. HIDE DEF L2
  <2>5. ASSUME NEW e \in elected' \ elected  PROVE Wins(L, F, K, L2, e)
    <3>1. e = <<t, i>> /\ e[1] = t /\ e[2] = i
        BY <2>1
    <3>. QED  BY <2>1, <2>4, <3>1 DEF Wins
  <2>. QED  BY <1>1, <1>3, <2>3, <2>4, <2>5
<1>. QED  BY <1>2, <1>3

-----------------------------------------------------------------------------
(* How nodes, calls and the ghost of committed entries hang on what is     *)
(* remembered.                                                             *)

(* A leader's own entries count as acknowledged by itself.                 *)
NodeLog(L, F, K, i) ==
    /\ Unfolds(log[i], F[i])
    /\ state[i].role = Leader =>
          /\ F[i] = L[state[i].current_term]
          /\ \A n \in Nat : F[i][n].term = state[i].current_term
                            => n <= K[i][state[i].current_term]

Progress(F, K, i) ==
    replication[i] # NoReplication => \A f \in Node \ {i} :
        /\ replication[i].match_index[f] <= LastIndex(log[i])
        /\ replication[i].next_index[f] <= LastIndex(log[i]) + 1
        /\ state[i].role = Leader => \A n \in Nat :
              /\ n <= replication[i].match_index[f]
              /\ F[i][n].term = state[i].current_term
              => n <= K[f][state[i].current_term]

CommitChosen(L, F, K, i) ==
    /\ state[i].commit_index <= LastIndex(log[i])
    /\ i \in up => state[i].last_applied <= state[i].commit_index
    /\ state[i].commit_index > 0 =>
          /\ Chosen(L, K, F[i][state[i].commit_index].term, state[i].commit_index)
          /\ \/ F[i][state[i].commit_index].term <= state[i].current_term
             \/ state[i].commit_index <= log[i].base

SnapshotChosen(L, K, i) ==
    /\ snapshot[i].index >= log[i].base
    /\ snapshot[i].index = log[i].base => snapshot[i].term = log[i].bterm
    /\ i \in up => snapshot[i].index = log[i].base
    /\ snapshot[i].index = 0 => snapshot[i].term = 0
    /\ snapshot[i].index > 0 => Chosen(L, K, snapshot[i].term, snapshot[i].index)

PendingKept(L, i) ==
    \A k \in 1..Len(pending[i].entries) :
        LET e == pending[i].entries[k] IN
        e.term > 0 /\ L[e.term][pending[i].first + k - 1] = e

NodeOK(L, F, K, i) ==
    /\ NodeLog(L, F, K, i) /\ Progress(F, K, i) /\ CommitChosen(L, F, K, i)
    /\ SnapshotChosen(L, K, i) /\ PendingKept(L, i)

(* What a request says of the log of the leader that sent it.              *)
AppendOK(L, K, r) ==
    /\ \A k \in 1..Len(r.entries) :
          /\ r.entries[k] = L[r.term][r.prev_log_index + k]
          /\ r.entries[k].term > 0
    /\ L[r.term][r.prev_log_index].term = r.prev_log_term
    /\ r.prev_log_index > 0 => r.prev_log_term > 0
    /\ r.leader_commit <= r.prev_log_index + Len(r.entries)
    /\ r.leader_commit > 0
          => Chosen(L, K, L[r.term][r.leader_commit].term, r.leader_commit)

InstallOK(L, K, r) ==
    /\ r.index = 0 => r.index_term = 0
    /\ r.index > 0 => /\ Chosen(L, K, r.index_term, r.index)
                      /\ L[r.term][r.index].term = r.index_term

AnswerOK(K, c) ==
    c.req.kind \in AppendKinds /\ c.st = "answered" /\ c.resp.ok
    => ReplicatedBy(c) <= K[c.dst][c.req.term]

Describes(f, index, term) ==
    f[index].term = term /\ \A n \in Nat : n > index => f[n] = Blank

VoteOK(F, c) ==
    /\ c.req.kind = "RequestVote" /\ state[c.src].role = Candidate
    /\ c.req.term = state[c.src].current_term
    => Describes(F[c.src], c.req.last_log_index, c.req.last_log_term)

CallOK(L, F, K, c) ==
    /\ c.req.kind = "AppendEntries" => AppendOK(L, K, c.req)
    /\ c.req.kind = "InstallSnapshot" => InstallOK(L, K, c.req)
    /\ AnswerOK(K, c) /\ VoteOK(F, c)

(* All that was committed is in the log of the leader that wrote the last  *)
(* of it, and was committed under a chosen entry.                          *)
History(L, K) ==
    LET c == Len(committed)
        s == committed[c].entry.term
    IN c > 0 => /\ Chosen(L, K, s, c)
                /\ \A n \in 1..c :
                      /\ committed[n].entry = L[s][n]
                      /\ \E m \in n..c : Chosen(L, K, committed[n].by, m)

Remembers(L, F, K) ==
    /\ Shadow(L, F, K) /\ Bound(L, F, K) /\ History(L, K)
    /\ \A i \in Node : NodeOK(L, F, K, i)
    /\ \A c \in rpcs : CallOK(L, F, K, c)

Remembered == \E L, F, K : Remembers(L, F, K)

(* From one state to the next.                                             *)
Grows(L, F, K, L2, F2, K2) ==
    /\ Shadow(L, F, K) /\ Shadow(L2, F2, K2) /\ LeaderLogs(L) /\ LeaderLogs(L2)'
    /\ LogsGrow(L, L2) /\ AcksGrow(K, L2, F2, K2)

-----------------------------------------------------------------------------
(* What a step does not touch.                                             *)

LEMMA CellKept ==
    ASSUME NEW L, NEW F, NEW K, NEW L2, NEW F2, NEW K2, Grows(L, F, K, L2, F2, K2),
           NEW s \in Nat, NEW n \in Nat, L[s][n].term > 0 \/ n = 0
    PROVE  L2[s][n] = L[s][n]
<1>1. CASE n = 0
    BY <1>1 DEF Grows, LeaderLogs, LeaderLog, Sorted
<1>. QED  BY <1>1 DEF Grows, LogsGrow

LEMMA ChosenGrows ==
    ASSUME NEW L, NEW F, NEW K, NEW L2, NEW F2, NEW K2, Grows(L, F, K, L2, F2, K2),
           NEW s \in Nat, NEW n \in Nat, Chosen(L, K, s, n)
    PROVE  Chosen(L2, K2, s, n)
<1>. QED  BY ChosenStays DEF Grows

LEMMA AckGrows ==
    ASSUME NEW L, NEW F, NEW K, NEW L2, NEW F2, NEW K2, Grows(L, F, K, L2, F2, K2),
           NEW v \in Node, NEW t \in Nat
    PROVE  K[v][t] \in Nat /\ K2[v][t] \in Nat /\ K2[v][t] >= K[v][t]
<1>. QED  BY ShadowFacts DEF Grows, AcksGrow

LEMMA NodeTypes ==
    ASSUME RoleInv, NEW i \in Node
    PROVE  /\ state[i] \in StateType /\ state[i].current_term \in Nat
           /\ state[i].commit_index \in Nat /\ state[i].last_applied \in Nat
           /\ log[i] \in LogOf(Command) /\ log[i] \in LogType
           /\ log[i].base \in Nat /\ log[i].bterm \in Nat
           /\ LastIndex(log[i]) \in Nat /\ log[i].base <= LastIndex(log[i])
           /\ snapshot[i] \in SnapshotType
           /\ snapshot[i].index \in Nat /\ snapshot[i].term \in Nat
           /\ pending[i] \in PendingType
           /\ replication[i] \in ReplicationOrNone(i)
<1>1. /\ state[i] \in StateType /\ log[i] \in LogType /\ snapshot[i] \in SnapshotType
      /\ pending[i] \in PendingType /\ replication[i] \in ReplicationOrNone(i)
    BY DEF RoleInv, ElectionInv, TypeInv, TypeOK, PendingType, ReplicationOrNone
<1>2. log[i] \in LogOf(Command)
    BY <1>1, LogTypes
<1>3. LastIndex(log[i]) \in Nat /\ LastIndex(log[i]) >= log[i].base
    BY <1>2, LastIndexType
<1>. QED  BY <1>1, <1>2, <1>3 DEF StateType, LogType, SnapshotType

LEMMA PendingGrows ==
    ASSUME NEW L, NEW F, NEW K, NEW L2, NEW F2, NEW K2, Grows(L, F, K, L2, F2, K2),
           NEW p \in PendingType, NEW k \in 1..Len(p.entries),
           p.entries[k].term > 0, L[p.entries[k].term][p.first + k - 1] = p.entries[k]
    PROVE  L2[p.entries[k].term][p.first + k - 1] = p.entries[k]
<1>1. p.entries[k] \in EntryType
    BY ElementOfSeq DEF PendingType
<1>2. p.entries[k].term \in Nat /\ p.first + k - 1 \in Nat
    BY <1>1 DEF EntryType, PendingType
<1>. QED  BY <1>2, CellKept

LEMMA OthersOK ==
    ASSUME Moves, NEW L, NEW F, NEW K, NEW L2, NEW F2, NEW K2,
           Grows(L, F, K, L2, F2, K2), NEW i \in Node, OnlyTouches(i),
           NEW j \in Node \ {i}, F2[j] = F[j], NodeOK(L, F, K, j),
           state[j].role = Leader
              => L2[state[j].current_term] = L[state[j].current_term]
    PROVE  NodeOK(L2, F2, K2, j)'
<1>0. /\ j \in up' <=> j \in up
      /\ state'[j] = state[j] /\ log'[j] = log[j] /\ snapshot'[j] = snapshot[j]
      /\ replication'[j] = replication[j] /\ pending'[j] = pending[j]
    BY DEF OnlyTouches
<1>1. /\ state[j].current_term \in Nat /\ state[j].commit_index \in Nat
      /\ snapshot[j].index \in Nat /\ snapshot[j].term \in Nat
      /\ pending[j] \in PendingType
    BY NodeTypes DEF Moves
<1>2. \A v \in Node : LET t == state[j].current_term IN
         K[v][t] \in Nat /\ K2[v][t] \in Nat /\ K2[v][t] >= K[v][t]
    BY <1>1, AckGrows
<1>3. NodeLog(L2, F2, K2, j)'
    BY <1>0, <1>1, <1>2 DEF NodeOK, NodeLog
<1>4. Progress(F2, K2, j)'
    BY <1>0, <1>1, <1>2 DEF NodeOK, Progress
<1>5. CommitChosen(L2, F2, K2, j)'
  <2>1. F[j][state[j].commit_index].term \in Nat
      BY <1>1, ShadowFacts, FullFacts DEF Grows
  <2>. QED  BY <1>0, <1>1, <2>1, ChosenGrows DEF NodeOK, CommitChosen
<1>6. SnapshotChosen(L2, K2, j)'
    BY <1>0, <1>1, ChosenGrows DEF NodeOK, SnapshotChosen
<1>7. PendingKept(L2, j)'
  <2>1. ASSUME NEW p, p = pending[j], NEW k \in 1..Len(p.entries)
        PROVE  /\ p.entries[k].term > 0
               /\ L2[p.entries[k].term][p.first + k - 1] = p.entries[k]
    <3>1. /\ p \in PendingType /\ p.entries[k].term > 0
          /\ L[p.entries[k].term][p.first + k - 1] = p.entries[k]
        BY <1>1, <2>1 DEF NodeOK, PendingKept
    <3>. QED  BY <2>1, <3>1, PendingGrows
  <2>. QED  BY <1>0, <2>1 DEF PendingKept
<1>. QED  BY <1>3, <1>4, <1>5, <1>6, <1>7 DEF NodeOK

LEMMA AppendGrows ==
    ASSUME NEW L, NEW F, NEW K, NEW L2, NEW F2, NEW K2, Grows(L, F, K, L2, F2, K2),
           TypeInv, NEW c \in rpcs, c.req.kind = "AppendEntries", AppendOK(L, K, c.req)
    PROVE  AppendOK(L2, K2, c.req)
<1>. DEFINE r == c.req
<1>1. /\ r.prev_log_index \in Nat /\ r.entries \in Seq(EntryType)
      /\ r.leader_commit \in Nat /\ r.term \in Nat /\ r.prev_log_term \in Nat
    BY AppendRequestFields, CallOnNetwork
<1>. HIDE DEF r
<1>2. /\ r.prev_log_index > 0 => r.prev_log_term > 0
      /\ r.leader_commit <= r.prev_log_index + Len(r.entries)
      /\ L[r.term][r.prev_log_index].term = r.prev_log_term
    BY DEF AppendOK, r
<1>3. ASSUME NEW k \in 1..Len(r.entries)
      PROVE  r.entries[k] = L2[r.term][r.prev_log_index + k] /\ r.entries[k].term > 0
  <2>1. r.entries[k] = L[r.term][r.prev_log_index + k] /\ r.entries[k].term > 0
      BY <1>3 DEF AppendOK, r
  <2>2. r.prev_log_index + k \in Nat
      BY <1>1
  <2>. QED  BY <1>1, <2>1, <2>2, CellKept
<1>4. L2[r.term][r.prev_log_index].term = r.prev_log_term
    BY <1>1, <1>2, CellKept
<1>5. ASSUME r.leader_commit > 0
      PROVE  Chosen(L2, K2, L2[r.term][r.leader_commit].term, r.leader_commit)
  <2>0. L[r.term] \in Full
      BY <1>1 DEF Grows, Shadow
  <2>1. PICK s \in Nat : s = L[r.term][r.leader_commit].term
      BY <1>1, <2>0, FullFacts
  <2>2. Chosen(L, K, s, r.leader_commit)
      BY <1>5, <2>1 DEF AppendOK, r
  <2>3. L2[r.term][r.leader_commit] = L[r.term][r.leader_commit]
      BY <1>1, <2>1, <2>2, CellKept DEF Chosen
  <2>. QED  BY <1>1, <2>1, <2>2, <2>3, ChosenGrows
<1>. QED  BY <1>2, <1>3, <1>4, <1>5 DEF AppendOK, r

LEMMA InstallGrows ==
    ASSUME NEW L, NEW F, NEW K, NEW L2, NEW F2, NEW K2, Grows(L, F, K, L2, F2, K2),
           TypeInv, NEW c \in rpcs, c.req.kind = "InstallSnapshot", InstallOK(L, K, c.req)
    PROVE  InstallOK(L2, K2, c.req)
<1>1. c.req.index \in Nat /\ c.req.index_term \in Nat /\ c.req.term \in Nat
    BY InstallRequestFields, CallOnNetwork
<1>2. ASSUME c.req.index > 0
      PROVE  /\ Chosen(L2, K2, c.req.index_term, c.req.index)
             /\ L2[c.req.term][c.req.index].term = c.req.index_term
  <2>1. /\ Chosen(L, K, c.req.index_term, c.req.index)
        /\ L[c.req.term][c.req.index].term = c.req.index_term
      BY <1>2 DEF InstallOK
  <2>2. L2[c.req.term][c.req.index] = L[c.req.term][c.req.index]
      BY <1>1, <2>1, CellKept DEF Chosen
  <2>. QED  BY <1>1, <2>1, <2>2, ChosenGrows
<1>. QED  BY <1>2 DEF InstallOK

LEMMA CallsOK ==
    ASSUME Moves, NEW L, NEW F, NEW K, NEW L2, NEW F2, NEW K2,
           Grows(L, F, K, L2, F2, K2), NEW i \in Node, OnlyTouches(i),
           NEW added, NEW e, NEW ok, CallsBecome(added, e, ok),
           \A c \in rpcs : CallOK(L, F, K, c),
           \A j \in Node \ {i} : F2[j] = F[j],
           state'[i].role = Candidate =>
               /\ F2[i] = F[i]
               /\ \/ /\ state[i].role = Candidate
                     /\ state'[i].current_term = state[i].current_term
                  \/ state'[i].current_term > state[i].current_term,
           e \in rpcs /\ ok /\ e.req.kind \in AppendKinds
               => ReplicatedBy(e) <= K2[e.dst][e.req.term],
           \A c \in added : CallOK(L2, F2, K2, c)'
    PROVE  \A c \in rpcs' : CallOK(L2, F2, K2, c)'
<1>0. TypeInv
    BY DEF Moves, RoleInv, ElectionInv
<1>1. ASSUME NEW c \in rpcs', NEW d \in rpcs,
             c.src = d.src, c.dst = d.dst, c.req = d.req, c.st # "late" => d.st # "late",
             c.st = "answered" => c = d \/ (d = e /\ c.resp.ok = ok)
      PROVE  CallOK(L2, F2, K2, c)'
  <2>0. CallOK(L, F, K, d) /\ d.src \in Node /\ d.dst \in Node /\ d.req.term \in Nat
      BY <1>0, CallOnNetwork
  <2>1. c.req.kind = "AppendEntries" => AppendOK(L2, K2, c.req)
      BY <1>0, <1>1, <2>0, AppendGrows DEF CallOK
  <2>2. c.req.kind = "InstallSnapshot" => InstallOK(L2, K2, c.req)
      BY <1>0, <1>1, <2>0, InstallGrows DEF CallOK
  <2>3. AnswerOK(K2, c)
    <3>1. SUFFICES ASSUME c.req.kind \in AppendKinds, c.st = "answered", c.resp.ok
                   PROVE  ReplicatedBy(c) <= K2[c.dst][c.req.term]
        BY DEF AnswerOK
    <3>2. ReplicatedBy(c) = ReplicatedBy(d)
        BY <1>1 DEF ReplicatedBy
    <3>3. CASE c = d
      <4>1. ReplicatedBy(d) <= K[d.dst][d.req.term]
          BY <2>0, <3>1, <3>3 DEF CallOK, AnswerOK
      <4>2. ReplicatedBy(d) \in Nat
          BY <1>0, <1>1, <3>1, AppendRequestFields, InstallRequestFields, LenProperties
          DEF ReplicatedBy, AppendKinds
      <4>3. /\ K[d.dst][d.req.term] \in Nat /\ K2[d.dst][d.req.term] \in Nat
            /\ K2[d.dst][d.req.term] >= K[d.dst][d.req.term]
          BY <2>0, AckGrows
      <4>. QED  BY <3>3, <4>1, <4>2, <4>3
    <3>4. CASE d = e /\ c.resp.ok = ok
        BY <1>1, <3>1, <3>2, <3>4
    <3>. QED  BY <1>1, <3>1, <3>3, <3>4
  <2>4. VoteOK(F2, c)'
    <3>1. SUFFICES ASSUME c.req.kind = "RequestVote", state'[c.src].role = Candidate,
                          c.req.term = state'[c.src].current_term
                   PROVE  Describes(F2[c.src], c.req.last_log_index, c.req.last_log_term)
        BY DEF VoteOK
    <3>2. /\ F2[c.src] = F[c.src] /\ state[c.src].role = Candidate
          /\ state[c.src].current_term = state'[c.src].current_term
      <4>1. CASE c.src # i
          BY <1>1, <2>0, <3>1, <4>1 DEF OnlyTouches
      <4>2. CASE c.src = i
        <5>1. d.req.term <= state[i].current_term
            BY <1>1, <3>1, <4>2 DEF Moves, RoleInv, CallRole
        <5>. QED  BY <1>1, <2>0, <3>1, <4>2, <5>1, TermsGrow
      <4>. QED  BY <4>1, <4>2
    <3>. QED  BY <1>1, <2>0, <3>1, <3>2 DEF CallOK, VoteOK
  <2>. QED  BY <2>1, <2>2, <2>3, <2>4 DEF CallOK
<1>2. ASSUME NEW c \in rpcs'  PROVE CallOK(L2, F2, K2, c)'
  <2>1. CASE c \in added
      BY <2>1
  <2>2. CASE c \notin added
    <3>1. PICK d \in rpcs :
              /\ c.src = d.src /\ c.dst = d.dst /\ c.req = d.req
              /\ c.st # "late" => d.st # "late"
              /\ c.st = "answered" => c = d \/ (d = e /\ c.resp.ok = ok)
        BY <2>2 DEF CallsBecome
    <3>. QED  BY <1>1, <3>1
  <2>. QED  BY <2>1, <2>2
<1>. QED  BY <1>2

LEMMA HistoryGrows ==
    ASSUME NEW L, NEW F, NEW K, NEW L2, NEW F2, NEW K2, Grows(L, F, K, L2, F2, K2),
           TypeInv, committed' = committed, History(L, K)
    PROVE  History(L2, K2)'
<1>. DEFINE c == Len(committed)
            s == committed[c].entry.term
<1>1. c \in Nat /\ \A n \in 1..c : committed[n] \in [entry : EntryType, by : Nat]
    BY LenProperties, ElementOfSeq DEF TypeInv, TypeOK
<1>2. SUFFICES ASSUME c > 0
               PROVE  /\ Chosen(L2, K2, s, c)
                      /\ \A n \in 1..c :
                            /\ committed[n].entry = L2[s][n]
                            /\ \E m \in n..c : Chosen(L2, K2, committed[n].by, m)
    BY DEF History
<1>3. /\ Chosen(L, K, s, c)
      /\ \A n \in 1..c : /\ committed[n].entry = L[s][n]
                         /\ \E m \in n..c : Chosen(L, K, committed[n].by, m)
    BY <1>2 DEF History
<1>4. s \in Nat
    BY <1>1, <1>2 DEF EntryType
<1>. HIDE DEF s, c
<1>5. Chosen(L2, K2, s, c)
    BY <1>1, <1>3, <1>4, ChosenGrows
<1>6. ASSUME NEW n \in 1..c
      PROVE  /\ committed[n].entry = L2[s][n]
             /\ \E m \in n..c : Chosen(L2, K2, committed[n].by, m)
  <2>1. L[s][c].term > 0 /\ Sorted(L[s])
      BY <1>3, <1>4 DEF Chosen, Grows, LeaderLogs, LeaderLog
  <2>2. L[s][n].term > 0
      BY <1>1, <2>1 DEF Sorted
  <2>3. L2[s][n] = L[s][n]
      BY <1>1, <1>4, <2>2, CellKept
  <2>4. PICK m \in n..c : Chosen(L, K, committed[n].by, m)
      BY <1>3
  <2>5. Chosen(L2, K2, committed[n].by, m)
      BY <1>1, <2>4, ChosenGrows
  <2>. QED  BY <1>3, <2>3, <2>5
<1>. QED  BY <1>5, <1>6

(* A step of node i alone.                                                 *)
LEMMA RemembersKept ==
    ASSUME Moves, NEW L, NEW F, NEW K, Remembers(L, F, K),
           NEW L2, NEW F2, NEW K2, Grows(L, F, K, L2, F2, K2), Bound(L2, F2, K2)',
           NEW i \in Node, OnlyTouches(i), \A j \in Node \ {i} : F2[j] = F[j],
           \A t \in Nat : L2[t] = L[t] \/ \A j \in Node \ {i} : <<t, j>> \notin elected,
           NodeOK(L2, F2, K2, i)', History(L2, K2)',
           NEW added, NEW e, NEW ok, CallsBecome(added, e, ok),
           state'[i].role = Candidate =>
               /\ F2[i] = F[i]
               /\ \/ /\ state[i].role = Candidate
                     /\ state'[i].current_term = state[i].current_term
                  \/ state'[i].current_term > state[i].current_term,
           e \in rpcs /\ ok /\ e.req.kind \in AppendKinds
               => ReplicatedBy(e) <= K2[e.dst][e.req.term],
           \A c \in added : CallOK(L2, F2, K2, c)'
    PROVE  Remembers(L2, F2, K2)'
<1>1. ASSUME NEW j \in Node  PROVE NodeOK(L2, F2, K2, j)'
  <2>1. CASE j # i
    <3>1. state[j].role = Leader => L2[state[j].current_term] = L[state[j].current_term]
        BY <2>1, NodeTypes DEF Moves, RoleInv, RoleOK
    <3>. QED  BY <2>1, <3>1, OthersOK DEF Remembers
  <2>. QED  BY <2>1
<1>2. \A c \in rpcs' : CallOK(L2, F2, K2, c)'
    BY CallsOK DEF Remembers
<1>. QED  BY <1>1, <1>2 DEF Remembers, Grows

-----------------------------------------------------------------------------
(* Steps after which the same is remembered.                               *)

LEMMA RemembersSame ==
    ASSUME Moves, NEW L, NEW F, NEW K, Remembers(L, F, K), Polled(L, F, K, F),
           elected' = elected, NEW i \in Node, OnlyTouches(i),
           NodeOK(L, F, K, i)', History(L, K)',
           NEW added, NEW e, NEW ok, CallsBecome(added, e, ok),
           state'[i].role = Candidate =>
               /\ state[i].role = Candidate
               /\ state'[i].current_term = state[i].current_term,
           e \in rpcs /\ ok /\ e.req.kind \in AppendKinds
               => ReplicatedBy(e) <= K[e.dst][e.req.term],
           \A c \in added : CallOK(L, F, K, c)'
    PROVE  Remembers(L, F, K)'
<1>1. Shadow(L, F, K) /\ Bound(L, F, K) /\ LeaderLogs(L) /\ F \in [Node -> Full]
    BY DEF Remembers, Bound, Shadow
<1>2. LeaderLogs(L)' /\ LogsGrow(L, L)
    BY <1>1, LeaderLogsSame
<1>3. AcksGrow(K, L, F, K)
    BY <1>1, ShadowFacts DEF AcksGrow
<1>4. \A v \in Node : Longer(F[v], F[v])
    BY DEF Longer
<1>5. Bound(L, F, K)'
    BY <1>1, <1>2, <1>3, <1>4, BoundKept
<1>6. Grows(L, F, K, L, F, K)
    BY <1>1, <1>2, <1>3 DEF Grows
<1>. QED  BY <1>5, <1>6, RemembersKept

LEMMA RemembersSameQuietly ==
    ASSUME Moves, Quiet, NEW L, NEW F, NEW K, Remembers(L, F, K),
           NEW i \in Node, OnlyTouches(i), NodeOK(L, F, K, i)', History(L, K)',
           CallsBecome({}, None, FALSE)
    PROVE  Remembers(L, F, K)'
<1>. DEFINE none == {}
<1>1. CallsBecome(none, None, FALSE) /\ \A c \in none : CallOK(L, F, K, c)'
    OBVIOUS
<1>. HIDE DEF none
<1>2. \A x \in Node : Longer(F[x], F[x])
    BY DEF Longer
<1>3. Polled(L, F, K, F)
    BY <1>2, PolledQuietly DEF Remembers, Bound
<1>4. state'[i].role = Candidate =>
         /\ state[i].role = Candidate
         /\ state'[i].current_term = state[i].current_term
    BY DEF Quiet, KeepsVotes
<1>. QED  BY <1>1, <1>3, <1>4, RemembersSame DEF Quiet

LEMMA SettledOK ==
    ASSUME Moves, NEW L, NEW F, NEW K, Shadow(L, F, K),
           NEW i, Settles(i), NodeOK(L, F, K, i)
    PROVE  NodeOK(L, F, K, i)'
<1>0. /\ i \in Node /\ up' = up /\ log'[i] = log[i] /\ snapshot'[i] = snapshot[i]
      /\ state'[i].commit_index = state[i].commit_index
      /\ state'[i].last_applied = state[i].last_applied
      /\ \/ state'[i].role = Follower
         \/ /\ state'[i].role = state[i].role
            /\ state'[i].current_term = state[i].current_term
      /\ replication'[i] \in {replication[i], NoReplication}
      /\ pending'[i] \in {pending[i], NoBatch}
    BY DEF Settles
<1>1. Follower # Leader
    BY DEF Follower, Leader
<1>2. NodeLog(L, F, K, i)'
    BY <1>0, <1>1 DEF NodeOK, NodeLog
<1>3. Progress(F, K, i)'
    BY <1>0, <1>1 DEF NodeOK, Progress
<1>4. CommitChosen(L, F, K, i)'
  <2>1. PICK c : c = state[i].commit_index
      OBVIOUS
  <2>2. /\ c <= LastIndex(log[i])
        /\ i \in up => state[i].last_applied <= c
        /\ c > 0 => /\ Chosen(L, K, F[i][c].term, c)
                    /\ \/ F[i][c].term <= state[i].current_term
                       \/ c <= log[i].base
      BY <2>1 DEF NodeOK, CommitChosen
  <2>3. F[i][c].term \in Nat
      BY <1>0, <2>1, NodeTypes, ShadowFacts, FullFacts DEF Moves
  <2>4. F[i][c].term <= state[i].current_term => F[i][c].term <= state'[i].current_term
      BY <1>0, <2>3, TermsGrow
  <2>. QED  BY <1>0, <2>1, <2>2, <2>4 DEF CommitChosen
<1>5. SnapshotChosen(L, K, i)'
    BY <1>0 DEF NodeOK, SnapshotChosen
<1>6. PendingKept(L, i)'
  <2>1. CASE pending'[i] = pending[i]
      BY <2>1 DEF NodeOK, PendingKept
  <2>2. CASE pending'[i] = NoBatch
    <3>1. Len(pending'[i].entries) = 0
        BY <2>2 DEF NoBatch
    <3>. QED  BY <3>1 DEF PendingKept
  <2>. QED  BY <1>0, <2>1, <2>2
<1>. QED  BY <1>2, <1>3, <1>4, <1>5, <1>6 DEF NodeOK

LEMMA SettledRemembers ==
    ASSUME Moves, NEW L, NEW F, NEW K, Remembers(L, F, K), Polled(L, F, K, F),
           NEW i, Settles(i), NEW added, NEW e, NEW ok, CallsBecome(added, e, ok),
           e \in rpcs /\ ok /\ e.req.kind \in AppendKinds
               => ReplicatedBy(e) <= K[e.dst][e.req.term],
           \A c \in added : CallOK(L, F, K, c)'
    PROVE  Remembers(L, F, K)'
<1>1. /\ i \in Node /\ OnlyTouches(i) /\ elected' = elected /\ committed' = committed
      /\ state'[i].role = Candidate =>
            /\ state[i].role = Candidate
            /\ state'[i].current_term = state[i].current_term
    BY DEF Settles, Follower, Candidate
<1>2. NodeOK(L, F, K, i)'
    BY <1>1, SettledOK DEF Remembers
<1>3. History(L, K)'
  <2>1. Grows(L, F, K, L, F, K)
      BY <1>1, LeaderLogsSame, ShadowFacts DEF Grows, AcksGrow, Remembers, Bound, Shadow
  <2>. QED  BY <1>1, <2>1, HistoryGrows DEF Remembers, Moves, RoleInv, ElectionInv
<1>. QED  BY <1>1, <1>2, <1>3, RemembersSame

(* Steps that take no part in an election.                                 *)
LEMMA QuietMoves ==
    ASSUME RoleInv, RoleInv', Quiet
    PROVE  Moves
<1>. QED  BY QuietIsLawful DEF Moves, Quiet

LEMMA QuietlyRemembered ==
    ASSUME RoleInv, RoleInv', Quiet, Remembered, NEW i, Settles(i),
           NEW e, NEW ok, CallsBecome({}, e, ok),
           ok => e.req.kind \notin AppendKinds
    PROVE  Remembered'
<1>1. PICK L, F, K : Remembers(L, F, K)
    BY DEF Remembered
<1>2. \A x \in Node : Longer(F[x], F[x])
    BY DEF Longer
<1>3. Polled(L, F, K, F)
    BY <1>1, <1>2, PolledQuietly DEF Remembers, Bound
<1>4. Remembers(L, F, K)'
    BY <1>1, <1>3, QuietMoves, SettledRemembers
<1>. QED  BY <1>4 DEF Remembered

-----------------------------------------------------------------------------
(* Requests.                                                               *)

LEMMA AppendEntriesOK ==
    ASSUME RoleInv, NEW L, NEW F, NEW K, Shadow(L, F, K), NEW i \in Node,
           NodeOK(L, F, K, i), NEW f \in Node \ {i}, Leads(i),
           ~NeedsSnapshot(i, f), CanBuildRequest(i, f)
    PROVE  AppendOK(L, K, AppendEntries(i, f))
<1>. DEFINE next == replication[i].next_index[f]
            lg == log[i]
            t == state[i].current_term
            r == AppendEntries(i, f)
            g == F[i]
<1>1. /\ lg \in LogOf(Command) /\ lg.base \in Nat /\ LastIndex(lg) \in Nat
      /\ t \in Nat /\ state[i].commit_index \in Nat /\ g \in Full
      /\ replication[i] \in ReplicationOrNone(i)
    BY NodeTypes, ShadowFacts
<1>2. next \in Nat
    BY <1>1 DEF Leads, ReplicationOrNone, ReplicationType
<1>3. /\ Unfolds(lg, g) /\ g = L[t] /\ state[i].commit_index <= LastIndex(lg)
      /\ state[i].commit_index > 0
            => Chosen(L, K, g[state[i].commit_index].term, state[i].commit_index)
    BY DEF NodeOK, NodeLog, CommitChosen, Leads
<1>4. lg.base < next /\ TermAt(lg, next - 1) # NoTerm
    BY <1>1, <1>2 DEF NeedsSnapshot, CanBuildRequest
<1>5. /\ r.term = t /\ r.prev_log_index = next - 1
      /\ r.prev_log_term = TermAt(lg, next - 1)
      /\ r.entries = EntriesFrom(lg, next) /\ r.leader_commit = state[i].commit_index
    BY DEF AppendEntries
<1>. HIDE DEF next, lg, t, r, g
<1>6. PICK prev \in Nat : prev = next - 1 /\ prev + 1 = next
    BY <1>1, <1>2, <1>4
<1>7. /\ TermAt(lg, prev) = g[prev].term /\ lg.base <= prev /\ prev <= LastIndex(lg)
    BY <1>1, <1>3, <1>4, <1>6, UnfoldsTermAt DEF Full
<1>8. /\ Len(r.entries) = LastIndex(lg) - prev
      /\ \A n \in Nat : prev < n /\ n <= LastIndex(lg) =>
            Retains(lg, n) /\ r.entries[n - prev] = EntryAt(lg, n)
    BY <1>1, <1>5, <1>6, <1>7, EntriesAfter
<1>9. ASSUME NEW k \in 1..Len(r.entries)
      PROVE  r.entries[k] = L[t][prev + k] /\ r.entries[k].term > 0
  <2>0. \A last, p \in Nat : \A m \in 1..(last - p) :
            p + m \in Nat /\ (p + m) - p = m /\ p < p + m /\ p + m <= last
      OBVIOUS
  <2>1. PICK n \in Nat : n = prev + k /\ n - prev = k /\ prev < n /\ n <= LastIndex(lg)
      BY <1>1, <1>8, <1>9, <2>0
  <2>2. r.entries[k] = g[n]
      BY <1>3, <1>8, <2>1 DEF Unfolds
  <2>3. g[n].term > 0
      BY <1>1, <1>3, <2>1, UnfoldsHolds DEF Full
  <2>. QED  BY <1>3, <2>1, <2>2, <2>3
<1>10. prev > 0 => g[prev].term > 0
    BY <1>1, <1>3, <1>7, UnfoldsHolds DEF Full
<1>11. r.leader_commit <= prev + Len(r.entries)
    BY <1>1, <1>3, <1>5, <1>7, <1>8
<1>. QED  BY <1>3, <1>5, <1>6, <1>7, <1>9, <1>10, <1>11 DEF AppendOK, r

LEMMA InstallSnapshotOK ==
    ASSUME RoleInv, NEW L, NEW F, NEW K, Shadow(L, F, K), NEW i \in Node,
           NodeOK(L, F, K, i), NEW f \in Node \ {i}, Leads(i),
           NeedsSnapshot(i, f), CanBuildRequest(i, f)
    PROVE  InstallOK(L, K, InstallSnapshot(i))
<1>1. /\ snapshot[i].index = log[i].base /\ snapshot[i].term = log[i].bterm
      /\ snapshot[i].index \in Nat
    BY NodeTypes DEF CanBuildRequest
<1>2. F[i] = L[state[i].current_term] /\ F[i][log[i].base].term = log[i].bterm
    BY <1>1 DEF NodeOK, NodeLog, Leads, Unfolds
<1>. QED  BY <1>1, <1>2 DEF NodeOK, SnapshotChosen, InstallOK, InstallSnapshot

LEMMA SentOK ==
    ASSUME RoleInv, NEW L, NEW F, NEW K, Remembers(L, F, K), NEW i \in Node, NEW f \in Node,
           SendToFollower(i, f), NEW c, c = Sent(i, f)
    PROVE  CallOK(L, F, K, c)'
<1>2. /\ Leads(i) /\ f \in Node \ {i} /\ CanBuildRequest(i, f)
      /\ Shadow(L, F, K) /\ NodeOK(L, F, K, i)
    BY DEF SendToFollower, Remembers
<1>3. c.st = "sent"
    BY DEF Sent, Call
<1>4. c.req = IF NeedsSnapshot(i, f) THEN InstallSnapshot(i) ELSE AppendEntries(i, f)
    BY DEF Sent, Call
<1>5. \/ c.req.kind = "AppendEntries" /\ AppendOK(L, K, c.req)
      \/ c.req.kind = "InstallSnapshot" /\ InstallOK(L, K, c.req)
  <2>1. CASE NeedsSnapshot(i, f)
    <3>1. c.req.kind = "InstallSnapshot"
        BY <1>4, <2>1 DEF InstallSnapshot
    <3>. QED  BY <1>2, <1>4, <2>1, <3>1, InstallSnapshotOK
  <2>2. CASE ~NeedsSnapshot(i, f)
    <3>1. c.req.kind = "AppendEntries"
        BY <1>4, <2>2 DEF AppendEntries
    <3>. QED  BY <1>2, <1>4, <2>2, <3>1, AppendEntriesOK
  <2>. QED  BY <2>1, <2>2
<1>. QED  BY <1>3, <1>5 DEF CallOK, AnswerOK, VoteOK, AppendKinds

LEMMA SendingRemembered ==
    ASSUME RoleInv, RoleInv', Quiet, NEW L, NEW F, NEW K, Remembers(L, F, K),
           NEW i, Settles(i), NEW call, CallsBecome({call}, None, FALSE),
           CallOK(L, F, K, call)'
    PROVE  Remembered'
<1>. DEFINE one == {call}
<1>1. CallsBecome(one, None, FALSE) /\ \A c \in one : CallOK(L, F, K, c)'
    OBVIOUS
<1>. HIDE DEF one
<1>2. \A x \in Node : Longer(F[x], F[x])
    BY DEF Longer
<1>3. Polled(L, F, K, F)
    BY <1>2, PolledQuietly DEF Remembers, Bound
<1>4. Remembers(L, F, K)'
    BY <1>1, <1>3, QuietMoves, SettledRemembers
<1>. QED  BY <1>4 DEF Remembered

-----------------------------------------------------------------------------
(* Steps after which a node only holds less.                               *)

LEMMA SettledStep ==
    ASSUME RoleInv, RoleInv', Remembered,
           \/ \E i, f \in Node : SendToFollower(i, f) \/ SendTimeoutNow(i, f)
           \/ \E i \in Node : SubmitReturns(i) \/ BeginTransfer(i) \/ AbortTransfer(i)
           \/ \E c \in rpcs : \/ VoteAfterElection(c) \/ VoteFromNewerTerm(c)
                              \/ AnswerAfterLeadership(c) \/ AnswerFromNewerTerm(c)
                              \/ HandleAppendEntries(c)
                                    /\ c.req.term < state[c.dst].current_term
                              \/ HandleTimeoutNow(c) \/ TransferAnswered(c)
                              \/ CallFails(c) \/ LateRequestLost(c)
    PROVE  Remembered'
<1>0. TypeInv
    BY DEF RoleInv, ElectionInv
<1>1. ASSUME NEW i \in Node, NEW f \in Node, SendToFollower(i, f)
      PROVE  Remembered'
  <2>1. PICK L, F, K : Remembers(L, F, K)
      BY DEF Remembered
  <2>2. PICK call : call = Sent(i, f)
      OBVIOUS
  <2>3. CallOK(L, F, K, call)'
      BY <1>1, <2>1, <2>2, SentOK
  <2>4. Settles(i) /\ CallsBecome({call}, None, FALSE) /\ Quiet
      BY <1>0, <1>1, <2>2, SendToFollowerSettles, SendsQuiet
  <2>. QED  BY <2>1, <2>3, <2>4, SendingRemembered
<1>2. ASSUME NEW i \in Node, NEW f \in Node, SendTimeoutNow(i, f)
      PROVE  Remembered'
  <2>1. PICK L, F, K : Remembers(L, F, K)
      BY DEF Remembered
  <2>2. PICK call : call = TimeoutCall(i, f)
      OBVIOUS
  <2>3. call.req.kind = "TimeoutNow" /\ call.st = "sent"
      BY <2>2 DEF TimeoutCall, Call
  <2>4. CallOK(L, F, K, call)'
      BY <2>3 DEF CallOK, AnswerOK, VoteOK
  <2>5. Settles(i) /\ CallsBecome({call}, None, FALSE) /\ Quiet
      BY <1>0, <1>2, <2>2, SendTimeoutNowSettles, SendsQuiet
  <2>. QED  BY <2>1, <2>4, <2>5, SendingRemembered
<1>3. ASSUME NEW i, Settles(i), Quiet, CallsBecome({}, None, FALSE)
      PROVE  Remembered'
    BY <1>3, QuietlyRemembered
<1>4. ASSUME NEW i \in Node, SubmitReturns(i) \/ BeginTransfer(i) \/ AbortTransfer(i)
      PROVE  Remembered'
  <2>1. Settles(i) /\ CallsBecome({}, None, FALSE) /\ Quiet
      BY <1>0, <1>4, LocalSettles, LocalQuiet
  <2>. QED  BY <1>3, <2>1
<1>5. ASSUME NEW c \in rpcs, VoteAfterElection(c) \/ CallFails(c)
      PROVE  Remembered'
  <2>1. Settles(c.src) /\ CallsBecome({}, None, FALSE) /\ Quiet
      BY <1>0, <1>5, AbandonsSettle, AbandonsQuiet
  <2>. QED  BY <1>3, <2>1
<1>6. ASSUME NEW c \in rpcs, AnswerAfterLeadership(c) \/ LateRequestLost(c)
      PROVE  Remembered'
  <2>1. Settles(c.src) /\ CallsBecome({}, None, FALSE) /\ Quiet
      BY <1>0, <1>6, DropsSettle, DropsQuiet
  <2>. QED  BY <1>3, <2>1
<1>7. ASSUME NEW c \in rpcs, VoteFromNewerTerm(c)
      PROVE  Remembered'
  <2>1. Settles(c.src) /\ CallsBecome({}, None, FALSE) /\ Quiet
      BY <1>0, <1>7, VoteFromNewerTermSettles, VoteFromNewerTermQuiet
  <2>. QED  BY <1>3, <2>1
<1>8. ASSUME NEW c \in rpcs, AnswerFromNewerTerm(c)
      PROVE  Remembered'
  <2>1. Settles(c.src) /\ CallsBecome({}, None, FALSE) /\ Quiet
      BY <1>0, <1>8, AnswerFromNewerTermSettles, AnswerFromNewerTermQuiet
  <2>. QED  BY <1>3, <2>1
<1>9. ASSUME NEW c \in rpcs, TransferAnswered(c)
      PROVE  Remembered'
  <2>1. Settles(c.src) /\ CallsBecome({}, None, FALSE) /\ Quiet
      BY <1>0, <1>9, TransferAnsweredSettles, TransferAnsweredQuiet
  <2>. QED  BY <1>3, <2>1
<1>10. ASSUME NEW c \in rpcs, HandleAppendEntries(c),
              c.req.term < state[c.dst].current_term
       PROVE  Remembered'
  <2>1. Settles(c.dst) /\ CallsBecome({}, c, FALSE) /\ Quiet
      BY <1>0, <1>10, StaleAppendSettles, HandleAppendEntriesQuiet
  <2>. QED  BY <2>1, QuietlyRemembered
<1>11. ASSUME NEW c \in rpcs, HandleTimeoutNow(c)
       PROVE  Remembered'
  <2>1. Settles(c.dst) /\ Quiet
      BY <1>0, <1>11, HandleTimeoutNowSettles, HandleTimeoutNowQuiet
  <2>2. PICK ok : CallsBecome({}, c, ok)
      BY <1>0, <1>11, HandleTimeoutNowSettles
  <2>3. c.req.kind \notin AppendKinds
      BY <1>11 DEF HandleTimeoutNow, Deliverable, AppendKinds
  <2>. QED  BY <2>1, <2>2, <2>3, QuietlyRemembered
<1>. QED  BY <1>1, <1>2, <1>4, <1>5, <1>6, <1>7, <1>8, <1>9, <1>10, <1>11

-----------------------------------------------------------------------------
(* Answers to a leader.                                                    *)

LEMMA ReplicatedCell ==
    ASSUME TypeInv, NEW L, NEW F, NEW K, Shadow(L, F, K), NEW c \in rpcs,
           c.req.kind \in AppendKinds, CallOK(L, F, K, c)
    PROVE  /\ ReplicatedBy(c) \in Nat /\ c.req.term \in Nat
           /\ ReplicatedBy(c) = 0 \/ L[c.req.term][ReplicatedBy(c)].term > 0
<1>0. c.req.term \in Nat
    BY CallOnNetwork
<1>1. CASE c.req.kind = "InstallSnapshot"
  <2>1. c.req.index \in Nat /\ ReplicatedBy(c) = c.req.index /\ c.req.index_term \in Nat
      BY <1>1, InstallRequestFields DEF ReplicatedBy
  <2>2. CASE c.req.index > 0
      BY <1>0, <1>1, <2>1, <2>2 DEF CallOK, InstallOK, Chosen
  <2>. QED  BY <1>0, <2>1, <2>2
<1>2. CASE c.req.kind = "AppendEntries"
  <2>. DEFINE prev == c.req.prev_log_index
              len == Len(c.req.entries)
  <2>1. prev \in Nat /\ len \in Nat /\ c.req.prev_log_term \in Nat
      BY <1>2, AppendRequestFields, LenProperties
  <2>2. ReplicatedBy(c) = prev + len
      BY <1>2 DEF ReplicatedBy
  <2>3. AppendOK(L, K, c.req)
      BY <1>2 DEF CallOK
  <2>4. CASE len > 0
    <3>1. len \in 1..Len(c.req.entries)
        BY <2>1, <2>4
    <3>2. L[c.req.term][prev + len].term > 0
        BY <2>3, <3>1 DEF AppendOK
    <3>. HIDE DEF prev, len
    <3>. QED  BY <1>0, <2>1, <2>2, <3>2
  <2>5. CASE len = 0
    <3>1. prev > 0 => L[c.req.term][prev].term > 0
        BY <2>3 DEF AppendOK
    <3>. HIDE DEF prev, len
    <3>. QED  BY <1>0, <2>1, <2>2, <2>5, <3>1
  <2>. HIDE DEF prev, len
  <2>. QED  BY <2>1, <2>4, <2>5
<1>. QED  BY <1>1, <1>2 DEF AppendKinds

LEMMA RecordSuccessEffect ==
    ASSUME NEW i \in Node, NEW repl \in ReplicationType(i), NEW f \in Node,
           NEW index \in Nat, NEW g \in Node \ {i}
    PROVE  LET new == RecordSuccess(repl, f, index) IN
           \/ /\ new.match_index[g] = repl.match_index[g]
              /\ new.next_index[g] = repl.next_index[g]
           \/ /\ g = f /\ new.next_index[g] = new.match_index[g] + 1
              /\ \/ new.match_index[g] = repl.match_index[g]
                 \/ new.match_index[g] = index
<1>. DEFINE new == RecordSuccess(repl, f, index)
            match == Max({repl.match_index[f], index})
<1>1. /\ new.match_index = [repl.match_index EXCEPT ![f] = match]
      /\ new.next_index = [repl.next_index EXCEPT ![f] = match + 1]
      /\ repl.match_index \in [Node \ {i} -> Nat]
      /\ repl.next_index \in [Node \ {i} -> Nat]
    BY DEF RecordSuccess, ReplicationType
<1>2. CASE g # f
    BY <1>1, <1>2
<1>3. CASE g = f
  <2>1. match \in {repl.match_index[f], index}
    <3>1. repl.match_index[f] \in Nat
        BY <1>1, <1>3
    <3>. QED  BY ONLY <3>1, index \in Nat, MaxOfTwo
  <2>. HIDE DEF new, match
  <2>2. /\ new.next_index[g] = new.match_index[g] + 1
        /\ \/ new.match_index[g] = repl.match_index[g]
           \/ new.match_index[g] = index
      BY <1>1, <1>3, <2>1
  <2>. QED  BY <1>3, <2>2 DEF new
<1>. QED  BY <1>2, <1>3

LEMMA RecordFailureEffect ==
    ASSUME NEW i \in Node, NEW repl \in ReplicationType(i), NEW f \in Node,
           NEW g \in Node \ {i}
    PROVE  LET new == RecordFailure(repl, f) IN
           /\ new.match_index = repl.match_index
           /\ \/ new.next_index[g] = repl.next_index[g]
              \/ new.next_index[g] = 1
              \/ new.next_index[g] = repl.next_index[g] - 1
<1>. DEFINE new == RecordFailure(repl, f)
            next == Max({1, repl.next_index[f] - 1})
<1>1. /\ new.match_index = repl.match_index
      /\ new.next_index = [repl.next_index EXCEPT ![f] = next]
      /\ repl.next_index \in [Node \ {i} -> Nat]
    BY DEF RecordFailure, ReplicationType
<1>2. CASE g # f
    BY <1>1, <1>2
<1>3. CASE g = f
  <2>1. next \in {1, repl.next_index[f] - 1}
      BY <1>1, <1>3, MaxOfTwo
  <2>. HIDE DEF new, next
  <2>2. new.next_index[g] = 1 \/ new.next_index[g] = repl.next_index[g] - 1
      BY <1>1, <1>3, <2>1
  <2>. QED  BY <1>1, <2>2 DEF new
<1>. QED  BY <1>2, <1>3

LEMMA AnswerToLeaderStep ==
    ASSUME RoleInv, RoleInv', Remembered, NEW c \in rpcs, AnswerToLeader(c)
    PROVE  Remembered'
<1>. DEFINE i == c.src
            r == IF c.resp.ok THEN RecordSuccess(replication[i], c.dst, ReplicatedBy(c))
                 ELSE IF c.req.kind = "AppendEntries"
                 THEN RecordFailure(replication[i], c.dst) ELSE replication[i]
<1>0. TypeInv
    BY DEF RoleInv, ElectionInv
<1>1. PICK L, F, K : Remembers(L, F, K)
    BY DEF Remembered
<1>2. /\ NodeBecomes(i, state[i], log[i], snapshot[i], r, pending[i])
      /\ Same /\ CallsBecome({}, None, FALSE) /\ Quiet
    BY <1>0, AnswerToLeaderEffect, DropsQuiet
<1>3. /\ c.req.kind \in AppendKinds /\ c.st = "answered"
      /\ state[i].role = Leader /\ replication[i] # NoReplication
      /\ state[i].current_term = c.req.term
    BY DEF AnswerToLeader, Answered, StillLeader, Leads
<1>4. i \in Node /\ c.dst \in Node
    BY <1>0, CallOnNetwork
<1>. HIDE DEF r, i
<1>5. /\ Shadow(L, F, K) /\ NodeOK(L, F, K, i) /\ CallOK(L, F, K, c)
      /\ History(L, K) /\ VotersCovered(L, F, K) /\ LeaderLogs(L)
    BY <1>1, <1>4 DEF Remembers, Bound
<1>6. /\ OnlyTouches(i) /\ up' = up /\ elected' = elected /\ committed' = committed
      /\ state'[i] = state[i] /\ log'[i] = log[i] /\ snapshot'[i] = snapshot[i]
      /\ replication'[i] = r /\ pending'[i] = pending[i]
    BY <1>2 DEF NodeBecomes, Same
<1>7. Moves
    BY <1>2, QuietMoves
<1>. DEFINE x == ReplicatedBy(c)
            last == LastIndex(log[i])
            t == state[i].current_term
<1>8. /\ x \in Nat /\ t \in Nat /\ last \in Nat /\ replication[i] \in ReplicationType(i)
      /\ log[i] \in LogOf(Command)
    BY <1>0, <1>3, <1>4, <1>5, ReplicatedCell, NodeTypes DEF ReplicationOrNone
<1>9. x <= last
  <2>1. F[i] \in Full /\ F[i] = L[t] /\ Unfolds(log[i], F[i])
      BY <1>3, <1>4, <1>5, ShadowFacts DEF NodeOK, NodeLog
  <2>2. x = 0 \/ F[i][x].term > 0
      BY <1>0, <1>3, <1>5, <2>1, ReplicatedCell
  <2>. HIDE DEF x, t, last
  <2>. QED  BY <1>8, <2>1, <2>2, UnfoldsHolds DEF Full, last
<1>10. c.resp.ok => x <= K[c.dst][t]
    BY <1>3, <1>5 DEF CallOK, AnswerOK
<1>11. ASSUME NEW f \in Node \ {i}
       PROVE  /\ r.match_index[f] <= last /\ r.next_index[f] <= last + 1
              /\ \A n \in Nat : n <= r.match_index[f] /\ F[i][n].term = t
                                => n <= K[f][t]
  <2>1. /\ replication[i].match_index[f] \in Nat /\ replication[i].next_index[f] \in Nat
        /\ replication[i].match_index[f] <= last
        /\ replication[i].next_index[f] <= last + 1
        /\ \A n \in Nat : n <= replication[i].match_index[f] /\ F[i][n].term = t
                                => n <= K[f][t]
      BY <1>3, <1>5, <1>8 DEF NodeOK, Progress, ReplicationType
  <2>. HIDE DEF x, last, t
  <2>2. CASE r = replication[i]
      BY <2>1, <2>2
  <2>3. CASE c.resp.ok /\ r = RecordSuccess(replication[i], c.dst, x)
    <3>1. \/ /\ r.match_index[f] = replication[i].match_index[f]
             /\ r.next_index[f] = replication[i].next_index[f]
          \/ /\ f = c.dst /\ r.next_index[f] = r.match_index[f] + 1
             /\ \/ r.match_index[f] = replication[i].match_index[f]
                \/ r.match_index[f] = x
        BY <1>4, <1>8, <2>3, RecordSuccessEffect
    <3>2. K[c.dst][t] \in Nat
        BY <1>4, <1>5, <1>8, ShadowFacts
    <3>. QED  BY <1>8, <1>9, <1>10, <2>1, <2>3, <3>1, <3>2
  <2>4. CASE r = RecordFailure(replication[i], c.dst)
    <3>1. /\ r.match_index = replication[i].match_index
          /\ \/ r.next_index[f] = replication[i].next_index[f]
             \/ r.next_index[f] = 1
             \/ r.next_index[f] = replication[i].next_index[f] - 1
        BY <1>4, <1>8, <2>4, RecordFailureEffect
    <3>2. r.next_index[f] <= last + 1
        BY <1>8, <2>1, <3>1
    <3>. QED  BY <2>1, <3>1, <3>2
  <2>. QED  BY <2>2, <2>3, <2>4 DEF r, x
<1>12. NodeOK(L, F, K, i)'
  <2>1. Progress(F, K, i)'
      BY <1>6, <1>11 DEF Progress
  <2>2. NodeLog(L, F, K, i)' /\ CommitChosen(L, F, K, i)' /\ SnapshotChosen(L, K, i)'
      BY <1>5, <1>6 DEF NodeOK, NodeLog, CommitChosen, SnapshotChosen
  <2>3. PendingKept(L, i)'
      BY <1>5, <1>6 DEF NodeOK, PendingKept
  <2>. QED  BY <2>1, <2>2, <2>3 DEF NodeOK
<1>13. History(L, K)'
  <2>1. Grows(L, F, K, L, F, K)
      BY <1>5, <1>7, LeaderLogsSame, ShadowFacts DEF Grows, AcksGrow
  <2>. QED  BY <1>0, <1>5, <1>6, <2>1, HistoryGrows
<1>14. Remembers(L, F, K)'
    BY <1>1, <1>2, <1>4, <1>6, <1>7, <1>12, <1>13, RemembersSameQuietly
<1>. QED  BY <1>14 DEF Remembered

-----------------------------------------------------------------------------
(* Votes.                                                                  *)

LEMMA SortedStop ==
    ASSUME NEW f \in Full, Sorted(f), NEW n \in Nat, NEW m \in Nat,
           f[m].term > 0, f[n].term > 0, f[n].term < f[m].term
    PROVE  n < m
<1>1. ASSUME ~(n < m)  PROVE FALSE
  <2>1. m > 0
      BY SortedStart
  <2>2. m \in 1..n
      BY <1>1, <2>1
  <2>3. f[m].term <= f[n].term
      BY <2>2 DEF Sorted
  <2>. QED  BY <2>3, FullFacts
<1>. QED  BY <1>1

(* A candidate whose log is up to date for v has all that v has and that   *)
(* may still be chosen.                                                    *)
LEMMA UpToDateCovers ==
    ASSUME NEW L, NEW F, NEW K, Shadow(L, F, K), Bound(L, F, K),
           NEW v \in Node, NEW x \in Node, NEW s \in Nat,
           log[v] \in LogOf(Command), Unfolds(log[v], F[v]),
           NEW index \in Nat, NEW term \in Nat, Describes(F[x], index, term),
           UpToDate(index, term, LastIndex(log[v]), LastTerm(log[v]))
    PROVE  Covered(L, F, K, v, x, s)
<1>. DEFINE last == LastIndex(log[v])
            w == F[v][last].term
<1>1. /\ last \in Nat /\ LastTerm(log[v]) = w /\ w \in Nat
      /\ F[v] \in Full /\ F[x] \in Full /\ F[x][index].term = term
    BY LastIndexType, UnfoldsLastTerm, UnfoldsHolds, ShadowFacts DEF Full, Describes
<1>2. /\ LeaderLogs(L) /\ L \in [Nat -> Full] /\ LeadersKeep(L, K)
      /\ Traceable(L, F[v]) /\ Traceable(L, F[x]) /\ AcksKept(L, F, K)
    BY DEF Bound, Shadow
<1>3. Sorted(F[v])
    BY <1>1, <1>2, TraceableSorted
<1>4. ASSUME NEW t \in Nat, NEW n \in Nat, 0 < t, t < s, n <= K[v][t], L[t][n].term = t
      PROVE  F[x][n].term = t \/ Dead(K, t, n)
  <2>1. F[v][n].term = t \/ Dead(K, t, n)
      BY <1>2, <1>4 DEF AcksKept
  <2>2. CASE F[v][n].term = t
    <3>1. 0 < n /\ n <= last
        BY <1>1, <1>4, <2>2, UnfoldsHolds DEF Full
    <3>2. t <= w /\ w > 0
      <4>1. w > 0
          BY <1>1, <3>1, UnfoldsHolds DEF Full
      <4>. QED  BY <1>1, <1>3, <2>2, <3>1, <4>1 DEF Sorted
    <3>3. CASE term > w
      <4>1. Agree(F[x], L[term], index)
          BY <1>1, <1>2, <3>2, <3>3 DEF Traceable
      <4>2. L[term][index].term = term
          BY <1>1, <4>1 DEF Agree
      <4>3. PICK y \in Node : <<term, y>> \in elected
        <5>1. L[term][index] # Blank
            BY <1>1, <3>2, <3>3, <4>2 DEF Blank
        <5>. QED  BY <1>2, <5>1 DEF LeaderLogs, LeaderLog, Led
      <4>4. L[term][n].term = t \/ Dead(K, t, n)
        <5>1. <<term, y>>[1] = term /\ t < term
            BY <1>1, <3>2, <3>3
        <5>. QED  BY <1>2, <1>4, <4>3, <5>1 DEF LeadersKeep
      <4>5. ASSUME L[term][n].term = t
            PROVE  F[x][n].term = t
        <5>1. L[term] \in Full /\ Sorted(L[term])
            BY <1>2 DEF LeaderLogs, LeaderLog
        <5>2. n < index
            BY <1>1, <1>4, <3>2, <3>3, <4>2, <4>5, <5>1, SortedStop
        <5>. QED  BY <4>1, <4>5, <5>2 DEF Agree
      <4>. QED  BY <4>4, <4>5
    <3>4. CASE term = w /\ last <= index
      <4>1. Agree(F[x], L[w], index) /\ Agree(F[v], L[w], last)
          BY <1>1, <1>2, <3>2, <3>4 DEF Traceable
      <4>. HIDE DEF w, last
      <4>. QED  BY <1>1, <2>2, <3>1, <3>4, <4>1 DEF Agree
    <3>. QED  BY <1>1, <3>3, <3>4 DEF UpToDate
  <2>. QED  BY <2>1, <2>2
<1>. QED  BY <1>4 DEF Covered

LEMMA HandleRequestVoteStep ==
    ASSUME RoleInv, RoleInv', Remembered, NEW c \in rpcs, HandleRequestVote(c)
    PROVE  Remembered'
<1>0. TypeInv
    BY DEF RoleInv, ElectionInv
<1>1. PICK L, F, K : Remembers(L, F, K)
    BY DEF Remembered
<1>2. PICK ok : CallsBecome({}, c, ok)
    BY <1>0, HandleRequestVoteSettles
<1>3. Settles(c.dst)
    BY <1>0, HandleRequestVoteSettles
<1>4. Moves
    BY <1>0, <1>3, HandleRequestVoteLawful DEF Moves, Settles
<1>5. c.req.kind = "RequestVote" /\ c.req.kind \notin AppendKinds
    BY DEF HandleRequestVote, Deliverable, AppendKinds
<1>6. /\ Shadow(L, F, K) /\ Bound(L, F, K) /\ VotersCovered(L, F, K)
      /\ \A i \in Node : NodeOK(L, F, K, i)
      /\ CallOK(L, F, K, c)
    BY <1>1 DEF Remembers, Bound
<1>7. ASSUME NEW v \in Node, NEW x \in Node, NEW s \in Nat,
             state'[x].role = Candidate, state'[x].current_term = s, Evidence(v, s, x)'
      PROVE  Covered(L, F, K, v, x, s)
  <2>1. state[x].role = Candidate /\ state[x].current_term = s
      BY <1>3, <1>7 DEF Settles, OnlyTouches, Follower, Candidate
  <2>2. CASE Evidence(v, s, x)
      BY <1>6, <2>1, <2>2 DEF VotersCovered
  <2>3. CASE ~Evidence(v, s, x)
    <3>1. /\ v = c.dst /\ x = c.src /\ s = c.req.term
          /\ UpToDate(c.req.last_log_index, c.req.last_log_term,
                      LastIndex(log[v]), LastTerm(log[v]))
        BY <1>0, <1>7, <2>3, GrantedVote
    <3>2. Describes(F[x], c.req.last_log_index, c.req.last_log_term)
        BY <1>5, <1>6, <2>1, <3>1 DEF CallOK, VoteOK
    <3>3. c.req.last_log_index \in Nat /\ c.req.last_log_term \in Nat
        BY <1>0, <1>5, CallOnNetwork DEF CallType, RequestType
    <3>4. log[v] \in LogOf(Command) /\ Unfolds(log[v], F[v])
        BY <1>6, NodeTypes DEF NodeOK, NodeLog
    <3>. QED  BY <1>6, <3>1, <3>2, <3>3, <3>4, UpToDateCovers
  <2>. QED  BY <2>2, <2>3
<1>8. \A y \in Node : Longer(F[y], F[y])
    BY DEF Longer
<1>9. Polled(L, F, K, F)
    BY <1>7, <1>8 DEF Polled
<1>. DEFINE none == {}
<1>10. CallsBecome(none, c, ok) /\ \A d \in none : CallOK(L, F, K, d)'
    BY <1>2
<1>. HIDE DEF none
<1>11. Remembers(L, F, K)'
    BY <1>1, <1>3, <1>4, <1>5, <1>9, <1>10, SettledRemembers
<1>. QED  BY <1>11 DEF Remembered

-----------------------------------------------------------------------------
(* What the node that makes a step keeps.                                  *)

LEMMA CommitStays ==
    ASSUME Moves, NEW L, NEW F, NEW K, NEW L2, NEW F2, NEW K2,
           Grows(L, F, K, L2, F2, K2), NEW i \in Node, CommitChosen(L, F, K, i),
           state'[i].commit_index = state[i].commit_index,
           F2[i][state[i].commit_index] = F[i][state[i].commit_index],
           state[i].commit_index <= LastIndex(log'[i]),
           log'[i].base >= log[i].base,
           i \in up' => state'[i].last_applied <= state[i].commit_index
    PROVE  CommitChosen(L2, F2, K2, i)'
<1>1. PICK c : c = state[i].commit_index
    OBVIOUS
<1>2. PICK s : s = F[i][c].term
    OBVIOUS
<1>3. /\ c \in Nat /\ s \in Nat /\ log[i].base \in Nat /\ log'[i].base \in Nat
      /\ state[i].current_term \in Nat /\ state'[i].current_term \in Nat
      /\ state'[i].current_term >= state[i].current_term
  <2>1. F[i] \in Full
      BY ShadowFacts DEF Grows
  <2>2. log'[i].base \in Nat
    <3>1. log'[i] \in LogType
        BY DEF Moves, RoleInv, ElectionInv, TypeInv, TypeOK
    <3>. QED  BY <3>1 DEF LogType
  <2>. QED  BY <1>1, <1>2, <2>1, <2>2, NodeTypes, FullFacts, TermsGrow DEF Moves
<1>4. c > 0 => Chosen(L, K, s, c) /\ (s <= state[i].current_term \/ c <= log[i].base)
    BY <1>1, <1>2 DEF CommitChosen
<1>5. c > 0 => Chosen(L2, K2, s, c)
    BY <1>3, <1>4, ChosenGrows
<1>6. c > 0 => s <= state'[i].current_term \/ c <= log'[i].base
    BY <1>3, <1>4
<1>7. /\ state'[i].commit_index = c /\ F2[i][c].term = s
      /\ c <= LastIndex(log'[i]) /\ i \in up' => state'[i].last_applied <= c
    BY <1>1, <1>2
<1>. QED  BY <1>1, <1>2, <1>5, <1>6, <1>7 DEF CommitChosen

LEMMA SnapshotStays ==
    ASSUME Moves, NEW L, NEW F, NEW K, NEW L2, NEW F2, NEW K2,
           Grows(L, F, K, L2, F2, K2), NEW i \in Node, SnapshotChosen(L, K, i),
           snapshot'[i] = snapshot[i], log'[i].base = log[i].base,
           log'[i].bterm = log[i].bterm, i \in up' => i \in up
    PROVE  SnapshotChosen(L2, K2, i)'
<1>1. snapshot[i].index \in Nat /\ snapshot[i].term \in Nat
    BY NodeTypes DEF Moves
<1>2. snapshot[i].index > 0 => Chosen(L2, K2, snapshot[i].term, snapshot[i].index)
    BY <1>1, ChosenGrows DEF SnapshotChosen
<1>. QED  BY <1>2 DEF SnapshotChosen

LEMMA PendingStays ==
    ASSUME RoleInv, NEW L, NEW F, NEW K, NEW L2, NEW F2, NEW K2,
           Grows(L, F, K, L2, F2, K2), NEW i \in Node, PendingKept(L, i),
           pending'[i] \in {pending[i], NoBatch}
    PROVE  PendingKept(L2, i)'
<1>1. CASE pending'[i] = pending[i]
  <2>1. ASSUME NEW p, p = pending[i], NEW k \in 1..Len(p.entries)
        PROVE  /\ p.entries[k].term > 0
               /\ L2[p.entries[k].term][p.first + k - 1] = p.entries[k]
    <3>1. /\ p \in PendingType /\ p.entries[k].term > 0
          /\ L[p.entries[k].term][p.first + k - 1] = p.entries[k]
        BY <2>1, NodeTypes DEF PendingKept
    <3>. QED  BY <2>1, <3>1, PendingGrows
  <2>. QED  BY <1>1, <2>1 DEF PendingKept
<1>2. CASE pending'[i] = NoBatch
  <2>1. Len(pending'[i].entries) = 0
      BY <1>2 DEF NoBatch
  <2>. QED  BY <2>1 DEF PendingKept
<1>. QED  BY <1>1, <1>2

LEMMA InitializedProgress ==
    ASSUME NEW i \in Node, NEW repl, NEW lg, NEW f \in Node \ {i},
           NEW r, r = InitializeReplication(i, repl, lg)
    PROVE  \/ repl # NoReplication /\ r = repl
           \/ r.match_index[f] = 0 /\ r.next_index[f] = LastIndex(lg) + 1
<1>. QED  BY DEF InitializeReplication, LeaderReplication

-----------------------------------------------------------------------------
(* Candidates and new leaders.                                             *)

LEMMA StandsRemembered ==
    ASSUME Moves, NEW L, NEW F, NEW K, Remembers(L, F, K),
           NEW i \in Node, NEW t \in Nat, NEW Q, Stands(i, t, Q), t > 0,
           <<t, i>> \notin elected, Polled(L, F, K, F),
           Q \in Quorum => /\ \A n \in Nat : F[i][n].term <= t
                           /\ \A v \in Q : /\ state'[v].current_term >= t
                                           /\ Covered(L, F, K, v, i, t),
           \/ state[i].role = Candidate /\ state[i].current_term = t
           \/ state[i].current_term < t,
           NEW added, CallsBecome(added, None, FALSE),
           \A c \in added : /\ c.st = "sent" /\ c.req.kind = "RequestVote" /\ c.src = i
                            /\ Describes(F[i], c.req.last_log_index, c.req.last_log_term)
    PROVE  Remembered'
<1>1. /\ Shadow(L, F, K) /\ Bound(L, F, K) /\ LeaderLogs(L) /\ NodeOK(L, F, K, i)
      /\ History(L, K) /\ F[i] \in Full
    BY DEF Remembers, Bound, Shadow
<1>2. PICK L2 : /\ Shadow(L2, F, K) /\ Bound(L2, F, K)' /\ LogsGrow(L, L2)
                /\ \A u \in Nat : u # t => L2[u] = L[u]
                /\ state'[i].role = Leader => L2[t] = F[i]
                /\ state'[i].role # Leader => L2 = L
    BY <1>1, StandsBound
<1>3. Grows(L, F, K, L2, F, K)
    BY <1>1, <1>2, ShadowFacts DEF Grows, AcksGrow, Bound
<1>4. /\ OnlyTouches(i) /\ up' = up /\ committed' = committed
      /\ state'[i].current_term = t
      /\ state'[i].commit_index = state[i].commit_index
      /\ state'[i].last_applied = state[i].last_applied
      /\ log'[i] = log[i] /\ snapshot'[i] = snapshot[i] /\ pending'[i] = pending[i]
    BY DEF Stands
<1>5. \/ state'[i].role = Candidate /\ replication'[i] = replication[i]
      \/ /\ state'[i].role = Leader /\ <<t, i>> \in elected'
         /\ \A n \in Nat : F[i][n].term < t
         /\ replication'[i] = InitializeReplication(i, replication[i], log[i])
  <2>1. ASSUME Q \in Quorum, elected' = elected \cup {<<t, i>>}
        PROVE  <<t, i>> \in elected' /\ \A n \in Nat : F[i][n].term < t
      BY <1>1, <2>1, TakesOffice
  <2>. QED  BY <2>1 DEF Stands
<1>6. ASSUME NEW u \in Nat, L2[u] # L[u], NEW j \in Node \ {i}, <<u, j>> \in elected
      PROVE  FALSE
  <2>1. u = t /\ <<t, i>> \in elected'
      BY <1>2, <1>5, <1>6 DEF Leader, Candidate
  <2>2. PICK e \in elected', d \in elected' : e = <<t, i>> /\ d = <<t, j>>
      BY <1>6, <2>1 DEF Moves
  <2>3. e[1] = d[1] /\ e[2] = i /\ d[2] = j
      BY <2>2
  <2>4. e[2] = d[2]
      BY <2>3 DEF Moves, RoleInv, ElectionInv, ElectionSafety
  <2>. QED  BY <2>3, <2>4
<1>7. NodeLog(L2, F, K, i)'
    BY <1>1, <1>2, <1>4, <1>5, FullFacts DEF NodeOK, NodeLog, Leader, Candidate
<1>8. Progress(F, K, i)'
  <2>1. ASSUME replication'[i] # NoReplication, NEW f \in Node \ {i}
        PROVE  /\ replication'[i].match_index[f] <= LastIndex(log[i])
               /\ replication'[i].next_index[f] <= LastIndex(log[i]) + 1
    <3>0. LastIndex(log[i]) \in Nat
        BY NodeTypes DEF Moves
    <3>1. CASE replication'[i] = replication[i]
        BY <1>1, <2>1, <3>1 DEF NodeOK, Progress
    <3>2. CASE replication'[i] = InitializeReplication(i, replication[i], log[i])
      <4>1. \/ replication[i] # NoReplication /\ replication'[i] = replication[i]
            \/ /\ replication'[i].match_index[f] = 0
               /\ replication'[i].next_index[f] = LastIndex(log[i]) + 1
          BY <3>2, InitializedProgress
      <4>2. CASE replication'[i].match_index[f] = 0
                 /\ replication'[i].next_index[f] = LastIndex(log[i]) + 1
          BY <3>0, <4>2
      <4>. QED  BY <3>1, <4>1, <4>2
    <3>. QED  BY <1>5, <3>1, <3>2
  <2>2. ASSUME state'[i].role = Leader, NEW n \in Nat, F[i][n].term = t
        PROVE  FALSE
      BY <1>5, <2>2 DEF Leader, Candidate
  <2>. QED  BY <1>4, <2>1, <2>2 DEF Progress
<1>9. CommitChosen(L2, F, K, i)'
    BY <1>1, <1>3, <1>4, CommitStays, NodeTypes DEF NodeOK, CommitChosen, Moves
<1>10. SnapshotChosen(L2, K, i)' /\ PendingKept(L2, i)'
    BY <1>1, <1>3, <1>4, SnapshotStays, PendingStays DEF NodeOK, Moves
<1>11. NodeOK(L2, F, K, i)'
    BY <1>7, <1>8, <1>9, <1>10 DEF NodeOK
<1>12. History(L2, K)'
    BY <1>1, <1>3, <1>4, HistoryGrows DEF Moves, RoleInv, ElectionInv
<1>13. ASSUME NEW c \in added  PROVE CallOK(L2, F, K, c)'
    BY <1>13 DEF CallOK, AnswerOK, VoteOK
<1>14. \/ /\ state[i].role = Candidate
          /\ state'[i].current_term = state[i].current_term
       \/ state'[i].current_term > state[i].current_term
    BY <1>4, NodeTypes DEF Moves
<1>15. Remembers(L2, F, K)'
    BY <1>2, <1>3, <1>4, <1>6, <1>11, <1>12, <1>13, <1>14, RemembersKept
<1>. QED  BY <1>15 DEF Remembered

-----------------------------------------------------------------------------
LEMMA LogDescribed ==
    ASSUME RoleInv, NEW i \in Node, NEW f \in Full, Unfolds(log[i], f)
    PROVE  Describes(f, LastIndex(log[i]), LastTerm(log[i]))
<1>. QED  BY NodeTypes, UnfoldsLastTerm DEF Describes, Unfolds, Full

(* A node with a quorum that knows no later term holds no later entry.     *)
LEMMA NotAhead ==
    ASSUME RoleInv, NEW L, NEW F, NEW K, Shadow(L, F, K), AheadBarred(F),
           NEW i \in Node, NEW t \in Nat, state[i].current_term <= t,
           NEW Q \in Quorum,
           \A v \in Q : Evidence(v, t, i) \/ state[v].current_term <= t,
           NEW n \in Nat
    PROVE  F[i][n].term <= t
<1>. DEFINE u == F[i][n].term
<1>0. u \in Nat /\ state[i].current_term \in Nat
    BY NodeTypes, ShadowFacts, FullFacts
<1>1. SUFFICES ASSUME u > t  PROVE FALSE
    BY <1>0
<1>2. Barred(i, u)
    BY <1>0, <1>1 DEF AheadBarred
<1>. HIDE DEF u
<1>3. PICK P \in Quorum : \A v \in P :
          state[v].current_term >= u /\ \A w \in Nat : w < u => ~Evidence(v, w, i)
    BY <1>2 DEF Barred
<1>4. PICK v \in P \cap Q : v \in Node
    BY QuorumsIntersect
<1>5. state[v].current_term \in Nat
    BY <1>4, NodeTypes
<1>. QED  BY <1>0, <1>1, <1>3, <1>4, <1>5

LEMMA StartElectionStep ==
    ASSUME RoleInv, RoleInv', Remembered, NEW i \in Node, StartElection(i)
    PROVE  Remembered'
<1>. DEFINE t == state[i].current_term + 1
            Q == {i}
<1>0. TypeInv
    BY DEF RoleInv, ElectionInv
<1>1. PICK L, F, K : Remembers(L, F, K)
    BY DEF Remembered
<1>2. /\ Stands(i, t, Q) /\ CallsBecome(VoteCalls(i, t), None, FALSE)
      /\ \A v, x \in Node, u \in Nat : Evidence(v, u, x)'
            => Evidence(v, u, x) \/ (v = i /\ x = i /\ u = t)
    BY <1>0, StartElectionEffect
<1>3. Moves
    BY <1>0, <1>2, StartElectionLawful DEF Moves, Stands
<1>4. /\ Shadow(L, F, K) /\ Bound(L, F, K) /\ VotersCovered(L, F, K)
      /\ AheadBarred(F) /\ AcksKept(L, F, K)
      /\ F[i] \in Full /\ Unfolds(log[i], F[i])
    BY <1>1, ShadowFacts DEF Remembers, Bound, NodeOK, NodeLog, Shadow
<1>5. state[i].current_term \in Nat
    BY NodeTypes
<1>6. t \in Nat /\ t > 0 /\ state[i].current_term < t
    BY <1>5
<1>7. /\ OnlyTouches(i) /\ state'[i].current_term = t
    BY <1>2 DEF Stands
<1>8. CallsBecome(VoteCalls(i, t), None, FALSE) /\ \A c \in VoteCalls(i, t) :
          /\ c.st = "sent" /\ c.req.kind = "RequestVote" /\ c.src = i
          /\ Describes(F[i], c.req.last_log_index, c.req.last_log_term)
  <2>1. Describes(F[i], LastIndex(log[i]), LastTerm(log[i]))
      BY <1>4, LogDescribed
  <2>2. ASSUME NEW c \in VoteCalls(i, t)
        PROVE  /\ c.st = "sent" /\ c.req.kind = "RequestVote" /\ c.src = i
               /\ c.req.last_log_index = LastIndex(log[i])
               /\ c.req.last_log_term = LastTerm(log[i])
      BY DEF VoteCalls, Call
  <2>. QED  BY <1>2, <2>1, <2>2
<1>. DEFINE calls == VoteCalls(i, t)
<1>9. CallsBecome(calls, None, FALSE) /\ \A c \in calls :
          /\ c.st = "sent" /\ c.req.kind = "RequestVote" /\ c.src = i
          /\ Describes(F[i], c.req.last_log_index, c.req.last_log_term)
    BY <1>8
<1>. HIDE DEF calls, t
<1>10. Covered(L, F, K, i, i, t)
    BY <1>4 DEF AcksKept, Covered
<1>11. <<t, i>> \notin elected
  <2>1. ASSUME NEW e \in elected, e = <<t, i>>  PROVE FALSE
    <3>1. e[1] = t /\ e[2] = i
        BY <2>1
    <3>. QED  BY <1>5, <1>6, <2>1, <3>1 DEF RoleInv, ElectedPast
  <2>. QED  BY <2>1
<1>12. Polled(L, F, K, F)
  <2>1. ASSUME NEW v \in Node, NEW x \in Node, NEW s \in Nat,
               state'[x].role = Candidate, state'[x].current_term = s, Evidence(v, s, x)'
        PROVE  Covered(L, F, K, v, x, s)
    <3>1. CASE x # i
      <4>1. state'[x] = state[x] /\ Evidence(v, s, x)
          BY <1>2, <1>7, <2>1, <3>1 DEF OnlyTouches
      <4>. QED  BY <1>4, <2>1, <4>1 DEF VotersCovered
    <3>2. CASE x = i
      <4>1. s = t
          BY <1>7, <2>1, <3>2
      <4>2. ~CountedVote(v, t, i)
          BY <1>6 DEF CountedVote
      <4>3. ASSUME NEW c \in rpcs, Granting(c), c.src = i, c.req.term = t
            PROVE  FALSE
        <5>1. c.req.term <= state[i].current_term
            BY <4>3 DEF RoleInv, CallRole, Granting
        <5>. QED  BY <1>5, <1>6, <4>3, <5>1
      <4>4. ~Evidence(v, t, i)
          BY <4>2, <4>3 DEF Evidence, AnsweredVote
      <4>5. v = i
          BY <1>2, <1>6, <2>1, <3>2, <4>1, <4>4
      <4>. QED  BY <1>10, <3>2, <4>1, <4>5
    <3>. QED  BY <3>1, <3>2
  <2>. QED  BY <2>1 DEF Polled, Longer
<1>13. ASSUME Q \in Quorum
       PROVE  /\ \A n \in Nat : F[i][n].term <= t
              /\ \A v \in Q : state'[v].current_term >= t /\ Covered(L, F, K, v, i, t)
  <2>1. \A v \in Q : Evidence(v, t, i) \/ state[v].current_term <= t
      BY <1>5, <1>6
  <2>2. \A v \in Q : state'[v].current_term >= t /\ Covered(L, F, K, v, i, t)
      BY <1>6, <1>7, <1>10
  <2>3. state[i].current_term <= t
      BY <1>5, <1>6
  <2>. HIDE DEF Q
  <2>. QED  BY <1>4, <1>6, <1>13, <2>1, <2>2, <2>3, NotAhead
<1>14. Stands(i, t, Q)
    BY <1>2 DEF t
<1>. HIDE DEF Q
<1>. QED  BY <1>1, <1>3, <1>6, <1>9, <1>11, <1>12, <1>13, <1>14, StandsRemembered

LEMMA RecordVoteStep ==
    ASSUME RoleInv, RoleInv', Remembered, NEW c \in rpcs, RecordVote(c)
    PROVE  Remembered'
<1>. DEFINE i == c.src
            t == state[i].current_term
<1>0. TypeInv /\ i \in Node
    BY CallOnNetwork DEF RoleInv, ElectionInv
<1>1. PICK L, F, K : Remembers(L, F, K)
    BY DEF Remembered
<1>2. /\ state[i].role = Candidate
      /\ \E Q \in SUBSET Node : Stands(i, t, Q) /\ \A v \in Q : Evidence(v, t, i)
      /\ CallsBecome({}, None, FALSE)
      /\ \A v, x \in Node, u \in Nat : Evidence(v, u, x)' => Evidence(v, u, x)
    BY <1>0, RecordVoteEffect
<1>3. Lawful
    BY <1>0, RecordVoteLawful
<1>. HIDE DEF i
<1>4. PICK Q \in SUBSET Node : Stands(i, t, Q) /\ \A v \in Q : Evidence(v, t, i)
    BY <1>2
<1>5. t \in Nat /\ t = state[i].current_term /\ state'[i].current_term = t
    BY <1>0, <1>4, NodeTypes DEF Stands
<1>. HIDE DEF t
<1>6. Moves /\ OnlyTouches(i)
    BY <1>3, <1>4 DEF Moves, Stands
<1>7. /\ Shadow(L, F, K) /\ Bound(L, F, K) /\ VotersCovered(L, F, K) /\ AheadBarred(F)
    BY <1>1 DEF Remembers, Bound
<1>8. t > 0 /\ <<t, i>> \notin elected
    BY <1>0, <1>2, <1>5 DEF RoleInv, RoleOK
<1>9. \A v \in Q : Covered(L, F, K, v, i, t) /\ state'[v].current_term >= t
  <2>1. ASSUME NEW v \in Q
        PROVE  Covered(L, F, K, v, i, t) /\ state'[v].current_term >= t
    <3>1. v \in Node /\ Evidence(v, t, i)
        BY <1>4
    <3>2. Covered(L, F, K, v, i, t)
        BY <1>0, <1>2, <1>5, <1>7, <3>1 DEF VotersCovered
    <3>3. Supports(v, t, i)
        BY <1>0, <1>5, <3>1 DEF RoleInv, ElectionInv, EvidenceSupported
    <3>4. state[v].current_term >= t
        BY <1>5, <3>1, <3>3, NodeTypes DEF Supports
    <3>. QED  BY <1>5, <1>6, <3>1, <3>2, <3>4, TermsGrow
  <2>. QED  BY <2>1
<1>10. Q \in Quorum => \A n \in Nat : F[i][n].term <= t
  <2>1. ASSUME Q \in Quorum, NEW n \in Nat  PROVE F[i][n].term <= t
    <3>1. state[i].current_term <= t
        BY <1>5
    <3>. QED  BY <1>0, <1>4, <1>5, <1>7, <2>1, <3>1, NotAhead
  <2>. QED  BY <2>1
<1>11. Polled(L, F, K, F)
  <2>1. ASSUME NEW v \in Node, NEW x \in Node, NEW s \in Nat,
               state'[x].role = Candidate, state'[x].current_term = s, Evidence(v, s, x)'
        PROVE  Covered(L, F, K, v, x, s)
    <3>1. state[x].role = Candidate /\ state[x].current_term = s
        BY <1>2, <1>5, <1>6, <2>1 DEF OnlyTouches
    <3>. QED  BY <1>2, <1>7, <2>1, <3>1 DEF VotersCovered
  <2>. QED  BY <2>1 DEF Polled, Longer
<1>. DEFINE none == {}
<1>12. CallsBecome(none, None, FALSE) /\ \A d \in none :
           /\ d.st = "sent" /\ d.req.kind = "RequestVote" /\ d.src = i
           /\ Describes(F[i], d.req.last_log_index, d.req.last_log_term)
    BY <1>2
<1>. HIDE DEF none
<1>13. Stands(i, t, Q)
    BY <1>4
<1>. QED
    BY <1>0, <1>1, <1>2, <1>5, <1>6, <1>8, <1>9, <1>10, <1>11, <1>12, <1>13, StandsRemembered

-----------------------------------------------------------------------------
(* A leader writes.                                                        *)

LEMMA ChangeRemembered ==
    ASSUME Moves, NEW L, NEW F, NEW K, Remembers(L, F, K),
           NEW L2, NEW F2, NEW K2, Grows(L, F, K, L2, F2, K2), Bound(L2, F2, K2)',
           NEW i \in Node, OnlyTouches(i), \A j \in Node \ {i} : F2[j] = F[j],
           \A t \in Nat : L2[t] = L[t] \/ \A j \in Node \ {i} : <<t, j>> \notin elected,
           NodeOK(L2, F2, K2, i)', History(L2, K2)',
           state'[i].role # Candidate,
           NEW e, NEW ok, CallsBecome({}, e, ok),
           e \in rpcs /\ ok /\ e.req.kind \in AppendKinds
               => ReplicatedBy(e) <= K2[e.dst][e.req.term]
    PROVE  Remembered'
<1>. DEFINE none == {}
<1>1. CallsBecome(none, e, ok) /\ \A c \in none : CallOK(L2, F2, K2, c)'
    OBVIOUS
<1>. HIDE DEF none
<1>2. Remembers(L2, F2, K2)'
    BY <1>1, RemembersKept
<1>. QED  BY <1>2 DEF Remembered

LEMMA WriteGrows ==
    ASSUME Moves, Quiet, NEW L, NEW F, NEW K, Shadow(L, F, K), Bound(L, F, K),
           NEW i \in Node, state[i].role = Leader, F[i] = L[state[i].current_term],
           NEW t \in Nat, t = state[i].current_term, state'[i].current_term = t,
           NEW g \in Full, Longer(F[i], g), g[0] = Blank,
           \A n \in Nat : g[n] # F[i][n] => g[n].term = t,
           \A n \in Nat : \A m \in 1..n : g[n].term > 0 => g[m].term > 0,
           NEW k \in Nat, k > 0, g[k].term > 0, K[i][t] <= k
    PROVE  \E L2, F2, K2 :
              /\ Grows(L, F, K, L2, F2, K2) /\ Bound(L2, F2, K2)'
              /\ F2[i] = g /\ L2[t] = g /\ K2[i][t] = k
              /\ \A j \in Node \ {i} : F2[j] = F[j]
              /\ \A u \in Nat \ {t} : L2[u] = L[u]
<1>0. /\ L \in [Nat -> Full] /\ F \in [Node -> Full] /\ K \in [Node -> [Nat -> Nat]]
      /\ LeaderLogs(L) /\ VotersCovered(L, F, K)
    BY DEF Shadow, Bound
<1>. DEFINE L2 == [L EXCEPT ![t] = g]
            F2 == [F EXCEPT ![i] = g]
            K2 == [K EXCEPT ![i] = [K[i] EXCEPT ![t] = k]]
<1>1. /\ L2 \in [Nat -> Full] /\ L2[t] = g /\ \A u \in Nat \ {t} : L2[u] = L[u]
      /\ F2 \in [Node -> Full] /\ F2[i] = g /\ \A j \in Node \ {i} : F2[j] = F[j]
    BY <1>0
<1>2. /\ K2 \in [Node -> [Nat -> Nat]] /\ K2[i][t] = k
      /\ \A v \in Node, u \in Nat : v # i \/ u # t => K2[v][u] = K[v][u]
    BY <1>0
<1>3. Led(t)
    BY DEF Led, Moves, RoleInv, RoleOK
<1>4. LeaderLogs(L2)' /\ LogsGrow(L, L2)
    BY <1>0, <1>3, LeaderLogsExtended
<1>. HIDE DEF L2, F2, K2
<1>5. Shadow(L2, F2, K2)
    BY <1>1, <1>2 DEF Shadow
<1>6. AcksGrow(K, L2, F2, K2)
  <2>1. ASSUME NEW v \in Node, NEW u \in Nat
        PROVE  /\ K2[v][u] >= K[v][u]
               /\ K2[v][u] # K[v][u] => /\ state'[v].current_term = u
                                        /\ L2[u][K2[v][u]].term > 0
                                        /\ Agree(F2[v], L2[u], K2[v][u])
    <3>1. CASE v = i /\ u = t
      <4>1. K2[v][u] = k /\ F2[v] = g /\ L2[u] = g /\ state'[v].current_term = u
          BY <1>1, <1>2, <3>1
      <4>2. K[v][u] \in Nat /\ K[v][u] <= k
          BY <3>1, ShadowFacts
      <4>. QED  BY <4>1, <4>2 DEF Agree
    <3>2. CASE v # i \/ u # t
      <4>1. K2[v][u] = K[v][u] /\ K[v][u] \in Nat
          BY <1>2, <3>2, ShadowFacts
      <4>. QED  BY <4>1
    <3>. QED  BY <3>1, <3>2
  <2>. QED  BY <2>1 DEF AcksGrow
<1>7. \A v \in Node : Longer(F[v], F2[v])
    BY <1>1 DEF Longer
<1>8. Polled(L, F, K, F2)
    BY <1>0, <1>7, PolledQuietly
<1>9. ASSUME NEW v \in Node
      PROVE  /\ F2[v] = F[v] \/ \E u \in Nat : F2[v] = L2[u]
             /\ \A n \in Nat : F2[v][n] = F[v][n]
                               \/ F2[v][n].term <= state'[v].current_term
    BY <1>1
<1>10. elected' = elected
    BY DEF Quiet
<1>11. Bound(L2, F2, K2)'
    BY <1>4, <1>5, <1>6, <1>7, <1>8, <1>9, <1>10, BoundKept
<1>12. Grows(L, F, K, L2, F2, K2)
    BY <1>0, <1>4, <1>5, <1>6 DEF Grows
<1>. QED  BY <1>1, <1>2, <1>11, <1>12

LEMMA ExtendedFacts ==
    ASSUME NEW lg \in LogOf(Command), NEW f \in Full, Unfolds(lg, f),
           NEW entries \in Seq(EntryType), Len(entries) > 0, NEW t \in Nat, t > 0,
           \A k \in 1..Len(entries) : entries[k].term = t,
           NEW after, after = AppendAll(lg, entries),
           NEW g, g = Extended(f, LastIndex(lg), entries)
    PROVE  /\ g \in Full /\ Unfolds(after, g) /\ after \in LogOf(Command)
           /\ after.base = lg.base /\ after.bterm = lg.bterm
           /\ LastIndex(after) = LastIndex(lg) + Len(entries)
           /\ Longer(f, g) /\ g[0] = Blank
           /\ \A n \in Nat : g[n] # f[n] => g[n].term = t
           /\ \A n \in Nat : n <= LastIndex(lg) => g[n] = f[n]
           /\ \A n \in Nat : \A m \in 1..n : g[n].term > 0 => g[m].term > 0
           /\ g[LastIndex(after)].term > 0
           /\ \A k \in 1..Len(entries) : g[LastIndex(lg) + k] = entries[k]
<1>. DEFINE last == LastIndex(lg)
            len == Len(entries)
<1>1. entries \in Seq(EntryOf(Command)) /\ len \in Nat /\ f \in FullOf(Command)
    BY LenProperties, LogTypes DEF Full
<1>2. /\ g \in FullOf(Command) /\ Unfolds(after, g) /\ LastIndex(after) = last + len
      /\ after \in LogOf(Command) /\ after.base = lg.base
    BY <1>1, UnfoldsAppendAll
<1>3. after.bterm = lg.bterm
    BY DEF AppendAll, LogOf
<1>4. last \in Nat
    BY LastIndexType
<1>5. \A n \in Nat : g[n] = IF n <= last THEN f[n]
                            ELSE IF n <= last + len THEN entries[n - last]
                            ELSE Blank
    BY DEF Extended
<1>. HIDE DEF last
<1>6. \A n \in Nat : f[n].term > 0 <=> 0 < n /\ n <= last
    BY <1>1, UnfoldsHolds DEF last
<1>7. \A n \in Nat : g[n].term > 0 <=> 0 < n /\ n <= last + len
    BY <1>1, <1>2, UnfoldsHolds
<1>8. \A n \in Nat : n > last => f[n] = Blank
    BY DEF Unfolds, last
<1>9. Longer(f, g)
    BY <1>5, <1>6 DEF Longer
<1>10. ASSUME NEW n \in Nat, g[n] # f[n]  PROVE g[n].term = t
  <2>1. n > last /\ n <= last + len
      BY <1>4, <1>5, <1>8, <1>10
  <2>2. n - last \in 1..len
      BY <1>1, <1>4, <2>1
  <2>. QED  BY <1>5, <2>1, <2>2, <1>4
<1>11. \A n \in Nat : n <= last => g[n] = f[n]
    BY <1>5
<1>12. g[0] = Blank
    BY <1>2 DEF Unfolds
<1>13. g[last + len].term > 0 /\ last + len \in Nat
    BY <1>1, <1>4, <1>7
<1>14. ASSUME NEW k \in 1..len  PROVE g[last + k] = entries[k]
  <2>1. /\ last + k \in Nat /\ ~(last + k <= last) /\ last + k <= last + len
        /\ (last + k) - last = k
      BY <1>1, <1>4
  <2>. QED  BY <1>5, <2>1
<1>15. \A n \in Nat : \A m \in 1..n : g[n].term > 0 => g[m].term > 0
    BY <1>1, <1>4, <1>7
<1>16. g \in Full
    BY <1>2 DEF Full
<1>. QED
    BY <1>2, <1>3, <1>9, <1>10, <1>11, <1>12, <1>13, <1>14, <1>15, <1>16 DEF last

LEMMA BatchEntries ==
    ASSUME RoleInv, NEW i \in Node, NEW b \in Batch, NEW t, t = state[i].current_term
    PROVE  LET entries == NewEntries(i, b) IN
           /\ entries \in Seq(EntryType) /\ Len(entries) \in Nat /\ Len(entries) > 0
           /\ \A k \in 1..Len(entries) : entries[k].term = t
<1>1. PICK n \in 1..MaxBatch : b \in [1..n -> Command]
    BY DEF Batch
<1>2. n \in Nat /\ n > 0 /\ b \in Seq(Command) /\ Len(b) = n
    BY <1>1, BoundAssumption
<1>3. NewEntries(i, b) \in Seq(EntryType)
    BY NewEntriesType DEF RoleInv, ElectionInv
<1>4. /\ Len(NewEntries(i, b)) = n
      /\ \A k \in 1..n : NewEntries(i, b)[k].term = t
    BY <1>2 DEF NewEntries
<1>. QED  BY <1>2, <1>3, <1>4

(* submit_commands, up to its return or to a crash behind the journal.     *)
LEMMA WriteRemembered ==
    ASSUME Moves, Quiet, Remembered, NEW i \in Node, NEW b \in Batch, CanSubmit(i, b),
           OnlyTouches(i), committed' = committed,
           log'[i] = AppendAll(log[i], NewEntries(i, b)), snapshot'[i] = snapshot[i],
           state'[i].current_term = state[i].current_term,
           state'[i].commit_index = state[i].commit_index,
           i \in up' => i \in up /\ state'[i].last_applied = state[i].last_applied,
           \/ /\ state'[i].role = Follower
              /\ replication'[i] = NoReplication /\ pending'[i] = NoBatch
           \/ /\ state'[i].role = Leader
              /\ replication'[i] = InitializeReplication(i, replication[i], log'[i])
              /\ pending'[i] = [first |-> LastIndex(log[i]) + 1,
                                entries |-> NewEntries(i, b)],
           CallsBecome({}, None, FALSE)
    PROVE  Remembered'
<1>. DEFINE t == state[i].current_term
            entries == NewEntries(i, b)
            last == LastIndex(log[i])
            len == Len(entries)
<1>0. RoleInv /\ TypeInv
    BY DEF Moves, RoleInv, ElectionInv
<1>1. PICK L, F, K : Remembers(L, F, K)
    BY DEF Remembered
<1>2. /\ Shadow(L, F, K) /\ Bound(L, F, K) /\ NodeOK(L, F, K, i)
      /\ History(L, K) /\ LeaderLogs(L) /\ AcksTrue(L, K)
      /\ Unfolds(log[i], F[i]) /\ L \in [Nat -> Full]
    BY <1>1 DEF Remembers, Bound, NodeOK, NodeLog, Shadow
<1>3. state[i].role = Leader
    BY DEF CanSubmit
<1>4. /\ t \in Nat /\ log[i] \in LogOf(Command) /\ last \in Nat /\ F[i] \in Full
      /\ log[i].base \in Nat
    BY <1>0, <1>2, NodeTypes, ShadowFacts
<1>5. F[i] = L[t] /\ \A n \in Nat : F[i][n].term = t => n <= K[i][t]
    BY <1>2, <1>3 DEF NodeOK, NodeLog
<1>6. t > 0 /\ <<t, i>> \in elected
  <2>1. <<t, i>> \in elected
      BY <1>0, <1>3 DEF RoleInv, RoleOK
  <2>2. PICK e \in elected : e = <<t, i>>
      BY <2>1
  <2>3. e[1] > 0 /\ e[1] = t
      BY <1>0, <2>2 DEF RoleInv, ElectedPast
  <2>. QED  BY <2>1, <2>3
<1>7. /\ entries \in Seq(EntryType) /\ len \in Nat /\ len > 0
      /\ \A k \in 1..len : entries[k].term = t
    BY <1>0, BatchEntries
<1>8. PICK after, g : /\ after = AppendAll(log[i], entries) /\ log'[i] = after
                      /\ g = Extended(F[i], last, entries)
    OBVIOUS
<1>. HIDE DEF t, entries
<1>9. /\ g \in Full /\ Unfolds(after, g) /\ after \in LogOf(Command)
      /\ after.base = log[i].base /\ after.bterm = log[i].bterm
      /\ LastIndex(after) = last + len
      /\ Longer(F[i], g) /\ g[0] = Blank
      /\ \A n \in Nat : g[n] # F[i][n] => g[n].term = t
      /\ \A n \in Nat : n <= last => g[n] = F[i][n]
      /\ \A n \in Nat : \A m \in 1..n : g[n].term > 0 => g[m].term > 0
      /\ g[LastIndex(after)].term > 0
      /\ \A k \in 1..len : g[last + k] = entries[k]
    BY <1>2, <1>4, <1>6, <1>7, <1>8, ExtendedFacts, SMTT(60)
<1>. HIDE DEF last, len
<1>10. PICK new \in Nat : new = last + len /\ new = LastIndex(after) /\ new > 0 /\ new > last
    BY <1>4, <1>7, <1>9
<1>11. K[i][t] <= new
  <2>1. K[i][t] \in Nat
      BY <1>2, <1>4, ShadowFacts
  <2>2. K[i][t] > 0 => F[i][K[i][t]].term > 0
      BY <1>4, <1>2, <1>5, <2>1 DEF AcksTrue
  <2>3. K[i][t] > 0 => K[i][t] <= last
      BY <1>2, <1>4, <2>1, <2>2, UnfoldsHolds DEF last, Full
  <2>. QED  BY <1>4, <1>10, <2>1, <2>3
<1>12. state'[i].current_term = t /\ t = state[i].current_term
    BY DEF t
<1>13. PICK L2, F2, K2 :
          /\ Grows(L, F, K, L2, F2, K2) /\ Bound(L2, F2, K2)'
          /\ F2[i] = g /\ L2[t] = g /\ K2[i][t] = new
          /\ \A j \in Node \ {i} : F2[j] = F[j]
          /\ \A u \in Nat \ {t} : L2[u] = L[u]
  <2>1. /\ state[i].role = Leader /\ F[i] = L[state[i].current_term] /\ t \in Nat
        /\ t = state[i].current_term /\ state'[i].current_term = t
        /\ g[new].term > 0 /\ Shadow(L, F, K) /\ Bound(L, F, K)
      BY <1>2, <1>3, <1>4, <1>5, <1>9, <1>10, <1>12
  <2>. QED  BY <1>9, <1>10, <1>11, <2>1, WriteGrows, SMTT(30)
<1>14. \A n \in Nat : g[n].term > 0 => n <= new
    BY <1>9, <1>10, UnfoldsHolds DEF Full
<1>15. NodeLog(L2, F2, K2, i)'
  <2>1. \A n \in Nat : g[n].term = t => n <= new
      BY <1>6, <1>14
  <2>. QED  BY <1>8, <1>9, <1>12, <1>13, <2>1 DEF NodeLog
<1>16. Progress(F2, K2, i)'
  <2>1. ASSUME state'[i].role = Leader, NEW f \in Node \ {i}, NEW repl, repl = replication'[i]
        PROVE  /\ repl.match_index[f] <= new /\ repl.next_index[f] <= new + 1
               /\ \A n \in Nat : n <= repl.match_index[f] /\ g[n].term = t => n <= K2[f][t]
    <3>1. \/ replication[i] # NoReplication /\ repl = replication[i]
          \/ repl.match_index[f] = 0 /\ repl.next_index[f] = new + 1
      <4>1. repl = InitializeReplication(i, replication[i], after)
          BY <1>8, <2>1 DEF Follower, Leader
      <4>. QED  BY <1>10, <4>1, InitializedProgress
    <3>2. CASE replication[i] # NoReplication /\ repl = replication[i]
      <4>0. replication[i] \in ReplicationType(i)
          BY <1>0, <3>2, NodeTypes DEF ReplicationOrNone
      <4>1. /\ repl.match_index[f] \in Nat /\ repl.next_index[f] \in Nat
            /\ repl.match_index[f] <= last /\ repl.next_index[f] <= last + 1
            /\ \A n \in Nat : n <= repl.match_index[f] /\ F[i][n].term = t => n <= K[f][t]
          BY <1>2, <1>3, <3>2, <4>0 DEF NodeOK, Progress, last, t, ReplicationType
      <4>2. repl.match_index[f] <= new /\ repl.next_index[f] <= new + 1
          BY <1>4, <1>10, <4>1
      <4>3. ASSUME NEW n \in Nat, n <= repl.match_index[f], g[n].term = t
            PROVE  n <= K2[f][t]
        <5>1. n <= last
            BY <1>4, <4>1, <4>3
        <5>2. n <= K[f][t]
            BY <1>9, <4>1, <4>3, <5>1
        <5>3. K[f][t] \in Nat /\ K2[f][t] \in Nat /\ K2[f][t] >= K[f][t]
            BY <1>4, <1>13, AckGrows
        <5>. QED  BY <5>2, <5>3
      <4>. QED  BY <4>2, <4>3
    <3>3. CASE repl.match_index[f] = 0 /\ repl.next_index[f] = new + 1
      <4>1. ASSUME NEW n \in Nat, n <= 0, g[n].term = t  PROVE FALSE
        <5>1. n = 0 /\ g[0].term = 0
            BY <1>9, <4>1 DEF Blank
        <5>. QED  BY <1>6, <4>1, <5>1
      <4>. QED  BY <1>10, <3>3, <4>1
    <3>. QED  BY <3>1, <3>2, <3>3
  <2>. QED  BY <1>8, <1>10, <1>12, <1>13, <2>1 DEF Progress, Follower, Leader
<1>17. CommitChosen(L2, F2, K2, i)'
  <2>1. state[i].commit_index \in Nat /\ state[i].commit_index <= last
        /\ (i \in up => state[i].last_applied <= state[i].commit_index)
        /\ CommitChosen(L, F, K, i)
      BY <1>0, <1>2, NodeTypes DEF NodeOK, CommitChosen, last
  <2>2. F2[i][state[i].commit_index] = F[i][state[i].commit_index]
      BY <1>9, <1>13, <2>1
  <2>3. state[i].commit_index <= LastIndex(log'[i])
      BY <1>4, <1>8, <1>10, <2>1
  <2>4. log'[i].base >= log[i].base
      BY <1>4, <1>8, <1>9
  <2>. QED  BY <1>13, <2>1, <2>2, <2>3, <2>4, CommitStays
<1>18. SnapshotChosen(L2, K2, i)'
    BY <1>2, <1>8, <1>9, <1>13, SnapshotStays DEF NodeOK
<1>19. PendingKept(L2, i)'
  <2>1. CASE pending'[i] = NoBatch
      BY <1>0, <1>2, <1>13, <2>1, PendingStays DEF NodeOK
  <2>2. CASE pending'[i] = [first |-> last + 1, entries |-> entries]
    <3>1. ASSUME NEW k \in 1..len
          PROVE  entries[k].term = t /\ L2[t][last + 1 + k - 1] = entries[k]
      <4>1. last + 1 + k - 1 = last + k
          BY <1>4, <1>7
      <4>. QED  BY <1>7, <1>9, <1>13, <3>1, <4>1
    <3>. QED  BY <1>6, <2>2, <3>1 DEF PendingKept, len
  <2>. QED  BY <2>1, <2>2 DEF last, entries
<1>20. History(L2, K2)'
    BY <1>0, <1>2, <1>13, HistoryGrows
<1>21. NodeOK(L2, F2, K2, i)'
    BY <1>15, <1>16, <1>17, <1>18, <1>19 DEF NodeOK
<1>22. ASSUME NEW u \in Nat, L2[u] # L[u], NEW j \in Node \ {i}, <<u, j>> \in elected
       PROVE  FALSE
  <2>1. u = t
      BY <1>13, <1>22
  <2>2. PICK e \in elected, d \in elected : e = <<t, i>> /\ d = <<t, j>>
      BY <1>6, <1>22, <2>1
  <2>3. e[1] = d[1] /\ e[2] = i /\ d[2] = j
      BY <2>2
  <2>4. e[2] = d[2]
      BY <1>0, <2>3 DEF RoleInv, ElectionInv, ElectionSafety
  <2>. QED  BY <2>3, <2>4
<1>23. state'[i].role # Candidate
    BY DEF Follower, Candidate, Leader
<1>24. \A u \in Nat : L2[u] = L[u] \/ \A j \in Node \ {i} : <<u, j>> \notin elected
    BY <1>22
<1>25. Grows(L, F, K, L2, F2, K2) /\ Bound(L2, F2, K2)' /\ \A j \in Node \ {i} : F2[j] = F[j]
    BY <1>13
<1>26. PICK e, ok : e = None /\ ok = FALSE
    OBVIOUS
<1>27. CallsBecome({}, e, ok) /\ ~ok
    BY <1>26
<1>. QED  BY <1>1, <1>20, <1>21, <1>23, <1>24, <1>25, <1>27, ChangeRemembered

LEMMA ClientWriteStep ==
    ASSUME RoleInv, RoleInv', Remembered, NEW i \in Node, NEW b \in Batch,
           Submit(i, b) \/ CrashInSubmit(i, b)
    PROVE  Remembered'
<1>0. TypeInv
    BY DEF RoleInv, ElectionInv
<1>1. CASE Submit(i, b)
  <2>1. Quiet
      BY <1>0, <1>1, LocalQuiet
  <2>2. LET lg == AppendAll(log[i], NewEntries(i, b)) IN
        /\ CanSubmit(i, b) /\ Same /\ CallsBecome({}, None, FALSE)
        /\ NodeBecomes(i, state[i], lg, snapshot[i],
                       InitializeReplication(i, replication[i], lg),
                       [first |-> LastIndex(log[i]) + 1, entries |-> NewEntries(i, b)])
      BY <1>0, <1>1, SubmitEffect
  <2>3. state[i].role = Leader
      BY <2>2 DEF CanSubmit
  <2>. QED  BY <2>1, <2>2, <2>3, QuietMoves, WriteRemembered DEF NodeBecomes, Same
<1>2. CASE CrashInSubmit(i, b)
  <2>1. Quiet
      BY <1>0, <1>2, CrashQuiet
  <2>2. /\ CanSubmit(i, b)
        /\ Falls(i, AppendAll(log[i], NewEntries(i, b)), snapshot[i])
      BY <1>0, <1>2, CrashInSubmitFalls
  <2>. QED  BY <2>1, <2>2, QuietMoves, WriteRemembered DEF Falls
<1>. QED  BY <1>1, <1>2

-----------------------------------------------------------------------------
(* A leader commits.                                                       *)

(* What was chosen lies on one history.                                    *)
LEMMA ChosenLed ==
    ASSUME NEW L, LeaderLogs(L), NEW K, NEW s \in Nat, NEW n \in Nat, Chosen(L, K, s, n)
    PROVE  Led(s) /\ L[s][n].term = s /\ s > 0
<1>1. L[s][n].term = s /\ s > 0
    BY DEF Chosen
<1>2. L[s][n] # Blank
    BY <1>1 DEF Blank
<1>. QED  BY <1>1, <1>2 DEF LeaderLogs, LeaderLog

LEMMA Comparable ==
    ASSUME NEW L, NEW F, NEW K, Shadow(L, F, K), LeaderLogs(L), LeadersKeep(L, K),
           NEW s \in Nat, NEW n \in Nat, Chosen(L, K, s, n),
           NEW u \in Nat, NEW k \in Nat, Chosen(L, K, u, k), n <= k
    PROVE  Agree(L[s], L[u], n)
<1>1. Led(s) /\ Led(u)
    BY ChosenLed
<1>2. CASE s <= u
  <2>1. Agree(L[u], L[s], n)
      BY <1>1, <1>2, ChosenKept
  <2>. QED  BY <2>1 DEF Agree
<1>3. CASE ~(s <= u)
  <2>1. u <= s
      BY <1>3
  <2>2. Agree(L[s], L[u], k)
      BY <1>1, <2>1, ChosenKept
  <2>. QED  BY <2>2 DEF Agree
<1>. QED  BY <1>2, <1>3

LEMMA SliceExactly ==
    ASSUME NEW S, NEW s \in Seq(S), NEW m \in Nat, NEW n \in Int, m > 0, n <= Len(s)
    PROVE  /\ SubSeq(s, m, n) \in Seq(S)
           /\ Len(SubSeq(s, m, n)) = IF m <= n THEN n - m + 1 ELSE 0
           /\ \A k \in 1..Len(SubSeq(s, m, n)) :
                 SubSeq(s, m, n)[k] = s[m + k - 1] /\ s[m + k - 1] \in S
<1>1. \A k \in m..n : s[k] \in S
    BY ElementOfSeq, LenProperties
<1>2. /\ SubSeq(s, m, n) \in Seq(S)
      /\ Len(SubSeq(s, m, n)) = IF m <= n THEN n - m + 1 ELSE 0
      /\ \A k \in 1..(n - m + 1) : SubSeq(s, m, n)[k] = s[m + k - 1]
    BY <1>1, SubSeqProperties
<1>3. PICK len : len = Len(SubSeq(s, m, n))
    OBVIOUS
<1>4. \A k \in 1..len : k \in 1..(n - m + 1) /\ m + k - 1 \in m..n
    BY <1>2, <1>3
<1>. QED  BY <1>1, <1>2, <1>3, <1>4

(* The ghost of committed entries, after the leader of term has committed  *)
(* its log up to index.                                                    *)
CommittedUpTo(old, lg, index, term) ==
    LET new == SubSeq(lg.entries, Len(old) + 1 - lg.base, index - lg.base)
    IN old \o [n \in 1..Len(new) |-> [entry |-> new[n], by |-> term]]

Recorded(old, lg, index, term, grown) ==
    \/ index <= Len(old) /\ grown = old
    \/ /\ Len(old) < index /\ Len(grown) = index
       /\ \A n \in 1..Len(old) : grown[n] = old[n]
       /\ \A n \in (Len(old) + 1)..index :
             /\ Retains(lg, n)
             /\ grown[n] = [entry |-> EntryAt(lg, n), by |-> term]

LEMMA CommittedExactly ==
    ASSUME NEW old \in Seq([entry : EntryType, by : Nat]),
           NEW lg \in LogType, NEW index \in Nat, NEW term \in Nat,
           lg.base <= Len(old), index <= LastIndex(lg),
           NEW grown, grown = CommittedUpTo(old, lg, index, term)
    PROVE  Recorded(old, lg, index, term, grown)
<1>. DEFINE C == [entry : EntryType, by : Nat]
<1>1. lg.base \in Nat /\ lg.entries \in Seq(EntryType)
    BY DEF LogType
<1>2. PICK base \in Nat, len \in Nat, size \in Nat :
          base = lg.base /\ len = Len(old) /\ size = Len(lg.entries)
    BY <1>1, LenProperties
<1>3. PICK first \in Nat, last \in Int :
          /\ first = len + 1 - base /\ last = index - base
          /\ first > 0 /\ last <= size
  <2>1. len + 1 - base \in Nat /\ len + 1 - base > 0
      BY <1>2
  <2>2. index <= base + size
      BY <1>2 DEF LastIndex
  <2>3. \A x, b, z \in Nat : x <= b + z => x - b \in Int /\ x - b <= z
      OBVIOUS
  <2>. QED  BY <2>1, <2>2, <2>3
<1>4. PICK new : new = SubSeq(lg.entries, first, last)
    OBVIOUS
<1>5. /\ new \in Seq(EntryType)
      /\ Len(new) = IF first <= last THEN last - first + 1 ELSE 0
      /\ \A k \in 1..Len(new) : /\ new[k] = lg.entries[first + k - 1]
                                /\ new[k] \in EntryType
  <2>1. last <= Len(lg.entries)
      BY <1>2, <1>3
  <2>. QED  BY <1>1, <1>3, <1>4, <2>1, SliceExactly
<1>6. PICK count \in Nat : count = Len(new)
    BY <1>5, LenProperties
<1>7. PICK more : more = [n \in 1..count |-> [entry |-> new[n], by |-> term]]
    OBVIOUS
<1>8. grown = old \o more
    BY <1>2, <1>3, <1>4, <1>6, <1>7 DEF CommittedUpTo
<1>9. more \in Seq(C) /\ Len(more) = count
  <2>1. \A n \in 1..count : [entry |-> new[n], by |-> term] \in C
      BY <1>5, <1>6
  <2>2. [n \in 1..count |-> [entry |-> new[n], by |-> term]] \in Seq(C)
      BY <2>1, IsASeq
  <2>3. DOMAIN more = 1..count
      BY <1>7
  <2>. QED  BY <1>6, <1>7, <2>2, <2>3, LenProperties
<1>10. \A n \in 1..count : more[n] = [entry |-> new[n], by |-> term]
    BY <1>7
<1>11. /\ Len(grown) = len + count
       /\ \A n \in 1..(len + count) :
             grown[n] = IF n <= len THEN old[n] ELSE more[n - len]
  <2>1. old \in Seq(C)
      OBVIOUS
  <2>. HIDE DEF C
  <2>2. /\ Len(old \o more) = Len(old) + Len(more)
        /\ \A n \in 1..(Len(old) + Len(more)) :
              (old \o more)[n] = IF n <= Len(old) THEN old[n] ELSE more[n - Len(old)]
      BY <1>9, <2>1, ConcatProperties
  <2>3. len = Len(old) /\ count = Len(more)
      BY <1>2, <1>9
  <2>. QED  BY <1>8, <2>2, <2>3
<1>12. CASE index <= len
  <2>1. ~(first <= last)
      BY <1>2, <1>3, <1>12
  <2>2. more = <<>>
      BY <1>5, <1>6, <1>9, <2>1, EmptySeq
  <2>. QED  BY <1>2, <1>8, <1>12, <2>2, ConcatEmptySeq DEF Recorded
<1>13. CASE ~(index <= len)
  <2>1. first <= last /\ last - first + 1 = index - len
    <3>1. \A x, y, z \in Nat : ~(x <= y) =>
              /\ y + 1 - z <= x - z /\ (x - z) - (y + 1 - z) + 1 = x - y
        OBVIOUS
    <3>2. index \in Nat
        OBVIOUS
    <3>. QED  BY ONLY <1>2, <1>3, <1>13, <3>1, <3>2
  <2>2. count = index - len
      BY <1>5, <1>6, <2>1
  <2>3. len + count = index /\ len < index
      BY <1>2, <1>6, <1>13, <2>2
  <2>4. ASSUME NEW n \in (len + 1)..index
        PROVE  Retains(lg, n) /\ grown[n] = [entry |-> EntryAt(lg, n), by |-> term]
    <3>1. /\ n \in 1..(len + count) /\ ~(n <= len) /\ n - len \in 1..count
          /\ first + (n - len) - 1 = n - base
      <4>1. \A b, l, x \in Nat : \A m \in (l + 1)..x :
                /\ m \in 1..(l + (x - l)) /\ ~(m <= l) /\ m - l \in 1..(x - l)
                /\ (l + 1 - b) + (m - l) - 1 = m - b
          OBVIOUS
      <4>2. first = len + 1 - base /\ count = index - len
          BY <1>3, <2>2
      <4>. QED  BY <4>1, <4>2
    <3>2. grown[n] = more[n - len] /\ new[n - len] = lg.entries[n - base]
        BY <1>5, <1>6, <1>11, <3>1
    <3>3. new[n - len] = EntryAt(lg, n)
        BY <1>2, <3>2 DEF EntryAt
    <3>4. base < n /\ n <= base + size
      <4>1. base <= len /\ index <= base + size
          BY <1>2 DEF LastIndex
      <4>. QED  BY <4>1
    <3>5. Retains(lg, n)
        BY <1>2, <3>4 DEF Retains, LastIndex
    <3>. QED  BY <1>10, <3>1, <3>2, <3>3, <3>5
  <2>5. \A n \in 1..len : grown[n] = old[n]
      BY <1>2, <1>6, <1>11
  <2>. QED  BY <1>2, <1>11, <2>3, <2>4, <2>5 DEF Recorded
<1>. QED  BY <1>12, <1>13

(* The leader's own entries at or below an index that a quorum has reached *)
(* are acknowledged by that quorum.                                        *)
LEMMA QuorumChosen ==
    ASSUME RoleInv, NEW L, NEW F, NEW K, Remembers(L, F, K), NEW i \in Node, Leads(i),
           NEW index \in Nat, index = QuorumIndex(i),
           NEW t, t = state[i].current_term, TermAt(log[i], index) = t
    PROVE  /\ t \in Nat /\ t > 0 /\ F[i] = L[t] /\ Chosen(L, K, t, index)
           /\ log[i].base <= index /\ index <= LastIndex(log[i])
<1>1. /\ state[i].role = Leader /\ replication[i] # NoReplication
      /\ replication[i] \in ReplicationType(i) /\ TypeInv
    BY NodeTypes DEF Leads, ReplicationOrNone, RoleInv, ElectionInv
<1>2. t \in Nat /\ t > 0
  <2>1. <<t, i>> \in elected /\ t \in Nat
      BY <1>1, NodeTypes DEF RoleInv, RoleOK
  <2>2. PICK e \in elected : e = <<t, i>>
      BY <2>1
  <2>3. e[1] > 0 /\ e[1] = t
      BY <2>2 DEF RoleInv, ElectedPast
  <2>. QED  BY <2>1, <2>3
<1>3. /\ Shadow(L, F, K) /\ Unfolds(log[i], F[i]) /\ F[i] = L[t] /\ F[i] \in Full
      /\ \A n \in Nat : F[i][n].term = t => n <= K[i][t]
      /\ \A f \in Node \ {i} : \A n \in Nat :
            n <= replication[i].match_index[f] /\ F[i][n].term = t => n <= K[f][t]
    BY <1>1, ShadowFacts DEF Remembers, NodeOK, NodeLog, Progress
<1>4. F[i][index].term = t /\ log[i].base <= index /\ index <= LastIndex(log[i])
  <2>1. TermAt(log[i], index) # NoTerm
      BY <1>2 DEF NoTerm
  <2>. QED  BY <1>3, <2>1, NodeTypes, UnfoldsTermAt DEF Full
<1>5. {i} \cup {f \in Node \ {i} : replication[i].match_index[f] >= index} \in Quorum
    BY <1>1, QuorumIndexType
<1>6. PICK Q \in Quorum :
          Q = {i} \cup {f \in Node \ {i} : replication[i].match_index[f] >= index}
    BY <1>5
<1>7. ASSUME NEW v \in Q  PROVE K[v][t] >= index
  <2>1. CASE v = i
      BY <1>2, <1>3, <1>4, <2>1, ShadowFacts
  <2>2. CASE v # i
    <3>1. v \in Node \ {i} /\ replication[i].match_index[v] >= index
        BY <1>6, <2>2
    <3>2. replication[i].match_index[v] \in Nat /\ K[v][t] \in Nat
        BY <1>1, <1>2, <1>3, <3>1, ShadowFacts DEF ReplicationType
    <3>3. index <= K[v][t]
        BY <1>3, <1>4, <3>1, <3>2
    <3>. QED  BY <3>2, <3>3
  <2>. QED  BY <2>1, <2>2
<1>8. Chosen(L, K, t, index)
    BY <1>2, <1>3, <1>4, <1>7 DEF Chosen
<1>. QED  BY <1>2, <1>3, <1>4, <1>8

LEMMA HistoryExtended ==
    ASSUME RoleInv, RoleInv', NEW L, NEW F, NEW K, Shadow(L, F, K), LeaderLogs(L),
           LeadersKeep(L, K), History(L, K), NEW t \in Nat, NEW index \in Nat,
           Chosen(L, K, t, index),
           NEW lg \in LogType, Unfolds(lg, L[t]), lg.base <= Len(committed),
           index <= LastIndex(lg), committed' = CommittedUpTo(committed, lg, index, t)
    PROVE  History(L, K)'
<1>1. committed \in Seq([entry : EntryType, by : Nat])
    BY DEF RoleInv, ElectionInv, TypeInv, TypeOK
<1>2. PICK len \in Nat, old \in Seq([entry : EntryType, by : Nat]) :
          len = Len(committed) /\ old = committed
    BY <1>1, LenProperties
<1>3. PICK grown : grown = committed'
    OBVIOUS
<1>4. \/ index <= len /\ grown = old
      \/ /\ len < index /\ Len(grown) = index
         /\ \A n \in 1..len : grown[n] = old[n]
         /\ \A n \in (len + 1)..index :
               /\ Retains(lg, n)
               /\ grown[n] = [entry |-> EntryAt(lg, n), by |-> t]
  <2>1. /\ old \in Seq([entry : EntryType, by : Nat]) /\ lg.base <= Len(old)
        /\ grown = CommittedUpTo(old, lg, index, t) /\ len = Len(old)
      BY <1>1, <1>2, <1>3
  <2>2. Recorded(old, lg, index, t, grown)
      BY <2>1, CommittedExactly
  <2>. QED  BY <2>1, <2>2 DEF Recorded
<1>5. CASE index <= len /\ grown = old
    BY <1>2, <1>3, <1>5 DEF History
<1>6. CASE /\ len < index /\ Len(grown) = index
           /\ \A n \in 1..len : grown[n] = old[n]
           /\ \A n \in (len + 1)..index :
                 /\ Retains(lg, n)
                 /\ grown[n] = [entry |-> EntryAt(lg, n), by |-> t]
  <2>1. L[t][index].term = t /\ t > 0 /\ index \in 1..index
      BY <1>6 DEF Chosen
  <2>2. ASSUME NEW n \in (len + 1)..index
        PROVE  grown[n].entry = L[t][n] /\ grown[n].by = t
    <3>1. /\ n \in Nat /\ Retains(lg, n)
          /\ grown[n] = [entry |-> EntryAt(lg, n), by |-> t]
        BY <1>6
    <3>2. EntryAt(lg, n) = L[t][n]
        BY <3>1 DEF Unfolds
    <3>. QED  BY <3>1, <3>2
  <2>3. grown[index].entry.term = t
      BY <1>6, <2>1, <2>2
  <2>4. ASSUME NEW n \in 1..len
        PROVE  /\ grown[n].entry = L[t][n]
               /\ \E m \in n..index : Chosen(L, K, grown[n].by, m)
    <3>1. PICK s : s = old[len].entry.term
        OBVIOUS
    <3>2. /\ Chosen(L, K, s, len) /\ old[n].entry = L[s][n]
          /\ \E m \in n..len : Chosen(L, K, old[n].by, m)
        BY <1>2, <2>4, <3>1 DEF History
    <3>3. s \in Nat
      <4>1. old[len] \in [entry : EntryType, by : Nat]
        <5>1. len \in 1..Len(old) /\ old \in Seq([entry : EntryType, by : Nat])
            BY <1>1, <1>2, <2>4
        <5>. QED  BY <5>1, ElementOfSeq
      <4>. QED  BY <3>1, <4>1 DEF EntryType
    <3>4. Agree(L[s], L[t], len)
        BY <1>6, <3>2, <3>3, Comparable
    <3>5. L[s][n] = L[t][n]
        BY <2>4, <3>4 DEF Agree
    <3>6. n..len \subseteq n..index
        BY <1>6
    <3>. QED  BY <1>6, <3>2, <3>5, <3>6
  <2>5. ASSUME NEW n \in 1..index
        PROVE  /\ grown[n].entry = L[t][n]
               /\ \E m \in n..index : Chosen(L, K, grown[n].by, m)
    <3>1. CASE n <= len
        BY <2>4, <3>1
    <3>2. CASE ~(n <= len)
      <4>1. n \in (len + 1)..index /\ index \in n..index
          BY <3>2
      <4>. QED  BY <2>2, <4>1
    <3>. QED  BY <3>1, <3>2
  <2>. QED  BY <1>3, <1>6, <2>3, <2>5 DEF History
<1>. QED  BY <1>4, <1>5, <1>6

LEMMA AdvanceCommitStep ==
    ASSUME RoleInv, RoleInv', Remembered, NEW i \in Node, AdvanceCommit(i)
    PROVE  Remembered'
<1>0. TypeInv
    BY DEF RoleInv, ElectionInv
<1>1. PICK L, F, K : Remembers(L, F, K)
    BY DEF Remembered
<1>2. Quiet
    BY <1>0, AdvanceCommitQuiet
<1>3. Moves
    BY <1>2, QuietMoves
<1>4. PICK index : index = CommitCandidate(i)
    OBVIOUS
<1>5. /\ OnlyTouches(i) /\ up' = up /\ elected' = elected /\ Leads(i)
      /\ state'[i].current_term = state[i].current_term
      /\ state'[i].role = state[i].role
      /\ state'[i].commit_index = index
      /\ state'[i].last_applied = index
      /\ index > state[i].commit_index
      /\ log'[i] = log[i] /\ snapshot'[i] = snapshot[i]
      /\ replication'[i] = replication[i] /\ pending'[i] = pending[i]
      /\ rpcs' = rpcs /\ CallsBecome({}, None, FALSE)
    BY <1>0, <1>4, AdvanceCommitEffect
<1>6. PICK t \in Nat : t = state[i].current_term
    BY NodeTypes
<1>7. index = QuorumIndex(i) /\ TermAt(log[i], index) = t
  <2>1. state[i].commit_index \in Nat
      BY NodeTypes
  <2>. QED  BY <1>4, <1>5, <1>6, <2>1 DEF CommitCandidate
<1>8. index \in Nat
  <2>1. QuorumIndex(i) \in 0..LastIndex(log[i])
      BY <1>0, <1>5, QuorumIndexType DEF Leads
  <2>. QED  BY <1>7, <2>1
<1>9. /\ t > 0 /\ F[i] = L[t] /\ Chosen(L, K, t, index)
      /\ log[i].base <= index /\ index <= LastIndex(log[i])
    BY <1>1, <1>5, <1>6, <1>7, <1>8, QuorumChosen
<1>10. /\ Shadow(L, F, K) /\ NodeOK(L, F, K, i) /\ History(L, K)
       /\ LeaderLogs(L) /\ LeadersKeep(L, K)
    BY <1>1 DEF Remembers, Bound
<1>11. History(L, K)'
  <2>1. committed' = CommittedUpTo(committed, log[i], index, t)
      BY <1>4, <1>6, <1>0, Current DEF AdvanceCommit, CommittedUpTo, StateType
  <2>2. Unfolds(log[i], L[t]) /\ log[i].base <= Len(committed)
      BY <1>0, <1>9, <1>10, Current DEF NodeOK, NodeLog
  <2>3. log[i] \in LogType
      BY NodeTypes
  <2>. QED  BY <1>8, <1>9, <1>10, <2>1, <2>2, <2>3, HistoryExtended
<1>12. F[i][index].term = t
    BY <1>9 DEF Chosen
<1>13. NodeLog(L, F, K, i)' /\ Progress(F, K, i)'
    BY <1>5, <1>10 DEF NodeOK, NodeLog, Progress
<1>14. CommitChosen(L, F, K, i)'
    BY <1>5, <1>6, <1>8, <1>9, <1>12 DEF CommitChosen
<1>15. SnapshotChosen(L, K, i)' /\ PendingKept(L, i)'
    BY <1>5, <1>10 DEF NodeOK, SnapshotChosen, PendingKept
<1>16. NodeOK(L, F, K, i)'
    BY <1>13, <1>14, <1>15 DEF NodeOK
<1>17. Remembers(L, F, K)'
    BY <1>1, <1>2, <1>3, <1>5, <1>11, <1>16, RemembersSameQuietly
<1>. QED  BY <1>17 DEF Remembered

-----------------------------------------------------------------------------
(* A node compacts its log, or dies.                                       *)

LEMMA GrowsSame ==
    ASSUME Moves, NEW L, NEW F, NEW K, Shadow(L, F, K), LeaderLogs(L)
    PROVE  Grows(L, F, K, L, F, K)
<1>1. LeaderLogs(L)' /\ LogsGrow(L, L)
    BY LeaderLogsSame
<1>2. AcksGrow(K, L, F, K)
    BY ShadowFacts DEF AcksGrow
<1>. QED  BY <1>1, <1>2 DEF Grows

LEMMA CompactableFacts ==
    ASSUME RoleInv, NEW L, NEW F, NEW K, NEW i \in Node, F[i] \in Full,
           NodeOK(L, F, K, i), Compactable(i), NEW snap, snap = SnapshotNow(i)
    PROVE  /\ i \in up /\ snap.index \in Nat /\ snap.term \in Nat
           /\ snap.index = state[i].commit_index
           /\ snap.index > log[i].base /\ snap.index > 0
           /\ TermAt(log[i], snap.index) = snap.term /\ snap.term # NoTerm
           /\ F[i][snap.index].term = snap.term
           /\ Chosen(L, K, snap.term, snap.index)
<1>0. TypeInv
    BY DEF RoleInv, ElectionInv
<1>1. /\ i \in up /\ snap.index > log[i].base /\ snap.term # NoTerm
      /\ TermAt(log[i], snap.index) = snap.term
    BY DEF Compactable, SnapshotNow
<1>2. snap.index \in Nat /\ snap.term \in Nat
    BY <1>0, CompactionType DEF SnapshotType
<1>3. snap.index = state[i].commit_index
  <2>1. state[i].commit_index <= state[i].last_applied
      BY <1>0, <1>1, Current
  <2>2. state[i].commit_index \in Nat /\ state[i].last_applied \in Nat
      BY NodeTypes
  <2>3. Min({state[i].commit_index, state[i].last_applied}) = state[i].commit_index
      BY <2>1, <2>2, MinOfTwo
  <2>. QED  BY <2>3 DEF SnapshotNow
<1>4. snap.index > 0
    BY <1>1, <1>2, NodeTypes
<1>5. F[i][snap.index].term = snap.term
    BY <1>1, <1>2, NodeTypes, UnfoldsTermAt DEF NodeOK, NodeLog, Full
<1>6. Chosen(L, K, snap.term, snap.index)
    BY <1>3, <1>4, <1>5 DEF NodeOK, CommitChosen
<1>. QED  BY <1>1, <1>2, <1>3, <1>4, <1>5, <1>6

LEMMA KeptLogRemembered ==
    ASSUME Moves, Quiet, NEW L, NEW F, NEW K, Remembers(L, F, K), NEW i \in Node,
           OnlyTouches(i), committed' = committed,
           Unfolds(log'[i], F[i]), LastIndex(log'[i]) = LastIndex(log[i]),
           log'[i].base >= log[i].base,
           state'[i].current_term = state[i].current_term,
           state'[i].commit_index = state[i].commit_index,
           i \in up' => i \in up /\ state'[i].last_applied = state[i].last_applied,
           \/ /\ state'[i].role = Follower
              /\ replication'[i] = NoReplication /\ pending'[i] = NoBatch
           \/ /\ state'[i].role = state[i].role
              /\ replication'[i] = replication[i] /\ pending'[i] = pending[i],
           SnapshotChosen(L, K, i)', CallsBecome({}, None, FALSE)
    PROVE  Remembered'
<1>0. RoleInv /\ TypeInv
    BY DEF Moves, RoleInv, ElectionInv
<1>1. /\ Shadow(L, F, K) /\ LeaderLogs(L) /\ NodeOK(L, F, K, i) /\ History(L, K)
    BY DEF Remembers, Bound
<1>2. Grows(L, F, K, L, F, K)
    BY <1>1, GrowsSame
<1>3. NodeLog(L, F, K, i)' /\ Progress(F, K, i)'
    BY <1>1 DEF NodeOK, NodeLog, Progress, Follower, Leader
<1>4. CommitChosen(L, F, K, i)'
  <2>1. /\ CommitChosen(L, F, K, i) /\ state[i].commit_index <= LastIndex(log'[i])
        /\ (i \in up' => state'[i].last_applied <= state[i].commit_index)
      BY <1>1 DEF NodeOK, CommitChosen
  <2>. QED  BY <1>2, <2>1, CommitStays
<1>5. PendingKept(L, i)'
  <2>1. pending'[i] \in {pending[i], NoBatch} /\ PendingKept(L, i)
      BY <1>1 DEF NodeOK
  <2>. QED  BY <1>0, <1>2, <2>1, PendingStays
<1>6. NodeOK(L, F, K, i)'
    BY <1>3, <1>4, <1>5 DEF NodeOK
<1>7. History(L, K)'
    BY <1>1 DEF History
<1>8. Remembers(L, F, K)'
    BY <1>6, <1>7, RemembersSameQuietly
<1>. QED  BY <1>8 DEF Remembered

LEMMA CompactionStep ==
    ASSUME RoleInv, RoleInv', Remembered, NEW i \in Node,
           CreateSnapshot(i) \/ CrashInCreateSnapshot(i)
    PROVE  Remembered'
<1>0. TypeInv
    BY DEF RoleInv, ElectionInv
<1>1. PICK L, F, K : Remembers(L, F, K)
    BY DEF Remembered
<1>2. /\ Shadow(L, F, K) /\ NodeOK(L, F, K, i) /\ F[i] \in Full
      /\ Unfolds(log[i], F[i]) /\ SnapshotChosen(L, K, i)
    BY <1>1, ShadowFacts DEF Remembers, NodeOK, NodeLog
<1>3. PICK snap : snap = SnapshotNow(i)
    OBVIOUS
<1>4. Compactable(i)
    BY DEF CreateSnapshot, CrashInCreateSnapshot
<1>5. /\ i \in up /\ snap.index \in Nat /\ snap.term \in Nat
      /\ snap.index > log[i].base /\ snap.index > 0
      /\ TermAt(log[i], snap.index) = snap.term /\ snap.term # NoTerm
      /\ F[i][snap.index].term = snap.term
      /\ Chosen(L, K, snap.term, snap.index)
    BY <1>2, <1>3, <1>4, CompactableFacts
<1>6. CASE CreateSnapshot(i)
  <2>1. Quiet /\ Moves
      BY <1>0, <1>6, LocalQuiet, QuietMoves
  <2>2. PICK lg : lg = CompactThrough(log[i], snap.index)
      OBVIOUS
  <2>3. /\ Same /\ CallsBecome({}, None, FALSE)
        /\ NodeBecomes(i, state[i], lg, snap, replication[i], pending[i])
      BY <1>0, <1>3, <1>6, <2>2, CreateSnapshotEffect
  <2>4. /\ Unfolds(lg, F[i]) /\ LastIndex(lg) = LastIndex(log[i])
        /\ lg.base = snap.index /\ lg.bterm = snap.term
    <3>1. TermAt(log[i], snap.index) # NoTerm
        BY <1>5
    <3>2. Unfolds(lg, F[i]) /\ LastIndex(lg) = LastIndex(log[i])
        BY <1>2, <1>5, <2>2, <3>1, NodeTypes, UnfoldsCompactThrough DEF Full
    <3>. QED  BY <1>5, <2>2, <3>2 DEF CompactThrough
  <2>5. lg.base >= log[i].base
      BY <1>5, <2>4, NodeTypes
  <2>6. SnapshotChosen(L, K, i)'
      BY <1>5, <2>3, <2>4 DEF SnapshotChosen, NodeBecomes
  <2>. QED
      BY <1>1, <2>1, <2>3, <2>4, <2>5, <2>6, KeptLogRemembered DEF NodeBecomes, Same
<1>7. CASE CrashInCreateSnapshot(i)
  <2>1. Quiet /\ Moves
      BY <1>0, <1>7, CrashQuiet, QuietMoves
  <2>2. Falls(i, log[i], snap)
      BY <1>0, <1>3, <1>7, CrashInCreateSnapshotFalls
  <2>3. SnapshotChosen(L, K, i)'
      BY <1>5, <2>2, NodeTypes DEF SnapshotChosen, Falls
  <2>4. log'[i].base >= log[i].base
      BY <2>2, NodeTypes DEF Falls
  <2>. QED  BY <1>1, <1>2, <2>1, <2>2, <2>3, <2>4, KeptLogRemembered DEF Falls
<1>. QED  BY <1>6, <1>7

LEMMA CrashStepRemembered ==
    ASSUME RoleInv, RoleInv', Remembered, NEW i \in Node, Crash(i)
    PROVE  Remembered'
<1>0. TypeInv
    BY DEF RoleInv, ElectionInv
<1>1. PICK L, F, K : Remembers(L, F, K)
    BY DEF Remembered
<1>2. Quiet /\ Moves
    BY <1>0, CrashQuiet, QuietMoves
<1>3. i \in up /\ Falls(i, log[i], snapshot[i])
    BY <1>0, CrashFalls
<1>4. /\ Shadow(L, F, K) /\ LeaderLogs(L) /\ Unfolds(log[i], F[i])
      /\ SnapshotChosen(L, K, i)
    BY <1>1 DEF Remembers, Bound, NodeOK, NodeLog
<1>5. SnapshotChosen(L, K, i)'
  <2>1. Grows(L, F, K, L, F, K)
      BY <1>2, <1>4, GrowsSame
  <2>. QED  BY <1>2, <1>3, <1>4, <2>1, SnapshotStays DEF Falls
<1>6. log'[i].base >= log[i].base
    BY <1>3, NodeTypes DEF Falls
<1>. QED  BY <1>1, <1>2, <1>3, <1>4, <1>5, <1>6, KeptLogRemembered DEF Falls

-----------------------------------------------------------------------------
(* A follower takes over a log.                                            *)

LEMMA FollowerBound ==
    ASSUME Moves, Quiet, NEW L, NEW F, NEW K, Shadow(L, F, K), Bound(L, F, K),
           NEW i \in Node, state'[i].role = Follower,
           NEW F2 \in [Node -> Full], \A j \in Node \ {i} : F2[j] = F[j],
           F2[i] = F[i] \/ \E u, k \in Nat : Replaced(L, F, K, F2, i, u, k),
           NEW t \in Nat, NEW index \in Nat, index >= K[i][t],
           index # K[i][t] => /\ state'[i].current_term = t
                              /\ L[t][index].term > 0
                              /\ Agree(F2[i], L[t], index)
    PROVE  \E K2 : /\ Grows(L, F, K, L, F2, K2) /\ Bound(L, F2, K2)'
                   /\ K2[i][t] = index
<1>0. /\ L \in [Nat -> Full] /\ F \in [Node -> Full] /\ K \in [Node -> [Nat -> Nat]]
      /\ LeaderLogs(L) /\ VotersCovered(L, F, K)
    BY DEF Shadow, Bound
<1>. DEFINE K2 == [K EXCEPT ![i] = [K[i] EXCEPT ![t] = index]]
<1>1. /\ K2 \in [Node -> [Nat -> Nat]] /\ K2[i][t] = index
      /\ \A v \in Node, u \in Nat : v # i \/ u # t => K2[v][u] = K[v][u]
    BY <1>0
<1>. HIDE DEF K2
<1>2. Shadow(L, F2, K2)
    BY <1>0, <1>1 DEF Shadow
<1>3. LeaderLogs(L)' /\ LogsGrow(L, L)
    BY <1>0, LeaderLogsSame
<1>4. AcksGrow(K, L, F2, K2)
  <2>1. ASSUME NEW v \in Node, NEW u \in Nat
        PROVE  /\ K2[v][u] >= K[v][u]
               /\ K2[v][u] # K[v][u] => /\ state'[v].current_term = u
                                        /\ L[u][K2[v][u]].term > 0
                                        /\ Agree(F2[v], L[u], K2[v][u])
    <3>1. CASE v = i /\ u = t
        BY <1>1, <3>1
    <3>2. CASE v # i \/ u # t
      <4>1. K2[v][u] = K[v][u] /\ K[v][u] \in Nat
          BY <1>1, <3>2, ShadowFacts
      <4>. QED  BY <4>1
    <3>. QED  BY <3>1, <3>2
  <2>. QED  BY <2>1 DEF AcksGrow
<1>5. \A x \in Node : state'[x].role = Candidate => Longer(F[x], F2[x])
    BY DEF Longer, Follower, Candidate
<1>6. Polled(L, F, K, F2)
    BY <1>0, <1>5, PolledQuietly
<1>7. ASSUME NEW v \in Node
      PROVE  \/ /\ Longer(F[v], F2[v])
                /\ F2[v] = F[v] \/ \E u \in Nat : F2[v] = L[u]
                /\ \A n \in Nat : F2[v][n] = F[v][n]
                                  \/ F2[v][n].term <= state'[v].current_term
             \/ \E u, k \in Nat : Replaced(L, F, K, F2, v, u, k)
  <2>1. CASE F2[v] = F[v]
      BY <2>1 DEF Longer
  <2>2. CASE F2[v] # F[v]
      BY <2>2
  <2>. QED  BY <2>1, <2>2
<1>8. elected' = elected
    BY DEF Quiet
<1>9. Bound(L, F2, K2)'
    BY <1>2, <1>3, <1>4, <1>6, <1>7, <1>8, BoundKept
<1>10. Grows(L, F, K, L, F2, K2)
    BY <1>0, <1>2, <1>3, <1>4 DEF Grows
<1>. QED  BY <1>1, <1>9, <1>10

(* What was committed below a base is what any matching log has there.     *)
LEMMA SynchronizedBoundary ==
    ASSUME NEW lg, NEW prev, NEW entries
    PROVE  Synchronize(lg, prev, entries).bterm = lg.bterm
<1>. QED  BY DEF Synchronize, AppendAll, TruncateFrom

LEMMA JournalBoundary ==
    ASSUME NEW before \in LogType, NEW after, NEW lg \in JournalPrefixes(before, after)
    PROVE  lg.bterm = before.bterm
<1>1. lg = before \/ \E m : lg = [before EXCEPT !.entries = SubSeq(after.entries, 1, m)]
    BY DEF JournalPrefixes
<1>2. CASE lg = before
    BY <1>2
<1>3. CASE \E m : lg = [before EXCEPT !.entries = SubSeq(after.entries, 1, m)]
  <2>1. PICK kept : lg = [before EXCEPT !.entries = kept]
      BY <1>3
  <2>. QED  BY <2>1 DEF LogType
<1>. QED  BY <1>1, <1>2, <1>3

(* What an accepted AppendEntries says of the two logs.                    *)
LEMMA AcceptedFacts ==
    ASSUME RoleInv, NEW L, NEW F, NEW K, Remembers(L, F, K), NEW c \in rpcs,
           c.req.kind = "AppendEntries", NEW i \in Node, i = c.dst,
           ~(c.req.term < state[i].current_term), Accepts(log[i], c.req),
           NEW u, u = c.req.term, NEW k, k = ReplicatedBy(c),
           NEW prev, prev = c.req.prev_log_index,
           NEW entries, entries = c.req.entries
    PROVE  /\ u \in Nat /\ Led(u) /\ state[i].current_term <= u
           /\ L[u] \in Full /\ L[u][0] = Blank /\ F[i] \in Full
           /\ Matches(F[i], L[u]) /\ Agree(F[i], L[u], log[i].base)
           /\ prev \in Nat /\ TermAt(log[i], prev) = L[u][prev].term
           /\ entries \in Seq(EntryOf(Command)) /\ k \in Nat /\ k = prev + Len(entries)
           /\ \A n \in 1..k : L[u][n].term > 0
           /\ \A m \in 1..Len(entries) : entries[m] = L[u][prev + m]
<1>0. TypeInv
    BY DEF RoleInv, ElectionInv
<1>1. /\ prev \in Nat /\ entries \in Seq(EntryType) /\ u \in Nat /\ c \in CallType
    BY <1>0, AppendRequestFields, CallOnNetwork DEF CallType, RequestType
<1>2. PICK len \in Nat : len = Len(entries)
    BY <1>1, LenProperties
<1>3. k = prev + len
    BY <1>2 DEF ReplicatedBy
<1>4. Led(u)
  <2>1. <<u, c.src>> \in elected /\ c.src \in Node
      BY <1>0, CallOnNetwork DEF RoleInv, CallRole
  <2>. QED  BY <2>1 DEF Led
<1>5. state[i].current_term <= u
    BY <1>1, NodeTypes
<1>6. /\ Shadow(L, F, K) /\ LeaderLogs(L) /\ Traceable(L, F[i]) /\ Unfolds(log[i], F[i])
      /\ AppendOK(L, K, c.req)
    BY DEF Remembers, Bound, NodeOK, NodeLog, CallOK
<1>7. /\ L[u] \in Full /\ F[i] \in Full /\ Sorted(L[u]) /\ Traceable(L, L[u])
      /\ L[u][0] = Blank
    BY <1>1, <1>6, ShadowFacts DEF LeaderLogs, LeaderLog, Sorted
<1>8. Matches(F[i], L[u])
    BY <1>6, <1>7, TraceableMatches
<1>9. /\ \A m \in 1..len : entries[m] = L[u][prev + m] /\ entries[m].term > 0
      /\ L[u][prev].term = c.req.prev_log_term
      /\ prev > 0 => L[u][prev].term > 0
    BY <1>2, <1>6 DEF AppendOK
<1>10. TermAt(log[i], prev) = L[u][prev].term
    BY <1>9 DEF Accepts
<1>11. ASSUME NEW n \in 1..k  PROVE L[u][n].term > 0
  <2>1. CASE len = 0
    <3>1. prev > 0 /\ n \in 1..prev /\ L[u][prev].term > 0
        BY <1>1, <1>3, <1>9, <1>11, <2>1
    <3>. QED  BY <1>1, <1>7, <3>1 DEF Sorted
  <2>2. CASE len # 0
    <3>1. len \in 1..len /\ prev + len = k /\ k \in Nat
        BY <1>1, <1>3, <2>2
    <3>2. L[u][k].term > 0
        BY <1>9, <3>1
    <3>. QED  BY <1>7, <3>1, <3>2 DEF Sorted
  <2>. QED  BY <2>1, <2>2
<1>12. Agree(F[i], L[u], log[i].base)
  <2>1. L[u][prev].term \in Nat
      BY <1>1, <1>7, FullFacts
  <2>2. TermAt(log[i], prev) # NoTerm
      BY <1>10, <2>1 DEF NoTerm
  <2>3. /\ F[i][prev].term = L[u][prev].term /\ log[i].base <= prev
        /\ prev <= LastIndex(log[i])
    <3>1. TermAt(log[i], prev) = F[i][prev].term /\ log[i].base <= prev /\ prev <= LastIndex(log[i])
        BY <1>1, <1>6, <1>7, <2>2, NodeTypes, UnfoldsTermAt DEF Full
    <3>. QED  BY <1>10, <3>1
  <2>4. log[i].base \in Nat
      BY NodeTypes
  <2>5. CASE prev = 0
    <3>1. log[i].base = 0
        BY <2>3, <2>4, <2>5
    <3>. QED  BY <1>6, <1>7, <3>1 DEF Agree, Unfolds
  <2>6. CASE prev # 0
    <3>1. F[i][prev].term > 0
        BY <1>1, <1>9, <2>3, <2>6
    <3>2. Agree(F[i], L[u], prev)
        BY <1>1, <1>8, <2>3, <3>1 DEF Matches
    <3>. QED  BY <1>1, <2>3, <2>4, <3>2 DEF Agree
  <2>. QED  BY <2>5, <2>6
<1>13. entries \in Seq(EntryOf(Command))
    BY <1>1, LogTypes
<1>. QED
    BY ONLY <1>1, <1>2, <1>3, <1>4, <1>5, <1>7, <1>8, <1>9, <1>10, <1>11, <1>12, <1>13

LEMMA AdoptedFacts ==
    ASSUME RoleInv, NEW L, NEW F, NEW K, Remembers(L, F, K), NEW c \in rpcs,
           c.req.kind = "AppendEntries", NEW i \in Node, i = c.dst,
           ~(c.req.term < state[i].current_term), Accepts(log[i], c.req),
           NEW u, u = c.req.term, NEW k, k = ReplicatedBy(c),
           NEW after, after = Adopted(c)
    PROVE  /\ after \in LogType /\ after.base = log[i].base /\ after.bterm = log[i].bterm
           /\ k <= LastIndex(after)
           /\ \E g \in Full :
                 /\ Unfolds(after, g) /\ Agree(g, L[u], k)
                 /\ \/ after = log[i] /\ g = F[i]
                    \/ /\ g = Cut(L[u], k) /\ Replaces(F[i], L[u], k)
                       /\ LastIndex(after) = k
<1>1. PICK prev, entries : prev = c.req.prev_log_index /\ entries = c.req.entries
    OBVIOUS
<1>2. /\ u \in Nat /\ L[u] \in Full /\ L[u][0] = Blank /\ F[i] \in Full
      /\ Matches(F[i], L[u])
      /\ prev \in Nat /\ TermAt(log[i], prev) = L[u][prev].term
      /\ entries \in Seq(EntryOf(Command)) /\ k \in Nat /\ k = prev + Len(entries)
      /\ \A n \in 1..k : L[u][n].term > 0
      /\ \A m \in 1..Len(entries) : entries[m] = L[u][prev + m]
    BY ONLY RoleInv, Remembers(L, F, K), c \in rpcs, c.req.kind = "AppendEntries",
            i \in Node, i = c.dst, ~(c.req.term < state[i].current_term),
            Accepts(log[i], c.req), u = c.req.term, k = ReplicatedBy(c), <1>1, AcceptedFacts,
            SMTT(30)
<1>3. after = Synchronize(log[i], prev, entries)
    BY <1>1 DEF Adopted
<1>4. Unfolds(log[i], F[i]) /\ log[i] \in LogOf(Command)
    BY NodeTypes DEF Remembers, NodeOK, NodeLog
<1>5. L[u] \in FullOf(Command) /\ F[i] \in FullOf(Command)
    BY <1>2 DEF Full
<1>6. /\ after \in LogOf(Command) /\ after.base = log[i].base
      /\ after.bterm = log[i].bterm
  <2>1. TermAt(log[i], prev) # NoTerm
      BY <1>2, FullFacts DEF NoTerm
  <2>. QED  BY <1>2, <1>3, <1>4, <2>1, SynchronizeType, SynchronizedBoundary
<1>7. PICK h : h = L[u]
    OBVIOUS
<1>8. \/ after = log[i] /\ k <= LastIndex(log[i]) /\ Agree(F[i], h, k)
      \/ Unfolds(after, Cut(h, k)) /\ LastIndex(after) = k /\ Replaces(F[i], h, k)
  <2>1. /\ h \in FullOf(Command) /\ h[0] = Blank /\ Matches(F[i], h)
        /\ TermAt(log[i], prev) = h[prev].term
        /\ \A n \in 1..k : h[n].term > 0
        /\ \A m \in 1..Len(entries) : entries[m] = h[prev + m]
      BY <1>2, <1>5, <1>7
  <2>2. PICK lg, f : lg = log[i] /\ f = F[i]
      OBVIOUS
  <2>3. /\ lg \in LogOf(Command) /\ f \in FullOf(Command) /\ Unfolds(lg, f)
        /\ prev \in Nat /\ entries \in Seq(EntryOf(Command))
        /\ k \in Nat /\ k = prev + Len(entries) /\ TermAt(lg, prev) = h[prev].term
        /\ Matches(f, h) /\ after = Synchronize(lg, prev, entries)
      BY <1>2, <1>3, <1>4, <1>5, <2>1, <2>2
  <2>4. LET lg2 == Synchronize(lg, prev, entries) IN
        \/ lg2 = lg /\ k <= LastIndex(lg) /\ Agree(f, h, k)
        \/ /\ Unfolds(lg2, Cut(h, k)) /\ LastIndex(lg2) = k
           /\ Replaces(f, h, k)
      BY ONLY <2>1, <2>3, UnfoldsSynchronize
  <2>. QED  BY <2>2, <2>3, <2>4
<1>9. after \in LogType
    BY <1>6, LogTypes
<1>10. CASE after = log[i] /\ k <= LastIndex(log[i]) /\ Agree(F[i], h, k)
    BY <1>2, <1>4, <1>6, <1>7, <1>9, <1>10
<1>11. CASE Unfolds(after, Cut(h, k)) /\ LastIndex(after) = k /\ Replaces(F[i], h, k)
  <2>1. PICK g : g = Cut(h, k)
      OBVIOUS
  <2>2. g \in Full /\ \A n \in Nat : n <= k => g[n] = h[n]
      BY <1>2, <1>5, <1>7, <2>1, CutType DEF Full
  <2>3. Agree(g, h, k)
      BY <1>2, <2>2 DEF Agree
  <2>. QED  BY <1>2, <1>6, <1>7, <1>9, <1>11, <2>1, <2>2, <2>3
<1>. QED  BY <1>8, <1>10, <1>11

(* A follower takes over the log g of a leader, or keeps its own.          *)
Takes(L, F, K, i, g) ==
    \/ g = F[i]
    \/ \E u, k \in Nat :
          /\ g = Cut(L[u], k) /\ Replaces(F[i], L[u], k)
          /\ \/ Led(u) /\ state[i].current_term <= u
             \/ Chosen(L, K, u, k) /\ F[i][k].term # u
          /\ \/ u <= state'[i].current_term
             \/ \A y \in Node, w \in Nat : ~Evidence(y, w, i)'

CommitsChosen(L, K, i, g, c) ==
    c > 0 => /\ Chosen(L, K, g[c].term, c)
             /\ g[c].term <= state'[i].current_term \/ c <= log'[i].base

LEMMA FollowerRemembered ==
    ASSUME Moves, Quiet, NEW L, NEW F, NEW K, Remembers(L, F, K), NEW i \in Node,
           OnlyTouches(i), committed' = committed, state'[i].role = Follower,
           replication'[i] = NoReplication, pending'[i] \in {pending[i], NoBatch},
           NEW g \in Full, Unfolds(log'[i], g), Takes(L, F, K, i, g),
           NEW c, c = state'[i].commit_index, c <= LastIndex(log'[i]),
           i \in up' => state'[i].last_applied <= c, CommitsChosen(L, K, i, g, c),
           SnapshotChosen(L, K, i)',
           NEW t \in Nat, NEW index \in Nat, index >= K[i][t],
           index # K[i][t] => /\ state'[i].current_term = t
                              /\ L[t][index].term > 0
                              /\ Agree(g, L[t], index),
           NEW e, NEW ok, CallsBecome({}, e, ok),
           e \in rpcs /\ ok /\ e.req.kind \in AppendKinds
               => e.dst = i /\ e.req.term = t /\ ReplicatedBy(e) <= index
    PROVE  Remembered'
<1>0. RoleInv /\ RoleInv' /\ TypeInv
    BY DEF Moves, RoleInv, ElectionInv
<1>1. /\ Shadow(L, F, K) /\ Bound(L, F, K) /\ NodeOK(L, F, K, i) /\ History(L, K)
      /\ F \in [Node -> Full] /\ L \in [Nat -> Full]
    BY DEF Remembers, Shadow
<1>. DEFINE F2 == [F EXCEPT ![i] = g]
<1>2. F2 \in [Node -> Full] /\ F2[i] = g /\ \A j \in Node \ {i} : F2[j] = F[j]
    BY <1>1
<1>. HIDE DEF F2
<1>3. F2[i] = F[i] \/ \E u, k \in Nat : Replaced(L, F, K, F2, i, u, k)
    BY <1>2 DEF Takes, Replaced
<1>4. PICK K2 : /\ Grows(L, F, K, L, F2, K2) /\ Bound(L, F2, K2)'
                /\ K2[i][t] = index
    BY <1>1, <1>2, <1>3, FollowerBound
<1>5. /\ c \in Nat /\ snapshot'[i].index \in Nat /\ snapshot'[i].term \in Nat
  <2>1. /\ state'[i] \in StateType /\ snapshot'[i] \in SnapshotType
      BY <1>0 DEF RoleInv, ElectionInv, TypeInv, TypeOK
  <2>. QED  BY <2>1 DEF StateType, SnapshotType
<1>6. CommitChosen(L, F2, K2, i)'
  <2>1. g[c].term \in Nat
      BY <1>5, FullFacts
  <2>2. c > 0 => Chosen(L, K2, g[c].term, c)
      BY <1>4, <1>5, <2>1, ChosenGrows DEF CommitsChosen
  <2>. QED  BY <1>2, <2>2 DEF CommitChosen, CommitsChosen
<1>7. SnapshotChosen(L, K2, i)'
    BY <1>4, <1>5, ChosenGrows DEF SnapshotChosen
<1>8. PendingKept(L, i)'
    BY <1>0, <1>1, <1>4, PendingStays DEF NodeOK
<1>9. NodeLog(L, F2, K2, i)' /\ Progress(F2, K2, i)'
    BY <1>2 DEF NodeLog, Progress, Follower, Leader
<1>10. NodeOK(L, F2, K2, i)'
    BY <1>6, <1>7, <1>8, <1>9 DEF NodeOK
<1>11. History(L, K2)'
    BY <1>0, <1>1, <1>4, HistoryGrows
<1>12. /\ state'[i].role # Candidate
       /\ e \in rpcs /\ ok /\ e.req.kind \in AppendKinds
              => ReplicatedBy(e) <= K2[e.dst][e.req.term]
    BY <1>4 DEF Follower, Candidate
<1>13. \A u \in Nat : L[u] = L[u] \/ \A j \in Node \ {i} : <<u, j>> \notin elected
    OBVIOUS
<1>. QED  BY <1>2, <1>4, <1>10, <1>11, <1>12, <1>13, ChangeRemembered

(* What a node takes for committed is in the log of every leader it        *)
(* accepts.                                                                *)
LEMMA CommitAgrees ==
    ASSUME RoleInv, NEW L, NEW F, NEW K, Remembers(L, F, K), NEW i \in Node,
           NEW u \in Nat, Led(u), state[i].current_term <= u,
           Agree(F[i], L[u], log[i].base),
           NEW c, c = state[i].commit_index
    PROVE  c \in Nat /\ Agree(F[i], L[u], c)
<1>1. /\ Shadow(L, F, K) /\ LeaderLogs(L) /\ LeadersKeep(L, K) /\ Traceable(L, F[i])
      /\ CommitChosen(L, F, K, i) /\ Unfolds(log[i], F[i])
    BY DEF Remembers, Bound, NodeOK, NodeLog
<1>2. c \in Nat /\ log[i].base \in Nat /\ state[i].current_term \in Nat
    BY NodeTypes
<1>3. CASE c <= log[i].base
    BY <1>2, <1>3 DEF Agree
<1>4. CASE ~(c <= log[i].base)
  <2>1. PICK s \in Nat : s = F[i][c].term
      BY <1>1, <1>2, ShadowFacts, FullFacts
  <2>2. Chosen(L, K, s, c) /\ s <= state[i].current_term
      BY <1>2, <1>4, <2>1, <1>1 DEF CommitChosen
  <2>3. s <= u /\ s > 0
      BY <1>2, <2>2 DEF Chosen
  <2>4. Agree(L[u], L[s], c)
      BY <1>1, <1>2, <2>2, <2>3, ChosenKept
  <2>5. Agree(F[i], L[s], c)
      BY <1>1, <1>2, <2>1, <2>3 DEF Traceable
  <2>. QED  BY <1>2, <2>4, <2>5 DEF Agree
<1>. QED  BY <1>2, <1>3, <1>4

-----------------------------------------------------------------------------
(* What two logs have in common stays when one is replaced by the other.   *)
LEMMA CommonKept ==
    ASSUME NEW f \in Full, NEW h \in Full, NEW k \in Nat, NEW n \in Nat,
           Replaces(f, h, k), Agree(f, h, n), n = 0 \/ f[n].term > 0,
           NEW g, g = Cut(h, k)
    PROVE  n <= k /\ g[n] = f[n]
<1>1. n <= k
    BY DEF Replaces
<1>2. g[n] = h[n]
    BY <1>1, CutType DEF Full
<1>. QED  BY <1>1, <1>2 DEF Agree

(* The log after, which is g, is that of i or what its leader has up to k. *)
TakesOver(L, F, i, u, k, after, g) ==
    \/ LastIndex(after) = LastIndex(log[i]) /\ g = F[i]
    \/ g = Cut(L[u], k) /\ Replaces(F[i], L[u], k) /\ LastIndex(after) = k

LEMMA AdoptedCommitted ==
    ASSUME RoleInv, NEW L, NEW F, NEW K, Remembers(L, F, K), NEW i \in Node,
           NEW u \in Nat, Led(u), state[i].current_term <= u,
           Agree(F[i], L[u], log[i].base),
           NEW k \in Nat, NEW after, NEW g,
           TakesOver(L, F, i, u, k, after, g),
           NEW m, m = state[i].commit_index
    PROVE  m \in Nat /\ m <= LastIndex(after) /\ g[m] = F[i][m]
<1>1. m \in Nat /\ Agree(F[i], L[u], m)
    BY CommitAgrees
<1>2. /\ F[i] \in Full /\ L[u] \in Full /\ Unfolds(log[i], F[i])
      /\ m <= LastIndex(log[i]) /\ log[i] \in LogOf(Command)
    BY NodeTypes, ShadowFacts DEF Remembers, NodeOK, NodeLog, CommitChosen
<1>3. m = 0 \/ F[i][m].term > 0
    BY <1>1, <1>2, UnfoldsHolds DEF Full
<1>4. CASE LastIndex(after) = LastIndex(log[i]) /\ g = F[i]
    BY <1>1, <1>2, <1>4
<1>5. CASE g = Cut(L[u], k) /\ Replaces(F[i], L[u], k) /\ LastIndex(after) = k
    BY <1>1, <1>2, <1>3, <1>5, CommonKept
<1>. QED  BY <1>4, <1>5 DEF TakesOver

(* The commit index a follower takes from its leader.                      *)
LEMMA FollowerCommitChosen ==
    ASSUME RoleInv, NEW L, NEW F, NEW K, Remembers(L, F, K), NEW c \in rpcs,
           c.req.kind = "AppendEntries", NEW i \in Node, i = c.dst,
           ~(c.req.term < state[i].current_term), Accepts(log[i], c.req),
           NEW u, u = c.req.term, NEW k, k = ReplicatedBy(c),
           NEW after, after = Adopted(c), NEW g \in Full, Unfolds(after, g),
           Agree(g, L[u], k),
           TakesOver(L, F, i, u, k, after, g),
           state'[i].current_term = u, log'[i] = after,
           NEW m, m = AdoptedCommit(c)
    PROVE  /\ m \in Nat /\ m <= LastIndex(after) /\ m >= state[i].commit_index
           /\ CommitsChosen(L, K, i, g, m)
<1>. DEFINE r == c.req
<1>0. PICK old : TypeInv /\ old = state[i].commit_index
    BY DEF RoleInv, ElectionInv
<1>1. PICK prev, entries : prev = r.prev_log_index /\ entries = r.entries
    OBVIOUS
<1>2. /\ u \in Nat /\ Led(u) /\ state[i].current_term <= u
      /\ L[u] \in Full /\ Agree(F[i], L[u], log[i].base)
      /\ k \in Nat /\ k = prev + Len(entries)
    BY ONLY RoleInv, Remembers(L, F, K), c \in rpcs, c.req.kind = "AppendEntries",
            i \in Node, i = c.dst, ~(c.req.term < state[i].current_term),
            Accepts(log[i], c.req), u = c.req.term, k = ReplicatedBy(c), <1>1, AcceptedFacts
<1>3. /\ after \in LogType /\ after.base = log[i].base /\ k <= LastIndex(after)
    BY ONLY RoleInv, Remembers(L, F, K), c \in rpcs, c.req.kind = "AppendEntries",
            i \in Node, i = c.dst, ~(c.req.term < state[i].current_term),
            Accepts(log[i], c.req), u = c.req.term, k = ReplicatedBy(c),
            after = Adopted(c), AdoptedFacts
<1>4. old \in Nat /\ old <= LastIndex(after) /\ g[old] = F[i][old]
    BY ONLY RoleInv, Remembers(L, F, K), i \in Node, <1>0, <1>2,
            TakesOver(L, F, i, u, k, after, g), AdoptedCommitted
<1>5. /\ r.leader_commit \in Nat /\ r.leader_commit <= k
      /\ r.leader_commit > 0
            => Chosen(L, K, L[u][r.leader_commit].term, r.leader_commit)
    BY <1>0, <1>1, <1>2, AppendRequestFields DEF Remembers, CallOK, AppendOK
<1>6. LastIndex(after) \in Nat
    BY <1>3, LogTypes, LastIndexType
<1>7. m = IF r.leader_commit > old THEN Min({r.leader_commit, LastIndex(after)}) ELSE old
    BY <1>0 DEF AdoptedCommit, FollowerCommit
<1>8. CASE r.leader_commit > old
  <2>1. m = r.leader_commit
    <3>1. r.leader_commit <= LastIndex(after)
        BY <1>2, <1>3, <1>5, <1>6
    <3>. QED  BY <1>5, <1>6, <1>7, <1>8, <3>1, MinOfTwo
  <2>2. g[m] = L[u][m]
      BY <1>2, <1>5, <2>1 DEF Agree
  <2>3. L[u][m].term <= u
      BY <1>2, <1>5, <2>1 DEF Remembers, Bound, LeaderLogs, LeaderLog
  <2>4. m \in Nat /\ m <= LastIndex(after)
      BY <1>2, <1>3, <1>5, <1>6, <2>1
  <2>5. m >= state[i].commit_index
      BY <1>0, <1>4, <1>5, <1>8, <2>1
  <2>. QED  BY <1>5, <2>1, <2>2, <2>3, <2>4, <2>5 DEF CommitsChosen
<1>9. CASE ~(r.leader_commit > old)
  <2>1. m = old
      BY <1>7, <1>9
  <2>2. CommitChosen(L, F, K, i)
      BY DEF Remembers, NodeOK
  <2>3. F[i][old].term \in Nat /\ state[i].current_term \in Nat
      BY <1>4, NodeTypes, ShadowFacts, FullFacts DEF Remembers
  <2>4. m \in Nat /\ m <= LastIndex(after) /\ m >= state[i].commit_index
      BY <1>0, <1>4, <2>1
  <2>5. old > 0 =>
           /\ Chosen(L, K, F[i][old].term, old)
           /\ F[i][old].term <= state[i].current_term \/ old <= log[i].base
      BY <1>0, <2>2 DEF CommitChosen
  <2>6. F[i][old].term <= state[i].current_term => F[i][old].term <= u
      BY ONLY <1>2, <2>3
  <2>7. CommitsChosen(L, K, i, g, old)
      BY <1>4, <1>3, <2>5, <2>6 DEF CommitsChosen
  <2>. QED  BY <2>1, <2>4, <2>7
<1>. QED  BY <1>8, <1>9

LEMMA RefusedAppend ==
    ASSUME RoleInv, RoleInv', Remembered, NEW c \in rpcs, HandleAppendEntries(c),
           ~(c.req.term < state[c.dst].current_term), ~Accepts(log[c.dst], c.req)
    PROVE  Remembered'
<1>0. TypeInv /\ Quiet
    BY HandleAppendEntriesQuiet DEF RoleInv, ElectionInv
<1>1. PICK i \in Node : i = c.dst
    BY <1>0, CallOnNetwork
<1>2. /\ OnlyTouches(i) /\ Same /\ i \in up
      /\ state'[i].role = Follower /\ state'[i].commit_index = AdoptedCommit(c)
      /\ state'[i].last_applied = IF AdoptedCommit(c) > state[i].last_applied
                                  THEN AdoptedCommit(c) ELSE state[i].last_applied
      /\ log'[i] = Adopted(c) /\ snapshot'[i] = snapshot[i]
      /\ replication'[i] = NoReplication /\ pending'[i] = pending[i]
      /\ CallsBecome({}, c, Accepts(log[i], c.req))
    BY <1>0, <1>1, HandleAppendEntriesEffect
<1>3. Adopted(c) = log[i] /\ AdoptedCommit(c) = state[i].commit_index
    BY <1>1 DEF Adopted, AdoptedCommit
<1>4. state[i].commit_index <= state[i].last_applied
  <2>1. PICK L, F, K : Remembers(L, F, K)
      BY DEF Remembered
  <2>2. state[i].last_applied <= state[i].commit_index
      BY <1>2, <2>1 DEF Remembers, NodeOK, CommitChosen
  <2>. QED  BY <1>0, <1>2, Current
<1>5. state'[i].last_applied = state[i].last_applied
    BY <1>2, <1>3, <1>4, NodeTypes
<1>6. Settles(i)
    BY <1>2, <1>3, <1>5 DEF Settles, Same
<1>7. PICK e, ok : e = c /\ ok = Accepts(log[i], c.req)
    OBVIOUS
<1>8. CallsBecome({}, e, ok) /\ (ok => e.req.kind \notin AppendKinds)
    BY <1>1, <1>2, <1>7
<1>. QED  BY <1>0, <1>6, <1>8, QuietlyRemembered

LEMMA TakenBy ==
    ASSUME NEW L, NEW F, NEW K, NEW i \in Node, NEW u \in Nat, NEW k \in Nat,
           NEW after, NEW g, TakesOver(L, F, i, u, k, after, g),
           Led(u), state[i].current_term <= u,
           \/ u <= state'[i].current_term
           \/ \A y \in Node, w \in Nat : ~Evidence(y, w, i)'
    PROVE  Takes(L, F, K, i, g)
<1>1. CASE g = F[i]
    BY <1>1 DEF Takes
<1>2. CASE g = Cut(L[u], k) /\ Replaces(F[i], L[u], k)
    BY <1>2 DEF Takes
<1>. QED  BY <1>1, <1>2 DEF TakesOver

LEMMA HandleAppendEntriesStep ==
    ASSUME RoleInv, RoleInv', Remembered, NEW c \in rpcs, HandleAppendEntries(c),
           ~(c.req.term < state[c.dst].current_term), Accepts(log[c.dst], c.req)
    PROVE  Remembered'
<1>0. TypeInv /\ Quiet /\ Moves /\ c.req.kind = "AppendEntries"
    BY HandleAppendEntriesQuiet, QuietMoves
       DEF RoleInv, ElectionInv, HandleAppendEntries, Deliverable
<1>1. PICK L, F, K : Remembers(L, F, K)
    BY DEF Remembered
<1>2. PICK i \in Node : i = c.dst
    BY <1>0, CallOnNetwork
<1>3. PICK u, k, after, m : /\ u = c.req.term /\ k = ReplicatedBy(c)
                            /\ after = Adopted(c) /\ m = AdoptedCommit(c)
    OBVIOUS
<1>4. /\ OnlyTouches(i) /\ Same /\ i \in up
      /\ state'[i].current_term = u
      /\ state'[i].role = Follower /\ state'[i].commit_index = m
      /\ state'[i].last_applied = IF m > state[i].last_applied
                                  THEN m ELSE state[i].last_applied
      /\ log'[i] = after /\ snapshot'[i] = snapshot[i]
      /\ replication'[i] = NoReplication /\ pending'[i] = pending[i]
      /\ CallsBecome({}, c, Accepts(log[i], c.req))
    BY <1>0, <1>2, <1>3, HandleAppendEntriesEffect
<1>5. PICK prev, entries : prev = c.req.prev_log_index /\ entries = c.req.entries
    OBVIOUS
<1>6. ~(c.req.term < state[i].current_term) /\ Accepts(log[i], c.req)
    BY <1>2
<1>7. /\ u \in Nat /\ Led(u) /\ state[i].current_term <= u
      /\ L[u] \in Full /\ k \in Nat
      /\ \A n \in 1..k : L[u][n].term > 0
    BY ONLY RoleInv, c \in rpcs, i \in Node, <1>0, <1>1, <1>2, <1>3, <1>5, <1>6,
            AcceptedFacts
<1>8. /\ after \in LogType /\ after.base = log[i].base /\ after.bterm = log[i].bterm
      /\ k <= LastIndex(after)
      /\ \E g \in Full :
            /\ Unfolds(after, g) /\ Agree(g, L[u], k)
            /\ \/ after = log[i] /\ g = F[i]
               \/ /\ g = Cut(L[u], k) /\ Replaces(F[i], L[u], k)
                  /\ LastIndex(after) = k
    BY ONLY RoleInv, c \in rpcs, i \in Node, <1>0, <1>1, <1>2, <1>3, <1>6, AdoptedFacts
<1>9. PICK g \in Full : /\ Unfolds(after, g) /\ Agree(g, L[u], k)
                        /\ TakesOver(L, F, i, u, k, after, g)
    BY <1>8 DEF TakesOver
<1>10. Takes(L, F, K, i, g)
    BY <1>4, <1>7, <1>9, TakenBy
<1>11. /\ m \in Nat /\ m <= LastIndex(after) /\ m >= state[i].commit_index
       /\ CommitsChosen(L, K, i, g, m)
    BY ONLY RoleInv, c \in rpcs, i \in Node, <1>0, <1>1, <1>2, <1>3, <1>4, <1>6, <1>9,
            FollowerCommitChosen
<1>12. SnapshotChosen(L, K, i)'
  <2>1. Shadow(L, F, K) /\ LeaderLogs(L) /\ SnapshotChosen(L, K, i)
      BY <1>1 DEF Remembers, Bound, NodeOK
  <2>2. Grows(L, F, K, L, F, K)
      BY <1>0, <2>1, GrowsSame
  <2>. QED  BY <1>0, <1>4, <1>8, <2>1, <2>2, SnapshotStays
<1>13. state'[i].last_applied <= m
  <2>1. state[i].last_applied <= state[i].commit_index
      BY <1>1, <1>4 DEF Remembers, NodeOK, CommitChosen
  <2>. QED  BY <1>4, <1>11, <2>1, NodeTypes
<1>14. PICK old \in Nat : old = K[i][u]
    BY <1>1, <1>7, ShadowFacts DEF Remembers
<1>15. PICK index \in Nat : index = IF k > old THEN k ELSE old
    BY <1>7
<1>16. index >= K[i][u] /\ k <= index
    BY <1>7, <1>14, <1>15
<1>17. index # K[i][u] => /\ state'[i].current_term = u
                          /\ L[u][index].term > 0 /\ Agree(g, L[u], index)
  <2>1. ASSUME index # K[i][u]  PROVE index = k /\ k \in 1..k
      BY <1>7, <1>14, <1>15, <2>1
  <2>. QED  BY <1>4, <1>7, <1>9, <2>1
<1>18. PICK e, ok : e = c /\ ok = Accepts(log[i], c.req)
    OBVIOUS
<1>19. /\ CallsBecome({}, e, ok)
       /\ e \in rpcs /\ ok /\ e.req.kind \in AppendKinds
              => e.dst = i /\ e.req.term = u /\ ReplicatedBy(e) <= index
    BY <1>2, <1>3, <1>4, <1>16, <1>18
<1>. QED
    BY ONLY <1>0, <1>1, i \in Node, <1>4, g \in Full, <1>9, <1>10, <1>11, <1>12, <1>13,
            <1>7, index \in Nat, <1>16, <1>17, <1>19, FollowerRemembered DEF Same

-----------------------------------------------------------------------------
(* A node dies while it takes over a log.                                  *)

LEMMA FallenSilent ==
    ASSUME NEW i \in Node, NEW lg, NEW snap, Falls(i, lg, snap)
    PROVE  \A y \in Node, w \in Nat : ~Evidence(y, w, i)'
<1>1. state'[i].role # Candidate
    BY DEF Falls, Follower, Candidate
<1>2. \A c \in rpcs' : c.src = i => c.st = "late"
    BY DEF Falls
<1>. QED  BY <1>1, <1>2 DEF Evidence, CountedVote, AnsweredVote, Granting

LEMMA FallenRemembered ==
    ASSUME Moves, Quiet, NEW L, NEW F, NEW K, Remembers(L, F, K), NEW i \in Node,
           NEW lg, NEW snap, Falls(i, lg, snap), lg.base \in Nat,
           NEW g \in Full, Unfolds(lg, g), Takes(L, F, K, i, g),
           NEW m, m = state[i].commit_index, m <= LastIndex(lg), g[m] = F[i][m],
           lg.base >= log[i].base, SnapshotChosen(L, K, i)'
    PROVE  Remembered'
<1>1. /\ OnlyTouches(i) /\ committed' = committed /\ state'[i].role = Follower
      /\ state'[i].current_term = state[i].current_term
      /\ replication'[i] = NoReplication /\ pending'[i] \in {pending[i], NoBatch}
      /\ log'[i] = lg /\ m = state'[i].commit_index /\ i \notin up'
      /\ CallsBecome({}, None, FALSE)
    BY DEF Falls
<1>2. RoleInv /\ CommitChosen(L, F, K, i) /\ Shadow(L, F, K)
    BY DEF Remembers, NodeOK, Moves
<1>3. CommitsChosen(L, K, i, g, m)
  <2>1. F[i][m].term \in Nat /\ m \in Nat /\ log[i].base \in Nat
      BY <1>2, NodeTypes, ShadowFacts, FullFacts
  <2>. QED  BY <1>1, <1>2, <2>1 DEF CommitChosen, CommitsChosen
<1>4. PICK t \in Nat, index \in Nat : index = K[i][t] /\ index >= K[i][t]
    BY <1>2, NodeTypes, ShadowFacts
<1>5. PICK e, ok : e = None /\ ok = FALSE
    OBVIOUS
<1>6. CallsBecome({}, e, ok) /\ ~ok
    BY <1>1, <1>5
<1>. QED  BY <1>1, <1>3, <1>4, <1>6, FollowerRemembered

LEMMA CutTwice ==
    ASSUME NEW h \in Full, NEW k \in Nat, NEW l \in Nat, l <= k,
           NEW f \in Full, Replaces(f, h, k), Replaces(f, Cut(h, k), l)
    PROVE  Cut(Cut(h, k), l) = Cut(h, l) /\ Replaces(f, h, l)
<1>. DEFINE g == Cut(h, k)
<1>1. g \in Full /\ \A n \in Nat : g[n] = IF n <= k THEN h[n] ELSE Blank
    BY CutType DEF Full
<1>. HIDE DEF g
<1>2. Cut(g, l) = Cut(h, l)
  <2>1. \A n \in Nat : n <= l => g[n] = h[n]
      BY <1>1
  <2>. QED  BY <2>1 DEF Cut
<1>3. ASSUME NEW n \in Nat, f[n].term > 0, Agree(f, h, n)  PROVE n <= l
  <2>1. n <= k
      BY <1>3 DEF Replaces
  <2>2. Agree(f, g, n)
      BY <1>1, <1>3, <2>1 DEF Agree
  <2>. QED  BY <1>3, <2>2 DEF Replaces, g
<1>. QED  BY <1>2, <1>3 DEF Replaces, g

LEMMA CutSelf ==
    ASSUME NEW f \in Full, NEW l \in Nat, Replaces(f, f, l)
    PROVE  Cut(f, l) = f
<1>1. \A n \in Nat : ~(n <= l) => f[n] = Blank
  <2>1. ASSUME NEW n \in Nat, ~(n <= l)  PROVE f[n] = Blank
    <3>1. Agree(f, f, n)
        BY DEF Agree
    <3>2. ~(f[n].term > 0)
        BY <2>1, <3>1 DEF Replaces
    <3>. QED  BY <3>2, FullFacts
  <2>. QED  BY <2>1
<1>2. f = [n \in Nat |-> f[n]]
    BY DEF Full, FullOf
<1>. QED  BY <1>1, <1>2 DEF Cut

LEMMA SameEnd ==
    ASSUME NEW lg \in LogOf(Command), NEW lh \in LogOf(Command),
           NEW f \in FullOf(Command), Unfolds(lg, f), Unfolds(lh, f)
    PROVE  LastIndex(lg) = LastIndex(lh)
<1>1. LastIndex(lg) \in Nat /\ LastIndex(lh) \in Nat
    BY LastIndexType
<1>2. \A n \in Nat : 0 < n => (n <= LastIndex(lg) <=> n <= LastIndex(lh))
    BY UnfoldsHolds
<1>. QED  BY <1>1, <1>2

(* What a crash leaves of the log a follower is taking over.               *)
LEMMA PartlyTaken ==
    ASSUME RoleInv, NEW L, NEW F, NEW K, Remembers(L, F, K), NEW i \in Node,
           NEW u \in Nat, NEW k \in Nat, NEW after \in LogType, NEW g \in Full,
           after.base = log[i].base, after.bterm = log[i].bterm,
           Unfolds(after, g), TakesOver(L, F, i, u, k, after, g),
           NEW lg \in JournalPrefixes(log[i], after)
    PROVE  \E l \in Nat, f \in Full :
              Unfolds(lg, f) /\ TakesOver(L, F, i, u, l, lg, f)
<1>0. /\ F[i] \in Full /\ L[u] \in Full /\ Unfolds(log[i], F[i])
      /\ log[i] \in LogOf(Command)
    BY NodeTypes, ShadowFacts DEF Remembers, NodeOK, NodeLog
<1>1. CASE lg = log[i]
    BY <1>0, <1>1 DEF TakesOver
<1>2. CASE lg # log[i]
  <2>1. after \in LogOf(Command) /\ g \in FullOf(Command) /\ F[i] \in FullOf(Command)
      BY <1>0, LogTypes DEF Full
  <2>2. PICK before, f : before = log[i] /\ f = F[i]
      OBVIOUS
  <2>3. /\ before \in LogOf(Command) /\ f \in FullOf(Command) /\ Unfolds(before, f)
        /\ after.base = before.base /\ after.bterm = before.bterm
        /\ lg \in JournalPrefixes(before, after) /\ lg # before
      BY <1>0, <1>2, <2>1, <2>2
  <2>4. PICK l \in Nat : /\ l <= LastIndex(after) /\ LastIndex(lg) = l
                         /\ Unfolds(lg, Cut(g, l)) /\ Replaces(f, g, l)
      BY ONLY <2>1, <2>3, Unfolds(after, g), UnfoldsJournalPrefixes
  <2>5. CASE g = F[i]
    <3>1. Cut(g, l) = F[i] /\ Replaces(F[i], F[i], l)
        BY <1>0, <2>2, <2>4, <2>5, CutSelf
    <3>2. Unfolds(lg, F[i])
        BY <2>4, <3>1
    <3>3. lg \in LogOf(Command)
        BY <1>0, <2>1, JournalPrefixesType
    <3>4. LastIndex(lg) = LastIndex(log[i])
        BY <1>0, <2>1, <3>2, <3>3, SameEnd
    <3>. QED  BY <1>0, <3>2, <3>4 DEF TakesOver
  <2>6. CASE g = Cut(L[u], k) /\ Replaces(F[i], L[u], k) /\ LastIndex(after) = k
    <3>1. Cut(Cut(L[u], k), l) = Cut(L[u], l) /\ Replaces(F[i], L[u], l)
        BY <1>0, <2>2, <2>4, <2>6, CutTwice
    <3>2. Cut(g, l) \in Full
        BY <2>1, CutType DEF Full
    <3>. QED  BY <2>4, <2>6, <3>1, <3>2 DEF TakesOver
  <2>. QED  BY <2>5, <2>6 DEF TakesOver
<1>. QED  BY <1>1, <1>2

LEMMA CrashInAppendEntriesStep ==
    ASSUME RoleInv, RoleInv', Remembered, NEW c \in rpcs, CrashInAppendEntries(c)
    PROVE  Remembered'
<1>0. TypeInv /\ Quiet /\ Moves
    BY CrashInHandlerQuiet, QuietMoves DEF RoleInv, ElectionInv
<1>1. PICK L, F, K : Remembers(L, F, K)
    BY DEF Remembered
<1>2. PICK i \in Node : i = c.dst
    BY <1>0, CallOnNetwork
<1>3. PICK u, k, after : u = c.req.term /\ k = ReplicatedBy(c) /\ after = Adopted(c)
    OBVIOUS
<1>4. /\ c.req.kind = "AppendEntries" /\ i \in up
      /\ ~(c.req.term < state[i].current_term) /\ Accepts(log[i], c.req)
      /\ \E lg \in JournalPrefixes(log[i], after) : Falls(i, lg, snapshot[i])
    BY <1>0, <1>2, <1>3, CrashInAppendEntriesFalls
<1>5. PICK lg \in JournalPrefixes(log[i], after) : Falls(i, lg, snapshot[i])
    BY <1>4
<1>6. PICK prev, entries : prev = c.req.prev_log_index /\ entries = c.req.entries
    OBVIOUS
<1>7. /\ u \in Nat /\ Led(u) /\ state[i].current_term <= u /\ k \in Nat
      /\ Agree(F[i], L[u], log[i].base)
    BY ONLY RoleInv, c \in rpcs, i \in Node, <1>0, <1>1, <1>2, <1>3, <1>4, <1>6,
            AcceptedFacts
<1>8. /\ after \in LogType /\ after.base = log[i].base /\ after.bterm = log[i].bterm
      /\ k <= LastIndex(after)
      /\ \E g \in Full :
            /\ Unfolds(after, g) /\ Agree(g, L[u], k)
            /\ \/ after = log[i] /\ g = F[i]
               \/ /\ g = Cut(L[u], k) /\ Replaces(F[i], L[u], k)
                  /\ LastIndex(after) = k
    BY ONLY RoleInv, c \in rpcs, i \in Node, <1>0, <1>1, <1>2, <1>3, <1>4, AdoptedFacts
<1>9. PICK h \in Full : Unfolds(after, h) /\ TakesOver(L, F, i, u, k, after, h)
    BY <1>8 DEF TakesOver
<1>10. PICK l \in Nat, g \in Full :
          Unfolds(lg, g) /\ TakesOver(L, F, i, u, l, lg, g)
    BY <1>1, <1>7, <1>8, <1>9, PartlyTaken
<1>11. PICK m : m = state[i].commit_index
    OBVIOUS
<1>12. m \in Nat /\ m <= LastIndex(lg) /\ g[m] = F[i][m]
    BY ONLY RoleInv, i \in Node, <1>1, <1>7, <1>10, <1>11, AdoptedCommitted
<1>13. Takes(L, F, K, i, g)
    BY <1>5, <1>7, <1>10, FallenSilent, TakenBy
<1>14. lg.base = log[i].base /\ lg.bterm = log[i].bterm /\ log[i].base \in Nat
    BY <1>8, NodeTypes, LogTypes, JournalPrefixesType, JournalBoundary
<1>15. SnapshotChosen(L, K, i)'
  <2>1. Shadow(L, F, K) /\ LeaderLogs(L) /\ SnapshotChosen(L, K, i)
      BY <1>1 DEF Remembers, Bound, NodeOK
  <2>2. Grows(L, F, K, L, F, K)
      BY <1>0, <2>1, GrowsSame
  <2>. QED  BY <1>0, <1>4, <1>5, <1>14, <2>1, <2>2, SnapshotStays DEF Falls
<1>16. PICK snap : snap = snapshot[i]
    OBVIOUS
<1>17. Falls(i, lg, snap) /\ lg.base \in Nat /\ lg.base >= log[i].base
    BY <1>5, <1>14, <1>16
<1>. QED
    BY ONLY i \in Node, g \in Full, <1>0, <1>1, <1>10, <1>11, <1>12, <1>13, <1>15, <1>17,
            FallenRemembered

-----------------------------------------------------------------------------
(* Snapshots of a leader.                                                  *)

LEMMA OlderRejected ==
    ASSUME TypeInv, NEW c \in rpcs, RejectSnapshot(c), NEW i \in Node, i = c.dst,
           ~(c.req.term < state[i].current_term)
    PROVE  /\ c.req.kind = "InstallSnapshot" /\ i \in up
           /\ state'[i].current_term = c.req.term /\ state'[i].role = Follower
           /\ replication'[i] = NoReplication
<1>1. /\ state[i] \in StateType /\ c.req.term \in Nat /\ c.src \in Node \cup {None}
    BY CallOnNetwork, Current
<1>2. PICK s : s = BecomeFollower(state[i], c.req.term, c.src)
    OBVIOUS
<1>3. s.current_term = c.req.term /\ s.role = Follower
    BY ONLY <1>1, <1>2, Adopts, SMTT(30)
<1>4. /\ c.req.kind = "InstallSnapshot" /\ i \in up
      /\ state' = [state EXCEPT ![i] = s]
      /\ replication' = [replication EXCEPT ![i] = NoReplication]
    BY <1>2 DEF RejectSnapshot, Deliverable
<1>5. state \in [Node -> StateType] /\ replication = [j \in Node |-> replication[j]]
    BY DEF TypeInv, TypeOK
<1>6. state'[i] = s
    BY <1>4, <1>5
<1>7. replication'[i] = NoReplication
    BY <1>4, <1>5
<1>. QED  BY <1>3, <1>4, <1>6, <1>7

(* A snapshot of a leader is of what any later snapshot covers.            *)
LEMMA OlderCovered ==
    ASSUME RoleInv, NEW L, NEW F, NEW K, Remembers(L, F, K), NEW c \in rpcs,
           c.req.kind = "InstallSnapshot", NEW i \in Node, i \in up,
           NEW u, u = c.req.term, NEW n, n = c.req.index, n > 0,
           n < snapshot[i].index
    PROVE  u \in Nat /\ n \in Nat /\ L[u][n].term > 0 /\ Agree(F[i], L[u], n)
<1>0. TypeInv
    BY DEF RoleInv, ElectionInv
<1>1. PICK b, s : b = snapshot[i].index /\ s = snapshot[i].term
    OBVIOUS
<1>2. /\ u \in Nat /\ n \in Nat /\ b \in Nat /\ s \in Nat /\ n < b
      /\ c.req.index_term \in Nat
    BY <1>0, <1>1, NodeTypes, CallOnNetwork, InstallRequestFields
<1>3. PICK t \in Nat : t = c.req.index_term
    BY <1>2
<1>4. Chosen(L, K, t, n) /\ L[u][n].term = t /\ t > 0
    BY <1>3 DEF Remembers, CallOK, InstallOK, Chosen
<1>5. Chosen(L, K, s, b) /\ b = log[i].base /\ s = log[i].bterm /\ s > 0
    BY <1>1, <1>2 DEF Remembers, NodeOK, SnapshotChosen, Chosen
<1>6. /\ Agree(F[i], L[s], b)
  <2>1. F[i][b].term = s
      BY <1>2, <1>5 DEF Remembers, NodeOK, NodeLog, Unfolds
  <2>. QED  BY <1>2, <1>5, <2>1 DEF Remembers, Bound, Traceable
<1>7. Agree(L[u], L[t], n)
    BY <1>2, <1>4 DEF Remembers, Bound, LeaderLogs, LeaderLog, Traceable
<1>8. Agree(L[t], L[s], n)
    BY <1>2, <1>3, <1>4, <1>5, Comparable DEF Remembers, Bound
<1>9. Agree(F[i], L[u], n)
    BY <1>2, <1>6, <1>7, <1>8 DEF Agree
<1>. QED  BY <1>2, <1>4, <1>9

LEMMA RejectSnapshotStep ==
    ASSUME RoleInv, RoleInv', Remembered, NEW c \in rpcs, RejectSnapshot(c)
    PROVE  Remembered'
<1>0. TypeInv /\ Quiet /\ Moves
    BY RejectSnapshotQuiet, QuietMoves DEF RoleInv, ElectionInv
<1>1. PICK L, F, K : Remembers(L, F, K)
    BY DEF Remembered
<1>2. PICK i \in Node : i = c.dst
    BY <1>0, CallOnNetwork
<1>3. PICK e, ok : /\ e = c
                   /\ ok <=> /\ ~(c.req.term < state[i].current_term)
                             /\ OlderSnapshot(i, c.req)
                   /\ CallsBecome({}, e, ok)
  <2>1. CallsBecome({}, c, /\ ~(c.req.term < state[i].current_term)
                           /\ OlderSnapshot(i, c.req))
      BY <1>0, <1>2, RejectSnapshotSettles
  <2>. QED  BY <2>1
<1>4. Settles(i)
    BY <1>0, <1>2, RejectSnapshotSettles
<1>5. CASE ~ok
    BY <1>0, <1>3, <1>4, <1>5, QuietlyRemembered
<1>6. CASE ok
  <2>1. ~(c.req.term < state[i].current_term) /\ c.req.index < snapshot[i].index
      BY <1>3, <1>6 DEF OlderSnapshot
  <2>2. /\ c.req.kind = "InstallSnapshot" /\ i \in up
        /\ state'[i].current_term = c.req.term /\ state'[i].role = Follower
        /\ replication'[i] = NoReplication
      BY <1>0, <1>2, <2>1, OlderRejected
  <2>3. PICK u \in Nat, n \in Nat : u = c.req.term /\ n = c.req.index /\ n = ReplicatedBy(c)
      BY <1>0, <2>2, CallOnNetwork, InstallRequestFields DEF ReplicatedBy
  <2>4. n > 0 => L[u][n].term > 0 /\ Agree(F[i], L[u], n)
      BY <1>1, <2>1, <2>2, <2>3, OlderCovered
  <2>5. PICK old \in Nat : old = K[i][u]
      BY <1>1, ShadowFacts DEF Remembers
  <2>6. PICK index \in Nat : index = IF n > old THEN n ELSE old
      OBVIOUS
  <2>7. index >= K[i][u] /\ n <= index
      BY <2>5, <2>6
  <2>8. index # K[i][u] => /\ state'[i].current_term = u
                           /\ L[u][index].term > 0 /\ Agree(F[i], L[u], index)
    <3>1. index # K[i][u] => index = n /\ n > 0
        BY <2>5, <2>6
    <3>. QED  BY <2>2, <2>3, <2>4, <3>1
  <2>9. e \in rpcs /\ ok /\ e.req.kind \in AppendKinds
        => e.dst = i /\ e.req.term = u /\ ReplicatedBy(e) <= index
      BY <1>2, <1>3, <2>3, <2>7
  <2>10. PICK m, g : m = state[i].commit_index /\ g = F[i]
      OBVIOUS
  <2>11. /\ OnlyTouches(i) /\ committed' = committed
         /\ pending'[i] \in {pending[i], NoBatch}
         /\ m = state'[i].commit_index /\ log'[i] = log[i]
         /\ state'[i].last_applied = state[i].last_applied
         /\ snapshot'[i] = snapshot[i] /\ up' = up
      BY <1>4, <2>10 DEF Settles
  <2>12. /\ g \in Full /\ Unfolds(log'[i], g) /\ Takes(L, F, K, i, g)
         /\ m <= LastIndex(log'[i]) /\ state'[i].last_applied <= m
    <3>1. F[i] \in Full
        BY <1>1, ShadowFacts DEF Remembers
    <3>2. NodeLog(L, F, K, i) /\ CommitChosen(L, F, K, i)
        BY <1>1 DEF Remembers, NodeOK
    <3>3. Unfolds(log[i], F[i]) /\ m <= LastIndex(log[i])
          /\ state[i].last_applied <= m
        BY <2>2, <2>10, <3>2 DEF NodeLog, CommitChosen
    <3>. QED  BY <2>10, <2>11, <3>1, <3>3 DEF Takes
  <2>13. CommitsChosen(L, K, i, g, m)
    <3>1. /\ F[i][m].term \in Nat /\ m \in Nat /\ state[i].current_term \in Nat
          /\ state[i].current_term <= u
        BY <1>1, <2>1, <2>3, <2>10, NodeTypes, ShadowFacts, FullFacts DEF Remembers
    <3>2. CommitChosen(L, F, K, i)
        BY <1>1 DEF Remembers, NodeOK
    <3>3. F[i][m].term <= state[i].current_term => F[i][m].term <= u
        BY <3>1
    <3>. QED  BY <2>2, <2>3, <2>10, <2>11, <3>2, <3>3 DEF CommitChosen, CommitsChosen
  <2>14. SnapshotChosen(L, K, i)'
    <3>1. Shadow(L, F, K) /\ LeaderLogs(L) /\ SnapshotChosen(L, K, i)
        BY <1>1 DEF Remembers, Bound, NodeOK
    <3>2. Grows(L, F, K, L, F, K)
        BY <1>0, <3>1, GrowsSame
    <3>. QED  BY <1>0, <2>11, <3>1, <3>2, SnapshotStays
  <2>15. index # K[i][u] => /\ state'[i].current_term = u
                            /\ L[u][index].term > 0 /\ Agree(g, L[u], index)
      BY <2>8, <2>10
  <2>. QED
      BY ONLY <1>0, <1>1, i \in Node, <1>3, u \in Nat, index \in Nat, <2>2, <2>7, <2>8,
              <2>9, <2>11, <2>12, <2>13, <2>14, <2>15, FollowerRemembered
<1>. QED  BY <1>5, <1>6

(* The log after, which is g, is that of i above the boundary n, or ends   *)
(* at n.                                                                   *)
Installs(L, F, K, i, n, t, after, g) ==
    \/ LastIndex(after) = LastIndex(log[i]) /\ g = F[i]
    \/ /\ LastIndex(after) = n /\ g = Cut(L[t], n) /\ Replaces(F[i], L[t], n)
       /\ n > 0 /\ Chosen(L, K, t, n) /\ F[i][n].term # t /\ TermAt(log[i], n) # t

LEMMA ReplacesAt ==
    ASSUME NEW f \in Full, NEW h \in Full, NEW n \in Nat, f[n].term # h[n].term
    PROVE  Replaces(f, h, n)
<1>1. ASSUME NEW m \in Nat, Agree(f, h, m)  PROVE m <= n
  <2>1. ASSUME ~(m <= n)  PROVE FALSE
    <3>1. n \in 0..m
        BY <2>1
    <3>. QED  BY <1>1, <3>1 DEF Agree
  <2>. QED  BY <2>1
<1>. QED  BY <1>1 DEF Replaces

LEMMA BoundaryTaken ==
    ASSUME RoleInv, NEW L, NEW F, NEW K, Remembers(L, F, K), NEW i \in Node,
           NEW n \in Nat, NEW t \in Nat, n > 0 => Chosen(L, K, t, n),
           BoundaryFits(log[i], n, t),
           NEW after, after = InstallBoundary(log[i], n, t)
    PROVE  /\ after.base = n /\ after.bterm = t /\ n >= log[i].base
           /\ \E g \in Full : /\ Unfolds(after, g)
                              /\ n > 0 => Agree(g, L[t], n)
                              /\ Installs(L, F, K, i, n, t, after, g)
<1>0. /\ F[i] \in Full /\ L[t] \in Full /\ Unfolds(log[i], F[i])
      /\ log[i] \in LogOf(Command) /\ log[i].base \in Nat
      /\ LeaderLogs(L) /\ Traceable(L, F[i])
    BY NodeTypes, ShadowFacts DEF Remembers, NodeOK, NodeLog, Bound
<1>1. n > 0 => /\ F[i][n].term = t => Agree(F[i], L[t], n)
               /\ L[t][0] = Blank /\ L[t][n].term = t
               /\ \A m \in 1..n : L[t][m].term > 0
  <2>1. Sorted(L[t])
      BY <1>0 DEF LeaderLogs, LeaderLog
  <2>. QED  BY <1>0, <2>1 DEF Chosen, Traceable, Sorted
<1>2. CASE n = log[i].base
  <2>1. after = log[i] /\ t = log[i].bterm
      BY <1>0, <1>2 DEF BoundaryFits, InstallBoundary
  <2>2. F[i][n].term = t
      BY <1>0, <1>2, <2>1 DEF Unfolds
  <2>3. n > 0 => Agree(F[i], L[t], n)
      BY <1>1, <2>2
  <2>. QED  BY <1>0, <1>2, <2>1, <2>3 DEF Installs
<1>3. CASE n # log[i].base
  <2>1. log[i].base < n /\ n > 0 /\ n >= log[i].base
      BY <1>0, <1>3 DEF BoundaryFits
  <2>2. PICK lg, f, h : lg = log[i] /\ f = F[i] /\ h = L[t]
      OBVIOUS
  <2>3. /\ lg \in LogOf(Command) /\ f \in FullOf(Command) /\ Unfolds(lg, f)
        /\ lg.base < n /\ h \in FullOf(Command) /\ h[0] = Blank /\ h[n].term = t
        /\ \A m \in 1..n : h[m].term > 0
      BY <1>0, <1>1, <2>1, <2>2 DEF Full
  <2>4. LET new == InstallBoundary(lg, n, t) IN
        \/ /\ TermAt(lg, n) = t
           /\ Unfolds(new, f) /\ LastIndex(new) = LastIndex(lg)
           /\ n <= LastIndex(lg) /\ f[n].term = t
        \/ /\ TermAt(lg, n) # t
           /\ Unfolds(new, Cut(h, n)) /\ LastIndex(new) = n
           /\ n <= LastIndex(lg) => f[n].term # t
      BY ONLY <2>3, n \in Nat, t \in Nat, UnfoldsInstallBoundary
  <2>5. after.base = n /\ after.bterm = t
      BY <1>3 DEF InstallBoundary
  <2>6. CASE /\ Unfolds(after, f) /\ LastIndex(after) = LastIndex(lg)
             /\ f[n].term = t
    <3>1. n > 0 => Agree(F[i], L[t], n)
        BY <1>1, <2>2, <2>6
    <3>2. PICK g \in Full : g = F[i]
        BY <1>0
    <3>3. Unfolds(after, g) /\ Installs(L, F, K, i, n, t, after, g)
        BY <2>2, <2>6, <3>2 DEF Installs
    <3>. QED  BY <2>1, <2>5, <3>1, <3>2, <3>3
  <2>7. CASE /\ TermAt(lg, n) # t /\ Unfolds(after, Cut(h, n))
             /\ LastIndex(after) = n
             /\ n <= LastIndex(lg) => f[n].term # t
    <3>1. f[n].term # t
      <4>1. CASE n <= LastIndex(lg)
          BY <2>7, <4>1
      <4>2. CASE ~(n <= LastIndex(lg))
        <5>1. ~(f[n].term > 0)
            BY <2>3, <4>2, UnfoldsHolds
        <5>2. t > 0
            BY <2>1 DEF Chosen
        <5>. QED  BY <5>1, <5>2
      <4>. QED  BY <4>1, <4>2
    <3>2. Replaces(f, h, n)
        BY <2>3, <3>1, ReplacesAt DEF Full
    <3>3. PICK g \in Full : g = Cut(h, n)
        BY <2>3, CutType DEF Full
    <3>4. Agree(g, h, n)
      <4>1. \A m \in Nat : m <= n => g[m] = h[m]
          BY <2>3, <3>3, CutType
      <4>. QED  BY <4>1 DEF Agree
    <3>5. Installs(L, F, K, i, n, t, after, g)
        BY <2>1, <2>2, <2>7, <3>1, <3>2, <3>3 DEF Installs
    <3>6. Unfolds(after, g) /\ Agree(g, L[t], n)
        BY <2>2, <2>7, <3>3, <3>4
    <3>. QED  BY <2>1, <2>5, <3>5, <3>6
  <2>8. after = InstallBoundary(lg, n, t)
      BY <2>2
  <2>. QED  BY <2>4, <2>6, <2>7, <2>8
<1>. QED  BY <1>2, <1>3

LEMMA InstallTakes ==
    ASSUME NEW L, NEW F, NEW K, NEW i \in Node, NEW n \in Nat, NEW t \in Nat,
           NEW after, NEW g, Installs(L, F, K, i, n, t, after, g),
           \/ n > 0 => t <= state'[i].current_term
           \/ \A y \in Node, w \in Nat : ~Evidence(y, w, i)'
    PROVE  Takes(L, F, K, i, g)
<1>1. CASE g = F[i]
    BY <1>1 DEF Takes
<1>2. CASE /\ g = Cut(L[t], n) /\ Replaces(F[i], L[t], n)
           /\ Chosen(L, K, t, n) /\ F[i][n].term # t /\ n > 0
    BY <1>2 DEF Takes
<1>. QED  BY <1>1, <1>2 DEF Installs

(* The commit index after a boundary is put in.                            *)
LEMMA InstallCommits ==
    ASSUME RoleInv, NEW L, NEW F, NEW K, Remembers(L, F, K), NEW i \in Node,
           NEW n \in Nat, NEW t \in Nat, n > 0 => Chosen(L, K, t, n),
           n >= log[i].base,
           NEW after, after.base = n, after.bterm = t, NEW g, Unfolds(after, g),
           Installs(L, F, K, i, n, t, after, g),
           NEW m, m = Max({state[i].commit_index, n}), m <= LastIndex(after),
           state[i].current_term <= state'[i].current_term, log'[i] = after,
           state'[i].current_term \in Nat
    PROVE  /\ m \in Nat /\ m >= n /\ m >= state[i].commit_index
           /\ CommitsChosen(L, K, i, g, m)
<1>1. PICK old \in Nat : old = state[i].commit_index
    BY NodeTypes
<1>2. m = IF old >= n THEN old ELSE n
    BY <1>1, MaxOfTwo
<1>3. m \in Nat /\ m >= n /\ m >= old
    BY <1>2
<1>4. CASE m = n
  <2>1. g[n].term = t
      BY DEF Unfolds
  <2>. QED  BY <1>1, <1>3, <1>4, <2>1 DEF CommitsChosen
<1>5. CASE m # n
  <2>1. m = old /\ old > n
      BY <1>2, <1>5
  <2>2. g = F[i]
      BY <2>1 DEF Installs
  <2>3. CommitChosen(L, F, K, i)
      BY DEF Remembers, NodeOK
  <2>4. F[i][m].term \in Nat /\ state[i].current_term \in Nat /\ log[i].base \in Nat
      BY <1>3, NodeTypes, ShadowFacts, FullFacts DEF Remembers
  <2>5. F[i][m].term <= state[i].current_term
        => F[i][m].term <= state'[i].current_term
      BY <2>4
  <2>6. m <= log[i].base => m <= after.base
      BY <1>3, <2>4
  <2>. QED  BY <1>1, <1>3, <2>1, <2>2, <2>3, <2>5, <2>6 DEF CommitChosen, CommitsChosen
<1>. QED  BY <1>4, <1>5

(* What was committed before is in the log with the boundary.              *)
LEMMA InstallKeeps ==
    ASSUME RoleInv, NEW L, NEW F, NEW K, Remembers(L, F, K), NEW i \in Node,
           NEW n \in Nat, NEW t \in Nat,
           \/ state[i].commit_index <= n
           \/ TermAt(log[i], n) = t,
           NEW after, NEW g, Installs(L, F, K, i, n, t, after, g),
           NEW m, m = state[i].commit_index
    PROVE  m <= LastIndex(after) /\ g[m] = F[i][m]
<1>0. /\ m \in Nat /\ F[i] \in Full /\ Unfolds(log[i], F[i]) /\ CommitChosen(L, F, K, i)
      /\ LeaderLogs(L) /\ LeadersKeep(L, K) /\ Shadow(L, F, K) /\ Traceable(L, F[i])
      /\ log[i] \in LogOf(Command) /\ L[t] \in Full
    BY NodeTypes, ShadowFacts DEF Remembers, NodeOK, NodeLog, Bound
<1>1. CASE LastIndex(after) = LastIndex(log[i]) /\ g = F[i]
    BY <1>0, <1>1 DEF CommitChosen
<1>2. CASE /\ LastIndex(after) = n /\ g = Cut(L[t], n)
           /\ Chosen(L, K, t, n) /\ TermAt(log[i], n) # t
  <2>1. m <= n
      BY <1>2
  <2>2. g[m] = L[t][m]
      BY <1>0, <1>2, <2>1, CutType DEF Full
  <2>3. L[t][m] = F[i][m]
    <3>1. CASE m = 0
        BY <1>0, <3>1 DEF LeaderLogs, LeaderLog, Sorted, Unfolds
    <3>2. CASE m # 0
      <4>1. PICK s \in Nat : s = F[i][m].term
          BY <1>0, FullFacts
      <4>2. Chosen(L, K, s, m)
          BY <1>0, <3>2, <4>1 DEF CommitChosen
      <4>3. Agree(L[s], L[t], m)
          BY <1>0, <1>2, <2>1, <4>2, Comparable
      <4>4. Agree(F[i], L[s], m)
          BY <1>0, <4>1, <4>2 DEF Traceable, Chosen
      <4>. QED  BY <1>0, <4>3, <4>4 DEF Agree
    <3>. QED  BY <3>1, <3>2
  <2>. QED  BY <1>2, <2>1, <2>2, <2>3
<1>. QED  BY <1>1, <1>2 DEF Installs

LEMMA InstallRequestFacts ==
    ASSUME RoleInv, NEW L, NEW F, NEW K, Remembers(L, F, K), NEW c \in rpcs,
           c.req.kind = "InstallSnapshot", NEW i \in Node, CanInstall(i, c.req),
           NEW u, u = c.req.term, NEW n, n = c.req.index, NEW t, t = c.req.index_term
    PROVE  /\ u \in Nat /\ n \in Nat /\ t \in Nat
           /\ n > 0 => Chosen(L, K, t, n) /\ L[u][n].term = t /\ t <= u
           /\ n = 0 => t = 0
           /\ n >= snapshot[i].index /\ BoundaryFits(log[i], n, t)
           /\ state[i].commit_index <= n \/ TermAt(log[i], n) = t
           /\ Installed(i, c.req) = InstallBoundary(log[i], n, t)
           /\ CommitAfterInstall(i, c.req) = Max({state[i].commit_index, n})
           /\ CommitAfterInstall(i, c.req) <= LastIndex(Installed(i, c.req))
           /\ SnapshotOf(c.req).index = n /\ SnapshotOf(c.req).term = t
<1>0. TypeInv
    BY DEF RoleInv, ElectionInv
<1>1. u \in Nat /\ n \in Nat /\ t \in Nat
    BY <1>0, CallOnNetwork, InstallRequestFields
<1>2. n > 0 => Chosen(L, K, t, n) /\ L[u][n].term = t
    BY DEF Remembers, CallOK, InstallOK
<1>3. n = 0 => t = 0
    BY DEF Remembers, CallOK, InstallOK
<1>4. L[u][n].term <= u
    BY <1>1 DEF Remembers, Bound, LeaderLogs, LeaderLog
<1>5. n >= snapshot[i].index
    BY <1>1, NodeTypes DEF CanInstall, OlderSnapshot
<1>6. /\ BoundaryFits(log[i], n, t)
      /\ state[i].commit_index <= n \/ TermAt(log[i], n) = t
      /\ CommitAfterInstall(i, c.req) <= LastIndex(Installed(i, c.req))
    BY DEF CanInstall
<1>7. /\ Installed(i, c.req) = InstallBoundary(log[i], n, t)
      /\ CommitAfterInstall(i, c.req) = Max({state[i].commit_index, n})
      /\ SnapshotOf(c.req).index = n /\ SnapshotOf(c.req).term = t
    BY DEF Installed, CommitAfterInstall, SnapshotOf
<1>. QED  BY <1>1, <1>2, <1>3, <1>4, <1>5, <1>6, <1>7

LEMMA HandleInstallSnapshotStep ==
    ASSUME RoleInv, RoleInv', Remembered, NEW c \in rpcs, HandleInstallSnapshot(c)
    PROVE  Remembered'
<1>0. TypeInv /\ Quiet /\ Moves
    BY HandleInstallSnapshotQuiet, QuietMoves DEF RoleInv, ElectionInv
<1>1. PICK L, F, K : Remembers(L, F, K)
    BY DEF Remembered
<1>2. PICK i \in Node : i = c.dst
    BY <1>0, CallOnNetwork
<1>3. PICK u, n, t, after, m, snap :
         /\ u = c.req.term /\ n = c.req.index /\ t = c.req.index_term
         /\ after = Installed(i, c.req) /\ m = CommitAfterInstall(i, c.req)
         /\ snap = SnapshotOf(c.req)
    OBVIOUS
<1>4. /\ OnlyTouches(i) /\ Same /\ i \in up
      /\ c.req.kind = "InstallSnapshot" /\ CanInstall(i, c.req)
      /\ u >= state[i].current_term
      /\ state'[i].current_term = u /\ state'[i].role = Follower
      /\ state'[i].commit_index = m /\ state'[i].last_applied = m
      /\ log'[i] = after /\ snapshot'[i] = snap
      /\ replication'[i] = NoReplication /\ pending'[i] = pending[i]
      /\ CallsBecome({}, c, TRUE)
    BY <1>0, <1>2, <1>3, HandleInstallSnapshotEffect
<1>5. /\ u \in Nat /\ n \in Nat /\ t \in Nat
      /\ n > 0 => Chosen(L, K, t, n) /\ L[u][n].term = t /\ t <= u
      /\ n = 0 => t = 0
      /\ n >= snapshot[i].index /\ BoundaryFits(log[i], n, t)
      /\ state[i].commit_index <= n \/ TermAt(log[i], n) = t
      /\ after = InstallBoundary(log[i], n, t)
      /\ m = Max({state[i].commit_index, n}) /\ m <= LastIndex(after)
      /\ snap.index = n /\ snap.term = t
    BY ONLY RoleInv, c \in rpcs, i \in Node, <1>1, <1>3, <1>4, InstallRequestFacts
<1>6. /\ after.base = n /\ after.bterm = t /\ n >= log[i].base
      /\ \E g \in Full : /\ Unfolds(after, g)
                         /\ n > 0 => Agree(g, L[t], n)
                         /\ Installs(L, F, K, i, n, t, after, g)
    BY <1>1, <1>5, BoundaryTaken
<1>7. PICK g \in Full : /\ Unfolds(after, g)
                        /\ n > 0 => Agree(g, L[t], n)
                        /\ Installs(L, F, K, i, n, t, after, g)
    BY <1>6
<1>8. Takes(L, F, K, i, g)
    BY <1>4, <1>5, <1>7, InstallTakes
<1>9. m \in Nat /\ CommitsChosen(L, K, i, g, m)
  <2>1. state[i].current_term <= state'[i].current_term /\ state'[i].current_term \in Nat
      BY <1>4, <1>5, NodeTypes
  <2>. QED  BY <1>1, <1>4, <1>5, <1>6, <1>7, <2>1, InstallCommits
<1>10. SnapshotChosen(L, K, i)'
    BY <1>4, <1>5, <1>6 DEF SnapshotChosen
<1>11. PICK old \in Nat : old = K[i][u]
    BY <1>1, <1>5, ShadowFacts DEF Remembers
<1>12. PICK index \in Nat : index = IF n > old THEN n ELSE old
    BY <1>5
<1>13. index >= K[i][u] /\ n <= index
    BY <1>5, <1>11, <1>12
<1>14. index # K[i][u] => /\ state'[i].current_term = u
                          /\ L[u][index].term > 0 /\ Agree(g, L[u], index)
  <2>1. index # K[i][u] => index = n /\ n > 0
      BY <1>5, <1>11, <1>12
  <2>2. n > 0 => L[u][n].term > 0 /\ Agree(L[u], L[t], n)
      BY <1>1, <1>5 DEF Remembers, Bound, LeaderLogs, LeaderLog, Traceable, Chosen
  <2>3. n > 0 => Agree(g, L[u], n)
      BY <1>5, <1>7, <2>2 DEF Agree
  <2>. QED  BY <1>4, <2>1, <2>2, <2>3
<1>15. PICK e, ok : e = c /\ ok = TRUE
    OBVIOUS
<1>16. /\ CallsBecome({}, e, ok)
       /\ e \in rpcs /\ ok /\ e.req.kind \in AppendKinds
              => e.dst = i /\ e.req.term = u /\ ReplicatedBy(e) <= index
    BY <1>2, <1>3, <1>4, <1>13, <1>15 DEF ReplicatedBy
<1>17. state'[i].last_applied <= m
    BY <1>4, <1>9
<1>. QED
    BY ONLY <1>0, <1>1, i \in Node, <1>4, g \in Full, <1>5, <1>7, <1>8, <1>9, <1>10,
            index \in Nat, <1>13, <1>14, <1>16, <1>17, FollowerRemembered DEF Same

LEMMA CrashInInstallSnapshotStep ==
    ASSUME RoleInv, RoleInv', Remembered, NEW c \in rpcs, CrashInInstallSnapshot(c)
    PROVE  Remembered'
<1>0. TypeInv /\ Quiet /\ Moves
    BY CrashInHandlerQuiet, QuietMoves DEF RoleInv, ElectionInv
<1>1. PICK L, F, K : Remembers(L, F, K)
    BY DEF Remembered
<1>2. PICK i \in Node : i = c.dst
    BY <1>0, CallOnNetwork
<1>3. PICK u, n, t, after, snap, high :
         /\ u = c.req.term /\ n = c.req.index /\ t = c.req.index_term
         /\ after = Installed(i, c.req) /\ snap = SnapshotOf(c.req)
         /\ high = CommitAfterInstall(i, c.req)
    OBVIOUS
<1>4. /\ c.req.kind = "InstallSnapshot" /\ i \in up /\ CanInstall(i, c.req)
      /\ \E lg \in {log[i], after} : Falls(i, lg, snap)
    BY <1>0, <1>2, <1>3, CrashInInstallSnapshotFalls
<1>5. /\ u \in Nat /\ n \in Nat /\ t \in Nat
      /\ n > 0 => Chosen(L, K, t, n) /\ L[u][n].term = t /\ t <= u
      /\ n = 0 => t = 0
      /\ n >= snapshot[i].index /\ BoundaryFits(log[i], n, t)
      /\ state[i].commit_index <= n \/ TermAt(log[i], n) = t
      /\ after = InstallBoundary(log[i], n, t)
      /\ high = Max({state[i].commit_index, n}) /\ high <= LastIndex(after)
      /\ snap.index = n /\ snap.term = t
    BY ONLY RoleInv, c \in rpcs, i \in Node, <1>1, <1>3, <1>4, InstallRequestFacts
<1>6. log[i].base \in Nat
    BY NodeTypes
<1>7. CASE Falls(i, log[i], snap)
  <2>1. Unfolds(log[i], F[i]) /\ log'[i] = log[i]
      BY <1>1, <1>7 DEF Remembers, NodeOK, NodeLog, Falls
  <2>2. SnapshotChosen(L, K, i)'
      BY <1>5, <1>6, <1>7 DEF SnapshotChosen, Falls, BoundaryFits
  <2>3. log'[i].base >= log[i].base
      BY <1>6, <2>1
  <2>. QED  BY <1>0, <1>1, <1>4, <1>7, <2>1, <2>2, <2>3, KeptLogRemembered DEF Falls
<1>8. CASE Falls(i, after, snap)
  <2>1. /\ after.base = n /\ after.bterm = t /\ n >= log[i].base
        /\ \E g \in Full : /\ Unfolds(after, g)
                           /\ n > 0 => Agree(g, L[t], n)
                           /\ Installs(L, F, K, i, n, t, after, g)
      BY <1>1, <1>5, BoundaryTaken
  <2>2. PICK g \in Full : /\ Unfolds(after, g)
                          /\ Installs(L, F, K, i, n, t, after, g)
      BY <2>1
  <2>3. Takes(L, F, K, i, g)
    <3>1. \A y \in Node, w \in Nat : ~Evidence(y, w, i)'
        BY <1>8, FallenSilent
    <3>. QED  BY <1>5, <2>2, <3>1, InstallTakes
  <2>4. PICK m : m = state[i].commit_index
      OBVIOUS
  <2>5. m <= LastIndex(after) /\ g[m] = F[i][m]
      BY <1>1, <1>5, <2>2, <2>4, InstallKeeps
  <2>6. SnapshotChosen(L, K, i)'
      BY <1>5, <1>8, <2>1 DEF SnapshotChosen, Falls
  <2>7. after.base \in Nat /\ after.base >= log[i].base
      BY <1>5, <2>1
  <2>. QED
      BY ONLY <1>0, <1>1, i \in Node, g \in Full, <1>8, <2>2, <2>3, <2>4, <2>5, <2>6,
              <2>7, FallenRemembered
<1>. QED  BY <1>4, <1>7, <1>8

-----------------------------------------------------------------------------
(* Restart.                                                                *)

LEMMA DownSilent ==
    ASSUME RoleInv, NEW i \in Node, i \notin up, rpcs' = rpcs,
           state'[i].role = Follower
    PROVE  \A y \in Node, w \in Nat : ~Evidence(y, w, i)'
<1>1. state'[i].role # Candidate
    BY DEF Follower, Candidate
<1>2. \A c \in rpcs' : c.src = i => c.st = "late"
    BY DEF RoleInv, CallRole
<1>. QED  BY <1>1, <1>2 DEF Evidence, CountedVote, AnsweredVote, Granting

LEMMA RestartStep ==
    ASSUME RoleInv, RoleInv', Remembered, NEW i \in Node, Restart(i)
    PROVE  Remembered'
<1>0. TypeInv /\ Quiet /\ Moves
    BY RestartQuiet, QuietMoves DEF RoleInv, ElectionInv
<1>1. PICK L, F, K : Remembers(L, F, K)
    BY DEF Remembered
<1>2. PICK d, n, t, after, m :
         /\ d = disk[i] /\ n = snapshot[i].index /\ t = snapshot[i].term
         /\ after = RecoveredLog(d) /\ m = RecoveredCommit(d)
    OBVIOUS
<1>3. /\ CanRestart(d) /\ i \notin up /\ i \in up'
      /\ OnlyTouches(i) /\ elected' = elected /\ committed' = committed
      /\ state'[i].current_term = state[i].current_term
      /\ state'[i].role = Follower
      /\ state'[i].commit_index = m /\ state'[i].last_applied = m
      /\ log'[i] = after /\ snapshot'[i] = snapshot[i]
      /\ replication'[i] = replication[i] /\ pending'[i] = pending[i]
      /\ rpcs' = rpcs /\ CallsBecome({}, None, FALSE)
    BY <1>0, <1>2, RestartEffect
<1>4. /\ d.log = log[i] /\ d.snapshot.index = n /\ d.snapshot.term = t
      /\ d.commit_index = state[i].commit_index
    BY <1>0, <1>2, DiskFields
<1>5. n \in Nat /\ t \in Nat /\ log[i].base \in Nat
    BY <1>2, NodeTypes
<1>6. /\ SnapshotChosen(L, K, i) /\ replication[i] = NoReplication
    BY <1>1, <1>3 DEF Remembers, NodeOK, RoleInv, RoleOK
<1>7. /\ n > 0 => Chosen(L, K, t, n)
      /\ n = 0 => t = 0
      /\ BoundaryFits(log[i], n, t)
    BY <1>2, <1>5, <1>6 DEF SnapshotChosen, BoundaryFits
<1>8. after = InstallBoundary(log[i], n, t)
    BY <1>2, <1>4, <1>5, <1>6 DEF RecoveredLog, InstallBoundary, SnapshotChosen
<1>9. m = Max({state[i].commit_index, n}) /\ m <= LastIndex(after)
    BY <1>2, <1>3, <1>4 DEF RecoveredCommit, CanRestart
<1>10. /\ after.base = n /\ after.bterm = t /\ n >= log[i].base
       /\ \E g \in Full : /\ Unfolds(after, g)
                          /\ n > 0 => Agree(g, L[t], n)
                          /\ Installs(L, F, K, i, n, t, after, g)
    BY <1>1, <1>5, <1>7, <1>8, BoundaryTaken
<1>11. PICK g \in Full : /\ Unfolds(after, g)
                         /\ Installs(L, F, K, i, n, t, after, g)
    BY <1>10
<1>12. Takes(L, F, K, i, g)
  <2>1. \A y \in Node, w \in Nat : ~Evidence(y, w, i)'
      BY <1>3, DownSilent
  <2>. QED  BY <1>5, <1>11, <2>1, InstallTakes
<1>13. m \in Nat /\ CommitsChosen(L, K, i, g, m)
  <2>1. state[i].current_term <= state'[i].current_term /\ state'[i].current_term \in Nat
      BY <1>3, NodeTypes
  <2>. QED
      BY ONLY RoleInv, i \in Node, <1>1, <1>3, <1>5, <1>7, <1>9, <1>10, <1>11, <2>1,
              InstallCommits
<1>14. SnapshotChosen(L, K, i)'
    BY <1>2, <1>3, <1>5, <1>7, <1>10 DEF SnapshotChosen
<1>15. PICK u \in Nat, index \in Nat : index = K[i][u] /\ index >= K[i][u]
    BY <1>1, <1>5, ShadowFacts DEF Remembers
<1>16. PICK e, ok : e = None /\ ok = FALSE
    OBVIOUS
<1>17. CallsBecome({}, e, ok) /\ ~ok
    BY <1>3, <1>16
<1>18. /\ state'[i].last_applied <= m /\ replication'[i] = NoReplication
       /\ pending'[i] \in {pending[i], NoBatch}
    BY <1>3, <1>6, <1>13
<1>. QED
    BY ONLY <1>0, <1>1, i \in Node, <1>3, g \in Full, <1>9, <1>11, <1>12, <1>13, <1>14,
            u \in Nat, index \in Nat, <1>15, <1>17, <1>18, FollowerRemembered

-----------------------------------------------------------------------------
(* Every step keeps what is remembered.                                    *)

LEMMA StutterRemembered ==
    ASSUME RoleInv, RoleInv', Remembered, UNCHANGED vars
    PROVE  Remembered'
<1>0. TypeInv
    BY DEF RoleInv, ElectionInv
<1>1. PICK i \in Node : TRUE
    BY NodeAssumption
<1>2. UNCHANGED <<up, memory, elected, committed, state, rpcs>>
    BY DEF vars, memory, history
<1>3. Settles(i)
    BY <1>0, <1>2, CallsOnlySettle
<1>4. Quiet
    BY <1>0, <1>2, QuietCalls DEF NoNewGrant
<1>5. PICK e, ok : e = None /\ ok = FALSE
    OBVIOUS
<1>6. CallsBecome({}, e, ok)
    BY <1>2, <1>5, FewerCalls
<1>. QED  BY <1>3, <1>4, <1>5, <1>6, QuietlyRemembered

LEMMA RememberedStep == RoleInv /\ Remembered /\ [Next]_vars => Remembered'
<1>. SUFFICES ASSUME RoleInv, Remembered, [Next]_vars  PROVE Remembered'
    OBVIOUS
<1>0. RoleInv'
    BY RoleStep
<1>1. CASE ElectionStep
    BY <1>0, <1>1, StartElectionStep, HandleRequestVoteStep, RecordVoteStep, SettledStep
       DEF ElectionStep
<1>2. CASE ReplicationStep
  <2>1. ASSUME NEW c \in rpcs, HandleAppendEntries(c)  PROVE Remembered'
    <3>1. CASE c.req.term < state[c.dst].current_term
        BY <1>0, <2>1, <3>1, SettledStep
    <3>2. CASE ~(c.req.term < state[c.dst].current_term)
        BY <1>0, <2>1, <3>2, RefusedAppend, HandleAppendEntriesStep
    <3>. QED  BY <3>1, <3>2
  <2>. QED
      BY <1>0, <1>2, <2>1, AdvanceCommitStep, AnswerToLeaderStep, SettledStep
         DEF ReplicationStep
<1>3. CASE ClientStep
    BY <1>0, <1>3, ClientWriteStep, SettledStep DEF ClientStep
<1>4. CASE SnapshotStep
    BY <1>0, <1>4, CompactionStep, HandleInstallSnapshotStep, RejectSnapshotStep
       DEF SnapshotStep
<1>5. CASE TransferStep
    BY <1>0, <1>5, SettledStep DEF TransferStep
<1>6. CASE CrashStep
    BY <1>0, <1>6, CrashStepRemembered, CompactionStep, RestartStep, ClientWriteStep,
       CrashInAppendEntriesStep, CrashInInstallSnapshotStep DEF CrashStep
<1>7. CASE LossStep
    BY <1>0, <1>7, SettledStep DEF LossStep
<1>8. CASE UNCHANGED vars
    BY <1>0, <1>8, StutterRemembered
<1>. QED  BY <1>1, <1>2, <1>3, <1>4, <1>5, <1>6, <1>7, <1>8 DEF Next

AllBlank == [n \in Nat |-> Blank]

LEMMA InitRemembered == Init => Remembered
<1>. SUFFICES ASSUME Init  PROVE Remembered
    OBVIOUS
<1>. DEFINE L == [t \in Nat |-> AllBlank]
            F == [i \in Node |-> AllBlank]
            K == [i \in Node |-> [t \in Nat |-> 0]]
<1>1. /\ AllBlank \in Full /\ \A n \in Nat : AllBlank[n] = Blank /\ AllBlank[n].term = 0
    BY DEF AllBlank, Full, FullOf, CellOf, Blank
<1>2. /\ \A t \in Nat : L[t] = AllBlank
      /\ \A i \in Node : F[i] = AllBlank /\ \A t \in Nat : K[i][t] = 0
    OBVIOUS
<1>3. Shadow(L, F, K)
    BY <1>1 DEF Shadow
<1>. HIDE DEF L, F, K
<1>4. /\ elected = {} /\ committed = <<>> /\ rpcs = {}
      /\ \A i \in Node : /\ state[i].role = Follower /\ state[i].current_term = 0
                         /\ state[i].commit_index = 0 /\ state[i].last_applied = 0
                         /\ log[i] = EmptyLog /\ snapshot[i] = InitialSnapshot
                         /\ replication[i] = NoReplication /\ pending[i] = NoBatch
    BY DEF Init, InitialState
<1>5. Sorted(AllBlank) /\ Traceable(L, AllBlank)
    BY <1>1 DEF Sorted, Traceable
<1>6. LeaderLogs(L)
    BY <1>1, <1>2, <1>5 DEF LeaderLogs, LeaderLog
<1>7. /\ AcksTrue(L, K) /\ AcksHere(L, F, K) /\ AcksKept(L, F, K)
      /\ LeadersKeep(L, K)
    BY <1>1, <1>2, <1>4 DEF AcksTrue, AcksHere, AcksKept, LeadersKeep, Agree
<1>8. VotersCovered(L, F, K) /\ AheadBarred(F)
    BY <1>1, <1>2, <1>4 DEF VotersCovered, Covered, AheadBarred
<1>9. Bound(L, F, K)
    BY <1>2, <1>5, <1>6, <1>7, <1>8 DEF Bound
<1>10. History(L, K)
    BY <1>4 DEF History
<1>11. ASSUME NEW i \in Node  PROVE NodeOK(L, F, K, i)
  <2>1. /\ EmptyLog.base = 0 /\ EmptyLog.bterm = 0 /\ LastIndex(EmptyLog) = 0
        /\ \A n \in Nat : ~Retains(EmptyLog, n)
      BY DEF EmptyLog, LastIndex, Retains
  <2>2. Unfolds(EmptyLog, AllBlank)
      BY <1>1, <2>1 DEF Unfolds
  <2>3. NodeLog(L, F, K, i) /\ Progress(F, K, i)
      BY <1>2, <1>4, <2>2 DEF NodeLog, Progress, Follower, Leader
  <2>4. CommitChosen(L, F, K, i)
      BY <1>4, <2>1 DEF CommitChosen
  <2>5. SnapshotChosen(L, K, i)
      BY <1>4, <2>1 DEF SnapshotChosen, InitialSnapshot
  <2>6. PendingKept(L, i)
      BY <1>4 DEF PendingKept, NoBatch
  <2>. QED  BY <2>3, <2>4, <2>5, <2>6 DEF NodeOK
<1>12. Remembers(L, F, K)
    BY <1>3, <1>4, <1>9, <1>10, <1>11 DEF Remembers
<1>. QED  BY <1>12 DEF Remembered

SafetyInv == RoleInv /\ Remembered

LEMMA SafetyStep == SafetyInv /\ [Next]_vars => SafetyInv'
<1>. QED  BY RoleStep, RememberedStep DEF SafetyInv

LEMMA SafetyInvHolds == Spec => []SafetyInv
<1>1. Init => SafetyInv
    BY InitRole, InitRemembered DEF SafetyInv
<1>. QED  BY <1>1, SafetyStep, PTL DEF Spec
=============================================================================
