------------------------- MODULE StorageEngineProofs -------------------------
(***************************************************************************)
(* The standalone engine, for any threads, keys, values and length of the  *)
(* log: what a restart would recover is the map in memory but for the      *)
(* operations that are logged and not stored yet, and it changes by one    *)
(* acknowledged operation at a time.                                       *)
(***************************************************************************)
EXTENDS MCStorageEngine, NaturalsInduction, WellFoundedInduction,
        SequenceTheorems, TLAPS

Map == [Key -> Value \cup {Absent}]
WAL == [lines : Seq(Record \cup {Broken}), open : BOOLEAN]

-----------------------------------------------------------------------------
(* What _recover returns.                                                  *)

LEMMA GreatestOf ==
    ASSUME NEW b \in Nat, NEW S \in SUBSET (1..b), S # {}
    PROVE  Max(S) \in S /\ \A m \in S : Max(S) >= m
<1>. DEFINE T == {t \in Nat : b - t \in S}
<1>1. \A n \in S : n \in 1..b /\ b - n \in T
    OBVIOUS
<1>2. PICK t \in T : \A u \in T : <<u, t>> \notin OpToRel(<, Nat)
    BY <1>1, NatLessThanWellFounded, WFMin, Zenon
<1>3. \A u \in T : ~(u < t)
    BY <1>2, Zenon DEF OpToRel
<1>4. ASSUME NEW m \in S  PROVE  b - t >= m
    <2>1. m \in Nat /\ b - m \in T /\ t \in Nat
        BY <1>1
    <2>2. ~(b - m < t)
        BY <1>3, <2>1
    <2>3. b - m \in Nat
        BY <2>1
    <2>. HIDE DEF T
    <2>. QED  BY <2>1, <2>2, <2>3
<1>5. \E n \in S : \A m \in S : n >= m
    BY <1>2, <1>4
<1>. QED  BY <1>5, Zenon DEF Max

(* Line n is the last one of w that writes key k.                          *)
LastWrite(w, k, n) ==
    /\ n \in Replayed(w)
    /\ w.lines[n].key = k
    /\ \A m \in Replayed(w) : w.lines[m].key = k => m <= n

Unwritten(w, k) == \A n \in Replayed(w) : w.lines[n].key # k

LEMMA WrittenOrNot ==
    ASSUME NEW w \in WAL, NEW k
    PROVE  Unwritten(w, k) \/ \E n \in Replayed(w) : LastWrite(w, k, n)
<1>. DEFINE S == {n \in Replayed(w) : w.lines[n].key = k}
<1>1. Len(w.lines) \in Nat /\ S \in SUBSET (1..Len(w.lines))
    BY DEF WAL, Replayed
<1>2. CASE S = {}
    BY <1>2 DEF Unwritten
<1>3. CASE S # {}
    <2>1. Max(S) \in S /\ \A m \in S : Max(S) >= m
        BY <1>1, <1>3, GreatestOf
    <2>2. \A m \in S : m \in Nat
        BY <1>1
    <2>. QED  BY <2>1, <2>2 DEF LastWrite
<1>. QED  BY <1>2, <1>3

LEMMA RecoverUnwritten ==
    ASSUME NEW m, NEW w, NEW k \in Key, Unwritten(w, k)
    PROVE  Recover(m, w)[k] = m[k]
<1>1. {n \in Replayed(w) : w.lines[n].key = k} = {}
    BY DEF Unwritten
<1>. QED  BY <1>1 DEF Recover

LEMMA RecoverWritten ==
    ASSUME NEW m, NEW w \in WAL, NEW k \in Key, NEW n, LastWrite(w, k, n)
    PROVE  Recover(m, w)[k] = w.lines[n].value
<1>. DEFINE S == {l \in Replayed(w) : w.lines[l].key = k}
<1>1. Len(w.lines) \in Nat /\ S \in SUBSET (1..Len(w.lines))
    BY DEF WAL, Replayed
<1>2. n \in S /\ \A l \in S : l <= n
    BY DEF LastWrite
<1>3. Max(S) \in S /\ \A l \in S : Max(S) >= l
    BY <1>1, <1>2, GreatestOf
<1>4. Max(S) = n
    <2>0. \A l \in S : l \in Int
        BY <1>1
    <2>1. Max(S) \in Int /\ n \in Int
        <3>. HIDE DEF S
        <3>. QED  BY <1>2, <1>3, <2>0
    <2>2. Max(S) >= n /\ Max(S) <= n
        BY <1>2, <1>3
    <2>. QED  BY <2>1, <2>2
<1>5. Recover(m, w)[k] = IF S = {} THEN m[k] ELSE w.lines[Max(S)].value
    BY DEF Recover
<1>. QED  BY <1>2, <1>4, <1>5

LEMMA RecoverType ==
    ASSUME NEW m \in Map, NEW w \in WAL
    PROVE  Recover(m, w) \in Map
<1>1. ASSUME NEW k \in Key  PROVE  Recover(m, w)[k] \in Value \cup {Absent}
    <2>1. CASE Unwritten(w, k)
        BY <2>1, RecoverUnwritten DEF Map
    <2>2. ASSUME NEW n \in Replayed(w), LastWrite(w, k, n)
          PROVE  Recover(m, w)[k] \in Value \cup {Absent}
        <3>1. Recover(m, w)[k] = w.lines[n].value
            BY <2>2, RecoverWritten
        <3>2. w.lines[n] \in Record
            BY DEF WAL, Replayed
        <3>. QED  BY <3>1, <3>2 DEF Record
    <2>. QED  BY <2>1, <2>2, WrittenOrNot
<1>2. Recover(m, w) = [k \in Key |-> Recover(m, w)[k]]
    BY DEF Recover
<1>. QED  BY <1>1, <1>2 DEF Map

(* Two maps that recovery gives are equal when they agree on every key.    *)
LEMMA RecoverEqual ==
    ASSUME NEW m, NEW w, NEW f, f = [k \in Key |-> f[k]],
           \A k \in Key : Recover(m, w)[k] = f[k]
    PROVE  Recover(m, w) = f
<1>1. Recover(m, w) = [k \in Key |-> Recover(m, w)[k]]
    BY DEF Recover
<1>. QED  BY <1>1

LEMMA RecoverEmpty ==
    ASSUME NEW m \in Map
    PROVE  Recover(m, EmptyWAL) = m
<1>1. ASSUME NEW k \in Key  PROVE  Unwritten(EmptyWAL, k)
    BY DEF Unwritten, EmptyWAL, Replayed
<1>. QED  BY <1>1, RecoverUnwritten, RecoverEqual DEF Map

(* An operation that is appended is applied last.                          *)
LEMMA RecoverAppended ==
    ASSUME NEW m \in Map, NEW w \in WAL, NEW w2 \in WAL, NEW r \in Record,
           w2.lines = Append(w.lines, r)
    PROVE  Recover(m, w2) = Apply(Recover(m, w), r)
<1>. DEFINE last == Len(w.lines) + 1
<1>0. /\ Len(w.lines) \in Nat /\ Len(w2.lines) = last /\ w2.lines[last] = r
      /\ \A n \in 1..Len(w.lines) : w2.lines[n] = w.lines[n]
    BY DEF WAL
<1>1. r # Broken
    BY EngineAssumption
<1>2. Replayed(w2) = Replayed(w) \cup {last} /\ \A n \in Replayed(w) : n < last
    BY <1>0, <1>1 DEF Replayed
<1>3. \A n \in Replayed(w) : w2.lines[n] = w.lines[n]
    BY <1>0 DEF Replayed
<1>4. Recover(m, w) \in Map
    BY RecoverType
<1>. HIDE DEF last
<1>5. ASSUME NEW k \in Key  PROVE  Recover(m, w2)[k] = Apply(Recover(m, w), r)[k]
    <2>0. Apply(Recover(m, w), r)[k] =
              IF k = r.key THEN r.value ELSE Recover(m, w)[k]
        BY <1>4 DEF Apply, Map, Record
    <2>1. CASE k = r.key
        <3>1. LastWrite(w2, k, last)
            <4>1. last \in Replayed(w2) /\ w2.lines[last].key = k
                BY <1>0, <1>2, <2>1
            <4>2. last \in Nat /\ \A l \in Replayed(w) : l \in Nat
                BY <1>0 DEF last, Replayed
            <4>3. \A l \in Replayed(w2) : l <= last
                BY <1>2, <4>2
            <4>. QED  BY <4>1, <4>3 DEF LastWrite
        <3>. QED  BY <1>0, <2>0, <2>1, <3>1, RecoverWritten
    <2>2. CASE k # r.key /\ Unwritten(w, k)
        <3>1. Unwritten(w2, k)
            BY <1>0, <1>2, <1>3, <2>2 DEF Unwritten
        <3>. QED  BY <2>0, <2>2, <3>1, RecoverUnwritten
    <2>3. ASSUME k # r.key, NEW n \in Replayed(w), LastWrite(w, k, n)
          PROVE  Recover(m, w2)[k] = Apply(Recover(m, w), r)[k]
        <3>1. LastWrite(w2, k, n)
            BY <1>0, <1>2, <1>3, <2>3 DEF LastWrite
        <3>2. Recover(m, w2)[k] = w2.lines[n].value
            BY ONLY <3>1, w2 \in WAL, k \in Key, RecoverWritten
        <3>3. Recover(m, w)[k] = w.lines[n].value
            BY <2>3, RecoverWritten
        <3>. QED  BY <1>3, <2>0, <2>3, <3>2, <3>3
    <2>. QED  BY <2>1, <2>2, <2>3, WrittenOrNot
<1>6. Apply(Recover(m, w), r) = [k \in Key |-> Apply(Recover(m, w), r)[k]]
    BY <1>4 DEF Apply, Map
<1>. QED  BY <1>5, <1>6, RecoverEqual

(* A record that was cut is not seen.                                      *)
LEMMA RecoverCut ==
    ASSUME NEW m \in Map, NEW w \in WAL, NEW w2 \in WAL,
           w2.lines = Append(w.lines, Broken)
    PROVE  Recover(m, w2) = Recover(m, w)
<1>1. /\ Len(w.lines) \in Nat /\ Len(w2.lines) = Len(w.lines) + 1
      /\ w2.lines[Len(w.lines) + 1] = Broken
      /\ \A n \in 1..Len(w.lines) : w2.lines[n] = w.lines[n]
    BY DEF WAL
<1>2. Replayed(w2) = Replayed(w)
    BY <1>1 DEF Replayed
<1>3. \A n \in Replayed(w) : w2.lines[n] = w.lines[n]
    BY <1>1 DEF Replayed
<1>4. ASSUME NEW k \in Key  PROVE  Recover(m, w2)[k] = Recover(m, w)[k]
    <2>1. CASE Unwritten(w, k)
        <3>1. Unwritten(w2, k)
            BY <1>2, <1>3, <2>1 DEF Unwritten
        <3>. QED  BY <2>1, <3>1, RecoverUnwritten
    <2>2. ASSUME NEW n \in Replayed(w), LastWrite(w, k, n)
          PROVE  Recover(m, w2)[k] = Recover(m, w)[k]
        <3>1. LastWrite(w2, k, n)
            BY <1>2, <1>3, <2>2 DEF LastWrite
        <3>2. Recover(m, w2)[k] = w2.lines[n].value
            BY ONLY <3>1, w2 \in WAL, k \in Key, RecoverWritten
        <3>3. Recover(m, w)[k] = w.lines[n].value
            BY <2>2, RecoverWritten
        <3>. QED  BY <1>3, <3>2, <3>3
    <2>. QED  BY <2>1, <2>2, WrittenOrNot
<1>5. Recover(m, w) = [k \in Key |-> Recover(m, w)[k]]
    BY DEF Recover
<1>. QED  BY <1>4, <1>5, RecoverEqual

(* The log over a snapshot that holds its operations already changes       *)
(* nothing.                                                                *)
LEMMA RecoverAgain ==
    ASSUME NEW m \in Map, NEW w \in WAL
    PROVE  Recover(Recover(m, w), w) = Recover(m, w)
<1>1. ASSUME NEW k \in Key
      PROVE  Recover(Recover(m, w), w)[k] = Recover(m, w)[k]
    <2>1. CASE Unwritten(w, k)
        BY <2>1, RecoverUnwritten
    <2>2. ASSUME NEW n \in Replayed(w), LastWrite(w, k, n)
          PROVE  Recover(Recover(m, w), w)[k] = Recover(m, w)[k]
        BY <2>2, RecoverWritten
    <2>. QED  BY <2>1, <2>2, WrittenOrNot
<1>2. Recover(m, w) = [k \in Key |-> Recover(m, w)[k]]
    BY DEF Recover
<1>. QED  BY <1>1, <1>2, RecoverEqual

(* A last line that is destroyed takes with it no key but its own.         *)
LEMMA RecoverDestroyed ==
    ASSUME NEW m, NEW w \in WAL, NEW w2 \in WAL, w.open, w.lines # <<>>,
           Len(w2.lines) = Len(w.lines), w2.lines[Len(w.lines)] = Broken,
           \A n \in 1..(Len(w.lines) - 1) : w2.lines[n] = w.lines[n],
           NEW k \in Key, k \notin Swallowed(w)
    PROVE  Recover(m, w2)[k] = Recover(m, w)[k]
<1>. DEFINE last == Len(w.lines)
<1>1. last \in Nat /\ last >= 1
    BY DEF WAL
<1>2. \A n \in 1..last : n = last \/ n \in 1..(last - 1)
    BY <1>1
<1>3. \A n \in 1..(last - 1) : n \in 1..last /\ n # last
    BY <1>1
<1>4. Replayed(w2) \subseteq Replayed(w) /\ last \notin Replayed(w2)
    BY <1>2 DEF Replayed
<1>5. \A n \in Replayed(w) : n # last => n \in Replayed(w2)
    BY <1>2, <1>3 DEF Replayed
<1>6. \A n \in Replayed(w2) : w2.lines[n] = w.lines[n]
    BY <1>2, <1>4 DEF Replayed
<1>7. last \in Replayed(w) => w.lines[last].key # k
    BY DEF Swallowed, Replayed
<1>. HIDE DEF last
<1>8. CASE Unwritten(w, k)
    <2>1. Unwritten(w2, k)
        BY <1>4, <1>6, <1>8 DEF Unwritten
    <2>. QED  BY <1>8, <2>1, RecoverUnwritten
<1>9. ASSUME NEW n \in Replayed(w), LastWrite(w, k, n)
      PROVE  Recover(m, w2)[k] = Recover(m, w)[k]
    <2>1. n \in Replayed(w2)
        BY <1>5, <1>7, <1>9 DEF LastWrite
    <2>2. LastWrite(w2, k, n)
        BY <1>4, <1>6, <1>9, <2>1 DEF LastWrite
    <2>3. Recover(m, w2)[k] = w2.lines[n].value
        BY ONLY <2>2, w2 \in WAL, k \in Key, RecoverWritten
    <2>4. Recover(m, w)[k] = w.lines[n].value
        BY <1>9, RecoverWritten
    <2>. QED  BY <1>6, <2>1, <2>3, <2>4
<1>. QED  BY <1>8, <1>9, WrittenOrNot

-----------------------------------------------------------------------------
(* The invariant, checked by TLC on the instance of the engine run.        *)

(* Only the last line may be broken, and only while it is incomplete.      *)
SoundLog(w) ==
    /\ CanReplay(w)
    /\ w.lines # <<>> /\ ~w.open => w.lines[Len(w.lines)] # Broken

(* So it is as long as no record was destroyed.                            *)
Sound ==
    /\ wal.open => wal.lines # <<>>
    /\ lost = {} => SoundLog(wal)

HistoryOK ==
    /\ lost \in SUBSET Key
    /\ latest \in [Key -> SUBSET (Value \cup {Absent})]

Serving(c) == request[c] # Waiting
Storing(c) == request[c].at = "storing"

Named ==
    \A c \in Client : Serving(c) => request[c].op.value \in latest[request[c].op.key]

InMemory ==
    up => \A k \in Key : Untouched(k) => store[k] \in latest[k]

(* Some operation of the last requests for k is in the log.                *)
Logged(k) ==
    Untouched(k) \/ \E c \in Client : Storing(c) /\ request[c].op.key = k

OnDisk ==
    \A k \in Key : (up => k \notin lost) /\ Logged(k) => Recovered[k] \in latest[k]

Quiet == ~up => Quiescent

(* Nothing has changed since create_snapshot took its copy.                *)
Copied ==
    snapshot # Waiting =>
        /\ \A c \in Client : ~Serving(c)
        /\ snapshot.data = store
        /\ snapshot.at = "truncating" => saved = store

EngineInv ==
    /\ TypeOK /\ HistoryOK /\ Sound /\ Named
    /\ InMemory /\ OnDisk /\ Quiet /\ Copied

-----------------------------------------------------------------------------
(* Types.                                                                  *)

RequestType == {Waiting} \cup [at : {"logging", "storing"}, op : Record]

LEMMA RequestCases ==
    ASSUME TypeOK, NEW c \in Client
    PROVE  /\ request[c] \in RequestType
           /\ request[c].at \in {"logging", "storing"} =>
                 request[c] # Waiting /\ request[c].op \in Record
           /\ request[c] # Waiting =>
                 request[c].at \in {"logging", "storing"} /\ request[c].op \in Record
           /\ Serving(c) = (request[c] # Waiting)
<1>1. request[c] \in {Waiting} \cup [at : {"logging", "storing"}, op : Record]
    BY DEF TypeOK
<1>2. Waiting.at = "waiting"
    BY DEF Waiting
<1>3. request[c] # Waiting =>
          request[c].at \in {"logging", "storing"} /\ request[c].op \in Record
    BY <1>1
<1>4. request[c].at \in {"logging", "storing"} => request[c] # Waiting
    BY <1>2
<1>. QED  BY <1>1, <1>3, <1>4 DEF RequestType, Serving

LEMMA RecoveredType ==
    ASSUME TypeOK
    PROVE  /\ saved \in Map /\ store \in Map /\ wal \in WAL
           /\ Recovered \in Map
           /\ Recovered = Recover(saved, wal)
<1>1. saved \in Map /\ store \in Map /\ wal \in WAL
    BY DEF TypeOK, Map, WAL
<1>. QED  BY <1>1, RecoverType DEF Recovered

LEMMA EngineInvInit == EngineInit => EngineInv
<1>. SUFFICES ASSUME EngineInit  PROVE  EngineInv
    OBVIOUS
<1>. USE DEF EngineInit
<1>0. EmptyMap \in Map /\ EmptyWAL \in WAL
    BY DEF EmptyMap, EmptyWAL, Map, WAL
<1>1. \A c \in Client : request[c] = Waiting
    BY DEF Init
<1>2. TypeOK
    <2>1. up \in BOOLEAN /\ store \in Map /\ wal \in WAL /\ saved \in Map
        BY <1>0 DEF Init
    <2>2. Len(wal.lines) <= MaxLines
        BY EngineAssumption DEF Init, EmptyWAL
    <2>. QED  BY <1>1, <2>1, <2>2 DEF Init, TypeOK, Map, WAL
<1>3. Sound
    BY DEF Init, Sound, SoundLog, CanReplay, EmptyWAL
<1>4. HistoryOK
    BY DEF HistoryOK
<1>5. Named /\ Quiet /\ Copied
    BY <1>1 DEF Init, Named, Quiet, Copied, Serving, Quiescent
<1>6. Recovered = EmptyMap
    BY <1>0, RecoverEmpty DEF Init, Recovered
<1>7. InMemory /\ OnDisk
    BY <1>6 DEF Init, InMemory, OnDisk, EmptyMap
<1>. QED  BY <1>2, <1>3, <1>4, <1>5, <1>7 DEF EngineInv

-----------------------------------------------------------------------------
(* The log after an append, and after an append that was cut.              *)

LEMMA LogAppended ==
    ASSUME NEW w \in WAL, NEW r \in Record \cup {Broken}, NEW w2 \in WAL,
           w2.lines = Append(w.lines, r), w2.open \/ r # Broken,
           Len(w.lines) < MaxLines, ~w.open
    PROVE  /\ Len(w2.lines) <= MaxLines /\ w2.lines # <<>>
           /\ SoundLog(w) => SoundLog(w2)
<1>0. Len(w.lines) \in Nat /\ MaxLines \in Nat /\ w.lines \in Seq(Record \cup {Broken})
    BY EngineAssumption DEF WAL
<1>3. /\ Len(w2.lines) = Len(w.lines) + 1
      /\ w2.lines[Len(w.lines) + 1] = r
      /\ \A n \in 1..Len(w.lines) : w2.lines[n] = w.lines[n]
    BY <1>0
<1>4. ASSUME SoundLog(w)  PROVE  CanReplay(w2)
    <2>2. w.lines = <<>> => Len(w.lines) = 0
        OBVIOUS
    <2>3. /\ \A n \in 1..(Len(w.lines) - 1) : w.lines[n] # Broken
          /\ w.lines # <<>> => w.lines[Len(w.lines)] # Broken
        BY <1>4 DEF CanReplay, SoundLog
    <2>4. \A n \in 1..Len(w.lines) : n = Len(w.lines) \/ n \in 1..(Len(w.lines) - 1)
        BY <1>0
    <2>5. \A n \in 1..Len(w.lines) : w.lines[n] # Broken
        BY <2>2, <2>3, <2>4
    <2>6. Len(w2.lines) - 1 = Len(w.lines)
        BY <1>0, <1>3
    <2>. QED  BY <1>3, <2>5, <2>6 DEF CanReplay
<1>5. SoundLog(w) => SoundLog(w2)
    <2>1. w2.open \/ w2.lines[Len(w2.lines)] # Broken
        BY <1>3
    <2>. QED  BY <1>4, <2>1 DEF SoundLog
<1>6. Len(w2.lines) <= MaxLines /\ w2.lines # <<>>
    <2>1. Len(w2.lines) <= MaxLines
        BY <1>0, <1>3
    <2>2. w2.lines # <<>>
        OBVIOUS
    <2>. QED  BY <2>1, <2>2
<1>. QED  BY <1>5, <1>6

(* The lines an append of a thread leaves, whole or cut.                   *)
LEMMA AppendedWAL ==
    ASSUME EngineInv, ~wal.open, Len(wal.lines) < MaxLines,
           NEW r \in Record \cup {Broken}, NEW w2 \in WAL,
           w2.lines = Append(wal.lines, r), w2.open \/ r # Broken,
           wal' = w2, saved' = saved
    PROVE  /\ Len(wal'.lines) <= MaxLines /\ wal'.lines # <<>>
           /\ SoundLog(wal) => SoundLog(wal')
           /\ r = Broken => Recovered' = Recovered
           /\ r \in Record => Recovered' = Apply(Recovered, r)
<1>0. wal \in WAL /\ saved \in Map /\ Recovered = Recover(saved, wal)
    BY RecoveredType DEF EngineInv
<1>1. /\ Len(w2.lines) <= MaxLines /\ w2.lines # <<>>
      /\ SoundLog(wal) => SoundLog(w2)
    BY <1>0, LogAppended
<1>2. Recovered' = Recover(saved, w2)
    BY DEF Recovered
<1>3. r = Broken => Recovered' = Recovered
    BY <1>0, <1>2, RecoverCut
<1>4. r \in Record => Recovered' = Apply(Recovered, r)
    BY <1>0, <1>2, RecoverAppended
<1>. QED  BY <1>1, <1>3, <1>4

(* The lines an append leaves behind a line that lacks its newline.        *)
LEMMA DestroyedWAL ==
    ASSUME EngineInv, wal.open, NEW w2 \in WAL,
           Len(w2.lines) = Len(wal.lines), w2.lines[Len(wal.lines)] = Broken,
           \A n \in 1..(Len(wal.lines) - 1) : w2.lines[n] = wal.lines[n],
           wal' = w2, saved' = saved
    PROVE  /\ Len(wal'.lines) <= MaxLines /\ wal'.lines # <<>>
           /\ SoundLog(wal) /\ w2.open => SoundLog(wal')
           /\ \A k \in Key \ Swallowed(wal) : Recovered'[k] = Recovered[k]
<1>0. wal \in WAL /\ saved \in Map /\ Recovered = Recover(saved, wal)
    BY RecoveredType DEF EngineInv
<1>1. wal.lines # <<>> /\ Len(wal.lines) \in Nat /\ Len(wal.lines) <= MaxLines
    BY <1>0 DEF EngineInv, Sound, TypeOK, WAL
<1>2. w2.lines # <<>>
    <2>1. Len(wal.lines) # 0
        BY <1>0, <1>1 DEF WAL
    <2>. QED  BY <2>1
<1>3. SoundLog(wal) /\ w2.open => SoundLog(w2)
    BY DEF SoundLog, CanReplay
<1>4. Recovered' = Recover(saved, w2)
    BY DEF Recovered
<1>5. \A k \in Key \ Swallowed(wal) : Recovered'[k] = Recovered[k]
    BY <1>0, <1>1, <1>4, RecoverDestroyed
<1>. QED  BY <1>1, <1>2, <1>3, <1>5

-----------------------------------------------------------------------------
(* Every step keeps the invariant, and while the promise is in force it    *)
(* changes what a restart would recover by one operation or not at all.    *)

MapStep ==
    Intact /\ Intact' =>
        \/ Recovered' = Recovered
        \/ \E r \in Record : Recovered' = Apply(Recovered, r)

StepOK == EngineInv' /\ MapStep

LEMMA SameFiles ==
    ASSUME wal' = wal, saved' = saved
    PROVE  Recovered' = Recovered /\ (Sound /\ lost' = lost => Sound')
BY DEF Recovered, Sound

(* Other threads go on with what they do.                                  *)
OnlyMoves(c) == \A d \in Client : d # c => request'[d] = request[d]

LEMMA BeginStep ==
    ASSUME EngineInv, NEW c \in Client, NEW r \in Record, BeginRequest(c, r)
    PROVE  StepOK
<1>1. /\ up /\ up' = up /\ request[c] = Waiting /\ snapshot = Waiting
      /\ request' = [request EXCEPT ![c] = [at |-> "logging", op |-> r]]
      /\ store' = store /\ wal' = wal /\ saved' = saved /\ snapshot' = snapshot
      /\ lost' = lost
    BY DEF BeginRequest, Begin
<1>2. /\ request' \in [Client -> RequestType]
      /\ request'[c] = [at |-> "logging", op |-> r]
      /\ OnlyMoves(c)
    BY <1>1 DEF EngineInv, TypeOK, RequestType, OnlyMoves
<1>3. request'[c].at = "logging" /\ request'[c].op = r /\ request'[c] # Waiting
    BY <1>2 DEF Waiting
<1>4. r.key \in Key /\ r.value \in Value \cup {Absent}
    BY DEF Record
<1>5. /\ latest' \in [Key -> SUBSET (Value \cup {Absent})]
      /\ r.value \in latest'[r.key]
      /\ ~Untouched(r.key) => \A v \in latest[r.key] : v \in latest'[r.key]
      /\ \A k \in Key : k # r.key => latest'[k] = latest[k]
    <2>1. latest' = [latest EXCEPT ![r.key] =
                        {r.value} \cup IF Untouched(r.key) THEN {} ELSE @]
        BY DEF BeginRequest
    <2>2. latest \in [Key -> SUBSET (Value \cup {Absent})]
        BY DEF EngineInv, HistoryOK
    <2>. HIDE DEF Untouched
    <2>. QED  BY <1>4, <2>1, <2>2
<1>6. TypeOK'
    BY <1>1, <1>2 DEF EngineInv, TypeOK, RequestType
<1>7. HistoryOK' /\ Recovered' = Recovered /\ Sound'
    BY <1>1, <1>5, SameFiles DEF EngineInv, HistoryOK
<1>8. \A d \in Client : d # c => (Serving(d)' = Serving(d)) /\ (Storing(d)' = Storing(d))
    BY <1>2 DEF Serving, Storing, OnlyMoves
<1>9. Named'
    <2>. SUFFICES ASSUME NEW d \in Client, Serving(d)'
                  PROVE  request'[d].op.value \in latest'[request'[d].op.key]
        BY DEF Named
    <2>1. CASE d = c
        BY <1>3, <1>5, <2>1
    <2>2. CASE d # c
        <3>1. request'[d] = request[d] /\ Serving(d)
            BY <1>2, <1>8, <2>2 DEF OnlyMoves
        <3>2. request[d].op.value \in latest[request[d].op.key]
            BY <3>1 DEF EngineInv, Named
        <3>3. request[d].op.key \in Key
            BY <3>1, RequestCases DEF EngineInv, Record
        <3>4. CASE request[d].op.key = r.key
            <4>1. ~Untouched(r.key)
                BY <3>1, <3>4 DEF Untouched, Touches, Serving
            <4>. QED  BY <1>5, <3>1, <3>2, <3>4, <4>1
        <3>5. CASE request[d].op.key # r.key
            BY <1>5, <3>1, <3>2, <3>3, <3>5
        <3>. QED  BY <3>4, <3>5
    <2>. QED  BY <2>1, <2>2
<1>10. ASSUME NEW k \in Key, Untouched(k)'
       PROVE  k # r.key /\ Untouched(k)
    <2>1. \A d \in Client : ~(request'[d] # Waiting /\ request'[d].op.key = k)
        BY <1>10 DEF Untouched, Touches
    <2>2. k # r.key
        BY <1>3, <2>1
    <2>3. \A d \in Client : ~(request[d] # Waiting /\ request[d].op.key = k)
        BY <1>1, <1>2, <2>1 DEF OnlyMoves
    <2>. QED  BY <2>2, <2>3 DEF Untouched, Touches
<1>11. InMemory'
    BY <1>1, <1>5, <1>10 DEF EngineInv, InMemory
<1>12. OnDisk'
    <2>. SUFFICES ASSUME NEW k \in Key, k \notin lost, Logged(k)'
                  PROVE  Recovered[k] \in latest'[k]
        BY <1>1, <1>7 DEF OnDisk
    <2>1. CASE Untouched(k)'
        <3>1. k # r.key /\ Logged(k)
            BY <1>10, <2>1 DEF Logged
        <3>. QED  BY <1>5, <3>1 DEF EngineInv, OnDisk
    <2>2. ASSUME NEW d \in Client, Storing(d)', request'[d].op.key = k
          PROVE  Recovered[k] \in latest'[k]
        <3>1. d # c
            BY <1>3, <2>2 DEF Storing
        <3>2. Storing(d) /\ request[d].op.key = k
            BY <1>2, <1>8, <2>2, <3>1 DEF OnlyMoves
        <3>3. Recovered[k] \in latest[k]
            BY <3>2 DEF EngineInv, OnDisk, Logged
        <3>4. ~Untouched(k)
            BY <3>2, RequestCases DEF EngineInv, Storing, Untouched, Touches
        <3>. QED  BY <1>5, <3>3, <3>4
    <2>. QED  BY <2>1, <2>2 DEF Logged
<1>13. Quiet' /\ Copied'
    BY <1>1 DEF Quiet, Copied
<1>. QED
    BY <1>6, <1>7, <1>9, <1>11, <1>12, <1>13 DEF StepOK, MapStep, EngineInv

(* What an append leaves of the map and the log, whole or behind a line    *)
(* that lacks its newline.                                                 *)
AppendOutcome(r) ==
    /\ wal' \in WAL /\ Len(wal'.lines) <= MaxLines /\ Sound'
    /\ lost \subseteq lost' /\ lost' \subseteq Key
    /\ \A k \in Key : k \notin lost' =>
           IF k = r.key THEN Recovered'[k] = r.value
                        ELSE Recovered'[k] = Recovered[k]
    /\ lost' = {} => Recovered' = Apply(Recovered, r)

LEMMA SwallowedType ==
    ASSUME EngineInv
    PROVE  Swallowed(wal) \subseteq Key
<1>1. wal.lines \in Seq(Record \cup {Broken}) /\ (wal.open => wal.lines # <<>>)
    BY DEF EngineInv, TypeOK, Sound
<1>2. wal.open => wal.lines[Len(wal.lines)] \in Record \cup {Broken}
    BY <1>1
<1>. QED  BY <1>2 DEF Swallowed, Record

LEMMA LogFiles ==
    ASSUME EngineInv, NEW c \in Client, LogRequest(c), request[c].op \in Record
    PROVE  AppendOutcome(request[c].op)
<1>. DEFINE r == request[c].op
<1>1. /\ Len(wal.lines) < MaxLines /\ wal' = Appended(wal, r) /\ saved' = saved
      /\ lost' = lost \cup IF wal.open THEN {r.key} \cup Swallowed(wal) ELSE {}
    BY DEF LogRequest, Log
<1>2. r \in Record /\ r # Broken /\ r.key \in Key /\ r.value \in Value \cup {Absent}
    BY EngineAssumption DEF Record
<1>. HIDE DEF r
<1>3. wal \in WAL /\ Recovered \in Map /\ lost \subseteq Key
    BY RecoveredType DEF EngineInv, HistoryOK
<1>4. CASE ~wal.open
    <2>1. PICK w2 : w2 = [lines |-> Append(wal.lines, r), open |-> FALSE]
        OBVIOUS
    <2>2. wal' = w2
        BY <1>1, <1>4, <2>1 DEF Appended
    <2>3. w2.lines = Append(wal.lines, r) /\ w2.open = FALSE /\ w2 \in WAL
        BY <1>2, <1>3, <2>1 DEF WAL
    <2>4. /\ Len(wal'.lines) <= MaxLines
          /\ SoundLog(wal) => SoundLog(wal')
          /\ Recovered' = Apply(Recovered, r)
        BY <1>1, <1>2, <1>4, <2>2, <2>3, AppendedWAL
    <2>5. lost' = lost
        BY <1>1, <1>4
    <2>6. Sound'
        BY <2>2, <2>3, <2>4, <2>5 DEF EngineInv, Sound
    <2>7. \A k \in Key : IF k = r.key THEN Recovered'[k] = r.value
                                      ELSE Recovered'[k] = Recovered[k]
        BY <1>2, <1>3, <2>4 DEF Apply, Map
    <2>. QED  BY <1>3, <2>2, <2>3, <2>4, <2>5, <2>6, <2>7 DEF AppendOutcome, r
<1>5. CASE wal.open
    <2>1. wal.lines # <<>> /\ wal.lines \in Seq(Record \cup {Broken})
        BY <1>3, <1>5 DEF EngineInv, Sound, WAL
    <2>2. PICK w2 : w2 = [lines |-> Append(Front(wal.lines), Broken), open |-> FALSE]
        OBVIOUS
    <2>3. wal' = w2
        BY <1>1, <1>5, <2>2 DEF Appended
    <2>4. w2.lines = Append(Front(wal.lines), Broken) /\ w2.open = FALSE
        BY <2>2
    <2>5. /\ w2.lines \in Seq(Record \cup {Broken})
          /\ Len(w2.lines) = Len(wal.lines) /\ w2.lines[Len(wal.lines)] = Broken
          /\ \A n \in 1..(Len(wal.lines) - 1) : w2.lines[n] = wal.lines[n]
        <3>1. PICK front : front = Front(wal.lines)
            OBVIOUS
        <3>2. /\ front \in Seq(Record \cup {Broken})
              /\ Len(front) = Len(wal.lines) - 1
              /\ \A n \in 1..(Len(wal.lines) - 1) : front[n] = wal.lines[n]
            BY <2>1, <3>1 DEF Front
        <3>3. Len(wal.lines) \in Nat /\ Len(wal.lines) >= 1
            BY <2>1
        <3>. QED  BY <2>4, <3>1, <3>2, <3>3
    <2>6. w2 \in WAL
        BY <2>2, <2>4, <2>5 DEF WAL
    <2>7. /\ Len(wal'.lines) <= MaxLines
          /\ \A k \in Key \ Swallowed(wal) : Recovered'[k] = Recovered[k]
        BY <1>1, <1>5, <2>3, <2>5, <2>6, DestroyedWAL
    <2>8. lost' = lost \cup {r.key} \cup Swallowed(wal)
        BY <1>1, <1>5
    <2>9. Sound'
        BY <2>3, <2>4, <2>8 DEF Sound
    <2>10. lost \subseteq lost' /\ lost' \subseteq Key /\ lost' # {}
        BY <1>2, <1>3, <2>8, SwallowedType
    <2>11. \A k \in Key : k \notin lost' => k # r.key /\ Recovered'[k] = Recovered[k]
        BY <2>7, <2>8
    <2>. QED  BY <2>3, <2>6, <2>7, <2>9, <2>10, <2>11 DEF AppendOutcome, r
<1>. QED  BY <1>4, <1>5

LEMMA LogStep ==
    ASSUME EngineInv, NEW c \in Client, LogRequest(c)
    PROVE  StepOK
<1>. DEFINE r == request[c].op
<1>1. /\ request[c].at = "logging"
      /\ request' = [request EXCEPT ![c].at = "storing"]
      /\ up' = up /\ store' = store /\ saved' = saved /\ snapshot' = snapshot
      /\ latest' = latest
    BY DEF LogRequest, Log
<1>2. /\ request[c] # Waiting /\ r \in Record /\ request[c] \in RequestType
      /\ up /\ snapshot = Waiting
    BY <1>1, RequestCases DEF EngineInv, Quiet, Quiescent, Copied, Serving
<1>3. /\ request'[c] = [at |-> "storing", op |-> r]
      /\ OnlyMoves(c)
    <2>1. request \in [Client -> RequestType]
        BY DEF EngineInv, TypeOK, RequestType
    <2>2. request[c] \in [at : {"logging", "storing"}, op : Record]
        BY <1>2 DEF RequestType
    <2>3. request'[c] = [request[c] EXCEPT !.at = "storing"]
        BY <1>1, <2>1
    <2>. QED  BY <1>1, <2>1, <2>2, <2>3 DEF OnlyMoves
<1>4. /\ request' \in [Client -> RequestType]
      /\ request'[c].at = "storing" /\ request'[c].op = r /\ request'[c] # Waiting
    BY <1>1, <1>2, <1>3 DEF EngineInv, TypeOK, RequestType, Waiting
<1>5. AppendOutcome(r)
    BY <1>2, LogFiles
<1>6. r.value \in latest[r.key]
    BY <1>2 DEF EngineInv, Named, Serving
<1>. HIDE DEF r
<1>7. TypeOK' /\ HistoryOK' /\ Sound'
    BY <1>1, <1>4, <1>5
    DEF EngineInv, TypeOK, HistoryOK, RequestType, WAL, AppendOutcome
<1>8. \A d \in Client : /\ Serving(d)' = Serving(d)
                        /\ Serving(d) => request'[d].op = request[d].op
    BY <1>2, <1>3, <1>4 DEF Serving, OnlyMoves, r
<1>9. Named'
    BY <1>1, <1>8 DEF EngineInv, Named
<1>10. \A k \in Key : Untouched(k)' => Untouched(k) /\ k # r.key
    BY <1>2, <1>8 DEF Untouched, Touches, Serving, r
<1>11. InMemory'
    BY <1>1, <1>10 DEF EngineInv, InMemory
<1>12. OnDisk'
    <2>. SUFFICES ASSUME NEW k \in Key, k \notin lost', Logged(k)'
                  PROVE  Recovered'[k] \in latest[k]
        BY <1>1, <1>2 DEF OnDisk
    <2>1. CASE k = r.key
        BY <1>5, <1>6, <2>1 DEF AppendOutcome
    <2>2. CASE k # r.key
        <3>1. Logged(k)
            <4>1. CASE Untouched(k)'
                BY <1>10, <4>1 DEF Logged
            <4>2. ASSUME NEW d \in Client, Storing(d)', request'[d].op.key = k
                  PROVE  Logged(k)
                <5>1. d # c
                    BY <1>4, <2>2, <4>2
                <5>. QED  BY <1>3, <4>2, <5>1 DEF OnlyMoves, Storing, Logged
            <4>. QED  BY <4>1, <4>2 DEF Logged
        <3>2. k \notin lost /\ Recovered'[k] = Recovered[k]
            BY <1>5, <2>2 DEF AppendOutcome
        <3>. QED  BY <3>1, <3>2 DEF EngineInv, OnDisk
    <2>. QED  BY <2>1, <2>2
<1>13. Quiet' /\ Copied'
    BY <1>1, <1>2 DEF Quiet, Copied
<1>14. MapStep
    BY <1>2, <1>5 DEF MapStep, Intact, AppendOutcome, r
<1>. QED
    BY <1>7, <1>9, <1>11, <1>12, <1>13, <1>14 DEF StepOK, EngineInv

LEMMA StoreStep ==
    ASSUME EngineInv, NEW c \in Client, StoreRequest(c)
    PROVE  StepOK
<1>. DEFINE r == request[c].op
<1>1. /\ request[c].at = "storing"
      /\ store' = Apply(store, r)
      /\ request' = [request EXCEPT ![c] = Waiting]
      /\ up' = up /\ wal' = wal /\ saved' = saved /\ snapshot' = snapshot
      /\ lost' = lost /\ latest' = latest
    BY DEF StoreRequest, Store
<1>2. request[c] # Waiting /\ r \in Record /\ up /\ snapshot = Waiting
    BY <1>1, RequestCases DEF EngineInv, Quiet, Quiescent, Copied, Serving
<1>3. request'[c] = Waiting /\ OnlyMoves(c)
    BY <1>1 DEF EngineInv, TypeOK, OnlyMoves
<1>4. r.key \in Key /\ r.value \in Value \cup {Absent} /\ store \in Map
    BY <1>2, RecoveredType DEF EngineInv, Record
<1>5. Recovered' = Recovered /\ Sound' /\ HistoryOK'
    BY <1>1, SameFiles DEF EngineInv, HistoryOK
<1>6. r.value \in latest[r.key]
    BY <1>2 DEF EngineInv, Named, Serving
<1>7. Logged(r.key)
    BY <1>1 DEF Logged, Storing
<1>8. \A k \in Key : Untouched(k)' => k = r.key \/ Untouched(k)
    BY <1>3 DEF Untouched, Touches, OnlyMoves, r
<1>9. \A k \in Key : Logged(k)' => Logged(k)
    <2>. SUFFICES ASSUME NEW k \in Key, Logged(k)'  PROVE  Logged(k)
        OBVIOUS
    <2>1. CASE Untouched(k)'
        BY <1>7, <1>8, <2>1 DEF Logged
    <2>2. ASSUME NEW d \in Client, Storing(d)', request'[d].op.key = k
          PROVE  Logged(k)
        <3>1. d # c
            BY <1>3, <2>2 DEF Storing, Waiting
        <3>. QED  BY <1>3, <2>2, <3>1 DEF OnlyMoves, Storing, Logged
    <2>. QED  BY <2>1, <2>2 DEF Logged
<1>. HIDE DEF r
<1>10. /\ store' \in Map /\ store'[r.key] = r.value
       /\ \A k \in Key : k # r.key => store'[k] = store[k]
    BY <1>1, <1>4 DEF Apply, Map
<1>11. TypeOK'
    BY <1>1, <1>10 DEF EngineInv, TypeOK, Map
<1>12. Named'
    BY <1>1, <1>3 DEF EngineInv, Named, Serving, OnlyMoves
<1>13. InMemory'
    BY <1>1, <1>2, <1>6, <1>8, <1>10 DEF EngineInv, InMemory
<1>14. OnDisk'
    BY <1>1, <1>5, <1>9 DEF EngineInv, OnDisk
<1>15. Quiet' /\ Copied'
    BY <1>1, <1>2 DEF Quiet, Copied
<1>. QED
    BY <1>5, <1>11, <1>12, <1>13, <1>14, <1>15 DEF StepOK, MapStep, EngineInv

(* A process that is down has no map, no request and no snapshot; each key *)
(* is settled.                                                             *)
LEMMA DiesStep ==
    ASSUME EngineInv, Dies, Settle, saved' = saved, Sound',
           wal' \in WAL, Len(wal'.lines) <= MaxLines, lost' \subseteq Key,
           \A k \in Key : \/ k \in lost' \/ Recovered'[k] = Recovered[k]
                          \/ Recovered'[k] \in latest[k]
    PROVE  EngineInv'
<1>1. /\ up' = FALSE /\ store' = EmptyMap /\ snapshot' = Waiting
      /\ request' = [c \in Client |-> Waiting]
    BY DEF Dies
<1>2. \A c \in Client : request'[c] = Waiting
    BY <1>1
<1>3. TypeOK'
    BY <1>1 DEF EngineInv, TypeOK, EmptyMap, WAL
<1>4. \A k \in Key : Recovered'[k] \in Value \cup {Absent}
    <2>1. saved' \in Map
        BY RecoveredType DEF EngineInv
    <2>2. Recovered' = Recover(saved', wal')
        BY DEF Recovered
    <2>3. Recovered' \in Map
        BY <2>1, <2>2, RecoverType
    <2>. QED  BY <2>3 DEF Map
<1>5. /\ latest' = [k \in Key |-> latest'[k]]
      /\ \A k \in Key : latest'[k] = {Recovered'[k]}
    BY DEF Settle
<1>6. HistoryOK'
    BY <1>4, <1>5 DEF HistoryOK
<1>7. Named' /\ Quiet' /\ Copied'
    BY <1>1, <1>2 DEF Named, Serving, Quiet, Quiescent, Copied
<1>8. InMemory' /\ OnDisk'
    BY <1>1, <1>5 DEF InMemory, OnDisk
<1>. QED  BY <1>3, <1>6, <1>7, <1>8 DEF EngineInv

LEMMA CrashStep ==
    ASSUME EngineInv, Crash, lost' = lost, Settle
    PROVE  StepOK
<1>1. Dies /\ wal' = wal /\ saved' = saved
    BY DEF Crash
<1>2. wal' \in WAL /\ Len(wal'.lines) <= MaxLines /\ lost' \subseteq Key
    BY <1>1 DEF EngineInv, TypeOK, WAL, HistoryOK
<1>3. Recovered' = Recovered /\ Sound'
    BY <1>1, SameFiles DEF EngineInv
<1>. QED  BY <1>1, <1>2, <1>3, DiesStep DEF StepOK, MapStep

LEMMA CrashCuttingStep ==
    ASSUME EngineInv, NEW c \in Client, CrashCutting(c)
    PROVE  StepOK
<1>. DEFINE r == request[c].op
<1>1. /\ request[c].at = "logging" /\ Len(wal.lines) < MaxLines
      /\ Dies /\ wal' \in Torn(wal, r) /\ saved' = saved /\ Settle
      /\ lost' = lost \cup IF wal' = wal THEN {} ELSE Swallowed(wal)
    BY DEF CrashCutting, CrashInAppend
<1>2. /\ request[c] # Waiting /\ r \in Record
      /\ r.key \in Key /\ r.value \in latest[r.key]
    BY <1>1, RequestCases DEF EngineInv, Named, Serving, Record
<1>3. wal \in WAL /\ Recovered \in Map /\ lost \subseteq Key
    BY RecoveredType DEF EngineInv, HistoryOK
<1>. HIDE DEF r
<1>4. CASE wal' = wal
    <2>1. Crash /\ lost' = lost
        BY <1>1, <1>4 DEF Crash
    <2>. QED  BY <1>1, <2>1, CrashStep
<1>5. ASSUME NEW line \in {r, Broken}, ~wal.open,
             wal' = [lines |-> Append(wal.lines, line), open |-> TRUE]
      PROVE  StepOK
    <2>1. line \in Record \cup {Broken}
        BY <1>2
    <2>2. PICK w2 : w2 = [lines |-> Append(wal.lines, line), open |-> TRUE]
        OBVIOUS
    <2>3. /\ w2.lines = Append(wal.lines, line) /\ w2.open = TRUE
          /\ w2 \in WAL /\ wal' = w2
        BY <1>3, <1>5, <2>1, <2>2 DEF WAL
    <2>4. /\ wal' \in WAL /\ Len(wal'.lines) <= MaxLines /\ wal'.lines # <<>>
          /\ SoundLog(wal) => SoundLog(wal')
          /\ line = Broken => Recovered' = Recovered
          /\ line \in Record => Recovered' = Apply(Recovered, line)
        BY <1>1, <1>5, <2>1, <2>3, AppendedWAL
    <2>5. lost' = lost
        BY <1>1, <1>5 DEF Swallowed
    <2>6. Sound'
        BY <2>4, <2>5 DEF EngineInv, Sound
    <2>7. \A k \in Key : Recovered'[k] = Recovered[k] \/ Recovered'[k] \in latest[k]
        <3>1. CASE line = Broken
            BY <2>4, <3>1
        <3>2. CASE line = r
            BY <1>2, <1>3, <2>4, <3>2 DEF Apply, Map
        <3>. QED  BY <3>1, <3>2
    <2>8. EngineInv'
        BY <1>1, <1>3, <2>4, <2>5, <2>6, <2>7, DiesStep
    <2>. QED  BY <1>2, <2>4, <2>8 DEF StepOK, MapStep
<1>6. ASSUME wal.open, wal' = [wal EXCEPT !.lines[Len(wal.lines)] = Broken],
             wal' # wal
      PROVE  StepOK
    <2>1. PICK w2 : w2 = [wal EXCEPT !.lines[Len(wal.lines)] = Broken]
        OBVIOUS
    <2>2. wal' = w2
        BY <1>6, <2>1
    <2>3. wal.lines # <<>> /\ wal.lines \in Seq(Record \cup {Broken})
        BY <1>3, <1>6 DEF EngineInv, Sound, WAL
    <2>4. /\ w2.lines = [wal.lines EXCEPT ![Len(wal.lines)] = Broken]
          /\ w2.open /\ w2 = [lines |-> w2.lines, open |-> w2.open]
        BY <1>3, <1>6, <2>1 DEF WAL
    <2>5. /\ w2.lines \in Seq(Record \cup {Broken})
          /\ Len(w2.lines) = Len(wal.lines) /\ w2.lines[Len(wal.lines)] = Broken
          /\ \A n \in 1..(Len(wal.lines) - 1) : w2.lines[n] = wal.lines[n]
        BY <2>3, <2>4
    <2>6. w2 \in WAL
        BY <1>3, <1>6, <2>4, <2>5 DEF WAL
    <2>7. /\ Len(wal'.lines) <= MaxLines /\ wal'.lines # <<>>
          /\ SoundLog(wal) => SoundLog(wal')
          /\ \A k \in Key \ Swallowed(wal) : Recovered'[k] = Recovered[k]
        BY <1>1, <1>6, <2>2, <2>4, <2>5, <2>6, DestroyedWAL
    <2>8. lost' = lost \cup Swallowed(wal)
        BY <1>1, <1>6
    <2>9. lost' \subseteq Key /\ (lost' = {} => lost = {} /\ Swallowed(wal) = {})
        BY <1>3, <2>8, SwallowedType
    <2>10. Sound'
        BY <2>7, <2>9 DEF EngineInv, Sound
    <2>11. \A k \in Key : k \in lost' \/ Recovered'[k] = Recovered[k]
        BY <2>7, <2>8
    <2>12. EngineInv'
        BY <1>1, <2>2, <2>6, <2>7, <2>9, <2>10, <2>11, DiesStep
    <2>13. MapStep
        <3>. SUFFICES ASSUME Intact'  PROVE  Recovered' = Recovered
            BY DEF MapStep
        <3>1. \A k \in Key : Recovered'[k] = Recovered[k]
            BY <2>9, <2>11 DEF Intact
        <3>2. /\ Recovered = [k \in Key |-> Recovered[k]]
              /\ Recovered' = [k \in Key |-> Recovered'[k]]
            BY DEF Recovered, Recover
        <3>. QED  BY <3>1, <3>2
    <2>. QED  BY <2>12, <2>13 DEF StepOK
<1>7. \/ wal' = wal
      \/ wal.open /\ wal' = [wal EXCEPT !.lines[Len(wal.lines)] = Broken]
      \/ /\ ~wal.open
         /\ \E line \in {r, Broken} :
                wal' = [lines |-> Append(wal.lines, line), open |-> TRUE]
    BY <1>1 DEF Torn
<1>. QED  BY <1>4, <1>5, <1>6, <1>7

LEMMA RestartStep ==
    ASSUME EngineInv, Restart, lost' = lost, latest' = latest
    PROVE  StepOK
<1>1. /\ ~up /\ up' = TRUE /\ store' = Recovered
      /\ wal' = wal /\ saved' = saved /\ request' = request /\ snapshot' = snapshot
    BY DEF Restart
<1>2. snapshot = Waiting /\ \A c \in Client : request[c] = Waiting
    BY <1>1 DEF EngineInv, Quiet, Quiescent
<1>3. Recovered' = Recovered /\ Sound' /\ HistoryOK'
    BY <1>1, SameFiles DEF EngineInv, HistoryOK
<1>4. store' \in Map
    BY <1>1, RecoveredType DEF EngineInv
<1>5. TypeOK'
    BY <1>1, <1>4 DEF EngineInv, TypeOK, Map
<1>6. \A k \in Key : Recovered[k] \in latest[k]
    BY <1>1, <1>2 DEF EngineInv, OnDisk, Logged, Untouched, Touches
<1>7. InMemory' /\ OnDisk'
    BY <1>1, <1>3, <1>6 DEF InMemory, OnDisk
<1>8. Named' /\ Quiet' /\ Copied'
    BY <1>1, <1>2 DEF Named, Serving, Quiet, Copied
<1>. QED  BY <1>3, <1>5, <1>7, <1>8 DEF StepOK, MapStep, EngineInv

LEMMA CaptureStep ==
    ASSUME EngineInv, Quiescent, Capture, lost' = lost, latest' = latest
    PROVE  StepOK
<1>1. /\ up /\ up' = up /\ snapshot' = [at |-> "saving", data |-> store]
      /\ store' = store /\ wal' = wal /\ saved' = saved /\ request' = request
    BY DEF Capture
<1>2. Recovered' = Recovered /\ Sound' /\ HistoryOK'
    BY <1>1, SameFiles DEF EngineInv, HistoryOK
<1>3. TypeOK'
    <2>1. store \in [Key -> Value \cup {Absent}]
        BY DEF EngineInv, TypeOK
    <2>. QED  BY <1>1, <2>1 DEF EngineInv, TypeOK
<1>4. snapshot'.at = "saving" /\ snapshot'.data = store
    BY <1>1
<1>5. Named' /\ InMemory' /\ Quiet'
    BY <1>1 DEF EngineInv, Named, Serving, InMemory, Untouched, Touches, Quiet
<1>6. OnDisk'
    BY <1>1, <1>2 DEF EngineInv, OnDisk, Logged, Storing, Untouched, Touches
<1>7. Copied'
    BY <1>1, <1>4 DEF Copied, Quiescent, Serving
<1>. QED  BY <1>2, <1>3, <1>5, <1>6, <1>7 DEF StepOK, MapStep, EngineInv

(* While a snapshot is taken nobody works on a key, and if the promise is  *)
(* in force the map is what a restart would recover.                       *)
LEMMA SnapshotCases ==
    ASSUME EngineInv, snapshot # Waiting
    PROVE  /\ snapshot \in [at : {"saving", "truncating"}, data : Map]
           /\ up /\ snapshot.data = store
           /\ \A c \in Client : request[c] = Waiting
           /\ \A k \in Key : /\ store[k] \in latest[k]
                             /\ k \notin lost => Recovered[k] \in latest[k]
           /\ Intact => store = Recovered
<1>1. snapshot \in [at : {"saving", "truncating"}, data : Map]
    BY DEF EngineInv, TypeOK, Map
<1>2. up /\ snapshot.data = store
    BY DEF EngineInv, Quiet, Quiescent, Copied
<1>3. \A c \in Client : request[c] = Waiting
    BY DEF EngineInv, Copied, Serving
<1>4. \A k \in Key : Untouched(k)
    BY <1>3 DEF Untouched, Touches
<1>5. \A k \in Key : /\ store[k] \in latest[k]
                     /\ k \notin lost => Recovered[k] \in latest[k]
    BY <1>2, <1>4 DEF EngineInv, InMemory, OnDisk, Logged
<1>6. ASSUME Intact  PROVE  store = Recovered
    <2>1. store \in Map /\ Recovered \in Map
        BY RecoveredType DEF EngineInv
    <2>2. ASSUME NEW k \in Key  PROVE  store[k] = Recovered[k]
        BY <1>5, <1>6 DEF Intact
    <2>. QED  BY <2>1, <2>2 DEF Map
<1>. QED  BY <1>1, <1>2, <1>3, <1>5, <1>6

LEMMA SaveStep ==
    ASSUME EngineInv, Save, lost' = lost, latest' = latest
    PROVE  StepOK
<1>1. /\ snapshot.at = "saving" /\ saved' = snapshot.data
      /\ snapshot' = [snapshot EXCEPT !.at = "truncating"]
      /\ up' = up /\ store' = store /\ wal' = wal /\ request' = request
    BY DEF Save
<1>2. snapshot # Waiting
    BY <1>1 DEF Waiting
<1>3. /\ snapshot \in [at : {"saving", "truncating"}, data : Map]
      /\ up /\ snapshot.data = store
      /\ \A c \in Client : request[c] = Waiting
      /\ \A k \in Key : /\ store[k] \in latest[k]
                        /\ k \notin lost => Recovered[k] \in latest[k]
      /\ Intact => store = Recovered
    BY <1>2, SnapshotCases
<1>4. /\ saved \in Map /\ wal \in WAL /\ store \in Map
      /\ Recovered = Recover(saved, wal)
    BY RecoveredType DEF EngineInv
<1>5. Recovered' = Recover(store, wal)
    BY <1>1, <1>3 DEF Recovered
<1>6. MapStep
    <2>1. ASSUME Intact  PROVE  Recovered' = Recovered
        <3>1. Recovered' = Recover(Recover(saved, wal), wal)
            BY <1>3, <1>4, <1>5, <2>1
        <3>. QED  BY <1>4, <3>1, RecoverAgain
    <2>. QED  BY <2>1 DEF MapStep
<1>7. ASSUME NEW k \in Key, k \notin lost  PROVE  Recovered'[k] \in latest[k]
    <2>1. CASE Unwritten(wal, k)
        BY <1>3, <1>5, <2>1, RecoverUnwritten
    <2>2. ASSUME NEW n \in Replayed(wal), LastWrite(wal, k, n)
          PROVE  Recovered'[k] \in latest[k]
        <3>1. Recovered'[k] = wal.lines[n].value
            BY <1>4, <1>5, <2>2, RecoverWritten
        <3>2. Recovered[k] = wal.lines[n].value
            BY <1>4, <2>2, RecoverWritten
        <3>. QED  BY <1>3, <1>7, <3>1, <3>2
    <2>. QED  BY <1>4, <2>1, <2>2, WrittenOrNot
<1>8. /\ snapshot' \in [at : {"saving", "truncating"}, data : Map]
      /\ snapshot'.at = "truncating" /\ snapshot'.data = snapshot.data
    BY <1>1, <1>3
<1>9. TypeOK' /\ HistoryOK'
    BY <1>1, <1>3, <1>4, <1>8 DEF EngineInv, TypeOK, HistoryOK, Map
<1>10. Sound' /\ Named' /\ Quiet'
    BY <1>1, <1>3 DEF EngineInv, Sound, Named, Serving, Quiet
<1>11. InMemory' /\ OnDisk'
    BY <1>1, <1>3, <1>7 DEF InMemory, OnDisk
<1>12. Copied'
    BY <1>1, <1>3, <1>8 DEF Copied, Serving
<1>. QED  BY <1>6, <1>9, <1>10, <1>11, <1>12 DEF StepOK, EngineInv

LEMMA TruncateStep ==
    ASSUME EngineInv, TruncateLog
    PROVE  StepOK
<1>1. /\ snapshot.at = "truncating" /\ wal' = EmptyWAL /\ snapshot' = Waiting
      /\ up' = up /\ store' = store /\ saved' = saved /\ request' = request
      /\ lost' = {} /\ latest' = latest
    BY DEF TruncateLog, Truncate, Kept
<1>2. snapshot # Waiting
    BY <1>1 DEF Waiting
<1>3. /\ up /\ \A c \in Client : request[c] = Waiting
      /\ \A k \in Key : store[k] \in latest[k]
      /\ Intact => store = Recovered
    BY <1>2, SnapshotCases
<1>4. saved = store /\ saved \in Map
    BY <1>1, <1>2, RecoveredType DEF EngineInv, Copied
<1>5. Recovered' = store
    <2>1. Recovered' = Recover(saved, EmptyWAL)
        BY <1>1 DEF Recovered
    <2>. QED  BY <1>4, <2>1, RecoverEmpty
<1>6. TypeOK' /\ HistoryOK'
    <2>1. wal' \in WAL /\ Len(wal'.lines) <= MaxLines
        BY <1>1, EngineAssumption DEF EmptyWAL, WAL
    <2>. QED  BY <1>1, <2>1 DEF EngineInv, TypeOK, HistoryOK, WAL
<1>7. Sound'
    BY <1>1 DEF Sound, SoundLog, CanReplay, EmptyWAL
<1>8. Named' /\ Quiet' /\ Copied'
    BY <1>1, <1>3 DEF Named, Serving, Quiet, Copied
<1>9. InMemory' /\ OnDisk'
    BY <1>1, <1>3, <1>5 DEF InMemory, OnDisk
<1>10. MapStep
    BY <1>3, <1>5 DEF MapStep
<1>. QED  BY <1>6, <1>7, <1>8, <1>9, <1>10 DEF StepOK, EngineInv

LEMMA EngineInvStep ==
    ASSUME EngineInv, EngineNext
    PROVE  StepOK
<1>1. ASSUME NEW c \in Client, NEW r \in Record, BeginRequest(c, r)
      PROVE  StepOK
    BY <1>1, BeginStep
<1>2. ASSUME NEW c \in Client, LogRequest(c)  PROVE  StepOK
    BY <1>2, LogStep
<1>3. ASSUME NEW c \in Client, StoreRequest(c)  PROVE  StepOK
    BY <1>3, StoreStep
<1>4. ASSUME NEW c \in Client, CrashCutting(c)  PROVE  StepOK
    BY <1>4, CrashCuttingStep
<1>5. CASE Quiescent /\ Capture /\ UNCHANGED <<lost, latest>>
    BY <1>5, CaptureStep
<1>6. CASE Save /\ UNCHANGED <<lost, latest>>
    BY <1>6, SaveStep
<1>7. CASE Restart /\ UNCHANGED <<lost, latest>>
    BY <1>7, RestartStep
<1>8. CASE TruncateLog
    BY <1>8, TruncateStep
<1>9. CASE CrashAlone
    BY <1>9, CrashStep DEF CrashAlone
<1>. QED
    BY <1>1, <1>2, <1>3, <1>4, <1>5, <1>6, <1>7, <1>8, <1>9 DEF EngineNext

LEMMA EngineInvStutter ==
    ASSUME EngineInv, UNCHANGED allVars
    PROVE  StepOK
<1>1. /\ up' = up /\ store' = store /\ wal' = wal /\ saved' = saved
      /\ request' = request /\ snapshot' = snapshot
      /\ lost' = lost /\ latest' = latest
    BY DEF allVars, vars
<1>2. Recovered' = Recovered
    BY <1>1, SameFiles
<1>3. EngineInv'
    BY <1>1, <1>2
    DEF EngineInv, TypeOK, HistoryOK, Sound, Named, Serving, InMemory, OnDisk,
        Logged, Storing, Untouched, Touches, Quiet, Quiescent, Copied
<1>. QED  BY <1>2, <1>3 DEF StepOK, MapStep

LEMMA EngineInvHolds == EngineSpec => []EngineInv
<1>1. EngineInit => EngineInv
    BY EngineInvInit
<1>2. EngineInv /\ [EngineNext]_allVars => EngineInv'
    BY EngineInvStep, EngineInvStutter DEF StepOK
<1>. QED  BY <1>1, <1>2, PTL DEF EngineSpec

-----------------------------------------------------------------------------
(* The types of the map, the two files, the threads and create_snapshot    *)
(* are kept by every step of engine.py, however requests overlap.          *)
THEOREM EngineTypesHold == EngineSpec => []TypeOK
<1>1. EngineInv => TypeOK
    BY DEF EngineInv
<1>. QED  BY <1>1, EngineInvHolds, PTL

(* What put or delete has acknowledged on a key nobody works on is what    *)
(* get returns and what __init__ recovers, or, when requests for the key   *)
(* overlapped, the operation of one of them; excepted are the keys of      *)
(* records that an append behind a cut record destroyed, and a log that    *)
(* such appends have made unreadable.                                      *)
THEOREM AcknowledgedSurvivesHolds == EngineSpec => []AcknowledgedSurvives
<1>1. EngineInv => AcknowledgedSurvives
    BY DEF EngineInv, InMemory, OnDisk, Logged, AcknowledgedSurvives
<1>. QED  BY <1>1, EngineInvHolds, PTL

(* However often appends were cut, replay raises WALCorruptionError only   *)
(* in a log where a record was appended behind a cut one.                  *)
THEOREM RestartReplaysHolds == EngineSpec => []RestartReplays
<1>1. EngineInv => RestartReplays
    BY DEF EngineInv, Sound, SoundLog, RestartReplays
<1>. QED  BY <1>1, EngineInvHolds, PTL

(* As long as no record was destroyed by an append behind a cut one and no *)
(* two requests for a key overlapped with different values, the engine is  *)
(* a durable map: _append is the atomic write, and no crash or snapshot    *)
(* changes what a restart would recover.                                   *)
THEOREM EngineImplementsDurableMap == EngineSpec => ImplementsDurableMap
<1>1. EngineInit => Durable!Init
    <2>. SUFFICES ASSUME EngineInit  PROVE Durable!Init
        OBVIOUS
    <2>1. EmptyMap \in Map
        BY DEF EmptyMap, Map
    <2>2. Recovered = EmptyMap
        BY <2>1, RecoverEmpty DEF EngineInit, Init, Recovered
    <2>3. Intact
        BY DEF EngineInit, Intact
    <2>. QED  BY <2>2, <2>3 DEF Durable!Init, EmptyMap, Intact
<1>2. EngineInv /\ [EngineNext]_allVars => [Durable!Next]_<<Recovered, Intact>>
    <2>. SUFFICES ASSUME EngineInv, [EngineNext]_allVars
                  PROVE  [Durable!Next]_<<Recovered, Intact>>
        OBVIOUS
    <2>1. CASE ~Intact \/ ~Intact'
        BY <2>1 DEF Durable!Next
    <2>2. CASE Intact /\ Intact' /\ Recovered' = Recovered
        BY <2>2, Zenon DEF Intact
    <2>3. ASSUME NEW r \in Record, Recovered' = Apply(Recovered, r)
          PROVE  Durable!Next
        <3>1. r.key \in Key /\ r.value \in Value \cup {Absent}
            BY DEF Record
        <3>. QED  BY <2>3, <3>1 DEF Apply, Durable!Next, Durable!Write
    <2>4. MapStep
        BY EngineInvStep, EngineInvStutter DEF StepOK
    <2>. QED  BY <2>1, <2>2, <2>3, <2>4 DEF MapStep
<1>. QED
    BY <1>1, <1>2, EngineInvHolds, PTL
    DEF EngineSpec, ImplementsDurableMap, Durable!Spec
=============================================================================
