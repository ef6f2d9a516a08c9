---------------------------- MODULE StorageEngine ----------------------------
(***************************************************************************)
(* The standalone engine behind api/app.py: a map in memory, a write-ahead *)
(* log of operations and a snapshot.  FastAPI runs each request in a       *)
(* thread of its pool and the engine has no lock of its own, so a request  *)
(* is several steps: what delete checks, the append, the change in memory. *)
(* A process that dies while it appends leaves any part of the record.     *)
(***************************************************************************)
EXTENDS Naturals, Sequences, FiniteSetsExt, SequencesExt

CONSTANTS
    Client,         \* threads that serve requests
    Key, Value,
    Absent,         \* no value
    Broken,         \* a line of the log that is not a JSON record
    MaxLines        \* bound: lines of the log

(* An operation, PUT or (Absent) DELETE.                                   *)
Record == [key : Key, value : Value \cup {Absent}]

ASSUME EngineAssumption ==
    MaxLines \in Nat /\ Absent \notin Value /\ Broken \notin Record

VARIABLES
    up,             \* whether the process runs
    store,          \* KVStore
    wal,            \* lines, and whether the last one lacks its newline
    saved,          \* the snapshot file
    request,        \* where each thread is, and the operation it serves
    snapshot        \* where create_snapshot is, and what it captured

vars == <<up, store, wal, saved, request, snapshot>>

EmptyMap == [k \in Key |-> Absent]
EmptyWAL == [lines |-> <<>>, open |-> FALSE]
Waiting == [at |-> "waiting"]

-----------------------------------------------------------------------------
(* The log: _append, replay and truncate.                                  *)

(* Wrong form of Appended: a write that is tried again leaves two records. *)
AppendedTwice(w, r) == [lines |-> w.lines \o <<r, r>>, open |-> FALSE]

(* A line that lacks its newline swallows the record written behind it.    *)
Appended(w, r) ==
    IF w.open THEN [lines |-> Append(Front(w.lines), Broken), open |-> FALSE]
              ELSE [lines |-> Append(w.lines, r), open |-> FALSE]

(* What is left of an append that was cut: nothing, a part of the record,  *)
(* or all of it but the newline.                                           *)
Torn(w, r) ==
    {w} \cup IF w.open THEN {[w EXCEPT !.lines[Len(w.lines)] = Broken]}
                      ELSE {[lines |-> Append(w.lines, line), open |-> TRUE] :
                               line \in {r, Broken}}

(* Wrong form of CanReplay: the last line may not be incomplete either.    *)
CanReplayWhole(w) == \A n \in 1..Len(w.lines) : w.lines[n] # Broken

(* replay raises WALCorruptionError exactly when this is false.            *)
CanReplay(w) == \A n \in 1..(Len(w.lines) - 1) : w.lines[n] # Broken

(* Wrong form of Replayed: the last line is taken for incomplete.          *)
ReplayedButLast(w) == {n \in 1..(Len(w.lines) - 1) : w.lines[n] # Broken}

(* The lines whose operations replay returns.                              *)
Replayed(w) == {n \in 1..Len(w.lines) : w.lines[n] # Broken}

Apply(m, r) == [m EXCEPT ![r.key] = r.value]

(* _recover: the snapshot, then the operations of the log in their order:  *)
(* the last one on a key decides.                                          *)
Recover(m, w) ==
    [k \in Key |->
        LET writes == {n \in Replayed(w) : w.lines[n].key = k}
        IN IF writes = {} THEN m[k] ELSE w.lines[Max(writes)].value]

Recovered == Recover(saved, wal)

-----------------------------------------------------------------------------
(* put and delete.                                                         *)

Begin(c, r) ==
    /\ up
    /\ request[c] = Waiting
    /\ r.value = Absent => store[r.key] # Absent
    /\ request' = [request EXCEPT ![c] = [at |-> "logging", op |-> r]]
    /\ UNCHANGED <<up, store, wal, saved, snapshot>>

Log(c) ==
    /\ request[c].at = "logging"
    /\ Len(wal.lines) < MaxLines
    /\ wal' = Appended(wal, request[c].op)
    /\ request' = [request EXCEPT ![c].at = "storing"]
    /\ UNCHANGED <<up, store, saved, snapshot>>

(* The change in memory, and the answer.                                   *)
Store(c) ==
    /\ request[c].at = "storing"
    /\ store' = Apply(store, request[c].op)
    /\ request' = [request EXCEPT ![c] = Waiting]
    /\ UNCHANGED <<up, wal, saved, snapshot>>

-----------------------------------------------------------------------------
(* create_snapshot: the copy, the atomic save, the truncation.             *)

Capture ==
    /\ up
    /\ snapshot = Waiting
    /\ snapshot' = [at |-> "saving", data |-> store]
    /\ UNCHANGED <<up, store, wal, saved, request>>

Save ==
    /\ snapshot.at = "saving"
    /\ saved' = snapshot.data
    /\ snapshot' = [snapshot EXCEPT !.at = "truncating"]
    /\ UNCHANGED <<up, store, wal, request>>

(* Wrong form of Kept: the log is truncated though the save is not done. *)
KeptNothing == snapshot.at # "waiting"

Kept == snapshot.at = "truncating"

Truncate ==
    /\ Kept
    /\ wal' = EmptyWAL
    /\ snapshot' = Waiting
    /\ UNCHANGED <<up, store, saved, request>>

-----------------------------------------------------------------------------
(* The process dies, and starts again.                                     *)

Dies ==
    /\ up
    /\ up' = FALSE
    /\ store' = EmptyMap
    /\ request' = [c \in Client |-> Waiting]
    /\ snapshot' = Waiting

Crash == Dies /\ UNCHANGED <<wal, saved>>

CrashInAppend(c) ==
    /\ request[c].at = "logging"
    /\ Len(wal.lines) < MaxLines
    /\ Dies
    /\ wal' \in Torn(wal, request[c].op)
    /\ UNCHANGED saved

Restart ==
    /\ ~up
    /\ CanReplay(wal)
    /\ up' = TRUE
    /\ store' = Recovered
    /\ UNCHANGED <<wal, saved, request, snapshot>>

-----------------------------------------------------------------------------
Init ==
    /\ up = TRUE
    /\ store = EmptyMap
    /\ wal = EmptyWAL
    /\ saved = EmptyMap
    /\ request = [c \in Client |-> Waiting]
    /\ snapshot = Waiting

Serve(c) == (\E r \in Record : Begin(c, r)) \/ Log(c) \/ Store(c)

Next ==
    \/ \E c \in Client : Serve(c) \/ CrashInAppend(c)
    \/ Capture \/ Save \/ Truncate
    \/ Crash \/ Restart

Spec == Init /\ [][Next]_vars

-----------------------------------------------------------------------------
(* The shape of the state of the engine, its files and its threads.        *)
TypeOK ==
    /\ up \in BOOLEAN
    /\ store \in [Key -> Value \cup {Absent}]
    /\ wal \in [lines : Seq(Record \cup {Broken}), open : BOOLEAN]
    /\ Len(wal.lines) <= MaxLines
    /\ saved \in [Key -> Value \cup {Absent}]
    /\ request \in [Client ->
          {Waiting} \cup [at : {"logging", "storing"}, op : Record]]
    /\ snapshot \in {Waiting} \cup
          [at : {"saving", "truncating"}, data : [Key -> Value \cup {Absent}]]

Touches(c, k) == request[c] # Waiting /\ request[c].op.key = k
=============================================================================
