--------------------------- MODULE MCStorageEngine ---------------------------
(***************************************************************************)
(* The engine as api/app.py runs it: requests of any threads overlap, on   *)
(* one key too, and appends are cut and appended behind.  The code         *)
(* prevents neither; two history variables say what each of them spoils.   *)
(* Only create_snapshot is kept apart from the requests: nothing in src/   *)
(* calls it while requests are served.                                     *)
(***************************************************************************)
EXTENDS StorageEngine

VARIABLES
    lost,           \* keys of records that were destroyed in the log, since
                    \* it was truncated, by an append behind a cut record
    latest          \* per key, the values of the last request or, if several
                    \* overlapped, of each of them

allVars == <<vars, lost, latest>>

Untouched(k) == \A c \in Client : ~Touches(c, k)

Quiescent == snapshot = Waiting /\ \A c \in Client : request[c] = Waiting

(* The record that lacks only its newline is destroyed by what is written  *)
(* behind it.                                                              *)
Swallowed(w) ==
    IF w.open /\ w.lines[Len(w.lines)] # Broken
    THEN {w.lines[Len(w.lines)].key} ELSE {}

BeginRequest(c, r) ==
    /\ snapshot = Waiting
    /\ Begin(c, r)
    /\ latest' = [latest EXCEPT ![r.key] =
                     {r.value} \cup IF Untouched(r.key) THEN {} ELSE @]
    /\ UNCHANGED lost

LogRequest(c) ==
    /\ Log(c)
    /\ lost' = lost \cup IF wal.open THEN {request[c].op.key} \cup Swallowed(wal)
                                     ELSE {}
    /\ UNCHANGED latest

StoreRequest(c) == Store(c) /\ UNCHANGED <<lost, latest>>

(* The key then holds what it held, or what a request was writing; any     *)
(* other value counts as none.                                             *)
Settle ==
    latest' = [k \in Key |->
                  IF k \in lost' THEN {Recovered'[k]}
                  ELSE {Recovered'[k]} \cap ({Recovered[k]} \cup latest[k])]

CrashAlone == Crash /\ UNCHANGED lost /\ Settle

CrashCutting(c) ==
    /\ CrashInAppend(c)
    /\ lost' = lost \cup IF wal' = wal THEN {} ELSE Swallowed(wal)
    /\ Settle

TruncateLog == Truncate /\ lost' = {} /\ UNCHANGED latest

EngineInit ==
    /\ Init
    /\ lost = {}
    /\ latest = [k \in Key |-> {Absent}]

EngineNext ==
    \/ \E c \in Client :
          \/ \E r \in Record : BeginRequest(c, r)
          \/ LogRequest(c) \/ StoreRequest(c) \/ CrashCutting(c)
    \/ Quiescent /\ Capture /\ UNCHANGED <<lost, latest>>
    \/ (Save \/ Restart) /\ UNCHANGED <<lost, latest>>
    \/ TruncateLog \/ CrashAlone

EngineSpec == EngineInit /\ [][EngineNext]_allVars

-----------------------------------------------------------------------------
(* A key that nobody works on has the value of its last request, in memory *)
(* and after a restart, or when requests for it overlapped the value of    *)
(* one of them: test_storage_engine.py, "test_put_survives_restart".       *)
(* Excepted is what an append behind a cut record destroys (wal.py:33): it *)
(* is lost itself, and so is the record that was cut before its newline.   *)
AcknowledgedSurvives ==
    \A k \in Key :
        Untouched(k) =>
            /\ up => store[k] \in latest[k]
            /\ CanReplay(wal) /\ k \notin lost => Recovered[k] \in latest[k]

(* A log in which nothing was appended behind a cut record can be          *)
(* replayed, however often appends were cut.  The code does append there,  *)
(* and after another append replay raises WALCorruptionError.              *)
RestartReplays == lost = {} => CanReplay(wal)

(* The promise is in force: no record was destroyed, and no two requests   *)
(* for a key overlapped with different values.                             *)
Intact == lost = {} /\ \A k \in Key : \E v \in latest[k] : latest[k] = {v}

Durable == INSTANCE DurableMap WITH map <- Recovered, intact <- Intact

(* While the promise is in force, what a restart would recover is a map    *)
(* that changes by one atomic write at a time and by nothing else: not by  *)
(* a crash, not by a snapshot that is cut between the save and the         *)
(* truncation (create_snapshot, _recover).                                 *)
ImplementsDurableMap == Durable!Spec
=============================================================================
