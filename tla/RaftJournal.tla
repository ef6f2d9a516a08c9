---------------------------- MODULE RaftJournal ----------------------------
(***************************************************************************)
(* raft-log.json, line by line: the log journal of RaftPersistence         *)
(* (raft/persistence.py) and the ways RaftNode writes it.                  *)
(*                                                                         *)
(* A line is a JSON record: append, truncate, snapshot (the whole log), or *)
(* the array of the previous format.  An append may be cut anywhere when   *)
(* the process dies; a rewrite replaces the file at once (os.replace).     *)
(* FaultySpec adds appends that fail while the process goes on; a rewrite  *)
(* that fails changes nothing.                                             *)
(***************************************************************************)
EXTENDS RaftLog, FiniteSets, SequencesExt

CONSTANTS
    Command,        \* what entries carry
    Unreadable,     \* load_log raises RaftPersistenceError
    MaxTerm,        \* bound: terms
    MaxIndex,       \* bound: log positions
    MaxLines        \* bound: lines of the file

Entry == [term : Nat, command : Command]
Log == [base : Nat, bterm : Nat, entries : Seq(Entry)]

ASSUME JournalAssumption ==
    /\ MaxTerm \in Nat \ {0} /\ MaxIndex \in Nat \ {0} /\ MaxLines \in Nat \ {0}
    /\ Unreadable \notin Log

VARIABLES
    up,         \* the process runs
    log,        \* its RaftLog; while it is down, the one it had at its end
    file,       \* lines of raft-log.json, none if it is missing or blank
    complete,   \* the file ends with a newline, or is empty
    cut         \* ghost: an append was cut since the last rewrite

vars == <<up, log, file, complete, cut>>

-----------------------------------------------------------------------------
(* Records.                                                                *)

AppendRecord(index, entry) == [type |-> "append", index |-> index, entry |-> entry]
TruncateRecord(index) == [type |-> "truncate", from |-> index]
SnapshotRecord(lg) == [type |-> "snapshot", log |-> lg]
LegacyArray(entries) == [type |-> "array", log |-> [EmptyLog EXCEPT !.entries = entries]]
Garbled == [type |-> "garbled"]

(* append_log_entries, for the entries of lg from index on.                *)
AppendRecords(lg, index) ==
    [k \in 1..(LastIndex(lg) - index + 1) |->
        AppendRecord(index + k - 1, EntryAt(lg, index + k - 1))]

CommonPrefix(before, after) ==
    CHOOSE m \in 0..Len(before.entries) :
        /\ m <= Len(after.entries)
        /\ \A k \in 1..m : before.entries[k] = after.entries[k]
        /\ m < Len(before.entries) /\ m < Len(after.entries)
              => before.entries[m + 1] # after.entries[m + 1]

(* Wrong form of ChangeRecords: what is replaced is not truncated.         *)
ChangeRecordsNoTruncate(before, after) ==
    AppendRecords(after, before.base + CommonPrefix(before, after) + 1)

(* Wrong form of ChangeRecords: the truncation keeps one entry too many.   *)
ChangeRecordsLate(before, after) ==
    LET common == CommonPrefix(before, after)
        first == before.base + common + 1
    IN IF common = Len(before.entries) THEN AppendRecords(after, first)
       ELSE <<TruncateRecord(first + 1)>> \o AppendRecords(after, first)

(* _persist_log_change.                                                    *)
ChangeRecords(before, after) ==
    LET common == CommonPrefix(before, after)
        first == before.base + common + 1
    IN IF common = Len(before.entries) THEN AppendRecords(after, first)
       ELSE <<TruncateRecord(first)>> \o AppendRecords(after, first)

-----------------------------------------------------------------------------
(* load_log.                                                               *)

Refused(lg, line) ==
    \/ line.type = "garbled"
    \/ line.type = "append" /\ line.index # LastIndex(lg) + 1
    \/ line.type = "truncate" /\ line.from <= lg.base

Replayed(lg, line) ==
    CASE line.type \in {"snapshot", "array"} -> line.log
      [] line.type = "append" -> AppendAll(lg, <<line.entry>>)
      [] line.type = "truncate" ->
            IF line.from > LastIndex(lg) THEN lg ELSE TruncateFrom(lg, line.from)

Read(lg, line) ==
    IF lg = Unreadable \/ Refused(lg, line) THEN Unreadable ELSE Replayed(lg, line)

Load(lines) ==
    LET read[n \in 0..Len(lines)] ==
            IF n = 0 THEN EmptyLog ELSE Read(read[n - 1], lines[n])
    IN read[Len(lines)]

-----------------------------------------------------------------------------
(* _append_log_records and _rewrite_log_records.                           *)

(* Behind an incomplete line the first record is glued to it.              *)
Appended(records) ==
    IF complete \/ records = <<>> THEN file \o records
    ELSE Front(file) \o <<Garbled>> \o Tail(records)

(* In memory first, then on disk.                                          *)
Write(after) ==
    LET records == ChangeRecords(log, after)
    IN /\ up
       /\ Len(Appended(records)) <= MaxLines
       /\ log' = after
       /\ file' = Appended(records)
       /\ complete' = (complete \/ records # <<>>)
       /\ UNCHANGED <<up, cut>>

(* Of an append that does not end some records, and perhaps a part of the  *)
(* next, or all of it but the newline, are in the file.                    *)
WritePart(after) ==
    LET records == ChangeRecords(log, after) IN
    /\ log' = after
    /\ \E whole \in 0..Len(records) :
          LET written == SubSeq(records, 1, whole) IN
          \/ /\ file' = Appended(written)
             /\ complete' = (complete \/ written # <<>>)
             /\ UNCHANGED cut
          \/ /\ whole < Len(records)
             /\ \E part \in {Garbled, records[whole + 1]} :
                   file' = Appended(Append(written, part))
             /\ complete' = FALSE
             /\ cut' = TRUE
    /\ Len(file') <= MaxLines

DieInWrite(after) == up /\ up' = FALSE /\ WritePart(after)

(* RaftPersistenceError: submit_commands or handle_append_entries raises,  *)
(* and what it has changed in memory stays.                                *)
WriteFails(after) ==
    /\ up /\ UNCHANGED up
    /\ ChangeRecords(log, after) # <<>>
    /\ WritePart(after)

Rewrite(lg) ==
    /\ file' = <<SnapshotRecord(lg)>>
    /\ complete' = TRUE
    /\ cut' = FALSE

(* save_log, of a log that replaces the one in memory once it is written.  *)
Replace(after) ==
    /\ up
    /\ log' = after
    /\ Rewrite(after)
    /\ UNCHANGED up

DieInReplace(after) ==
    /\ up /\ up' = FALSE
    /\ log' = after
    /\ Rewrite(after)

-----------------------------------------------------------------------------
(* What RaftNode does to its log.                                          *)

Terms(first) == Max({1, first})..MaxTerm

(* Entries of non-decreasing terms, from a term on.                        *)
Entries(term, max) ==
    {s \in UNION {[1..n -> [term : Terms(term), command : Command]] : n \in 0..max} :
        \A k \in 1..(Len(s) - 1) : s[k].term <= s[k + 1].term}

(* submit_commands, and handle_append_entries behind an entry the log has. *)
Submitted ==
    {AppendAll(log, entries) :
        entries \in Entries(LastTerm(log), MaxIndex - LastIndex(log))}

Followed ==
    UNION {{Synchronize(log, prev, entries) :
               entries \in Entries(TermAt(log, prev), MaxIndex - prev)}
             : prev \in log.base..LastIndex(log)}

(* create_snapshot, and handle_install_snapshot or __init__.               *)
Compacted ==
    {CompactThrough(log, index) : index \in (log.base + 1)..LastIndex(log)}

Bounded ==
    {InstallBoundary(log, at[1], at[2]) :
        at \in {b \in (log.base..MaxIndex) \X Terms(log.bterm) :
                   BoundaryFits(log, b[1], b[2])}}

(* __init__: a file of the previous format is rewritten when it is loaded. *)
Start ==
    /\ ~up /\ up' = TRUE
    /\ Load(file) # Unreadable
    /\ log' = Load(file)
    /\ IF \E k \in 1..Len(file) : file[k].type = "array"
       THEN Rewrite(log') ELSE UNCHANGED <<file, complete, cut>>

Die == up /\ up' = FALSE /\ UNCHANGED <<log, file, complete, cut>>

Init ==
    /\ up = FALSE
    /\ file \in {<<>>} \cup {<<LegacyArray(s)>> : s \in Entries(1, MaxIndex)}
    /\ log = Load(file)
    /\ complete = TRUE
    /\ cut = FALSE

Next == \/ \E after \in Submitted \cup Followed : Write(after) \/ DieInWrite(after)
        \/ \E after \in Compacted \cup Bounded : Replace(after) \/ DieInReplace(after)
        \/ Start \/ Die

Spec == Init /\ [][Next]_vars

FaultyNext == Next \/ \E after \in Submitted \cup Followed : WriteFails(after)
FaultySpec == Init /\ [][FaultyNext]_vars

-----------------------------------------------------------------------------
(* A file in which no append was cut since it was last rewritten can be    *)
(* loaded, whatever was truncated, appended, compacted and migrated.       *)
ReadableUnlessCut == ~cut => Load(file) # Unreadable

Disk == INSTANCE DurableLog WITH durable <- Load(file)

(* The file is the log in memory after every operation, and after a crash  *)
(* it is a log a crash may leave or load_log refuses it: a cut record, and *)
(* what is later glued to it, never yields another log.                    *)
ImplementsDurableLog == Disk!Spec

(* docs/raft.md:152: "Normal appends flush and fsync before replication    *)
(* can treat them as durable."  When an append fails, its entries may be   *)
(* missing from the file, but what is appended and answered later is not   *)
(* put behind entries they replaced: a restart loads a log memory held.    *)
SurvivesFailedWrites == Disk!FaultySpec
============================================================================
