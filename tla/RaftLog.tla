------------------------------ MODULE RaftLog ------------------------------
(***************************************************************************)
(* The log of one node, raft/log.py, as pure operators.                    *)
(*                                                                         *)
(* A log is the record [base, bterm, entries]: the entries up to base were *)
(* folded into a snapshot whose last entry had term bterm; entries are the *)
(* retained ones.  An entry is [term, command].  Its index is its position *)
(* after the base: append_entry refuses any other index, so the field      *)
(* carries nothing else.                                                   *)
(***************************************************************************)
EXTENDS Integers, Sequences

(* term_at and get return Python's None outside the retained entries.      *)
NoTerm == -1

EmptyLog == [base |-> 0, bterm |-> 0, entries |-> <<>>]

LastIndex(log) == log.base + Len(log.entries)

LastTerm(log) ==
    IF log.entries = <<>> THEN log.bterm
                          ELSE log.entries[Len(log.entries)].term

Retains(log, index) == log.base < index /\ index <= LastIndex(log)

EntryAt(log, index) == log.entries[index - log.base]

TermAt(log, index) ==
    IF index = log.base THEN log.bterm
    ELSE IF Retains(log, index) THEN EntryAt(log, index).term
    ELSE NoTerm

(* entries_from: the retained entries at or after index.                   *)
EntriesFrom(log, index) ==
    LET first == IF index > log.base THEN index - log.base ELSE 1
    IN SubSeq(log.entries, first, Len(log.entries))

(* append_entry, for a sequence of entries.                                *)
AppendAll(log, entries) == [log EXCEPT !.entries = @ \o entries]

(* truncate_from: drops index and everything after it.                     *)
TruncateFrom(log, index) ==
    [log EXCEPT !.entries = SubSeq(@, 1, index - log.base - 1)]

(* compact_through: index is retained (create_snapshot checked it).        *)
CompactThrough(log, index) ==
    [base |-> index, bterm |-> TermAt(log, index),
     entries |-> EntriesFrom(log, index + 1)]

(* install_snapshot_boundary raises ValueError exactly when this is false. *)
BoundaryFits(log, index, term) ==
    \/ index > log.base
    \/ index = log.base /\ term = log.bterm

(* install_snapshot_boundary: what follows a boundary the log agrees with  *)
(* survives, any other log is dropped.                                     *)
InstallBoundary(log, index, term) ==
    IF index = log.base THEN log
    ELSE [base |-> index, bterm |-> term,
          entries |-> IF TermAt(log, index) = term
                      THEN EntriesFrom(log, index + 1) ELSE <<>>]

(* Wrong form of Synchronize: what follows prev is replaced unconditionally. *)
ReplaceSuffix(log, prev, entries) ==
    AppendAll(TruncateFrom(log, prev + 1), entries)

(* The loop of replication.handle_append_entries over request.entries,     *)
(* which follow prev: entries already present are skipped, the first       *)
(* conflict truncates the log, and from the first entry that is new or     *)
(* conflicting on, every entry is appended.                                *)
Synchronize(log, prev, entries) ==
    LET Differs(k) == TermAt(log, prev + k) # entries[k].term
        first == CHOOSE k \in 1..Len(entries) :
                    Differs(k) /\ \A m \in 1..(k - 1) : ~Differs(m)
    IN IF \A k \in 1..Len(entries) : ~Differs(k) THEN log
       ELSE AppendAll(TruncateFrom(log, prev + first),
                      SubSeq(entries, first, Len(entries)))

(* vote.is_candidate_log_up_to_date.                                       *)
UpToDate(candIndex, candTerm, localIndex, localTerm) ==
    \/ candTerm > localTerm
    \/ candTerm = localTerm /\ candIndex >= localIndex

(* The logs a crash can leave in the journal while _persist_log_change or  *)
(* append_log_entries turns before into after: one truncate record when    *)
(* before is no prefix of after, then one append record per entry, of      *)
(* which any number of whole records can have reached the disk.            *)
JournalPrefixes(before, after) ==
    LET Agree(k) == /\ k <= Len(before.entries)
                    /\ before.entries[k] = after.entries[k]
        Common(m) == \A k \in 1..m : Agree(k)
        new == {m \in 0..Len(after.entries) :
                   \/ ~Common(m)
                   \/ m = Len(after.entries)
                   \/ ~Common(m + 1)}
    IN {before} \cup {[before EXCEPT !.entries = SubSeq(after.entries, 1, m)]
                         : m \in new}
============================================================================
