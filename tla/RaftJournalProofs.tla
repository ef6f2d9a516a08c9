------------------------- MODULE RaftJournalProofs -------------------------
(***************************************************************************)
(* The journal of the log, for any commands, terms, logs and files: what   *)
(* load_log replays after any whole number of records, after a record that *)
(* was cut and after one that was glued to it, and that it is what Raft    *)
(* takes the file to be.                                                   *)
(***************************************************************************)
EXTENDS RaftJournal, RaftLogProofs

Line ==
    {Garbled}
    \cup [type : {"append"}, index : Int, entry : Entry]
    \cup [type : {"truncate"}, from : Int]
    \cup [type : {"snapshot", "array"}, log : Log]

LEMMA LogTypes == Entry = EntryOf(Command) /\ Log = LogOf(Command)
BY DEF Entry, EntryOf, Log, LogOf

-----------------------------------------------------------------------------
(* load_log reads a line after the other.                                  *)

(* f is the logs the loop of load_log goes through.                        *)
Reading(lines, f) ==
    f = [n \in 0..Len(lines) |->
            IF n = 0 THEN EmptyLog ELSE Read(f[n - 1], lines[n])]

LEMMA ReadingExists ==
    ASSUME NEW lines, Len(lines) \in Nat
    PROVE  \E f : Reading(lines, f)
<1>. DEFINE Upto(b, f) ==
                f = [n \in 0..b |->
                        IF n = 0 THEN EmptyLog ELSE Read(f[n - 1], lines[n])]
            S == {b \in Nat : b <= Len(lines) /\ ~\E f : Upto(b, f)}
<1>1. SUFFICES ASSUME S # {}  PROVE  FALSE
    <2>1. Len(lines) \notin S
        BY <1>1
    <2>. QED  BY <2>1 DEF Reading
<1>2. PICK b \in S : \A c \in S : b <= c
    <2>1. S \in SUBSET Nat
        OBVIOUS
    <2>. QED  BY <1>1, <2>1, LeastNat
<1>3. b \in Nat /\ b <= Len(lines) /\ ~\E f : Upto(b, f)
    BY <1>2
<1>4. CASE b = 0
    <2>1. Upto(0, [n \in 0..0 |-> EmptyLog])
        OBVIOUS
    <2>. QED  BY <1>3, <1>4, <2>1
<1>5. CASE b # 0
    <2>1. b - 1 \in Nat /\ b - 1 <= Len(lines) /\ ~(b <= b - 1)
        BY <1>3, <1>5
    <2>2. b - 1 \notin S
        BY <1>2, <2>1
    <2>3. PICK f : Upto(b - 1, f)
        BY <2>1, <2>2
    <2>. DEFINE g == [n \in 0..b |->
                         IF n = 0 THEN EmptyLog ELSE Read(f[n - 1], lines[n])]
    <2>4. \A n \in 0..(b - 1) : g[n] = f[n]
        BY <1>3, <2>1, <2>3
    <2>5. \A n \in 0..b : n # 0 => n - 1 \in 0..(b - 1)
        BY <1>3
    <2>6. \A n \in 0..b : g[n] = IF n = 0 THEN EmptyLog ELSE Read(g[n - 1], lines[n])
        BY <2>4, <2>5
    <2>7. Upto(b, g)
        BY <2>6
    <2>. QED  BY <1>3, <2>7
<1>. QED  BY <1>4, <1>5

LEMMA LoadReads ==
    ASSUME NEW lines, Len(lines) \in Nat
    PROVE  \E f : Reading(lines, f) /\ Load(lines) = f[Len(lines)]
<1>. DEFINE g == CHOOSE f : Reading(lines, f)
<1>1. Reading(lines, g)
    BY ReadingExists
<1>2. Load(lines) = g[Len(lines)]
    BY DEF Load, Reading
<1>. QED  BY <1>1, <1>2

LEMMA ReadingValues ==
    ASSUME NEW lines, NEW f, Reading(lines, f), NEW n \in 0..Len(lines)
    PROVE  f[n] = IF n = 0 THEN EmptyLog ELSE Read(f[n - 1], lines[n])
BY DEF Reading

(* Two files that begin alike are read alike so far.                       *)
LEMMA ReadAlike ==
    ASSUME NEW lines, Len(lines) \in Nat, NEW others, Len(others) \in Nat,
           NEW f, Reading(lines, f), NEW g, Reading(others, g),
           NEW m \in Nat, m <= Len(lines), m <= Len(others),
           \A n \in 1..m : lines[n] = others[n]
    PROVE  f[m] = g[m]
<1>. DEFINE S == {n \in Nat : n <= m /\ f[n] # g[n]}
<1>1. SUFFICES ASSUME S # {}  PROVE  FALSE
    BY <1>1
<1>2. PICK b \in S : \A c \in S : b <= c
    <2>1. S \in SUBSET Nat
        OBVIOUS
    <2>. QED  BY <1>1, <2>1, LeastNat
<1>3. b \in Nat /\ b <= m /\ f[b] # g[b]
    BY <1>2
<1>4. b \in 0..Len(lines) /\ b \in 0..Len(others)
    BY <1>3
<1>5. /\ f[b] = IF b = 0 THEN EmptyLog ELSE Read(f[b - 1], lines[b])
      /\ g[b] = IF b = 0 THEN EmptyLog ELSE Read(g[b - 1], others[b])
    BY <1>4, ReadingValues
<1>6. b # 0
    BY <1>3, <1>5
<1>7. b - 1 \in Nat /\ b - 1 <= m /\ ~(b <= b - 1) /\ b \in 1..m
    BY <1>3, <1>6
<1>8. f[b - 1] = g[b - 1]
    BY <1>2, <1>7
<1>. QED  BY <1>3, <1>5, <1>7, <1>8

LEMMA LoadEmpty == Load(<<>>) = EmptyLog
<1>1. PICK f : Reading(<<>>, f) /\ Load(<<>>) = f[Len(<<>>)]
    BY LoadReads
<1>2. Len(<<>>) = 0 /\ 0 \in 0..0
    OBVIOUS
<1>. QED  BY <1>1, <1>2 DEF Reading

LEMMA LoadAppend ==
    ASSUME NEW lines \in Seq(Line), NEW line \in Line
    PROVE  Load(Append(lines, line)) = Read(Load(lines), line)
<1>. DEFINE more == Append(lines, line)
            len == Len(lines)
<1>1. /\ len \in Nat /\ Len(more) = len + 1 /\ more[len + 1] = line
      /\ \A n \in 1..len : more[n] = lines[n]
    OBVIOUS
<1>. HIDE DEF more
<1>2. PICK f : Reading(lines, f) /\ Load(lines) = f[len]
    BY <1>1, LoadReads
<1>3. Len(more) \in Nat /\ len <= Len(more) /\ Len(more) # 0
      /\ Len(more) - 1 = len /\ Len(more) \in 0..Len(more)
    BY <1>1
<1>4. PICK g : Reading(more, g) /\ Load(more) = g[Len(more)]
    BY <1>3, LoadReads
<1>5. g[Len(more)] = Read(g[len], line)
    BY <1>1, <1>3, <1>4, ReadingValues
<1>6. g[len] = f[len]
    BY <1>1, <1>2, <1>3, <1>4, ReadAlike
<1>. QED  BY <1>2, <1>4, <1>5, <1>6 DEF more

(* e gives what is loaded after each of the records behind lines.          *)
LEMMA LoadConcat ==
    ASSUME NEW lines \in Seq(Line), NEW records \in Seq(Line), NEW e,
           e[0] = Load(lines),
           \A w \in 1..Len(records) : Read(e[w - 1], records[w]) = e[w]
    PROVE  \A w \in 0..Len(records) : Load(lines \o SubSeq(records, 1, w)) = e[w]
<1>. DEFINE upto(w) == lines \o SubSeq(records, 1, w)
            S == {w \in Nat : w <= Len(records) /\ Load(upto(w)) # e[w]}
<1>0. Len(records) \in Nat
    OBVIOUS
<1>1. SUFFICES ASSUME S # {}  PROVE  FALSE
    BY <1>0, <1>1
<1>2. PICK w \in S : \A c \in S : w <= c
    <2>1. S \in SUBSET Nat
        OBVIOUS
    <2>. QED  BY <1>1, <2>1, LeastNat
<1>3. w \in Nat /\ w <= Len(records) /\ Load(upto(w)) # e[w]
    BY <1>2
<1>4. w # 0
    <2>1. SubSeq(records, 1, 0) = <<>>
        BY SubSeqProperties
    <2>2. upto(0) = lines
        BY <2>1
    <2>. QED  BY <1>3, <2>2
<1>5. w - 1 \in Nat /\ w - 1 <= Len(records) /\ ~(w <= w - 1) /\ w \in 1..Len(records)
    BY <1>0, <1>3, <1>4
<1>6. Load(upto(w - 1)) = e[w - 1]
    BY <1>2, <1>5
<1>7. upto(w - 1) \in Seq(Line) /\ records[w] \in Line
      /\ upto(w) = Append(upto(w - 1), records[w])
    <2>1. /\ SubSeq(records, 1, w - 1) \in Seq(Line)
          /\ records[w] \in Line
          /\ SubSeq(records, 1, w) = Append(SubSeq(records, 1, w - 1), records[w])
        BY <1>5, SliceType, SubSeqRecursiveSecond
    <2>. QED  BY <2>1
<1>8. Load(upto(w)) = Read(e[w - 1], records[w])
    BY <1>6, <1>7, LoadAppend
<1>. QED  BY <1>3, <1>5, <1>8

(* No record makes load_log accept what it has refused.                    *)
LEMMA LoadRefused ==
    ASSUME NEW lines \in Seq(Line), NEW records \in Seq(Line),
           Load(lines) = Unreadable
    PROVE  Load(lines \o records) = Unreadable
<1>. DEFINE e == [w \in 0..Len(records) |-> Unreadable]
<1>0. Len(records) \in Nat
    OBVIOUS
<1>1. e[0] = Load(lines)
    BY <1>0
<1>2. \A w \in 1..Len(records) : Read(e[w - 1], records[w]) = e[w]
    BY <1>0 DEF Read
<1>3. e[Len(records)] = Unreadable
    BY <1>0
<1>. HIDE DEF e
<1>4. Load(lines \o SubSeq(records, 1, Len(records))) = e[Len(records)]
    BY <1>0, <1>1, <1>2, LoadConcat
<1>5. SubSeq(records, 1, Len(records)) = records
    BY SubSeqFull
<1>. QED  BY <1>3, <1>4, <1>5

LEMMA LoadGarbled ==
    ASSUME NEW lines \in Seq(Line), NEW records \in Seq(Line)
    PROVE  Load(lines \o <<Garbled>> \o records) = Unreadable
<1>1. Garbled \in Line /\ Garbled.type = "garbled"
    BY DEF Line, Garbled
<1>2. Append(lines, Garbled) \in Seq(Line)
      /\ lines \o <<Garbled>> = Append(lines, Garbled)
    BY <1>1
<1>3. Load(Append(lines, Garbled)) = Unreadable
    BY <1>1, LoadAppend DEF Read, Refused
<1>. QED  BY <1>2, <1>3, LoadRefused

LEMMA LoadSnapshot ==
    ASSUME NEW line \in Line, line.type \in {"snapshot", "array"}
    PROVE  Load(<<line>>) = line.log
<1>1. <<>> \in Seq(Line) /\ <<line>> = Append(<<>>, line)
    OBVIOUS
<1>2. EmptyLog \in Log
    BY DEF EmptyLog, Log
<1>3. Load(<<line>>) = Read(EmptyLog, line)
    BY <1>1, LoadAppend, LoadEmpty
<1>. QED  BY <1>2, <1>3, JournalAssumption DEF Read, Refused, Replayed

-----------------------------------------------------------------------------
(* The records of _persist_log_change.                                     *)

SameBoundary(before, after) ==
    before.base = after.base /\ before.bterm = after.bterm

(* The log before with the first m entries of the log after.               *)
Mixed(before, after, m) == [before EXCEPT !.entries = SubSeq(after.entries, 1, m)]

LEMMA CommonPrefixIs ==
    ASSUME NEW before \in Log, NEW after \in Log, NEW c, c = CommonPrefix(before, after)
    PROVE  /\ c \in Nat /\ c <= Len(before.entries) /\ c <= Len(after.entries)
           /\ \A k \in 1..c : before.entries[k] = after.entries[k]
           /\ c < Len(before.entries) /\ c < Len(after.entries)
                 => before.entries[c + 1] # after.entries[c + 1]
<1>. DEFINE b == before.entries
            a == after.entries
            S == {m \in 0..Len(b) : m <= Len(a) /\ \A k \in 1..m : b[k] = a[k]}
            Greatest(m) == /\ m <= Len(a)
                           /\ \A k \in 1..m : b[k] = a[k]
                           /\ m < Len(b) /\ m < Len(a) => b[m + 1] # a[m + 1]
<1>1. Len(b) \in Nat /\ Len(a) \in Nat
    BY DEF Log
<1>2. 0 \in S
    BY <1>1
<1>3. S \in SUBSET (0..Len(b)) /\ S # {}
    BY <1>2
<1>4. PICK m \in S : \A n \in S : m >= n
    BY <1>1, <1>3, GreatestNat
<1>5. m \in 0..Len(b) /\ m <= Len(a) /\ \A k \in 1..m : b[k] = a[k]
    BY <1>4
<1>6. ASSUME m < Len(b), m < Len(a), b[m + 1] = a[m + 1]  PROVE  FALSE
    <2>1. m + 1 \in 0..Len(b) /\ m + 1 <= Len(a)
        BY <1>1, <1>5, <1>6
    <2>2. \A k \in 1..(m + 1) : k \in 1..m \/ k = m + 1
        BY <1>5
    <2>3. m + 1 \in S
        BY <1>5, <1>6, <2>1, <2>2
    <2>4. ~(m >= m + 1)
        BY <1>5
    <2>. QED  BY <1>4, <2>3, <2>4
<1>7. Greatest(m)
    BY <1>5, <1>6
<1>8. c = CHOOSE n \in 0..Len(b) : Greatest(n)
    BY DEF CommonPrefix
<1>. HIDE DEF Greatest
<1>9. c \in 0..Len(b) /\ Greatest(c)
    BY <1>5, <1>7, <1>8
<1>. QED  BY <1>1, <1>9 DEF Greatest

LEMMA MixedType ==
    ASSUME NEW before \in Log, NEW after \in Log, NEW m \in 0..Len(after.entries)
    PROVE  LET lg == Mixed(before, after, m) IN
           /\ lg \in Log /\ lg.base = before.base /\ lg.bterm = before.bterm
           /\ lg.entries = SubSeq(after.entries, 1, m)
           /\ Len(lg.entries) = m /\ LastIndex(lg) = before.base + m
<1>. DEFINE s == SubSeq(after.entries, 1, m)
            lg == Mixed(before, after, m)
<1>1. after.entries \in Seq(Entry) /\ Len(after.entries) \in Nat /\ before.base \in Nat
    BY DEF Log
<1>2. s \in Seq(Entry) /\ Len(s) = IF 1 <= m THEN m - 1 + 1 ELSE 0
    BY <1>1, SliceType
<1>3. Len(s) = m
    BY <1>1, <1>2
<1>4. lg = [before EXCEPT !.entries = s]
    BY DEF Mixed
<1>. HIDE DEF s
<1>5. /\ lg \in Log /\ lg.base = before.base /\ lg.bterm = before.bterm
      /\ lg.entries = s
    BY <1>2, <1>4 DEF Log
<1>. QED  BY <1>3, <1>5 DEF LastIndex, s

LEMMA MixedNext ==
    ASSUME NEW before \in Log, NEW after \in Log, NEW m \in 1..Len(after.entries)
    PROVE  AppendAll(Mixed(before, after, m - 1), <<after.entries[m]>>)
              = Mixed(before, after, m)
<1>1. after.entries \in Seq(Entry) /\ Len(after.entries) \in Nat
    BY DEF Log
<1>2. SubSeq(after.entries, 1, m) =
          Append(SubSeq(after.entries, 1, m - 1), after.entries[m])
    BY <1>1, SubSeqRecursiveSecond
<1>3. SubSeq(after.entries, 1, m - 1) \in Seq(Entry)
    BY <1>1, SliceType
<1>4. SubSeq(after.entries, 1, m - 1) \o <<after.entries[m]>>
          = SubSeq(after.entries, 1, m)
    BY <1>2, <1>3
<1>5. /\ Mixed(before, after, m - 1).entries = SubSeq(after.entries, 1, m - 1)
      /\ Mixed(before, after, m - 1) \in Log
    BY <1>1, MixedType
<1>. QED  BY <1>4, <1>5 DEF AppendAll, Mixed, Log

LEMMA MixedAll ==
    ASSUME NEW before \in Log, NEW after \in Log, SameBoundary(before, after)
    PROVE  Mixed(before, after, Len(after.entries)) = after
<1>1. after.entries \in Seq(Entry)
    BY DEF Log
<1>2. SubSeq(after.entries, 1, Len(after.entries)) = after.entries
    BY <1>1, SubSeqFull
<1>. QED  BY <1>2 DEF Mixed, Log, SameBoundary

(* Is a truncation needed, and what is in the file after w whole records.  *)
Truncations(before, after) ==
    IF CommonPrefix(before, after) = Len(before.entries) THEN 0 ELSE 1

Reached(before, after, w) ==
    LET t == Truncations(before, after)
    IN IF w < t THEN before
       ELSE Mixed(before, after, CommonPrefix(before, after) + w - t)

LEMMA ChangeRecordsAre ==
    ASSUME NEW before \in Log, NEW after \in Log, SameBoundary(before, after),
           NEW c, c = CommonPrefix(before, after),
           NEW t, t = Truncations(before, after),
           NEW records, records = ChangeRecords(before, after)
    PROVE  /\ t \in {0, 1} /\ records \in Seq(Line)
           /\ Len(records) = t + Len(after.entries) - c
           /\ t = 1 => records[1] = TruncateRecord(before.base + c + 1)
           /\ \A w \in 1..Len(records) : w > t =>
                 records[w] = AppendRecord(before.base + c + w - t,
                                           after.entries[c + w - t])
<1>. DEFINE first == before.base + c + 1
            appended == AppendRecords(after, first)
<1>1. /\ c \in Nat /\ c <= Len(before.entries) /\ c <= Len(after.entries)
      /\ Len(after.entries) \in Nat /\ Len(before.entries) \in Nat
      /\ before.base \in Nat /\ after.base = before.base
      /\ after.entries \in Seq(Entry)
    BY CommonPrefixIs DEF Log, SameBoundary
<1>2. LastIndex(after) - first + 1 = Len(after.entries) - c
    BY <1>1 DEF LastIndex
<1>3. appended = [k \in 1..(Len(after.entries) - c) |->
                     AppendRecord(first + k - 1, EntryAt(after, first + k - 1))]
    BY <1>2 DEF AppendRecords
<1>4. ASSUME NEW k \in 1..(Len(after.entries) - c)
      PROVE  /\ appended[k] = AppendRecord(before.base + c + k, after.entries[c + k])
             /\ appended[k] \in Line
    <2>0. PICK i : i = first + k - 1
        OBVIOUS
    <2>1. i = before.base + c + k /\ i - after.base = c + k
        BY <1>1, <2>0
    <2>2. after.entries[c + k] \in Entry /\ before.base + c + k \in Int
        BY <1>1, ElementOfSeq
    <2>3. appended[k] = AppendRecord(before.base + c + k, after.entries[c + k])
        <3>1. appended[k] = AppendRecord(i, EntryAt(after, i))
            BY <1>3, <2>0
        <3>2. EntryAt(after, i) = after.entries[c + k]
            BY ONLY <2>1 DEF EntryAt
        <3>. QED  BY ONLY <2>1, <3>1, <3>2
    <2>. QED  BY <2>2, <2>3 DEF AppendRecord, Line
<1>5. Len(after.entries) - c \in Nat
    BY <1>1
<1>6. appended \in Seq(Line) /\ Len(appended) = Len(after.entries) - c
    BY <1>3, <1>4, <1>5
<1>. HIDE DEF appended
<1>7. CASE c = Len(before.entries)
    <2>1. t = 0 /\ records = appended
        BY <1>7 DEF Truncations, ChangeRecords, appended
    <2>2. t + Len(after.entries) - c = Len(after.entries) - c
        BY <1>1, <2>1
    <2>3. ASSUME NEW w \in 1..Len(records)
          PROVE  records[w] = AppendRecord(before.base + c + w - t, after.entries[c + w - t])
        <3>1. w \in 1..(Len(after.entries) - c)
            BY <1>6, <2>1
        <3>2. before.base + c + w - t = before.base + c + w /\ c + w - t = c + w
            BY <1>1, <1>5, <2>1, <3>1
        <3>. QED  BY <1>4, <2>1, <3>1, <3>2
    <2>. QED  BY <1>6, <2>1, <2>2, <2>3
<1>8. CASE c # Len(before.entries)
    <2>1. t = 1 /\ records = <<TruncateRecord(first)>> \o appended
        BY <1>8 DEF Truncations, ChangeRecords, appended
    <2>2. TruncateRecord(first) \in Line
        BY <1>1 DEF TruncateRecord, Line
    <2>3. /\ records \in Seq(Line) /\ Len(records) = 1 + Len(appended)
          /\ records[1] = TruncateRecord(first)
          /\ \A k \in 1..Len(appended) : records[1 + k] = appended[k]
        BY <1>6, <2>1, <2>2
    <2>4. ASSUME NEW w \in 1..Len(records), w > 1
          PROVE  records[w] = AppendRecord(before.base + c + w - 1, after.entries[c + w - 1])
        <3>1. w - 1 \in 1..Len(appended) /\ 1 + (w - 1) = w
            BY <1>5, <1>6, <2>3, <2>4
        <3>2. before.base + c + (w - 1) = before.base + c + w - 1 /\ c + (w - 1) = c + w - 1
            BY <1>1, <2>3, <1>6, <1>5
        <3>. QED  BY <1>4, <1>6, <2>3, <3>1, <3>2
    <2>. QED  BY <1>1, <1>6, <2>1, <2>3, <2>4
<1>. QED  BY <1>7, <1>8

(* Each record takes load_log one log further.                             *)
LEMMA RecordsReach ==
    ASSUME NEW before \in Log, NEW after \in Log, SameBoundary(before, after),
           NEW records, records = ChangeRecords(before, after)
    PROVE  /\ Reached(before, after, 0) = before
           /\ Reached(before, after, Len(records)) = after
           /\ \A w \in 1..Len(records) :
                 Read(Reached(before, after, w - 1), records[w])
                    = Reached(before, after, w)
<1>c. PICK c : c = CommonPrefix(before, after)
    OBVIOUS
<1>t. PICK t : t = Truncations(before, after)
    OBVIOUS
<1>. DEFINE b == before.entries
            a == after.entries
<1>1. /\ c \in Nat /\ c <= Len(b) /\ c <= Len(a) /\ Len(a) \in Nat /\ Len(b) \in Nat
      /\ before.base \in Nat /\ b \in Seq(Entry) /\ a \in Seq(Entry)
      /\ \A k \in 1..c : b[k] = a[k]
    BY <1>c, CommonPrefixIs DEF Log
<1>2. /\ t \in {0, 1} /\ (t = 0 <=> c = Len(b))
      /\ Len(records) = t + Len(a) - c
      /\ t = 1 => records[1] = TruncateRecord(before.base + c + 1)
      /\ \A w \in 1..Len(records) : w > t =>
            records[w] = AppendRecord(before.base + c + w - t, a[c + w - t])
    <2>1. /\ t \in {0, 1} /\ Len(records) = t + Len(a) - c
          /\ t = 1 => records[1] = TruncateRecord(before.base + c + 1)
          /\ \A w \in 1..Len(records) : w > t =>
                records[w] = AppendRecord(before.base + c + w - t, a[c + w - t])
        BY <1>c, <1>t, ChangeRecordsAre
    <2>2. t = 0 <=> c = Len(b)
        BY <1>c, <1>t DEF Truncations
    <2>. QED  BY <2>1, <2>2
<1>3. \A w \in Int : Reached(before, after, w) =
          IF w < t THEN before ELSE Mixed(before, after, c + w - t)
    BY <1>c, <1>t DEF Reached
<1>4. SubSeq(b, 1, c) = SubSeq(a, 1, c)
    <2>1. \A k \in 1..c : b[k] \in Entry /\ a[k] \in Entry
        BY <1>1, ElementOfSeq
    <2>. QED  BY <1>1, <2>1, SubSeqProperties
<1>5. Mixed(before, after, c) = TruncateFrom(before, before.base + c + 1)
    <2>1. PICK p : p = before.base + c + 1
        OBVIOUS
    <2>2. p - before.base - 1 = c
        BY <1>1, <2>1
    <2>3. TruncateFrom(before, p) = [before EXCEPT !.entries = SubSeq(b, 1, c)]
        BY <2>2 DEF TruncateFrom
    <2>. QED  BY <1>4, <2>1, <2>3 DEF Mixed
<1>6. Reached(before, after, 0) = before
    <2>1. CASE t = 1
        BY <1>3, <2>1
    <2>2. CASE t = 0
        <3>1. c + 0 - t = c /\ c = Len(b)
            BY <1>1, <1>2, <2>2
        <3>2. SubSeq(b, 1, c) = b
            BY <1>1, <3>1, SubSeqFull
        <3>3. Mixed(before, after, c) = before
            BY <1>4, <3>2 DEF Mixed, Log
        <3>. QED  BY <1>3, <2>2, <3>1, <3>3
    <2>. QED  BY <1>2, <2>1, <2>2
<1>7. Reached(before, after, Len(records)) = after
    <2>1. Len(records) \in Int /\ ~(Len(records) < t) /\ c + Len(records) - t = Len(a)
        BY <1>1, <1>2
    <2>. QED  BY <1>3, <2>1, MixedAll
<1>8. before # Unreadable /\ \A m \in 0..Len(a) : Mixed(before, after, m) # Unreadable
    BY MixedType, JournalAssumption
<1>9. ASSUME NEW w \in 1..Len(records)
      PROVE  Read(Reached(before, after, w - 1), records[w]) = Reached(before, after, w)
    <2>1. CASE w <= t
        <3>1. w = 1 /\ t = 1 /\ c < Len(b)
            BY <1>1, <1>2, <2>1
        <3>2. records[1] = TruncateRecord(before.base + c + 1)
            BY <1>2, <3>1
        <3>3. Reached(before, after, w - 1) = before
            BY <1>3, <3>1
        <3>4. Reached(before, after, w) = Mixed(before, after, c)
            <4>1. c + 1 - 1 = c
                BY <1>1
            <4>. QED  BY <1>3, <3>1, <4>1
        <3>5. ~(before.base + c + 1 <= before.base)
              /\ ~(before.base + c + 1 > LastIndex(before))
            BY <1>1, <3>1 DEF LastIndex
        <3>6. Read(before, TruncateRecord(before.base + c + 1))
                  = TruncateFrom(before, before.base + c + 1)
            BY <1>8, <3>5 DEF Read, Refused, Replayed, TruncateRecord
        <3>. QED  BY <1>5, <3>1, <3>2, <3>3, <3>4, <3>6
    <2>2. CASE w > t
        <3>. DEFINE m == c + w - t
        <3>1. m \in 1..Len(a) /\ m - 1 \in 0..Len(a) /\ m - 1 = c + (w - 1) - t
              /\ ~(w < t) /\ ~(w - 1 < t) /\ w \in Int /\ w - 1 \in Int
            <4>1. /\ w \in Int /\ t \in Int /\ w > t /\ w <= t + Len(a) - c
                  /\ c \in Nat /\ Len(a) \in Nat /\ t >= 0
                BY <1>1, <1>2, <2>2
            <4>. QED  BY ONLY <4>1
        <3>2. before.base + c + w - t = before.base + m
            BY <1>1, <1>2
        <3>3. records[w] = AppendRecord(before.base + m, a[m])
            BY <1>2, <2>2, <3>2
        <3>4. /\ Reached(before, after, w - 1) = Mixed(before, after, m - 1)
              /\ Reached(before, after, w) = Mixed(before, after, m)
            BY <1>3, <3>1
        <3>. HIDE DEF m
        <3>5. LastIndex(Mixed(before, after, m - 1)) + 1 = before.base + m
            <4>1. LastIndex(Mixed(before, after, m - 1)) = before.base + (m - 1)
                BY <3>1, MixedType
            <4>2. m \in Int
                BY <3>1
            <4>3. \A x, y \in Int : x + (y - 1) + 1 = x + y
                OBVIOUS
            <4>4. before.base \in Int
                BY <1>1
            <4>. QED  BY ONLY <4>1, <4>2, <4>3, <4>4
        <3>6. Read(Mixed(before, after, m - 1), AppendRecord(before.base + m, a[m]))
                  = AppendAll(Mixed(before, after, m - 1), <<a[m]>>)
            BY <1>8, <3>1, <3>5 DEF Read, Refused, Replayed, AppendRecord
        <3>7. AppendAll(Mixed(before, after, m - 1), <<a[m]>>) = Mixed(before, after, m)
            BY <3>1, MixedNext
        <3>. QED  BY <3>3, <3>4, <3>6, <3>7
    <2>3. w <= t \/ w > t
        BY <1>2
    <2>. QED  BY <2>1, <2>2, <2>3
<1>. QED  BY <1>6, <1>7, <1>9

(* What is in the file between two records is a log a crash may leave.     *)
LEMMA ReachedIsPrefix ==
    ASSUME NEW before \in Log, NEW after \in Log, SameBoundary(before, after),
           NEW w \in 0..Len(ChangeRecords(before, after))
    PROVE  Reached(before, after, w) \in JournalPrefixes(before, after)
<1>c. PICK c : c = CommonPrefix(before, after)
    OBVIOUS
<1>t. PICK t : t = Truncations(before, after)
    OBVIOUS
<1>r. PICK records : records = ChangeRecords(before, after)
    OBVIOUS
<1>. DEFINE b == before.entries
            a == after.entries
<1>1. /\ c \in Nat /\ c <= Len(b) /\ c <= Len(a) /\ Len(a) \in Nat /\ Len(b) \in Nat
      /\ c < Len(b) /\ c < Len(a) => b[c + 1] # a[c + 1]
    BY <1>c, CommonPrefixIs DEF Log
<1>2. t \in {0, 1} /\ Len(records) = t + Len(a) - c
    BY <1>c, <1>t, <1>r, ChangeRecordsAre
<1>3. Reached(before, after, w) =
          IF w < t THEN before ELSE Mixed(before, after, c + w - t)
    BY <1>c, <1>t DEF Reached
<1>4. CASE w < t
    BY <1>3, <1>4 DEF JournalPrefixes
<1>5. CASE ~(w < t)
    <2>. DEFINE Both(k) == k <= Len(b) /\ b[k] = a[k]
                Common(m) == \A k \in 1..m : Both(k)
    <2>p. PICK p \in 0..Len(a) : p = c + w - t /\ p >= c
        <3>1. c + w - t \in 0..Len(a) /\ c + w - t >= c
            BY <1>1, <1>2, <1>5, <1>r
        <3>. QED  BY <3>1
    <2>1. c = Len(a) \/ ~Both(c + 1)
        BY <1>1
    <2>2. \/ ~Common(p) \/ p = Len(a) \/ ~Common(p + 1)
        <3>1. p = Len(a) \/ c + 1 \in 1..(p + 1)
            BY <1>1, <2>p
        <3>2. p = c \/ c + 1 \in 1..p
            BY <1>1, <2>p
        <3>. QED  BY <2>1, <3>1, <3>2
    <2>3. Mixed(before, after, p) \in JournalPrefixes(before, after)
        BY <2>2 DEF JournalPrefixes, Mixed
    <2>. QED  BY <1>3, <1>5, <2>3, <2>p
<1>. QED  BY <1>4, <1>5

-----------------------------------------------------------------------------
(* What an append leaves in the file.                                      *)

LEMMA AppendedGlued ==
    ASSUME file \in Seq(Line), NEW records \in Seq(Line), records # <<>>, ~complete
    PROVE  Appended(records) \in Seq(Line) /\ Load(Appended(records)) = Unreadable
<1>1. Appended(records) = Front(file) \o <<Garbled>> \o Tail(records)
    BY DEF Appended
<1>2. Front(file) \in Seq(Line)
    <2>1. Len(file) - 1 \in Int /\ Len(file) - 1 <= Len(file) /\ Len(file) \in Nat
        OBVIOUS
    <2>. QED  BY <2>1, SliceType DEF Front
<1>3. Tail(records) \in Seq(Line)
    OBVIOUS
<1>4. Front(file) \o <<Garbled>> \o Tail(records) \in Seq(Line)
    <2>1. Garbled \in Line
        BY DEF Line
    <2>. QED  BY <1>2, <1>3, <2>1
<1>. QED  BY <1>1, <1>2, <1>3, <1>4, LoadGarbled

LEMMA AppendedWhole ==
    ASSUME file \in Seq(Line), NEW records \in Seq(Line), complete \/ records = <<>>
    PROVE  /\ Appended(records) = file \o records
           /\ Appended(records) \in Seq(Line)
           /\ records = <<>> => Appended(records) = file
<1>1. Appended(records) = file \o records
    BY DEF Appended
<1>2. file \o records \in Seq(Line)
    OBVIOUS
<1>3. file \o <<>> = file
    BY ConcatEmptySeq
<1>. QED  BY <1>1, <1>2, <1>3

(* w whole records of a change, behind a file that can be loaded or not.   *)
LEMMA AppendedReaches ==
    ASSUME file \in Seq(Line), complete, log \in Log, NEW after \in Log,
           SameBoundary(log, after), NEW records, records = ChangeRecords(log, after),
           NEW w \in 0..Len(records), Load(file) \in {log, Unreadable}
    PROVE  LET written == SubSeq(records, 1, w) IN
           /\ written \in Seq(Line)
           /\ Appended(written) \in Seq(Line)
           /\ Load(file) = Unreadable => Load(Appended(written)) = Unreadable
           /\ Load(file) = log => Load(Appended(written)) = Reached(log, after, w)
<1>. DEFINE written == SubSeq(records, 1, w)
<1>1. records \in Seq(Line) /\ Len(records) \in Nat
    BY ChangeRecordsAre, LenProperties
<1>2. written \in Seq(Line)
    BY <1>1, SliceType
<1>3. Appended(written) = file \o written /\ Appended(written) \in Seq(Line)
    BY <1>2, AppendedWhole
<1>4. Load(file) = Unreadable => Load(file \o written) = Unreadable
    BY <1>2, LoadRefused
<1>5. ASSUME Load(file) = log  PROVE  Load(file \o written) = Reached(log, after, w)
    <2>. DEFINE e == [v \in 0..Len(records) |-> Reached(log, after, v)]
    <2>0. /\ Reached(log, after, 0) = log
          /\ \A v \in 1..Len(records) :
                Read(Reached(log, after, v - 1), records[v]) = Reached(log, after, v)
        BY RecordsReach
    <2>1. e[0] = Load(file) /\ e[w] = Reached(log, after, w)
        BY <1>1, <1>5, <2>0
    <2>2. \A v \in 1..Len(records) : v - 1 \in 0..Len(records) /\ v \in 0..Len(records)
        BY <1>1
    <2>3. \A v \in 1..Len(records) : Read(e[v - 1], records[v]) = e[v]
        BY <2>0, <2>2
    <2>. HIDE DEF e
    <2>4. Load(file \o SubSeq(records, 1, w)) = e[w]
        BY <1>1, <2>1, <2>3, LoadConcat
    <2>. QED  BY <2>1, <2>4
<1>. QED  BY <1>2, <1>3, <1>4, <1>5

-----------------------------------------------------------------------------
(* The logs of RaftNode.                                                   *)

LEMMA EntriesType ==
    ASSUME NEW term \in Nat, NEW max, NEW s \in Entries(term, max)
    PROVE  s \in Seq(Entry)
<1>1. Max({1, term}) \in Nat
    BY MaxOfTwo
<1>2. Terms(term) \in SUBSET Nat
    BY <1>1, JournalAssumption DEF Terms
<1>3. PICK n \in 0..max : s \in [1..n -> [term : Terms(term), command : Command]]
    BY DEF Entries
<1>4. [term : Terms(term), command : Command] \in SUBSET Entry
    BY <1>2 DEF Entry
<1>5. s \in [1..n -> Entry] /\ n \in Nat
    BY <1>3, <1>4
<1>. QED  BY <1>5

LEMMA IncrementalType ==
    ASSUME log \in Log, NEW after \in Submitted \cup Followed
    PROVE  after \in Log /\ SameBoundary(log, after)
<1>0. log \in LogOf(Command) /\ log.base \in Nat
    BY LogTypes DEF Log
<1>1. CASE after \in Submitted
    <2>1. PICK entries \in Entries(LastTerm(log), MaxIndex - LastIndex(log)) :
                   after = AppendAll(log, entries)
        BY <1>1 DEF Submitted
    <2>2. entries \in Seq(EntryOf(Command))
        BY <1>0, LastTermType, EntriesType, LogTypes
    <2>3. after \in LogOf(Command)
        BY <1>0, <2>1, <2>2, AppendAllType
    <2>. QED  BY <2>1, <2>3, LogTypes DEF AppendAll, SameBoundary, Log
<1>2. CASE after \in Followed
    <2>0. PICK prev \in log.base..LastIndex(log) :
              \E entries \in Entries(TermAt(log, prev), MaxIndex - prev) :
                  after = Synchronize(log, prev, entries)
        BY <1>2 DEF Followed
    <2>1. PICK entries \in Entries(TermAt(log, prev), MaxIndex - prev) :
                  after = Synchronize(log, prev, entries)
        BY <2>0
    <2>2. prev \in Nat /\ TermAt(log, prev) # NoTerm /\ TermAt(log, prev) \in Nat
        BY <1>0, LastIndexType, TermAtType
    <2>3. entries \in Seq(EntryOf(Command))
        BY <2>2, EntriesType, LogTypes
    <2>4. after \in LogOf(Command) /\ after.base = log.base
        BY <1>0, <2>1, <2>2, <2>3, SynchronizeType
    <2>5. after.bterm = log.bterm
        BY <2>1 DEF Synchronize, AppendAll, TruncateFrom, Log
    <2>. QED  BY <2>4, <2>5, LogTypes DEF SameBoundary
<1>. QED  BY <1>1, <1>2

LEMMA RewrittenType ==
    ASSUME log \in Log, NEW after \in Compacted \cup Bounded
    PROVE  after \in Log
<1>0. log \in LogOf(Command) /\ log.base \in Nat /\ log.bterm \in Nat
    BY LogTypes DEF Log
<1>1. CASE after \in Compacted
    <2>1. PICK index \in (log.base + 1)..LastIndex(log) :
                   after = CompactThrough(log, index)
        BY <1>1 DEF Compacted
    <2>2. index \in Nat /\ TermAt(log, index) # NoTerm
        BY <1>0, LastIndexType, TermAtType
    <2>. QED  BY <1>0, <2>1, <2>2, CompactThroughType, LogTypes
<1>2. CASE after \in Bounded
    <2>1. PICK at \in (log.base..MaxIndex) \X Terms(log.bterm) :
                   after = InstallBoundary(log, at[1], at[2])
        BY <1>2 DEF Bounded
    <2>2. at[1] \in Nat /\ at[2] \in Nat
        <3>1. Max({1, log.bterm}) \in Nat
            BY <1>0, MaxOfTwo
        <3>2. at[1] \in log.base..MaxIndex /\ at[2] \in Max({1, log.bterm})..MaxTerm
            BY <2>1 DEF Terms
        <3>. QED  BY <1>0, <3>1, <3>2, JournalAssumption
    <2>. QED  BY <1>0, <2>1, <2>2, InstallBoundaryType, LogTypes
<1>. QED  BY <1>1, <1>2

-----------------------------------------------------------------------------
(* The invariant, checked by TLC on the instance of the journal run.       *)

JournalTypes ==
    /\ up \in BOOLEAN /\ complete \in BOOLEAN /\ cut \in BOOLEAN
    /\ log \in Log
    /\ file \in Seq(Line)
    /\ Load(file) \in Log \cup {Unreadable}

(* While the process runs its file is its log, or cannot be loaded.        *)
InMemory == up => Load(file) \in {log, Unreadable}

(* A file that cannot be loaded was cut; so was one that lacks a newline.  *)
CutOnly == ~cut => complete /\ Load(file) # Unreadable

JournalInv == JournalTypes /\ InMemory /\ CutOnly

LEMMA RewriteEffect ==
    ASSUME NEW lg \in Log, Rewrite(lg)
    PROVE  /\ file' \in Seq(Line) /\ Load(file)' = lg
           /\ complete' = TRUE /\ cut' = FALSE /\ lg # Unreadable
<1>1. file' = <<SnapshotRecord(lg)>> /\ complete' = TRUE /\ cut' = FALSE
    BY DEF Rewrite
<1>. DEFINE line == SnapshotRecord(lg)
<1>2. line \in Line /\ line.type = "snapshot" /\ line.log = lg
    BY DEF SnapshotRecord, Line
<1>3. lg # Unreadable
    BY JournalAssumption
<1>. HIDE DEF line
<1>4. Load(<<line>>) = lg /\ <<line>> \in Seq(Line)
    BY <1>2, LoadSnapshot
<1>. QED  BY <1>1, <1>3, <1>4 DEF line

LEMMA JournalInvInit == Init => JournalInv
<1>. SUFFICES ASSUME Init  PROVE  JournalInv
    OBVIOUS
<1>1. /\ up = FALSE /\ complete = TRUE /\ cut = FALSE /\ log = Load(file)
      /\ file \in {<<>>} \cup {<<LegacyArray(s)>> : s \in Entries(1, MaxIndex)}
    BY DEF Init
<1>2. file \in Seq(Line) /\ Load(file) \in Log
    <2>1. CASE file = <<>>
        <3>1. EmptyLog \in Log
            BY EmptySeq DEF EmptyLog, Log
        <3>2. <<>> \in Seq(Line)
            BY EmptySeq
        <3>. QED  BY ONLY <2>1, <3>1, <3>2, LoadEmpty
    <2>2. ASSUME NEW s \in Entries(1, MaxIndex), file = <<LegacyArray(s)>>
          PROVE  file \in Seq(Line) /\ Load(file) \in Log
        <3>. DEFINE line == LegacyArray(s)
        <3>1. s \in Seq(Entry)
            BY EntriesType
        <3>2. line \in Line /\ line.type = "array" /\ line.log \in Log
            BY <3>1 DEF LegacyArray, EmptyLog, Log, Line
        <3>. HIDE DEF line
        <3>3. Load(<<line>>) = line.log /\ <<line>> \in Seq(Line)
            BY <3>2, LoadSnapshot
        <3>. QED  BY <2>2, <3>2, <3>3 DEF line
    <2>. QED  BY <1>1, <2>1, <2>2
<1>. QED  BY <1>1, <1>2, JournalAssumption DEF JournalInv, JournalTypes, InMemory, CutOnly

-----------------------------------------------------------------------------
(* Every step keeps the invariant and is a step of DurableLog.             *)

DiskStep == Disk!Change \/ Disk!Die \/ Disk!Start

LEMMA WriteStep ==
    ASSUME JournalInv, NEW after \in Submitted \cup Followed, Write(after)
    PROVE  JournalInv' /\ DiskStep
<1>r. PICK records : records = ChangeRecords(log, after)
    OBVIOUS
<1>1. /\ up /\ up' = up /\ cut' = cut /\ log' = after
      /\ file' = Appended(records)
      /\ complete' = (complete \/ records # <<>>)
    BY <1>r DEF Write
<1>2. after \in Log /\ SameBoundary(log, after) /\ log \in Log /\ file \in Seq(Line)
    BY IncrementalType DEF JournalInv, JournalTypes
<1>3. records \in Seq(Line) /\ Len(records) \in Nat
    BY <1>2, <1>r, ChangeRecordsAre, LenProperties
<1>4. Load(file) \in {log, Unreadable}
    BY <1>1 DEF JournalInv, InMemory
<1>5. CASE complete
    <2>0. PICK w \in 0..Len(records) : w = Len(records)
        BY <1>3
    <2>1. SubSeq(records, 1, w) = records
        BY <1>3, <2>0, SubSeqFull
    <2>2. Reached(log, after, Len(records)) = after
        BY <1>2, <1>r, RecordsReach
    <2>3. /\ file' \in Seq(Line)
          /\ Load(file) = Unreadable => Load(file') = Unreadable
          /\ Load(file) = log => Load(file') = after
        <3>1. /\ Appended(records) \in Seq(Line)
              /\ Load(file) = Unreadable => Load(Appended(records)) = Unreadable
              /\ Load(file) = log => Load(Appended(records)) = Reached(log, after, w)
            BY <1>2, <1>4, <1>5, <1>r, <2>1, AppendedReaches
        <3>. QED  BY <1>1, <2>0, <2>2, <3>1
    <2>4. ~cut => Load(file) = log
        BY <1>4 DEF JournalInv, CutOnly
    <2>. QED
        BY <1>1, <1>2, <1>4, <1>5, <2>3, <2>4, JournalAssumption
        DEF JournalInv, JournalTypes, InMemory, CutOnly, DiskStep, Disk!Change
<1>6. CASE ~complete /\ records # <<>>
    <2>1. file' \in Seq(Line) /\ Load(file') = Unreadable
        BY <1>1, <1>2, <1>3, <1>6, AppendedGlued
    <2>2. cut /\ complete' = TRUE
        BY <1>1, <1>6 DEF JournalInv, CutOnly
    <2>. QED
        BY <1>1, <1>2, <2>1, <2>2
        DEF JournalInv, JournalTypes, InMemory, CutOnly, DiskStep, Disk!Change
<1>7. CASE ~complete /\ records = <<>>
    <2>1. file' = file /\ complete' = complete
        BY <1>1, <1>2, <1>3, <1>7, AppendedWhole DEF JournalInv, JournalTypes
    <2>2. Len(records) = 0
        BY <1>7
    <2>3. after = log
        BY <1>2, <1>r, <2>2, RecordsReach
    <2>. QED
        BY <1>1, <1>2, <1>4, <1>7, <2>1, <2>3
        DEF JournalInv, JournalTypes, InMemory, CutOnly, DiskStep, Disk!Change
<1>. QED  BY <1>5, <1>6, <1>7

(* What a process that dies in an append leaves.                           *)
LEMMA WritePartLeaves ==
    ASSUME JournalInv, up, NEW after \in Submitted \cup Followed, WritePart(after)
    PROVE  /\ file' \in Seq(Line) /\ log' = after /\ after \in Log
           /\ complete' \in BOOLEAN /\ cut' \in BOOLEAN
           /\ log'.base = log.base
           /\ Load(file)' \in Log \cup {Unreadable}
           /\ \/ Load(file)' \in {Load(file), Unreadable}
              \/ Load(file) # Unreadable /\ Load(file)' \in JournalPrefixes(log, log')
           /\ CutOnly'
<1>r. PICK records : records = ChangeRecords(log, after)
    OBVIOUS
<1>2. after \in Log /\ SameBoundary(log, after) /\ log \in Log /\ file \in Seq(Line)
      /\ complete \in BOOLEAN /\ cut \in BOOLEAN
    BY IncrementalType DEF JournalInv, JournalTypes
<1>3. records \in Seq(Line) /\ Len(records) \in Nat
    BY <1>2, <1>r, ChangeRecordsAre, LenProperties
<1>4. Load(file) \in {log, Unreadable}
    BY DEF JournalInv, InMemory
<1>5. log' = after /\ log'.base = log.base
    BY <1>2 DEF WritePart, SameBoundary
<1>6. \A w \in 0..Len(records) :
          /\ Reached(log, after, w) \in JournalPrefixes(log, after)
          /\ Reached(log, after, w) \in Log
    BY <1>2, <1>r, ReachedIsPrefix, JournalPrefixesType, LogTypes
<1>7. PICK w \in 0..Len(records) :
          \/ /\ file' = Appended(SubSeq(records, 1, w))
             /\ complete' = (complete \/ SubSeq(records, 1, w) # <<>>)
             /\ cut' = cut
          \/ /\ w < Len(records)
             /\ \E part \in {Garbled, records[w + 1]} :
                   file' = Appended(Append(SubSeq(records, 1, w), part))
             /\ complete' = FALSE
             /\ cut' = TRUE
    BY <1>r DEF WritePart
<1>w. PICK written \in Seq(Line) : written = SubSeq(records, 1, w)
    <2>1. SubSeq(records, 1, w) \in Seq(Line)
        BY <1>3, SliceType
    <2>. QED  BY <2>1
<1>8. ASSUME file' = Appended(written), complete' = (complete \/ written # <<>>),
             cut' = cut
      PROVE  /\ file' \in Seq(Line) /\ complete' \in BOOLEAN /\ cut' \in BOOLEAN
             /\ Load(file') \in Log \cup {Unreadable}
             /\ \/ Load(file') \in {Load(file), Unreadable}
                \/ Load(file) # Unreadable /\ Load(file') \in JournalPrefixes(log, after)
             /\ ~cut' => complete' /\ Load(file') # Unreadable
    <2>1. CASE complete
        <3>1. /\ file' \in Seq(Line)
              /\ Load(file) = Unreadable => Load(file') = Unreadable
              /\ Load(file) = log => Load(file') = Reached(log, after, w)
            BY <1>2, <1>4, <1>8, <1>r, <1>w, <2>1, AppendedReaches
        <3>2. ~cut => Load(file) = log
            BY <1>4 DEF JournalInv, CutOnly
        <3>. QED  BY <1>2, <1>4, <1>6, <1>8, <2>1, <3>1, <3>2, JournalAssumption
    <2>2. CASE ~complete /\ written # <<>>
        <3>1. file' \in Seq(Line) /\ Load(file') = Unreadable
            BY <1>2, <1>8, <2>2, AppendedGlued
        <3>. QED  BY <1>2, <1>8, <2>2, <3>1 DEF JournalInv, CutOnly
    <2>3. CASE ~complete /\ written = <<>>
        <3>1. file' = file
            BY <1>2, <1>8, <2>3, AppendedWhole
        <3>. QED
            BY <1>2, <1>8, <2>3, <3>1 DEF JournalInv, JournalTypes, CutOnly
    <2>. QED  BY <2>1, <2>2, <2>3
<1>9. ASSUME w < Len(records), NEW part \in {Garbled, records[w + 1]},
             file' = Appended(Append(written, part)), complete' = FALSE, cut' = TRUE
      PROVE  /\ file' \in Seq(Line)
             /\ Load(file') \in Log \cup {Unreadable}
             /\ \/ Load(file') \in {Load(file), Unreadable}
                \/ Load(file) # Unreadable /\ Load(file') \in JournalPrefixes(log, after)
    <2>1. w + 1 \in 1..Len(records) /\ w + 1 \in 0..Len(records) /\ (w + 1) - 1 = w
        BY <1>3, <1>9
    <2>2. records[w + 1] \in Line /\ Garbled \in Line /\ part \in Line
        BY <1>3, <1>9, <2>1, ElementOfSeq DEF Line
    <2>3. PICK torn \in Seq(Line) : torn = Append(written, part)
        <3>1. Append(written, part) \in Seq(Line)
            BY <2>2, AppendProperties
        <3>. QED  BY <3>1
    <2>4. torn # <<>>
        BY <2>2, <2>3
    <2>5. CASE ~complete
        <3>1. file' \in Seq(Line) /\ Load(file') = Unreadable
            BY <1>2, <1>9, <2>3, <2>4, <2>5, AppendedGlued
        <3>. QED  BY <3>1
    <2>6. CASE complete /\ part = Garbled
        <3>1. file' = file \o torn /\ file' \in Seq(Line)
            BY <1>2, <1>9, <2>3, <2>6, AppendedWhole
        <3>2. file \o written \in Seq(Line) /\ file \o torn = Append(file \o written, part)
            BY <1>2, <2>2, <2>3
        <3>3. Garbled.type = "garbled"
            BY DEF Garbled
        <3>4. Load(file') = Unreadable
            BY <2>2, <2>6, <3>1, <3>2, <3>3, LoadAppend DEF Read, Refused
        <3>. QED  BY <3>1, <3>4
    <2>7. CASE complete /\ part = records[w + 1]
        <3>1. SubSeq(records, 1, w + 1) = torn
            BY <1>3, <1>w, <2>1, <2>3, <2>7, SubSeqRecursiveSecond
        <3>2. /\ file' \in Seq(Line)
              /\ Load(file) = Unreadable => Load(file') = Unreadable
              /\ Load(file) = log => Load(file') = Reached(log, after, w + 1)
            BY <1>2, <1>4, <1>9, <1>r, <2>1, <2>3, <2>7, <3>1, AppendedReaches
        <3>. QED  BY <1>2, <1>4, <1>6, <2>1, <3>2, JournalAssumption
    <2>. QED  BY <2>5, <2>6, <2>7
<1>10. Load(file)' = Load(file')
    OBVIOUS
<1>. QED  BY <1>2, <1>5, <1>7, <1>8, <1>9, <1>10, <1>w DEF CutOnly

LEMMA DieInWriteStep ==
    ASSUME JournalInv, NEW after \in Submitted \cup Followed, DieInWrite(after)
    PROVE  JournalInv' /\ DiskStep
<1>1. up /\ up' = FALSE /\ WritePart(after)
    BY DEF DieInWrite
<1>2. /\ file' \in Seq(Line) /\ log' = after /\ after \in Log
      /\ complete' \in BOOLEAN /\ cut' \in BOOLEAN
      /\ log'.base = log.base
      /\ Load(file)' \in Log \cup {Unreadable}
      /\ \/ Load(file)' \in {Load(file), Unreadable}
         \/ Load(file) # Unreadable /\ Load(file)' \in JournalPrefixes(log, log')
      /\ CutOnly'
    BY <1>1, WritePartLeaves
<1>3. JournalInv'
    BY <1>1, <1>2 DEF JournalInv, JournalTypes, InMemory
<1>4. Disk!Interrupted
    BY <1>2 DEF Disk!Interrupted, Disk!JournalPrefixes, JournalPrefixes
<1>. QED  BY <1>1, <1>3, <1>4 DEF DiskStep, Disk!Die

LEMMA ReplaceStep ==
    ASSUME JournalInv, NEW after \in Compacted \cup Bounded,
           Replace(after) \/ DieInReplace(after)
    PROVE  JournalInv' /\ DiskStep
<1>1. log' = after /\ Rewrite(after) /\ up /\ up' \in {up, FALSE}
    BY DEF Replace, DieInReplace
<1>2. after \in Log
    BY RewrittenType DEF JournalInv, JournalTypes
<1>3. /\ file' \in Seq(Line) /\ Load(file)' = after
      /\ complete' = TRUE /\ cut' = FALSE /\ after # Unreadable
    BY <1>1, <1>2, RewriteEffect
<1>4. JournalInv'
    BY <1>1, <1>2, <1>3 DEF JournalInv, JournalTypes, InMemory, CutOnly
<1>5. CASE up'
    <2>1. Disk!Change
        BY <1>1, <1>3, <1>5 DEF Disk!Change
    <2>. QED  BY <1>4, <2>1 DEF DiskStep
<1>6. CASE ~up'
    <2>1. Disk!Interrupted
        BY <1>1, <1>3 DEF Disk!Interrupted
    <2>2. Disk!Die
        BY <1>1, <1>6, <2>1 DEF Disk!Die
    <2>. QED  BY <1>4, <2>2 DEF DiskStep
<1>. QED  BY <1>4, <1>5, <1>6

LEMMA StartStep ==
    ASSUME JournalInv, Start
    PROVE  JournalInv' /\ DiskStep
<1>1. /\ ~up /\ up' = TRUE /\ Load(file) # Unreadable /\ log' = Load(file)
      /\ Rewrite(log') \/ UNCHANGED <<file, complete, cut>>
    BY DEF Start
<1>2. log' \in Log
    BY <1>1 DEF JournalInv, JournalTypes
<1>l. PICK lg \in Log : lg = log'
    BY <1>2
<1>3. CASE Rewrite(log')
    <2>1. Rewrite(lg)
        BY <1>3, <1>l DEF Rewrite
    <2>2. /\ file' \in Seq(Line) /\ Load(file)' = lg
          /\ complete' = TRUE /\ cut' = FALSE /\ lg # Unreadable
        BY <2>1, RewriteEffect
    <2>. QED
        BY <1>1, <1>l, <2>2
        DEF JournalInv, JournalTypes, InMemory, CutOnly, DiskStep, Disk!Start
<1>4. CASE UNCHANGED <<file, complete, cut>>
    <2>1. Load(file)' = Load(file)
        BY <1>4
    <2>. QED
        BY <1>1, <1>2, <1>4, <2>1
        DEF JournalInv, JournalTypes, InMemory, CutOnly, DiskStep, Disk!Start
<1>. QED  BY <1>1, <1>3, <1>4

LEMMA DieStep ==
    ASSUME JournalInv, Die
    PROVE  JournalInv' /\ DiskStep
<1>1. up /\ up' = FALSE /\ log' = log /\ file' = file /\ complete' = complete /\ cut' = cut
    BY DEF Die
<1>2. Load(file)' = Load(file)
    BY <1>1
<1>3. JournalInv'
    BY <1>1, <1>2 DEF JournalInv, JournalTypes, InMemory, CutOnly
<1>. QED  BY <1>1, <1>2, <1>3 DEF DiskStep, Disk!Die, Disk!Interrupted

LEMMA JournalStep ==
    ASSUME JournalInv, Next
    PROVE  JournalInv' /\ DiskStep
<1>1. ASSUME NEW after \in Submitted \cup Followed, Write(after) \/ DieInWrite(after)
      PROVE  JournalInv' /\ DiskStep
    BY <1>1, WriteStep, DieInWriteStep
<1>2. ASSUME NEW after \in Compacted \cup Bounded, Replace(after) \/ DieInReplace(after)
      PROVE  JournalInv' /\ DiskStep
    BY <1>2, ReplaceStep
<1>3. CASE Start
    BY <1>3, StartStep
<1>4. CASE Die
    BY <1>4, DieStep
<1>. QED  BY <1>1, <1>2, <1>3, <1>4 DEF Next

LEMMA JournalStutter ==
    ASSUME JournalInv, UNCHANGED vars
    PROVE  JournalInv' /\ UNCHANGED <<up, log, Load(file)>>
<1>1. up' = up /\ log' = log /\ file' = file /\ complete' = complete /\ cut' = cut
    BY DEF vars
<1>2. Load(file)' = Load(file)
    BY <1>1
<1>. QED  BY <1>1, <1>2 DEF JournalInv, JournalTypes, InMemory, CutOnly

LEMMA JournalInvHolds == Spec => []JournalInv
<1>1. Init => JournalInv
    BY JournalInvInit
<1>2. JournalInv /\ [Next]_vars => JournalInv'
    BY JournalStep, JournalStutter
<1>. QED  BY <1>1, <1>2, PTL DEF Spec

(* load_log accepts every file in which no append was cut since it was     *)
(* last rewritten, whatever was appended, truncated, compacted, installed  *)
(* or migrated.                                                            *)
THEOREM ReadableUnlessCutHolds == Spec => []ReadableUnlessCut
<1>1. JournalInv => ReadableUnlessCut
    BY DEF JournalInv, CutOnly, ReadableUnlessCut
<1>. QED  BY <1>1, JournalInvHolds, PTL

(* raft-log.json is what Raft takes it to be: it holds the log in memory   *)
(* after every write of RaftPersistence, and after a crash a log between   *)
(* two of its records, or load_log refuses it.                             *)
THEOREM JournalImplementsDurableLog == Spec => ImplementsDurableLog
<1>1. Init => Disk!Init
    BY DEF Init, Disk!Init
<1>2. JournalInv /\ [Next]_vars
          => [Disk!Change \/ Disk!Die \/ Disk!Start]_<<up, log, Load(file)>>
    BY JournalStep, JournalStutter DEF DiskStep
<1>. QED
    BY <1>1, <1>2, JournalInvHolds, PTL
    DEF Spec, ImplementsDurableLog, Disk!Spec
============================================================================
