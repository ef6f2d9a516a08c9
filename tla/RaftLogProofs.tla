--------------------------- MODULE RaftLogProofs ----------------------------
(***************************************************************************)
(* What the log operators return, for logs of any length over any set of   *)
(* commands.                                                               *)
(*                                                                         *)
(* A compacted log is described by the full log it would be had it never   *)
(* been compacted (Unfolds): what each operator does to a log is stated    *)
(* as what it does to the full log, which has no boundary.                 *)
(***************************************************************************)
EXTENDS RaftLog, FiniteSetsExt, NaturalsInduction, WellFoundedInduction,
        SequenceTheorems, TLAPS

-----------------------------------------------------------------------------
EntryOf(C) == [term : Nat, command : C]
LogOf(C) == [base : Nat, bterm : Nat, entries : Seq(EntryOf(C))]

-----------------------------------------------------------------------------
(* Least and greatest elements.                                            *)

LEMMA LeastNat ==
    ASSUME NEW S \in SUBSET Nat, S # {}
    PROVE  \E n \in S : \A m \in S : n <= m
<1>1. PICK n \in S : \A m \in S : <<m, n>> \notin OpToRel(<, Nat)
    BY NatLessThanWellFounded, WFMin, Zenon
<1>2. \A m \in S : ~(m < n)
    BY <1>1, Zenon DEF OpToRel
<1>. QED  BY <1>2

LEMMA GreatestNat ==
    ASSUME NEW b \in Nat, NEW S \in SUBSET (0..b), S # {}
    PROVE  \E n \in S : \A m \in S : n >= m
<1>. DEFINE T == {t \in Nat : b - t \in S}
<1>0. \A n \in S : n \in 0..b
    OBVIOUS
<1>1. \A n \in S : b - n \in T
    BY <1>0
<1>2. T \in SUBSET Nat /\ T # {}
    BY <1>1
<1>3. PICK t \in T : \A u \in T : t <= u
    BY <1>2, LeastNat
<1>4. \A m \in S : t <= b - m
    BY <1>1, <1>3
<1>5. \A m \in S : b - t >= m
    BY <1>0, <1>4
<1>. QED  BY <1>3, <1>5

LEMMA MaxOfTwo ==
    ASSUME NEW a \in Int, NEW b \in Int
    PROVE  Max({a, b}) = IF a >= b THEN a ELSE b
<1>. QED  BY DEF Max

LEMMA MinOfTwo ==
    ASSUME NEW a \in Int, NEW b \in Int
    PROVE  Min({a, b}) = IF a <= b THEN a ELSE b
<1>. QED  BY DEF Min

LEMMA MaxOfRange ==
    ASSUME NEW b \in Nat, NEW S \in SUBSET (0..b), S # {}
    PROVE  Max(S) \in S
<1>1. \E n \in S : \A m \in S : n >= m
    BY GreatestNat
<1>. QED  BY <1>1 DEF Max

-----------------------------------------------------------------------------
(* Logs.                                                                   *)

LEMMA LastIndexType ==
    ASSUME NEW C, NEW log \in LogOf(C)
    PROVE  LastIndex(log) \in Nat /\ LastIndex(log) >= log.base
<1>. QED  BY DEF LogOf, LastIndex

LEMMA LastTermType ==
    ASSUME NEW C, NEW log \in LogOf(C)
    PROVE  LastTerm(log) \in Nat
<1>1. CASE log.entries = <<>>
    BY <1>1 DEF LogOf, LastTerm
<1>2. CASE log.entries # <<>>
  <2>1. log.entries \in Seq(EntryOf(C))
      BY DEF LogOf
  <2>2. log.entries[Len(log.entries)] \in EntryOf(C)
      BY <1>2, <2>1, ElementOfSeq, EmptySeq, LenProperties
  <2>. QED  BY <1>2, <2>2 DEF LastTerm, EntryOf
<1>. QED  BY <1>1, <1>2

(* An index is known exactly when it is the base or retained.              *)
LEMMA TermAtType ==
    ASSUME NEW C, NEW log \in LogOf(C), NEW index \in Int
    PROVE  /\ TermAt(log, index) \in Nat \cup {NoTerm}
           /\ TermAt(log, index) # NoTerm
                 <=> log.base <= index /\ index <= LastIndex(log)
<1>1. CASE index = log.base
    BY <1>1 DEF LogOf, TermAt, NoTerm, LastIndex
<1>2. CASE index # log.base /\ Retains(log, index)
  <2>1. log.entries \in Seq(EntryOf(C)) /\ index - log.base \in 1..Len(log.entries)
      BY <1>2 DEF LogOf, Retains, LastIndex
  <2>2. EntryAt(log, index) \in EntryOf(C)
      BY <2>1, ElementOfSeq DEF EntryAt
  <2>. QED  BY <1>2, <2>2 DEF TermAt, EntryOf, Retains, LogOf, NoTerm
<1>3. CASE index # log.base /\ ~Retains(log, index)
    BY <1>3 DEF TermAt, LogOf, Retains, NoTerm, LastIndex
<1>. QED  BY <1>1, <1>2, <1>3

LEMMA SliceType ==
    ASSUME NEW S, NEW s \in Seq(S), NEW m \in Int, NEW n \in Int,
           1 <= m, n <= Len(s)
    PROVE  /\ SubSeq(s, m, n) \in Seq(S)
           /\ Len(SubSeq(s, m, n)) = IF m <= n THEN n - m + 1 ELSE 0
<1>1. \A k \in m..n : s[k] \in S
    BY ElementOfSeq, LenProperties
<1>. QED  BY <1>1, SubSeqProperties

LEMMA EntriesFromType ==
    ASSUME NEW C, NEW log \in LogOf(C), NEW index \in Int
    PROVE  EntriesFrom(log, index) \in Seq(EntryOf(C))
<1>1. log.entries \in Seq(EntryOf(C)) /\ log.base \in Nat
    BY DEF LogOf
<1>. DEFINE first == IF index > log.base THEN index - log.base ELSE 1
<1>2. first \in Int /\ 1 <= first
    BY <1>1
<1>3. Len(log.entries) \in Nat
    BY <1>1, LenProperties
<1>4. SubSeq(log.entries, first, Len(log.entries)) \in Seq(EntryOf(C))
  <2>. HIDE DEF first
  <2>. QED  BY <1>1, <1>2, <1>3, SliceType
<1>. QED  BY <1>4 DEF EntriesFrom

LEMMA AppendAllType ==
    ASSUME NEW C, NEW log \in LogOf(C), NEW entries \in Seq(EntryOf(C))
    PROVE  /\ AppendAll(log, entries) \in LogOf(C)
           /\ AppendAll(log, entries).base = log.base
<1>1. log.entries \o entries \in Seq(EntryOf(C))
    BY ConcatProperties DEF LogOf
<1>. QED  BY <1>1 DEF LogOf, AppendAll

LEMMA TruncateFromType ==
    ASSUME NEW C, NEW log \in LogOf(C), NEW index \in Int,
           index <= LastIndex(log) + 1
    PROVE  /\ TruncateFrom(log, index) \in LogOf(C)
           /\ TruncateFrom(log, index).base = log.base
<1>1. log.entries \in Seq(EntryOf(C)) /\ log.base \in Nat
    BY DEF LogOf
<1>2. index - log.base - 1 \in Int /\ index - log.base - 1 <= Len(log.entries)
    BY <1>1, LenProperties DEF LastIndex
<1>3. SubSeq(log.entries, 1, index - log.base - 1) \in Seq(EntryOf(C))
    BY <1>1, <1>2, SliceType
<1>. QED  BY <1>3 DEF LogOf, TruncateFrom

LEMMA CompactThroughType ==
    ASSUME NEW C, NEW log \in LogOf(C), NEW index \in Nat,
           TermAt(log, index) # NoTerm
    PROVE  /\ CompactThrough(log, index) \in LogOf(C)
           /\ CompactThrough(log, index).base = index
<1>1. TermAt(log, index) \in Nat
    BY TermAtType
<1>2. EntriesFrom(log, index + 1) \in Seq(EntryOf(C))
    BY EntriesFromType
<1>. QED  BY <1>1, <1>2 DEF LogOf, CompactThrough

LEMMA InstallBoundaryType ==
    ASSUME NEW C, NEW log \in LogOf(C), NEW index \in Nat, NEW term \in Nat
    PROVE  /\ InstallBoundary(log, index, term) \in LogOf(C)
           /\ InstallBoundary(log, index, term).base = index
<1>1. EntriesFrom(log, index + 1) \in Seq(EntryOf(C))
    BY EntriesFromType
<1>2. <<>> \in Seq(EntryOf(C))
    BY EmptySeq
<1>. QED  BY <1>1, <1>2 DEF LogOf, InstallBoundary

(* The first entry that is new or conflicts exists, and follows what the   *)
(* log retains.                                                            *)
LEMMA SynchronizeType ==
    ASSUME NEW C, NEW log \in LogOf(C), NEW entries \in Seq(EntryOf(C)),
           NEW prev \in Nat, TermAt(log, prev) # NoTerm
    PROVE  /\ Synchronize(log, prev, entries) \in LogOf(C)
           /\ Synchronize(log, prev, entries).base = log.base
<1>. DEFINE Differs(k) == TermAt(log, prev + k) # entries[k].term
            First(k) == Differs(k) /\ \A m \in 1..(k - 1) : ~Differs(m)
            first == CHOOSE k \in 1..Len(entries) : First(k)
<1>1. CASE \A k \in 1..Len(entries) : ~Differs(k)
    BY <1>1 DEF Synchronize
<1>2. CASE \E k \in 1..Len(entries) : Differs(k)
  <2>. DEFINE S == {k \in 1..Len(entries) : Differs(k)}
  <2>0. Len(entries) \in Nat
      BY LenProperties
  <2>1. PICK k \in S : \A m \in S : k <= m
      <3>1. S \in SUBSET Nat /\ S # {}
        BY <1>2, <2>0
    <3>. HIDE DEF S
    <3>. QED  BY <3>1, LeastNat
  <2>2. k \in 1..Len(entries) /\ First(k)
      BY <2>1, <2>0
  <2>3. first \in 1..Len(entries) /\ First(first)
      BY <2>2
  <2>. HIDE DEF first
  <2>4. prev + first <= LastIndex(log) + 1
    <3>1. CASE first = 1
        BY <3>1, TermAtType, LastIndexType
    <3>2. CASE first # 1
      <4>1. first - 1 \in 1..Len(entries) /\ first - 1 \in 1..(first - 1)
          BY <2>0, <2>3, <3>2
      <4>2. ~Differs(first - 1)
          BY <2>3, <4>1
      <4>3. entries[first - 1] \in EntryOf(C)
          BY <4>1, ElementOfSeq
      <4>4. TermAt(log, prev + (first - 1)) # NoTerm
          BY <4>2, <4>3 DEF NoTerm, EntryOf
      <4>5. prev + (first - 1) <= LastIndex(log)
          BY <2>0, <4>1, <4>4, TermAtType
      <4>. QED  BY <2>0, <2>3, <4>5, <4>1, LastIndexType
    <3>. QED  BY <3>1, <3>2
  <2>. DEFINE rest == SubSeq(entries, first, Len(entries))
              kept == TruncateFrom(log, prev + first)
  <2>5. rest \in Seq(EntryOf(C))
      BY <2>0, <2>3, SliceType
  <2>6. kept \in LogOf(C) /\ kept.base = log.base
      BY <2>0, <2>3, <2>4, TruncateFromType
  <2>7. Synchronize(log, prev, entries) = AppendAll(kept, rest)
      BY <1>2 DEF Synchronize, first
  <2>. HIDE DEF rest, kept
  <2>. QED  BY <2>5, <2>6, <2>7, AppendAllType
<1>. QED  BY <1>1, <1>2

LEMMA JournalPrefixesType ==
    ASSUME NEW C, NEW before \in LogOf(C), NEW after \in LogOf(C),
           NEW lg \in JournalPrefixes(before, after)
    PROVE  lg \in LogOf(C) /\ lg.base = before.base
<1>1. CASE lg = before
    BY <1>1
<1>2. CASE lg # before
  <2>1. PICK m \in 0..Len(after.entries) :
               lg = [before EXCEPT !.entries = SubSeq(after.entries, 1, m)]
      BY <1>2, Zenon DEF JournalPrefixes
  <2>2. after.entries \in Seq(EntryOf(C))
      BY DEF LogOf
  <2>3. SubSeq(after.entries, 1, m) \in Seq(EntryOf(C))
      BY <2>1, <2>2, LenProperties, SliceType
  <2>. QED  BY <2>1, <2>3 DEF LogOf
<1>. QED  BY <1>1, <1>2

-----------------------------------------------------------------------------
(* A log as it would be had it never been compacted: a full log gives the  *)
(* entry at every index, Blank where there is none.                        *)
Blank == [term |-> 0]
CellOf(C) == {e \in EntryOf(C) : e.term > 0} \cup {Blank}
FullOf(C) == [Nat -> CellOf(C)]

(* f is a full log behind lg: what lg retains, a boundary of the right     *)
(* term, entries of any content below it and none above.                   *)
Unfolds(lg, f) ==
    /\ f[0] = Blank
    /\ \A n \in Nat :
        /\ Retains(lg, n) => f[n] = EntryAt(lg, n)
        /\ n = lg.base => f[n].term = lg.bterm
        /\ 0 < n /\ n <= LastIndex(lg) => f[n].term > 0
        /\ n > LastIndex(lg) => f[n] = Blank

Agree(f, g, k) == \A m \in 0..k : f[m] = g[m]

Cut(f, k) == [n \in Nat |-> IF n <= k THEN f[n] ELSE Blank]

LEMMA CellFacts ==
    ASSUME NEW C, NEW f \in FullOf(C), NEW n \in Nat
    PROVE  /\ f[n] \in CellOf(C) /\ f[n].term \in Nat
           /\ f[n].term = 0 <=> f[n] = Blank
           /\ f[n].term > 0 => f[n] \in EntryOf(C)
<1>1. f[n] \in CellOf(C)
    BY DEF FullOf
<1>2. Blank.term = 0
    BY DEF Blank
<1>. QED  BY <1>1, <1>2 DEF CellOf, EntryOf

LEMMA CutType ==
    ASSUME NEW C, NEW f \in FullOf(C), NEW k \in Nat
    PROVE  /\ Cut(f, k) \in FullOf(C)
           /\ \A n \in Nat : Cut(f, k)[n] = IF n <= k THEN f[n] ELSE Blank
<1>1. \A n \in Nat : f[n] \in CellOf(C) /\ Blank \in CellOf(C)
    BY CellFacts DEF CellOf
<1>. QED  BY <1>1 DEF Cut, FullOf

LEMMA UnfoldsTermAt ==
    ASSUME NEW C, NEW lg \in LogOf(C), NEW f \in FullOf(C), Unfolds(lg, f),
           NEW n \in Nat, TermAt(lg, n) # NoTerm
    PROVE  TermAt(lg, n) = f[n].term /\ lg.base <= n /\ n <= LastIndex(lg)
<1>1. lg.base <= n /\ n <= LastIndex(lg)
    BY TermAtType
<1>. QED  BY <1>1 DEF TermAt, Unfolds

LEMMA UnfoldsLastTerm ==
    ASSUME NEW C, NEW lg \in LogOf(C), NEW f \in FullOf(C), Unfolds(lg, f)
    PROVE  LastTerm(lg) = f[LastIndex(lg)].term
<1>0. lg.entries \in Seq(EntryOf(C)) /\ lg.base \in Nat
    BY DEF LogOf
<1>1. CASE lg.entries = <<>>
  <2>1. LastIndex(lg) = lg.base
      BY <1>0, <1>1, EmptySeq DEF LastIndex
  <2>. QED  BY <1>0, <1>1, <2>1 DEF LastTerm, Unfolds
<1>2. CASE lg.entries # <<>>
  <2>1. Len(lg.entries) \in Nat /\ Len(lg.entries) > 0
      BY <1>0, <1>2, EmptySeq, LenProperties
  <2>2. Retains(lg, LastIndex(lg)) /\ LastIndex(lg) \in Nat
      BY <1>0, <2>1 DEF Retains, LastIndex
  <2>3. EntryAt(lg, LastIndex(lg)) = lg.entries[Len(lg.entries)]
    <3>1. LastIndex(lg) - lg.base = Len(lg.entries)
        BY <1>0, <2>1 DEF LastIndex
    <3>. QED  BY <3>1 DEF EntryAt
  <2>. QED  BY <1>2, <2>2, <2>3 DEF LastTerm, Unfolds
<1>. QED  BY <1>1, <1>2

-----------------------------------------------------------------------------
(* What the operators do to a full log.                                    *)

(* f with entries after its last index, which is last.                     *)
Extended(f, last, entries) ==
    [n \in Nat |-> IF n <= last THEN f[n]
                   ELSE IF n <= last + Len(entries) THEN entries[n - last]
                   ELSE Blank]

LEMMA UnfoldsAppendAll ==
    ASSUME NEW C, NEW lg \in LogOf(C), NEW f \in FullOf(C), Unfolds(lg, f),
           NEW entries \in Seq(EntryOf(C)),
           \A k \in 1..Len(entries) : entries[k].term > 0
    PROVE  LET g == Extended(f, LastIndex(lg), entries)
               after == AppendAll(lg, entries) IN
           /\ g \in FullOf(C) /\ Unfolds(after, g)
           /\ LastIndex(after) = LastIndex(lg) + Len(entries)
           /\ after \in LogOf(C) /\ after.base = lg.base
<1>. DEFINE g == Extended(f, LastIndex(lg), entries)
            after == AppendAll(lg, entries)
            l == LastIndex(lg)
<1>1. /\ l \in Nat /\ Len(entries) \in Nat /\ lg.base \in Nat /\ l >= lg.base
      /\ lg.entries \in Seq(EntryOf(C)) /\ Len(lg.entries) \in Nat
    BY LenProperties, LastIndexType DEF LogOf
<1>2. \A n \in Nat : g[n] = IF n <= l THEN f[n]
                            ELSE IF n <= l + Len(entries) THEN entries[n - l]
                            ELSE Blank
    BY DEF Extended
<1>3. \A n \in Nat : l < n /\ n <= l + Len(entries) =>
          /\ entries[n - l] \in EntryOf(C) /\ entries[n - l].term > 0
    BY <1>1, ElementOfSeq
<1>4. g \in FullOf(C)
  <2>1. ASSUME NEW n \in Nat  PROVE g[n] \in CellOf(C)
    <3>1. f[n] \in CellOf(C) /\ Blank \in CellOf(C)
        BY CellFacts DEF CellOf
    <3>2. l < n /\ n <= l + Len(entries) => entries[n - l] \in CellOf(C)
        BY <1>3 DEF CellOf
    <3>. HIDE DEF g, l
    <3>. QED  BY <1>1, <1>2, <3>1, <3>2
  <2>. QED  BY <2>1 DEF Extended, FullOf
<1>5. after \in LogOf(C) /\ after.base = lg.base /\ after.bterm = lg.bterm
      /\ after.entries = lg.entries \o entries
    BY AppendAllType DEF AppendAll, LogOf
<1>6. LastIndex(after) = l + Len(entries)
    BY <1>1, <1>5, ConcatProperties DEF LastIndex
<1>. HIDE DEF g, after
<1>7. ASSUME NEW n \in Nat, Retains(after, n)
      PROVE  g[n] = EntryAt(after, n)
  <2>1. lg.base < n /\ n <= l + Len(entries)
      BY <1>5, <1>6, <1>7 DEF Retains
  <2>2. CASE n <= l
    <3>1. Retains(lg, n) /\ n - lg.base \in 1..Len(lg.entries)
        BY <1>1, <2>1, <2>2 DEF Retains, LastIndex
    <3>2. (lg.entries \o entries)[n - lg.base] = lg.entries[n - lg.base]
        BY <1>1, <3>1, ConcatProperties
    <3>. QED  BY <1>2, <1>5, <2>2, <3>1, <3>2 DEF EntryAt, Unfolds
  <2>3. CASE ~(n <= l)
    <3>0. l = lg.base + Len(lg.entries)
        BY DEF LastIndex
    <3>1. n - lg.base \in Nat /\ n - lg.base > Len(lg.entries)
          /\ n - lg.base <= Len(lg.entries) + Len(entries)
          /\ n - lg.base - Len(lg.entries) = n - l
      <4>1. \A b, k, e \in Nat : n <= b + k + e /\ ~(n <= b + k) =>
                /\ n - b \in Nat /\ n - b > k /\ n - b <= k + e
                /\ n - b - k = n - (b + k)
          OBVIOUS
      <4>2. lg.base \in Nat /\ Len(lg.entries) \in Nat /\ Len(entries) \in Nat
          BY <1>1
      <4>. HIDE DEF l
      <4>. QED  BY ONLY n \in Nat, <2>1, <2>3, <3>0, <4>1, <4>2
    <3>2. PICK j \in Nat : j = n - lg.base
        BY <3>1
    <3>3. j \in 1..(Len(lg.entries) + Len(entries)) /\ ~(j <= Len(lg.entries))
      <4>1. Len(lg.entries) \in Nat /\ Len(entries) \in Nat
          BY <1>1
      <4>. QED  BY ONLY <3>1, <3>2, <4>1
    <3>4. (lg.entries \o entries)[j] = entries[j - Len(lg.entries)]
        BY <1>1, <3>3, ConcatProperties
    <3>. QED  BY <1>1, <1>2, <1>5, <2>1, <2>3, <3>1, <3>2, <3>4 DEF EntryAt
  <2>. QED  BY <2>2, <2>3
<1>8. Unfolds(after, g)
  <2>1. g[0] = Blank
      BY <1>1, <1>2 DEF Unfolds
  <2>2. ASSUME NEW n \in Nat
        PROVE  /\ n = after.base => g[n].term = after.bterm
               /\ 0 < n /\ n <= LastIndex(after) => g[n].term > 0
               /\ n > LastIndex(after) => g[n] = Blank
    <3>1. CASE n <= l
      <4>1. g[n] = f[n]
          BY <1>2, <3>1
      <4>2. n = lg.base => f[n].term = lg.bterm
          BY DEF Unfolds
      <4>3. 0 < n => f[n].term > 0
          BY <3>1 DEF Unfolds
      <4>4. ~(n > LastIndex(after))
          BY <1>1, <1>6, <3>1
      <4>. QED  BY <1>5, <4>1, <4>2, <4>3, <4>4
    <3>2. CASE ~(n <= l)
      <4>1. n # after.base
          BY <1>1, <1>5, <3>2
      <4>. HIDE DEF l
      <4>2. n <= l + Len(entries) => g[n].term > 0
        <5>1. l < n
            BY <1>1, <3>2
        <5>. QED  BY <1>2, <1>3, <3>2, <5>1
      <4>3. ~(n <= l + Len(entries)) => g[n] = Blank
          BY <1>2, <3>2
      <4>4. n \in Nat /\ l + Len(entries) \in Nat
          BY <1>1
      <4>. QED  BY ONLY <1>6, <4>1, <4>2, <4>3, <4>4
    <3>. QED  BY <3>1, <3>2
  <2>. QED  BY <1>7, <2>1, <2>2 DEF Unfolds
<1>. QED  BY <1>4, <1>5, <1>6, <1>8 DEF g, after

(* What follows index, counted from it.                                    *)
LEMMA EntriesAfter ==
    ASSUME NEW C, NEW lg \in LogOf(C), NEW index \in Nat,
           lg.base <= index, index <= LastIndex(lg)
    PROVE  LET rest == EntriesFrom(lg, index + 1) IN
           /\ Len(rest) = LastIndex(lg) - index
           /\ \A n \in Nat : index < n /\ n <= LastIndex(lg) =>
                 Retains(lg, n) /\ rest[n - index] = EntryAt(lg, n)
<1>. DEFINE rest == EntriesFrom(lg, index + 1)
            len == Len(lg.entries)
            b == lg.base
<1>1. lg.entries \in Seq(EntryOf(C)) /\ len \in Nat /\ b \in Nat
    BY LenProperties DEF LogOf
<1>2. LastIndex(lg) = b + len
    BY DEF LastIndex
<1>3. rest = SubSeq(lg.entries, index + 1 - b, len)
  <2>. DEFINE from == IF index + 1 > lg.base THEN (index + 1) - lg.base ELSE 1
  <2>1. from = index + 1 - b
      BY <1>1
  <2>2. rest = SubSeq(lg.entries, from, len)
      BY DEF EntriesFrom
  <2>. HIDE DEF from, b
  <2>. QED  BY <2>1, <2>2
<1>4. \A k \in (index + 1 - b)..len : lg.entries[k] \in EntryOf(C)
    BY <1>1, ElementOfSeq
<1>. HIDE DEF len, b
<1>5. index + 1 - b \in Int /\ 1 <= index + 1 - b
    BY <1>1 DEF b
<1>. DEFINE first == index + 1 - b
<1>6. /\ Len(SubSeq(lg.entries, first, len)) = IF first <= len THEN len - first + 1 ELSE 0
      /\ \A k \in 1..(len - first + 1) :
            SubSeq(lg.entries, first, len)[k] = lg.entries[first + k - 1]
  <2>1. first \in Int /\ 1 <= first /\ \A k \in first..len : lg.entries[k] \in EntryOf(C)
      BY <1>4, <1>5
  <2>. HIDE DEF first
  <2>. QED  BY <1>1, <2>1, SubSeqProperties
<1>7. Len(rest) = LastIndex(lg) - index
  <2>1. index <= b + len
      BY <1>2
  <2>2. (IF first <= len THEN len - first + 1 ELSE 0) = b + len - index
      BY <1>1, <2>1
  <2>. HIDE DEF rest, first
  <2>3. Len(rest) = b + len - index
      BY <1>3, <1>6, <2>2 DEF first
  <2>. QED  BY <1>1, <1>2, <2>3
<1>8. ASSUME NEW n \in Nat, index < n, n <= LastIndex(lg)
      PROVE  Retains(lg, n) /\ rest[n - index] = EntryAt(lg, n)
  <2>1. /\ n - index \in 1..(len - first + 1)
        /\ first + (n - index) - 1 = n - b
      BY <1>1, <1>2, <1>8
  <2>2. Retains(lg, n)
      BY <1>1, <1>8 DEF Retains, b
  <2>3. rest[n - index] = lg.entries[n - b]
    <3>. HIDE DEF rest
    <3>. QED  BY <1>3, <1>6, <2>1
  <2>. QED  BY <2>2, <2>3 DEF EntryAt, b
<1>. QED  BY <1>7, <1>8

(* Moving the base forward, within what lg retains.                        *)
LEMMA UnfoldsRebase ==
    ASSUME NEW C, NEW lg \in LogOf(C), NEW f \in FullOf(C), Unfolds(lg, f),
           NEW index \in Nat, lg.base <= index, index <= LastIndex(lg)
    PROVE  LET after == [base |-> index, bterm |-> f[index].term,
                         entries |-> EntriesFrom(lg, index + 1)] IN
           Unfolds(after, f) /\ LastIndex(after) = LastIndex(lg)
<1>. DEFINE rest == EntriesFrom(lg, index + 1)
            after == [base |-> index, bterm |-> f[index].term, entries |-> rest]
<1>1. /\ Len(rest) = LastIndex(lg) - index
      /\ \A n \in Nat : index < n /\ n <= LastIndex(lg) =>
            Retains(lg, n) /\ rest[n - index] = EntryAt(lg, n)
    BY EntriesAfter
<1>2. LastIndex(lg) \in Nat
    BY LastIndexType
<1>. HIDE DEF rest
<1>3. after.base = index /\ after.bterm = f[index].term /\ after.entries = rest
    OBVIOUS
<1>4. LastIndex(after) = LastIndex(lg)
  <2>1. LastIndex(after) = index + (LastIndex(lg) - index)
      BY <1>1, <1>3 DEF LastIndex
  <2>. QED  BY <1>2, <2>1
<1>. HIDE DEF after
<1>5. ASSUME NEW n \in Nat, Retains(after, n)
      PROVE  f[n] = EntryAt(after, n)
  <2>1. index < n /\ n <= LastIndex(lg)
      BY <1>3, <1>4, <1>5 DEF Retains
  <2>. QED  BY <1>1, <1>3, <2>1 DEF EntryAt, Unfolds
<1>. QED  BY <1>3, <1>4, <1>5 DEF Unfolds, after, rest

LEMMA UnfoldsCompactThrough ==
    ASSUME NEW C, NEW lg \in LogOf(C), NEW f \in FullOf(C), Unfolds(lg, f),
           NEW index \in Nat, TermAt(lg, index) # NoTerm
    PROVE  /\ Unfolds(CompactThrough(lg, index), f)
           /\ LastIndex(CompactThrough(lg, index)) = LastIndex(lg)
<1>1. lg.base <= index /\ index <= LastIndex(lg) /\ TermAt(lg, index) = f[index].term
    BY UnfoldsTermAt
<1>. QED  BY <1>1, UnfoldsRebase DEF CompactThrough

(* A full log that holds every index up to k, cut behind k.                *)
LEMMA UnfoldsCut ==
    ASSUME NEW C, NEW h \in FullOf(C), NEW k \in Nat, h[0] = Blank,
           \A n \in 1..k : h[n].term > 0,
           NEW lg \in LogOf(C), LastIndex(lg) = k, h[lg.base].term = lg.bterm,
           \A n \in Nat : Retains(lg, n) => EntryAt(lg, n) = h[n]
    PROVE  Unfolds(lg, Cut(h, k)) /\ Cut(h, k) \in FullOf(C)
<1>1. /\ Cut(h, k) \in FullOf(C)
      /\ \A n \in Nat : Cut(h, k)[n] = IF n <= k THEN h[n] ELSE Blank
    BY CutType
<1>2. lg.base \in Nat /\ lg.base <= k
    BY LastIndexType DEF LogOf
<1>3. ASSUME NEW n \in Nat
      PROVE  /\ Retains(lg, n) => Cut(h, k)[n] = EntryAt(lg, n)
             /\ n = lg.base => Cut(h, k)[n].term = lg.bterm
             /\ 0 < n /\ n <= k => Cut(h, k)[n].term > 0
             /\ n > k => Cut(h, k)[n] = Blank
  <2>1. Retains(lg, n) => n <= k
      BY DEF Retains
  <2>. QED  BY <1>1, <1>2, <2>1
<1>. QED  BY <1>1, <1>3 DEF Unfolds

(* install_snapshot_boundary above the base: the log keeps what follows a  *)
(* boundary it agrees with, and is empty behind any other.                 *)
LEMMA UnfoldsInstallBoundary ==
    ASSUME NEW C, NEW lg \in LogOf(C), NEW f \in FullOf(C), Unfolds(lg, f),
           NEW index \in Nat, NEW term \in Nat, lg.base < index,
           NEW h \in FullOf(C), h[0] = Blank, h[index].term = term,
           \A n \in 1..index : h[n].term > 0
    PROVE  LET after == InstallBoundary(lg, index, term) IN
           \/ /\ TermAt(lg, index) = term
              /\ Unfolds(after, f) /\ LastIndex(after) = LastIndex(lg)
              /\ index <= LastIndex(lg) /\ f[index].term = term
           \/ /\ TermAt(lg, index) # term
              /\ Unfolds(after, Cut(h, index)) /\ LastIndex(after) = index
              /\ index <= LastIndex(lg) => f[index].term # term
<1>. DEFINE after == InstallBoundary(lg, index, term)
<1>0. lg.base \in Nat
    BY DEF LogOf
<1>1. CASE TermAt(lg, index) = term
  <2>1. TermAt(lg, index) # NoTerm
      BY <1>1 DEF NoTerm
  <2>2. lg.base <= index /\ index <= LastIndex(lg) /\ f[index].term = term
      BY <1>1, <2>1, UnfoldsTermAt
  <2>3. after = [base |-> index, bterm |-> f[index].term,
                 entries |-> EntriesFrom(lg, index + 1)]
      BY <1>0, <1>1, <2>2 DEF InstallBoundary
  <2>. QED  BY <1>1, <2>2, <2>3, UnfoldsRebase
<1>2. CASE TermAt(lg, index) # term
  <2>1. after = [base |-> index, bterm |-> term, entries |-> <<>>]
      BY <1>0, <1>2 DEF InstallBoundary
  <2>2. after.base = index /\ after.bterm = term /\ after.entries = <<>>
      BY <2>1
  <2>3. after \in LogOf(C)
      BY InstallBoundaryType
  <2>. HIDE DEF after
  <2>4. LastIndex(after) = index
      BY <2>2 DEF LastIndex
  <2>5. \A n \in Nat : ~Retains(after, n)
      BY <2>2, <2>4 DEF Retains
  <2>6. Unfolds(after, Cut(h, index))
      BY <2>2, <2>3, <2>4, <2>5, UnfoldsCut
  <2>7. index <= LastIndex(lg) => f[index].term # term
    <3>1. index <= LastIndex(lg) => TermAt(lg, index) # NoTerm
        BY <1>0, TermAtType
    <3>. QED  BY <1>2, <3>1, UnfoldsTermAt
  <2>. QED  BY <1>2, <2>4, <2>6, <2>7 DEF after
<1>. QED  BY <1>1, <1>2

(* What is common to f and h is at most k long.                            *)
Replaces(f, h, k) == \A n \in Nat : f[n].term > 0 /\ Agree(f, h, n) => n <= k

(* Full logs that have an entry of the same term somewhere agree up to it. *)
Matches(f, h) ==
    \A n \in Nat : f[n].term > 0 /\ f[n].term = h[n].term => Agree(f, h, n)

LEMMA TruncateEffect ==
    ASSUME NEW C, NEW lg \in LogOf(C), NEW p \in Nat,
           lg.base < p, p <= LastIndex(lg) + 1
    PROVE  LET kept == TruncateFrom(lg, p) IN
           /\ kept \in LogOf(C) /\ kept.base = lg.base /\ kept.bterm = lg.bterm
           /\ LastIndex(kept) = p - 1
           /\ \A n \in Nat : Retains(kept, n) =>
                 Retains(lg, n) /\ n < p /\ EntryAt(kept, n) = EntryAt(lg, n)
<1>. DEFINE kept == TruncateFrom(lg, p)
            b == lg.base
            len == Len(lg.entries)
            last == p - b - 1
<1>1. lg.entries \in Seq(EntryOf(C)) /\ len \in Nat /\ b \in Nat
    BY LenProperties DEF LogOf
<1>2. /\ kept \in LogOf(C) /\ kept.base = b /\ kept.bterm = lg.bterm
      /\ kept.entries = SubSeq(lg.entries, 1, last)
    BY TruncateFromType DEF TruncateFrom, LogOf
<1>3. \A k \in 1..len : lg.entries[k] \in EntryOf(C)
    BY <1>1, ElementOfSeq
<1>4. LastIndex(lg) = b + len
    BY DEF LastIndex
<1>. HIDE DEF kept, b, len
<1>5. b < p /\ p <= b + len + 1
    BY <1>4 DEF b
<1>6. last \in Nat /\ last <= len
    BY <1>1, <1>5
<1>. HIDE DEF last
<1>7. /\ Len(SubSeq(lg.entries, 1, last)) = IF 1 <= last THEN last - 1 + 1 ELSE 0
      /\ \A k \in 1..(last - 1 + 1) : SubSeq(lg.entries, 1, last)[k] = lg.entries[1 + k - 1]
  <2>1. \A k \in 1..last : lg.entries[k] \in EntryOf(C)
      BY <1>3, <1>6, <1>1
  <2>. QED  BY <1>6, <2>1, SubSeqProperties
<1>8. Len(kept.entries) = last /\ \A k \in 1..last : kept.entries[k] = lg.entries[k]
  <2>1. \A k \in 1..last : k \in 1..(last - 1 + 1) /\ 1 + k - 1 = k
      BY <1>6
  <2>2. Len(SubSeq(lg.entries, 1, last)) = last
      BY <1>6, <1>7
  <2>. QED  BY <1>2, <1>7, <2>1, <2>2
<1>9. LastIndex(kept) = p - 1
    BY <1>1, <1>2, <1>8 DEF LastIndex, last
<1>10. ASSUME NEW n \in Nat, Retains(kept, n)
       PROVE  Retains(lg, n) /\ n < p /\ EntryAt(kept, n) = EntryAt(lg, n)
  <2>1. b < n /\ n <= p - 1
      BY <1>2, <1>9, <1>10 DEF Retains
  <2>2. n - b \in 1..last /\ n < p
      BY <1>1, <2>1 DEF last
  <2>3. Retains(lg, n)
      BY <1>1, <1>4, <1>5, <2>1 DEF Retains, b
  <2>4. kept.entries[n - b] = lg.entries[n - b]
      BY <1>8, <2>2
  <2>5. EntryAt(kept, n) = kept.entries[n - b] /\ EntryAt(lg, n) = lg.entries[n - b]
      BY <1>2 DEF EntryAt, b
  <2>. QED  BY <2>2, <2>3, <2>4, <2>5
<1>. QED  BY <1>2, <1>9, <1>10 DEF kept, b

(* The last of what a run of a log keeps, when it grows to h.              *)
LEMMA CutExtends ==
    ASSUME NEW C, NEW h \in FullOf(C), NEW p \in Nat, p > 0,
           NEW rest \in Seq(EntryOf(C)), NEW k \in Nat, k = p - 1 + Len(rest),
           \A n \in p..k : rest[n - (p - 1)] = h[n]
    PROVE  Extended(Cut(h, p - 1), p - 1, rest) = Cut(h, k)
<1>1. Len(rest) \in Nat /\ p - 1 \in Nat
    BY LenProperties
<1>2. \A n \in Nat : Cut(h, p - 1)[n] = IF n <= p - 1 THEN h[n] ELSE Blank
    BY <1>1, CutType
<1>3. \A n \in Nat : (IF n <= p - 1 THEN Cut(h, p - 1)[n]
                      ELSE IF n <= p - 1 + Len(rest) THEN rest[n - (p - 1)]
                      ELSE Blank) = IF n <= k THEN h[n] ELSE Blank
    BY <1>1, <1>2
<1>. QED  BY <1>3 DEF Extended, Cut

(* handle_append_entries against a leader's log h that holds what the      *)
(* request carries: the node already has all of it, or it drops what       *)
(* differs and has h up to the request's last entry.                       *)
LEMMA UnfoldsSynchronize ==
    ASSUME NEW C, NEW lg \in LogOf(C), NEW f \in FullOf(C), Unfolds(lg, f),
           NEW h \in FullOf(C), h[0] = Blank, Matches(f, h),
           NEW prev \in Nat, TermAt(lg, prev) = h[prev].term,
           NEW entries \in Seq(EntryOf(C)), NEW k \in Nat, k = prev + Len(entries),
           \A n \in 1..k : h[n].term > 0,
           \A m \in 1..Len(entries) : entries[m] = h[prev + m]
    PROVE  LET after == Synchronize(lg, prev, entries) IN
           \/ after = lg /\ k <= LastIndex(lg) /\ Agree(f, h, k)
           \/ /\ Unfolds(after, Cut(h, k)) /\ LastIndex(after) = k
              /\ Replaces(f, h, k)
<1>. DEFINE Differs(m) == TermAt(lg, prev + m) # entries[m].term
            First(m) == Differs(m) /\ \A l \in 1..(m - 1) : ~Differs(l)
            len == Len(entries)
            first == CHOOSE m \in 1..len : First(m)
            after == Synchronize(lg, prev, entries)
<1>0. len \in Nat
    BY LenProperties
<1>1. /\ lg.base <= prev /\ prev <= LastIndex(lg) /\ f[prev].term = h[prev].term
  <2>1. h[prev].term \in Nat
      BY CellFacts
  <2>2. TermAt(lg, prev) # NoTerm
      BY <2>1 DEF NoTerm
  <2>. QED  BY <2>2, UnfoldsTermAt
<1>2. Agree(f, h, prev)
  <2>1. CASE prev = 0
      BY <2>1 DEF Agree, Unfolds
  <2>2. CASE prev > 0
    <3>1. prev \in 1..k
        BY <1>0, <2>2
    <3>. QED  BY <1>1, <3>1 DEF Matches
  <2>. QED  BY <2>1, <2>2
<1>3. ASSUME NEW m \in 1..len, ~Differs(m)
      PROVE  prev + m <= LastIndex(lg) /\ Agree(f, h, prev + m)
  <2>1. prev + m \in 1..k /\ prev + m \in Nat
      BY <1>0
  <2>2. TermAt(lg, prev + m) = h[prev + m].term /\ h[prev + m].term > 0
      BY <1>3, <2>1
  <2>3. TermAt(lg, prev + m) # NoTerm
      BY <2>2 DEF NoTerm
  <2>4. TermAt(lg, prev + m) = f[prev + m].term /\ prev + m <= LastIndex(lg)
      BY <2>1, <2>3, UnfoldsTermAt
  <2>5. f[prev + m].term > 0 /\ f[prev + m].term = h[prev + m].term
      BY <2>2, <2>4
  <2>. QED  BY <2>1, <2>4, <2>5 DEF Matches
<1>4. CASE \A m \in 1..len : ~Differs(m)
  <2>1. after = lg
      BY <1>4 DEF Synchronize
  <2>2. k <= LastIndex(lg) /\ Agree(f, h, k)
    <3>1. CASE len = 0
        BY <1>1, <1>2, <3>1
    <3>2. CASE len > 0
      <4>1. len \in 1..len
          BY <1>0, <3>2
      <4>. HIDE DEF len, Differs
      <4>. QED  BY <1>3, <1>4, <4>1 DEF len
    <3>. QED  BY <1>0, <3>1, <3>2
  <2>. QED  BY <2>1, <2>2
<1>5. CASE \E m \in 1..len : Differs(m)
  <2>. DEFINE S == {m \in 1..len : Differs(m)}
  <2>1. PICK m \in S : \A l \in S : m <= l
    <3>. HIDE DEF Differs, after, first, len
    <3>1. S \in SUBSET Nat
        OBVIOUS
    <3>2. S # {}
        BY ONLY <1>5
    <3>. HIDE DEF S
    <3>. QED  BY <3>1, <3>2, LeastNat
  <2>2. m \in 1..len /\ First(m)
    <3>. HIDE DEF Differs, after, first, len
    <3>1. m \in 1..len /\ Differs(m)
        BY ONLY <2>1
    <3>2. ASSUME NEW l \in 1..(m - 1)  PROVE ~Differs(l)
      <4>1. l \in 1..len /\ ~(m <= l)
          BY <1>0, <3>1
      <4>. QED  BY <2>1, <4>1
    <3>. QED  BY <3>1, <3>2
  <2>3. first \in 1..len /\ First(first)
      BY <2>2
  <2>. DEFINE p == prev + first
              rest == SubSeq(entries, first, len)
              kept == TruncateFrom(lg, p)
  <2>4. after = AppendAll(kept, rest)
      BY <1>5 DEF Synchronize
  <2>. HIDE DEF first, after, Differs
  <2>5. p \in Nat /\ p > prev /\ p <= k /\ p > 0 /\ p - 1 \in Nat
      BY <1>0, <2>3
  <2>6. p - 1 <= LastIndex(lg) /\ Agree(f, h, p - 1)
    <3>1. CASE first = 1
        BY <1>1, <1>2, <3>1
    <3>2. CASE first # 1
      <4>1. first - 1 \in 1..len /\ first - 1 \in 1..(first - 1)
          BY <1>0, <2>3, <3>2
      <4>2. ~Differs(first - 1) /\ prev + (first - 1) = p - 1
          BY <1>0, <2>3, <4>1
      <4>. HIDE DEF p
      <4>. QED  BY <1>3, <4>1, <4>2
    <3>. QED  BY <3>1, <3>2
  <2>7. f[p].term # h[p].term
    <3>1. entries[first] = h[p] /\ h[p].term > 0
        BY <1>0, <2>3, <2>5
    <3>2. TermAt(lg, p) # h[p].term
        BY <2>3, <3>1 DEF Differs
    <3>3. CASE p <= LastIndex(lg)
      <4>1. TermAt(lg, p) # NoTerm
          BY <1>1, <2>5, <3>3, TermAtType DEF LogOf
      <4>. QED  BY <2>5, <3>2, <4>1, UnfoldsTermAt
    <3>4. CASE ~(p <= LastIndex(lg))
      <4>1. f[p] = Blank
          BY <2>5, <3>4, LastIndexType DEF Unfolds
      <4>. QED  BY <3>1, <4>1 DEF Blank
    <3>. QED  BY <3>3, <3>4
  <2>8. Replaces(f, h, k)
    <3>1. ASSUME NEW n \in Nat, Agree(f, h, n)
          PROVE  n < p
        BY <2>5, <2>7, <3>1 DEF Agree
    <3>. QED  BY <2>5, <3>1 DEF Replaces
  <2>9. rest \in Seq(EntryOf(C)) /\ Len(rest) = len - first + 1
        /\ \A j \in 1..(len - first + 1) : rest[j] = entries[first + j - 1]
    <3>1. first \in Nat /\ 1 <= first /\ first <= len
        BY <2>3
    <3>2. \A j \in first..len : entries[j] \in EntryOf(C)
        BY <3>1, <1>0, ElementOfSeq
    <3>3. /\ SubSeq(entries, first, len) \in Seq(EntryOf(C))
          /\ Len(SubSeq(entries, first, len)) = IF first <= len THEN len - first + 1 ELSE 0
          /\ \A j \in 1..(len - first + 1) :
                SubSeq(entries, first, len)[j] = entries[first + j - 1]
      <4>. HIDE DEF len
      <4>. QED  BY <1>0, <3>1, <3>2, SubSeqProperties
    <3>. QED  BY <3>1, <3>3
  <2>10. k = p - 1 + Len(rest)
      BY <1>0, <2>3, <2>9
  <2>11. \A n \in p..k : rest[n - (p - 1)] = h[n]
    <3>1. ASSUME NEW n \in p..k
          PROVE  rest[n - (p - 1)] = h[n]
      <4>1. /\ n - (p - 1) \in 1..(len - first + 1)
            /\ first + (n - (p - 1)) - 1 = n - prev
            /\ n - prev \in 1..len /\ prev + (n - prev) = n
          BY <1>0, <2>3, <2>5
      <4>. HIDE DEF rest, p
      <4>. QED  BY <2>9, <4>1
    <3>. QED  BY <3>1
  <2>12. /\ kept \in LogOf(C) /\ kept.base = lg.base /\ kept.bterm = lg.bterm
         /\ LastIndex(kept) = p - 1
         /\ \A n \in Nat : Retains(kept, n) =>
               Retains(lg, n) /\ n < p /\ EntryAt(kept, n) = EntryAt(lg, n)
    <3>1. lg.base < p /\ p <= LastIndex(lg) + 1
        BY <1>1, <2>5, <2>6, LastIndexType DEF LogOf
    <3>. HIDE DEF p
    <3>. QED  BY <2>5, <3>1, TruncateEffect
  <2>. HIDE DEF kept, rest, p
  <2>13. Unfolds(kept, Cut(h, p - 1)) /\ Cut(h, p - 1) \in FullOf(C)
    <3>1. h[kept.base].term = kept.bterm
      <4>1. lg.base \in Nat /\ lg.base \in 0..(p - 1)
          BY <1>1, <2>5 DEF LogOf
      <4>2. f[lg.base] = h[lg.base]
          BY <2>6, <4>1 DEF Agree
      <4>. QED  BY <2>12, <4>1, <4>2 DEF Unfolds
    <3>2. ASSUME NEW n \in Nat, Retains(kept, n)
          PROVE  EntryAt(kept, n) = h[n]
      <4>1. n \in 0..(p - 1) /\ Retains(lg, n) /\ EntryAt(kept, n) = EntryAt(lg, n)
          BY <2>5, <2>12, <3>2
      <4>. QED  BY <2>6, <4>1 DEF Agree, Unfolds
    <3>3. \A n \in 1..(p - 1) : h[n].term > 0
        BY <2>5
    <3>. QED  BY <2>5, <2>12, <3>1, <3>2, <3>3, UnfoldsCut
  <2>14. \A j \in 1..Len(rest) : rest[j].term > 0
    <3>1. ASSUME NEW j \in 1..Len(rest)
          PROVE  rest[j].term > 0
      <4>1. Len(rest) \in Nat
          BY <2>9, LenProperties
      <4>2. p - 1 + j \in p..k /\ p - 1 + j \in 1..k /\ (p - 1 + j) - (p - 1) = j
          BY <2>5, <2>10, <4>1
      <4>. QED  BY <2>11, <4>2
    <3>. QED  BY <3>1
  <2>15. Extended(Cut(h, p - 1), p - 1, rest) = Cut(h, k)
    <3>1. p \in Nat /\ p > 0 /\ rest \in Seq(EntryOf(C))
        BY <2>5, <2>9
    <3>. QED  BY ONLY <3>1, <2>10, <2>11, CutExtends, h \in FullOf(C), k \in Nat
  <2>16. /\ Unfolds(AppendAll(kept, rest), Extended(Cut(h, p - 1), LastIndex(kept), rest))
         /\ LastIndex(AppendAll(kept, rest)) = LastIndex(kept) + Len(rest)
      BY <2>9, <2>12, <2>13, <2>14, UnfoldsAppendAll
  <2>. QED  BY <2>4, <2>8, <2>10, <2>12, <2>15, <2>16 DEF after
<1>. QED  BY <1>4, <1>5

LEMMA UnfoldsHolds ==
    ASSUME NEW C, NEW lg \in LogOf(C), NEW f \in FullOf(C), Unfolds(lg, f),
           NEW n \in Nat
    PROVE  /\ f[n].term > 0 <=> 0 < n /\ n <= LastIndex(lg)
           /\ f[n].term \in Nat
<1>1. f[0] = Blank /\ Blank.term = 0 /\ f[n].term \in Nat
    BY CellFacts DEF Unfolds, Blank
<1>2. n > LastIndex(lg) => f[n] = Blank
    BY DEF Unfolds
<1>3. 0 < n /\ n <= LastIndex(lg) => f[n].term > 0
    BY DEF Unfolds
<1>4. LastIndex(lg) \in Nat
    BY LastIndexType
<1>. QED  BY <1>1, <1>2, <1>3, <1>4

(* Whatever part of the new entries a crash leaves in the journal, none of *)
(* what the two logs have in common is lost.                               *)
LEMMA UnfoldsJournalPrefixes ==
    ASSUME NEW C, NEW before \in LogOf(C), NEW f \in FullOf(C), Unfolds(before, f),
           NEW after \in LogOf(C), NEW g \in FullOf(C), Unfolds(after, g),
           after.base = before.base, after.bterm = before.bterm,
           NEW lg \in JournalPrefixes(before, after), lg # before
    PROVE  \E k \in Nat : /\ k <= LastIndex(after) /\ LastIndex(lg) = k
                          /\ Unfolds(lg, Cut(g, k)) /\ Replaces(f, g, k)
<1>. DEFINE Same(j) == j <= Len(before.entries) /\ before.entries[j] = after.entries[j]
            Common(j) == \A l \in 1..j : Same(l)
            b == before.base
            len == Len(after.entries)
<1>0. /\ before.entries \in Seq(EntryOf(C)) /\ after.entries \in Seq(EntryOf(C))
      /\ b \in Nat /\ len \in Nat /\ Len(before.entries) \in Nat
      /\ LastIndex(before) = b + Len(before.entries) /\ LastIndex(after) = b + len
    BY LenProperties DEF LogOf, LastIndex
<1>1. PICK m \in 0..len :
         /\ ~Common(m) \/ m = len \/ ~Common(m + 1)
         /\ lg = [before EXCEPT !.entries = SubSeq(after.entries, 1, m)]
    BY Zenon DEF JournalPrefixes
<1>2. /\ lg.base = b /\ lg.bterm = before.bterm /\ lg \in LogOf(C)
      /\ lg.entries = SubSeq(after.entries, 1, m)
    BY <1>1, JournalPrefixesType DEF LogOf
<1>. HIDE DEF len
<1>3. Len(lg.entries) = m /\ \A j \in 1..m : lg.entries[j] = after.entries[j]
  <2>1. m \in Int /\ 0 <= m /\ m <= len
      BY <1>0, <1>1
  <2>2. \A j \in 1..m : after.entries[j] \in EntryOf(C)
      BY <1>0, <2>1, ElementOfSeq DEF len
  <2>3. /\ Len(SubSeq(after.entries, 1, m)) = IF 1 <= m THEN m - 1 + 1 ELSE 0
        /\ \A j \in 1..(m - 1 + 1) : SubSeq(after.entries, 1, m)[j] = after.entries[1 + j - 1]
      BY <2>1, <2>2, SubSeqProperties
  <2>4. \A j \in 1..m : j \in 1..(m - 1 + 1) /\ 1 + j - 1 = j
      BY <2>1
  <2>5. Len(SubSeq(after.entries, 1, m)) = m
      BY <2>1, <2>3
  <2>. QED  BY <1>2, <2>3, <2>4, <2>5
<1>. DEFINE k == b + m
<1>4. k \in Nat /\ LastIndex(lg) = k /\ k <= LastIndex(after)
    BY <1>0, <1>1, <1>2, <1>3 DEF LastIndex
<1>5. Unfolds(lg, Cut(g, k))
  <2>1. g[0] = Blank /\ g[lg.base].term = lg.bterm
      BY <1>0, <1>2 DEF Unfolds
  <2>2. \A n \in 1..k : g[n].term > 0
      BY <1>0, <1>4 DEF Unfolds
  <2>3. ASSUME NEW n \in Nat, Retains(lg, n)
        PROVE  EntryAt(lg, n) = g[n]
    <3>1. b < n /\ n <= k
        BY <1>2, <1>4, <2>3 DEF Retains
    <3>2. n - b \in 1..m
      <4>1. n \in Nat /\ b \in Nat /\ m \in Nat /\ b < n /\ n <= b + m
          BY <1>0, <1>1, <3>1
      <4>2. \A x, y, z \in Nat : y < x /\ x <= y + z => x - y \in 1..z
          OBVIOUS
      <4>. HIDE DEF b
      <4>. QED  BY ONLY <4>1, <4>2
    <3>3. Retains(after, n)
        BY <1>0, <1>4, <3>1 DEF Retains
    <3>4. EntryAt(lg, n) = lg.entries[n - b] /\ EntryAt(after, n) = after.entries[n - b]
        BY <1>2 DEF EntryAt
    <3>. QED  BY <1>3, <3>2, <3>3, <3>4 DEF Unfolds
  <2>. HIDE DEF k
  <2>. QED  BY <1>2, <1>4, <2>1, <2>2, <2>3, UnfoldsCut
<1>6. ASSUME NEW n \in Nat, f[n].term > 0, Agree(f, g, n), ~(n <= k)
      PROVE  FALSE
  <2>1. n <= b + Len(before.entries) /\ n <= b + len
    <3>1. f[n] = g[n]
        BY <1>6 DEF Agree
    <3>. QED  BY <1>0, <1>6, <3>1, UnfoldsHolds
  <2>2. n - b \in Nat /\ m + 1 <= n - b /\ n - b <= len
    <3>1. n \in Nat /\ b \in Nat /\ m \in Nat /\ len \in Nat /\ ~(n <= b + m)
        BY <1>0, <1>1, <1>6
    <3>2. \A x, y, z, w \in Nat : ~(x <= y + z) /\ x <= y + w =>
              x - y \in Nat /\ z + 1 <= x - y /\ x - y <= w
        OBVIOUS
    <3>. HIDE DEF b
    <3>. QED  BY ONLY <2>1, <3>1, <3>2
  <2>3. Common(n - b)
    <3>1. ASSUME NEW j \in 1..(n - b)
          PROVE  Same(j)
      <4>1. /\ b + j \in Nat /\ b < b + j /\ b + j <= LastIndex(before)
            /\ b + j <= LastIndex(after) /\ b + j \in 0..n
            /\ (b + j) - b = j /\ j <= Len(before.entries)
        <5>1. \A x, y, z \in Nat : n - x \in Nat /\ n <= x + y /\ n <= x + z =>
                 \A i \in 1..(n - x) :
                    /\ x + i \in Nat /\ x < x + i /\ x + i <= x + y
                    /\ x + i <= x + z /\ x + i \in 0..n
                    /\ (x + i) - x = i /\ i <= y
            OBVIOUS
        <5>. HIDE DEF b, k, Same
        <5>. QED  BY <1>0, <2>1, <2>2, <5>1
      <4>2. Retains(before, b + j) /\ Retains(after, b + j)
          BY <4>1 DEF Retains
      <4>3. f[b + j] = g[b + j]
          BY <1>6, <4>1 DEF Agree
      <4>4. EntryAt(before, b + j) = EntryAt(after, b + j)
          BY <4>1, <4>2, <4>3 DEF Unfolds
      <4>. QED  BY <4>1, <4>4 DEF EntryAt
    <3>. QED  BY <3>1
  <2>4. Common(m) /\ Common(m + 1) /\ m # len
    <3>. HIDE DEF Same
    <3>1. \A l \in 1..(m + 1) : l \in 1..(n - b)
        BY <1>1, <2>2
    <3>2. \A l \in 1..m : l \in 1..(n - b)
        BY <1>1, <2>2
    <3>. QED  BY <1>0, <1>1, <2>2, <2>3, <3>1, <3>2
  <2>. QED  BY <1>1, <2>4
<1>. HIDE DEF k
<1>7. Replaces(f, g, k)
    BY <1>6 DEF Replaces
<1>. QED  BY <1>4, <1>5, <1>7
=============================================================================
