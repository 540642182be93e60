----------------------------- MODULE StoreProofs -----------------------------
(***************************************************************************)
(* What the durable store promises, for every number of appends and        *)
(* snapshots, every size of record and every bound on the journal: a crash *)
(* is never taken for corruption, an acknowledged record survives, and the *)
(* counters in memory describe the file.                                   *)
(*                                                                         *)
(* The inductive invariant says of the file that only its last record can  *)
(* be cut (CleanFile), and, once a call to the system has failed, that the *)
(* records acknowledged before are out of the reach of what the store may  *)
(* still cut off: of a truncation at its recorded length (Shielded), and of *)
(* a compaction, which replaces the snapshot by what was applied (Rebuilt). *)
(***************************************************************************)
EXTENDS DurableStore, TLAPS, WellFoundedInduction

Rows == [id : Nat, seq : Nat, len : Nat, at : Nat, got : Nat]

\* Records lie one behind the other.
Files == {f \in Seq(Rows) :
             /\ \A i \in DOMAIN f : /\ f[i].got \in 1..f[i].len
                                    /\ f[i].at = IF i = 1 THEN 0 ELSE EndOf(f[i - 1])
             /\ \A i, j \in DOMAIN f : i < j => EndOf(f[i]) <= f[j].at}

StoreTyped ==
    /\ file \in Files /\ snapshot \in Seq(Nat) /\ applied \in Seq(Nat)
    /\ phase \in {"Closed", "Opened", "Ready", "Compacting"}
    /\ last_sequence \in Nat /\ valid_cells \in Nat /\ torn_tail_pending \in BOOLEAN
    /\ calls \in Nat /\ snapshots \in Nat /\ acked \subseteq 1..calls
    /\ failed_at \in (0..calls) \cup {None}

\* What crashes alone leave: records in sequence, all whole but perhaps the last.
CleanFile(f) ==
    \A i \in DOMAIN f :
       /\ f[i].seq = i /\ f[i].id # 0 /\ f[i].len > kHeaderCells
       /\ i < Len(f) => f[i].got = f[i].len

\* The counters describe file f.
Counted(f) ==
    /\ last_sequence = scan_journal(f).records
    /\ valid_cells = Cells(Records(f))
    /\ torn_tail_pending = (scan_journal(f).stop = "TornTail")

\* The records that must survive.
Protected == {id \in acked : failed_at = None \/ id <= failed_at}

In(s, id) == \E i \in DOMAIN s : s[i] = id

\* Record id can be read from f, within the first n cells.
Readable(f, id, n) ==
    \E i \in DOMAIN f : /\ i <= scan_journal(f).records
                        /\ f[i].id = id /\ EndOf(f[i]) <= n

\* A truncation to the recorded length leaves them in the file.
Shielded ==
    phase # "Closed" /\ torn_tail_pending =>
       \A id \in Protected : In(snapshot, id) \/ Readable(file, id, valid_cells)

\* The caller has them, and a compaction begins with them in the snapshot.
Rebuilt ==
    /\ phase \in {"Ready", "Compacting"} => \A id \in Protected : In(applied, id)
    /\ phase = "Compacting" => \A id \in Protected : In(snapshot, id)

StoreInv ==
    /\ StoreTyped
    /\ failed_at = None => CleanFile(file)
    /\ failed_at = None /\ phase # "Closed" => Counted(file)
    /\ AckedSurvives /\ Shielded /\ Rebuilt

-----------------------------------------------------------------------------
(***************************************************************************)
(* Files                                                                   *)
(***************************************************************************)

\* A set of natural numbers that is not empty has a least element.
LEMMA LeastOf ==
    ASSUME NEW T, T \subseteq Nat, T # {}
    PROVE  \E n \in T : \A m \in T : n <= m
<1> DEFINE R == OpToRel(<, Nat)
<1>1. IsWellFoundedOn(R, Nat)
  BY NatLessThanWellFounded, Zenon
<1>2. \A x, y \in Nat : x < y => <<x, y>> \in R
  BY DEF OpToRel
<1> HIDE DEF R
<1>3. PICK n \in T : \A m \in T : ~(<<m, n>> \in R)
  BY <1>1, WFMin, Zenon
<1>4. ASSUME NEW m \in T PROVE n <= m
  <2>1. m \in Nat /\ n \in Nat
    OBVIOUS
  <2>2. ~(m < n)
    BY <1>2, <1>3, <2>1, Zenon
  <2> QED BY <2>1, <2>2
<1> QED BY <1>4

\* Before finds the first record that is in S, or the end of the file.
LEMMA BeforeDef ==
    ASSUME NEW f, Len(f) \in Nat, NEW S
    PROVE  LET n == Before(f, S) IN
           /\ n \in 0..Len(f)
           /\ \A i \in 1..n : i \notin S
           /\ n < Len(f) => n + 1 \in S
<1> DEFINE T == {m \in 1..(Len(f) + 1) : m \in S \/ m = Len(f) + 1}
<1>1. T \subseteq Nat /\ Len(f) + 1 \in T
  OBVIOUS
<1>2. PICK m \in T : \A k \in T : m <= k
  BY <1>1, LeastOf, Zenon
<1>3. /\ m - 1 \in 0..Len(f)
      /\ S \cap (1..(m - 1)) = {}
      /\ m - 1 < Len(f) => (m - 1) + 1 \in S
  BY <1>2
<1>4. \E n \in 0..Len(f) : EndsBefore(f, S, n)
  BY <1>3 DEF EndsBefore
<1>5. Before(f, S) \in 0..Len(f) /\ EndsBefore(f, S, Before(f, S))
  BY <1>4, Zenon DEF Before
<1> QED BY <1>5 DEF EndsBefore

\* The records of a file.
LEMMA FileRow ==
    ASSUME NEW f \in Files
    PROVE  /\ f \in Seq(Rows) /\ Len(f) \in Nat /\ DOMAIN f = 1..Len(f)
           /\ \A i \in DOMAIN f :
                 /\ f[i].id \in Nat /\ f[i].seq \in Nat /\ f[i].len \in Nat
                 /\ f[i].at \in Nat /\ f[i].got \in 1..f[i].len /\ EndOf(f[i]) \in Nat
                 /\ f[i].at = IF i = 1 THEN 0 ELSE EndOf(f[i - 1])
           /\ \A i, j \in DOMAIN f : i <= j => EndOf(f[i]) <= EndOf(f[j])
           /\ Cells(f) \in Nat
<1>1. f \in Seq(Rows) /\ Len(f) \in Nat /\ DOMAIN f = 1..Len(f)
  BY DEF Files
<1>2. ASSUME NEW i \in DOMAIN f
      PROVE  /\ f[i].id \in Nat /\ f[i].seq \in Nat /\ f[i].len \in Nat
             /\ f[i].at \in Nat /\ f[i].got \in 1..f[i].len /\ EndOf(f[i]) \in Nat
             /\ f[i].at = IF i = 1 THEN 0 ELSE EndOf(f[i - 1])
  <2>1. f[i] \in Rows /\ f[i].got \in 1..f[i].len
        /\ f[i].at = IF i = 1 THEN 0 ELSE EndOf(f[i - 1])
    BY <1>1 DEF Files
  <2> QED BY <2>1 DEF Rows, EndOf
<1>3. ASSUME NEW i \in DOMAIN f, NEW j \in DOMAIN f, i <= j PROVE EndOf(f[i]) <= EndOf(f[j])
  <2>1. i < j => EndOf(f[i]) <= f[j].at
    BY DEF Files
  <2>2. EndOf(f[j]) = f[j].at + f[j].got
    BY DEF EndOf
  <2> QED BY <1>1, <1>2, <1>3, <2>1, <2>2
<1>4. Cells(f) \in Nat
  BY <1>1, <1>2 DEF Cells
<1> QED BY <1>1, <1>2, <1>3, <1>4

\* The first n records of a file.
LEMMA PrefixFile ==
    ASSUME NEW f \in Files, NEW n \in 0..Len(f)
    PROVE  LET g == SubSeq(f, 1, n) IN
           /\ g \in Files /\ Len(g) = n /\ \A i \in 1..n : g[i] = f[i]
           /\ Cells(g) = IF n = 0 THEN 0 ELSE EndOf(f[n])
<1> DEFINE g == SubSeq(f, 1, n)
<1>1. f \in Seq(Rows) /\ Len(f) \in Nat /\ DOMAIN f = 1..Len(f)
  BY FileRow
<1>2. g \in Seq(Rows) /\ Len(g) = n /\ DOMAIN g = 1..n /\ \A i \in 1..n : g[i] = f[i]
  BY <1>1
<1> HIDE DEF g
<1>3. \A i \in DOMAIN g : /\ g[i].got \in 1..g[i].len
                          /\ g[i].at = IF i = 1 THEN 0 ELSE EndOf(g[i - 1])
  BY <1>1, <1>2 DEF Files
<1>4. \A i, j \in DOMAIN g : i < j => EndOf(g[i]) <= g[j].at
  BY <1>1, <1>2 DEF Files
<1>5. Cells(g) = IF n = 0 THEN 0 ELSE EndOf(f[n])
  BY <1>1, <1>2 DEF Cells
<1> QED BY <1>2, <1>3, <1>4, <1>5, Zenon DEF Files, g

\* A record, or its first cells, at the end of a file.
LEMMA WriteFile ==
    ASSUME NEW f \in Files, NEW r, r.id \in Nat, r.seq \in Nat, r.len \in Nat,
           NEW k \in 0..r.len
    PROVE  LET g == Write(f, r, k) IN
           /\ g \in Files /\ Cells(g) = Cells(f) + k
           /\ Len(g) = IF k = 0 THEN Len(f) ELSE Len(f) + 1
           /\ \A i \in DOMAIN f : i \in DOMAIN g /\ g[i] = f[i]
           /\ k # 0 => /\ g[Len(f) + 1].id = r.id /\ g[Len(f) + 1].seq = r.seq
                       /\ g[Len(f) + 1].len = r.len /\ g[Len(f) + 1].got = k
<1> DEFINE row == [id |-> r.id, seq |-> r.seq, len |-> r.len, at |-> Cells(f), got |-> k]
           g == Append(f, row)
<1>1. CASE k = 0
  BY <1>1, FileRow DEF Write
<1>2. CASE k # 0
  <2>1. /\ f \in Seq(Rows) /\ Len(f) \in Nat /\ DOMAIN f = 1..Len(f) /\ Cells(f) \in Nat
        /\ \A i \in DOMAIN f : EndOf(f[i]) \in Nat
        /\ \A i, j \in DOMAIN f : i <= j => EndOf(f[i]) <= EndOf(f[j])
    BY FileRow
  <2>2. row \in Rows /\ row.got \in 1..row.len /\ row.at = Cells(f) /\ EndOf(row) = Cells(f) + k
        /\ row.id = r.id /\ row.seq = r.seq /\ row.len = r.len /\ row.got = k
    BY <1>2, <2>1 DEF Rows, EndOf
  <2> HIDE DEF row
  <2>3. /\ g \in Seq(Rows) /\ Len(g) = Len(f) + 1 /\ DOMAIN g = 1..(Len(f) + 1)
        /\ \A i \in DOMAIN f : g[i] = f[i]
        /\ g[Len(f) + 1] = row
    BY <2>1, <2>2
  <2> HIDE DEF g
  <2>4. \A i \in DOMAIN f : EndOf(f[i]) <= Cells(f)
    BY <2>1 DEF Cells
  <2>5. \A i \in DOMAIN g : /\ g[i].got \in 1..g[i].len
                            /\ g[i].at = IF i = 1 THEN 0 ELSE EndOf(g[i - 1])
    <3> SUFFICES ASSUME NEW i \in DOMAIN g
                 PROVE  g[i].got \in 1..g[i].len
                        /\ g[i].at = IF i = 1 THEN 0 ELSE EndOf(g[i - 1])
      OBVIOUS
    <3>1. CASE i \in DOMAIN f
      BY <2>1, <2>3, <3>1 DEF Files
    <3>2. CASE i = Len(f) + 1
      BY <2>1, <2>2, <2>3, <3>2 DEF Cells
    <3> QED BY <2>1, <2>3, <3>1, <3>2
  <2>6. \A i, j \in DOMAIN g : i < j => EndOf(g[i]) <= g[j].at
    <3> SUFFICES ASSUME NEW i \in DOMAIN g, NEW j \in DOMAIN g, i < j
                 PROVE  EndOf(g[i]) <= g[j].at
      OBVIOUS
    <3>1. CASE j \in DOMAIN f
      BY <2>1, <2>3, <3>1 DEF Files
    <3>2. CASE j = Len(f) + 1
      BY <2>1, <2>2, <2>3, <2>4, <3>2
    <3> QED BY <2>1, <2>3, <3>1, <3>2
  <2>7. g \in Files
    BY <2>3, <2>5, <2>6 DEF Files
  <2>8. Cells(g) = Cells(f) + k
    BY <2>1, <2>2, <2>3 DEF Cells
  <2>9. Write(f, r, k) = g
    BY <1>2 DEF Write, g, row
  <2> QED BY <1>2, <2>1, <2>2, <2>3, <2>7, <2>8, <2>9
<1> QED BY <1>1, <1>2

\* ftruncate leaves the records that end in the first n cells.
LEMMA TruncateFile ==
    ASSUME NEW f \in Files, NEW n \in Nat
    PROVE  LET g == truncate_file(f, n) IN
           /\ g \in Files
           /\ \A i \in DOMAIN f : EndOf(f[i]) <= n => i \in DOMAIN g /\ g[i] = f[i]
<1> DEFINE whole == Before(f, {i \in DOMAIN f : EndOf(f[i]) > n})
           kept == SubSeq(f, 1, whole)
           rest == n - Cells(kept)
           r == IF whole < Len(f) THEN f[whole + 1] ELSE Hole(rest)
           g == Write(kept, r, rest)
<1>1. /\ Len(f) \in Nat /\ DOMAIN f = 1..Len(f)
      /\ \A i \in DOMAIN f :
            /\ f[i].id \in Nat /\ f[i].seq \in Nat /\ f[i].len \in Nat
            /\ f[i].at \in Nat /\ f[i].got \in 1..f[i].len /\ EndOf(f[i]) \in Nat
            /\ f[i].at = IF i = 1 THEN 0 ELSE EndOf(f[i - 1])
      /\ \A i, j \in DOMAIN f : i <= j => EndOf(f[i]) <= EndOf(f[j])
  BY FileRow
<1>2. /\ whole \in 0..Len(f)
      /\ \A i \in 1..whole : EndOf(f[i]) <= n
      /\ whole < Len(f) => EndOf(f[whole + 1]) > n
  <2> DEFINE S == {i \in DOMAIN f : EndOf(f[i]) > n}
  <2> HIDE DEF S
  <2>1. /\ whole \in 0..Len(f)
        /\ \A i \in 1..whole : i \notin S
        /\ whole < Len(f) => whole + 1 \in S
    BY <1>1, BeforeDef DEF S
  <2> HIDE DEF whole
  <2>2. \A i \in DOMAIN f : IF i \in S THEN EndOf(f[i]) > n ELSE EndOf(f[i]) <= n
    BY <1>1 DEF S
  <2>3. /\ \A i \in 1..whole : i \in DOMAIN f
        /\ whole < Len(f) => whole + 1 \in DOMAIN f
    BY <1>1, <2>1
  <2> QED BY <2>1, <2>2, <2>3, Zenon
<1> HIDE DEF whole
<1>3. /\ kept \in Files /\ Len(kept) = whole /\ \A i \in 1..whole : kept[i] = f[i]
      /\ Cells(kept) = IF whole = 0 THEN 0 ELSE EndOf(f[whole])
  BY <1>2, PrefixFile
<1> HIDE DEF kept
<1>4. rest \in Nat
  BY <1>1, <1>2, <1>3
<1>5. r.id \in Nat /\ r.seq \in Nat /\ r.len \in Nat /\ rest \in 0..r.len
  <2>1. CASE whole < Len(f)
    <3>1. EndOf(f[whole + 1]) = f[whole + 1].at + f[whole + 1].got
      BY DEF EndOf
    <3>2. whole + 1 \in DOMAIN f /\ (whole + 1) - 1 = whole
      BY <1>1, <1>2, <2>1
    <3>3. f[whole + 1].at = IF whole + 1 = 1 THEN 0 ELSE EndOf(f[(whole + 1) - 1])
      BY <1>1, <3>2, Zenon
    <3>4. f[whole + 1].at = Cells(kept)
      BY <1>2, <1>3, <3>2, <3>3
    <3> QED BY <1>1, <1>2, <1>4, <2>1, <3>1, <3>2, <3>4, SMTT(20)
  <2>2. CASE ~(whole < Len(f))
    BY <1>4, <2>2 DEF Hole
  <2> QED BY <2>1, <2>2
<1> HIDE DEF rest, r
<1>6. g \in Files /\ \A i \in DOMAIN kept : i \in DOMAIN g /\ g[i] = kept[i]
  BY <1>3, <1>5, WriteFile
<1> HIDE DEF g
<1>7. DOMAIN kept = 1..whole
  BY <1>3, FileRow
<1>8. ASSUME NEW i \in DOMAIN f, EndOf(f[i]) <= n PROVE i \in 1..whole
  <2> SUFFICES ASSUME i > whole PROVE FALSE
    BY <1>1, <1>2
  <2>1. whole + 1 \in DOMAIN f /\ whole + 1 <= i /\ whole < Len(f)
    BY <1>1, <1>2
  <2>2. EndOf(f[whole + 1]) <= EndOf(f[i])
    BY <1>1, <2>1, Zenon
  <2> QED BY <1>1, <1>2, <1>8, <2>1, <2>2
<1>9. truncate_file(f, n) = g
  BY DEF truncate_file, g, r, rest, kept, whole
<1> QED BY <1>3, <1>6, <1>7, <1>8, <1>9

\* The records a scan delivers are whole and in sequence; it stops at the end of
\* the file or at a record that is not.
LEMMA ScanDef ==
    ASSUME NEW f \in Files
    PROVE  LET n == scan_journal(f).records IN
           /\ n \in 0..Len(f)
           /\ \A i \in 1..n : f[i].got = f[i].len /\ f[i].seq = i
           /\ n < Len(f) => /\ f[n + 1].got < f[n + 1].len \/ f[n + 1].seq # n + 1
                            /\ scan_journal(f).stop = Classify(f, n + 1)
           /\ n = Len(f) => scan_journal(f).stop = "Complete"
<1> DEFINE n == Before(f, Irregular(f))
<1>1. /\ Len(f) \in Nat /\ DOMAIN f = 1..Len(f)
      /\ \A i \in DOMAIN f : f[i].len \in Nat /\ f[i].got \in 1..f[i].len
  BY FileRow
<1>2. /\ n \in 0..Len(f)
      /\ \A i \in 1..n : i \notin Irregular(f)
      /\ n < Len(f) => n + 1 \in Irregular(f)
  BY <1>1, BeforeDef
<1>3. /\ scan_journal(f).records = n
      /\ scan_journal(f).stop = IF n = Len(f) THEN "Complete" ELSE Classify(f, n + 1)
  BY DEF scan_journal
<1> HIDE DEF n
<1>4. \A i \in DOMAIN f : i \in Irregular(f) <=> (f[i].got < f[i].len \/ f[i].seq # i)
  BY DEF Irregular
<1>5. \A i \in 1..n : i \in DOMAIN f
  BY <1>1, <1>2
<1>6. \A i \in 1..n : f[i].got = f[i].len /\ f[i].seq = i
  BY <1>1, <1>2, <1>4, <1>5
<1>7. n < Len(f) => n + 1 \in DOMAIN f
  BY <1>1, <1>2
<1> QED BY <1>1, <1>2, <1>3, <1>4, <1>6, <1>7, Zenon

\* A scan delivers at least the records that are as they should be.
LEMMA ScanAtLeast ==
    ASSUME NEW f \in Files, NEW k \in 0..Len(f),
           \A i \in 1..k : f[i].got = f[i].len /\ f[i].seq = i
    PROVE  k <= scan_journal(f).records
<1>1. Len(f) \in Nat /\ DOMAIN f = 1..Len(f) /\ \A i \in DOMAIN f : f[i].len \in Nat
  BY FileRow
<1>2. PICK n : n = scan_journal(f).records
  OBVIOUS
<1>3. n \in 0..Len(f) /\ (n < Len(f) => f[n + 1].got < f[n + 1].len \/ f[n + 1].seq # n + 1)
  BY <1>2, ScanDef
<1> SUFFICES ASSUME n < k PROVE FALSE
  BY <1>1, <1>2, <1>3
<1>4. n + 1 \in 1..k /\ n + 1 \in DOMAIN f
  BY <1>1, <1>3
<1>5. f[n + 1].got = f[n + 1].len /\ f[n + 1].seq = n + 1 /\ f[n + 1].len \in Nat
  BY <1>1, <1>4, Zenon
<1> QED BY <1>1, <1>3, <1>5

\* A record that can be read stays so in a file that begins the same way.
LEMMA StillRead ==
    ASSUME NEW f \in Files, NEW g \in Files, NEW k \in 1..scan_journal(f).records,
           \A i \in 1..k : i \in DOMAIN g /\ g[i] = f[i]
    PROVE  k \in 1..scan_journal(g).records
<1>1. /\ Len(f) \in Nat /\ Len(g) \in Nat /\ DOMAIN g = 1..Len(g)
      /\ scan_journal(f).records \in 0..Len(f) /\ scan_journal(g).records \in 0..Len(g)
      /\ \A i \in 1..scan_journal(f).records : f[i].got = f[i].len /\ f[i].seq = i
  BY FileRow, ScanDef
<1>2. k \in Nat /\ k \in 1..k
  BY <1>1
<1>3. k \in 0..Len(g)
  BY <1>1, <1>2
<1>4. \A i \in 1..k : g[i].got = g[i].len /\ g[i].seq = i
  BY <1>1, <1>2
<1> QED BY <1>1, <1>2, <1>3, <1>4, ScanAtLeast

\* The part of a file that a scan delivers.
LEMMA RecordsFile ==
    ASSUME NEW f \in Files
    PROVE  LET n == scan_journal(f).records IN
           /\ Records(f) \in Files /\ Len(Records(f)) = n
           /\ \A i \in 1..n : Records(f)[i] = f[i]
           /\ Cells(Records(f)) = IF n = 0 THEN 0 ELSE EndOf(f[n])
           /\ Cells(Records(f)) \in Nat
<1>1. scan_journal(f).records \in 0..Len(f)
  BY ScanDef
<1>2. Records(f) = SubSeq(f, 1, scan_journal(f).records)
  BY DEF Records
<1> QED BY <1>1, <1>2, PrefixFile, FileRow

\* What a crash leaves is whole, or ends in a torn record.
LEMMA CleanScan ==
    ASSUME NEW f \in Files, CleanFile(f)
    PROVE  LET n == scan_journal(f).records IN
           \/ n = Len(f) /\ scan_journal(f).stop = "Complete"
           \/ n + 1 = Len(f) /\ scan_journal(f).stop = "TornTail"
<1> DEFINE n == scan_journal(f).records
<1>1. /\ Len(f) \in Nat /\ DOMAIN f = 1..Len(f)
      /\ \A i \in DOMAIN f : /\ f[i].len \in Nat /\ f[i].got \in 1..f[i].len
                             /\ f[i].at \in Nat
  BY FileRow
<1>2. /\ n \in 0..Len(f)
      /\ n < Len(f) => /\ f[n + 1].got < f[n + 1].len \/ f[n + 1].seq # n + 1
                       /\ scan_journal(f).stop = Classify(f, n + 1)
      /\ n = Len(f) => scan_journal(f).stop = "Complete"
  BY ScanDef
<1>3. n \in Nat /\ Len(f) \in Nat
  BY FileRow, ScanDef
<1> HIDE DEF n
<1>4. CASE n = Len(f)
  BY <1>2, <1>4 DEF n
<1>5. CASE n < Len(f)
  <2>1. PICK r : r = f[n + 1]
    OBVIOUS
  <2>2. /\ n + 1 \in DOMAIN f /\ r.len \in Nat /\ r.got \in 1..r.len /\ r.at \in Nat
        /\ r.seq = n + 1 /\ r.id # 0 /\ r.len > kHeaderCells
        /\ n + 1 < Len(f) => r.got = r.len
    BY <1>1, <1>2, <1>5, <2>1 DEF CleanFile
  <2>3. r.got < r.len /\ n + 1 = Len(f)
    <3>1. r.got < r.len
      BY <1>2, <1>5, <2>1, <2>2, Zenon
    <3>2. r.got # r.len
      BY <2>2, <3>1
    <3>3. ~(n + 1 < Len(f))
      BY <2>2, <3>2, Zenon
    <3> QED BY <1>5, <1>3, <3>1, <3>3
  <2>4. Cells(f) - r.at = r.got
    BY <1>1, <2>1, <2>2, <2>3 DEF Cells, EndOf
  <2>5. Classify(f, n + 1) = "TornTail"
    BY <2>1, <2>2, <2>3, <2>4 DEF Classify, kHeaderCells
  <2> QED BY <1>2, <1>5, <2>3, <2>5 DEF n
<1> QED BY <1>1, <1>2, <1>4, <1>5

\* Truncated to the end of what a scan delivers, a file is what it delivers.
LEMMA TruncateTail ==
    ASSUME NEW f \in Files, scan_journal(f).records < Len(f)
    PROVE  truncate_file(f, Cells(Records(f))) = Records(f)
<1> DEFINE n == scan_journal(f).records
           c == Cells(Records(f))
           S == {i \in DOMAIN f : EndOf(f[i]) > c}
           whole == Before(f, S)
<1>1. /\ Len(f) \in Nat /\ DOMAIN f = 1..Len(f)
      /\ \A i \in DOMAIN f :
            /\ f[i].len \in Nat /\ f[i].at \in Nat /\ f[i].got \in 1..f[i].len
            /\ EndOf(f[i]) \in Nat
            /\ f[i].at = IF i = 1 THEN 0 ELSE EndOf(f[i - 1])
      /\ \A i, j \in DOMAIN f : i <= j => EndOf(f[i]) <= EndOf(f[j])
  BY FileRow
<1>2. /\ n \in 0..Len(f) /\ c \in Nat
      /\ c = IF n = 0 THEN 0 ELSE EndOf(f[n])
  BY ScanDef, RecordsFile
<1>3. n < Len(f) /\ Records(f) = SubSeq(f, 1, n) /\ c = Cells(SubSeq(f, 1, n))
  BY DEF Records
<1>4. /\ whole \in 0..Len(f)
      /\ \A i \in 1..whole : i \notin S
      /\ whole < Len(f) => whole + 1 \in S
  <2> HIDE DEF S
  <2> QED BY <1>1, BeforeDef
<1> HIDE DEF n, c, whole
<1>5. ASSUME NEW i \in DOMAIN f, i <= n PROVE EndOf(f[i]) <= c
  <2>1. n \in DOMAIN f /\ n # 0
    BY <1>1, <1>2, <1>5
  <2> QED BY <1>1, <1>2, <1>5, <2>1
<1>6. EndOf(f[n + 1]) > c
  <2>1. n + 1 \in DOMAIN f /\ (n + 1) - 1 = n
    BY <1>1, <1>2, <1>3
  <2>2. f[n + 1].at = IF n + 1 = 1 THEN 0 ELSE EndOf(f[(n + 1) - 1])
    BY <1>1, <2>1, Zenon
  <2>3. f[n + 1].at = c
    BY <1>2, <2>1, <2>2
  <2>4. EndOf(f[n + 1]) = c + f[n + 1].got
    BY <2>3 DEF EndOf
  <2> QED BY <1>1, <1>2, <2>1, <2>4
<1>7. whole = n
  <2>1. ~(whole < n)
    <3> SUFFICES ASSUME whole < n PROVE FALSE
      OBVIOUS
    <3>1. whole + 1 \in DOMAIN f /\ whole + 1 <= n /\ whole < Len(f)
      BY <1>1, <1>2, <1>4
    <3>2. EndOf(f[whole + 1]) <= c /\ EndOf(f[whole + 1]) > c /\ EndOf(f[whole + 1]) \in Nat
      BY <1>1, <1>4, <1>5, <3>1
    <3> QED BY <1>2, <3>2
  <2>2. ~(n < whole)
    <3> SUFFICES ASSUME n < whole PROVE FALSE
      OBVIOUS
    <3>1. n + 1 \in 1..whole /\ n + 1 \in DOMAIN f
      BY <1>1, <1>2, <1>3, <1>4
    <3> QED BY <1>4, <1>6, <3>1
  <2> QED BY <1>1, <1>2, <1>4, <2>1, <2>2
<1>8. truncate_file(f, c) = Write(SubSeq(f, 1, n), f[n + 1], c - Cells(SubSeq(f, 1, n)))
  BY <1>3, <1>7 DEF truncate_file, whole
<1>9. c - Cells(SubSeq(f, 1, n)) = 0
  BY <1>2, <1>3
<1> QED BY <1>3, <1>8, <1>9 DEF Write, c

-----------------------------------------------------------------------------
(***************************************************************************)
(* The file an append writes to                                            *)
(***************************************************************************)

\* The records in P are in snapshot s or can be read from f.
Survive(P, s, f) ==
    \A id \in P : In(s, id) \/ \E i \in 1..scan_journal(f).records : f[i].id = id

\* Survive states AckedSurvives for any protected set, snapshot and file.
LEMMA SurviveDef == AckedSurvives <=> Survive(Protected, snapshot, file)
BY Zenon DEF AckedSurvives, Survive, Protected, In

\* A file that begins with another file has its records.
LEMMA SurviveLonger ==
    ASSUME NEW f \in Files, NEW g \in Files, NEW P, NEW s, Survive(P, s, f),
           \A i \in DOMAIN f : i \in DOMAIN g /\ g[i] = f[i]
    PROVE  Survive(P, s, g)
<1> SUFFICES ASSUME NEW id \in P, ~In(s, id)
             PROVE  \E i \in 1..scan_journal(g).records : g[i].id = id
  BY Zenon DEF Survive
<1>1. PICK i \in 1..scan_journal(f).records : f[i].id = id
  BY Zenon DEF Survive
<1>2. \A j \in 1..i : j \in DOMAIN f
  BY ScanDef, FileRow
<1>3. \A j \in 1..i : j \in DOMAIN g /\ g[j] = f[j]
  BY <1>2
<1>4. i \in 1..scan_journal(g).records
  BY <1>3, StillRead
<1>5. i \in 1..i
  BY ScanDef
<1> QED BY <1>1, <1>3, <1>4, <1>5, Zenon

\* Truncated to the recorded length, or as it is, the file has the records that
\* must survive, and still has them within that length.
LEMMA BaseSurvives ==
    ASSUME StoreInv, phase # "Closed"
    PROVE  /\ AppendBase \in Files /\ Survive(Protected, snapshot, AppendBase)
           /\ torn_tail_pending =>
                 \A id \in Protected :
                    In(snapshot, id) \/ Readable(AppendBase, id, valid_cells)
<1>1. file \in Files /\ valid_cells \in Nat
  BY DEF StoreInv, StoreTyped
<1>2. CASE ~torn_tail_pending
  <2>1. AppendBase = file
    BY <1>2 DEF AppendBase
  <2> QED BY <1>1, <1>2, <2>1, SurviveDef DEF StoreInv
<1>3. CASE torn_tail_pending
  <2> DEFINE g == AppendBase
  <2>1. /\ g \in Files
        /\ \A i \in DOMAIN file : EndOf(file[i]) <= valid_cells => i \in DOMAIN g /\ g[i] = file[i]
    BY <1>1, <1>3, TruncateFile DEF AppendBase
  <2> HIDE DEF g
  <2>2. ASSUME NEW id \in Protected, ~In(snapshot, id)
        PROVE  Readable(g, id, valid_cells)
    <3>1. PICK i \in DOMAIN file : /\ i <= scan_journal(file).records
                                   /\ file[i].id = id /\ EndOf(file[i]) <= valid_cells
      BY <1>3, <2>2, Zenon DEF StoreInv, Shielded, Readable
    <3>2. /\ DOMAIN file = 1..Len(file) /\ Len(file) \in Nat
          /\ scan_journal(file).records \in 0..Len(file)
      BY <1>1, FileRow, ScanDef
    <3>3. ASSUME NEW j \in 1..i PROVE j \in DOMAIN g /\ g[j] = file[j]
      <4>1. j \in DOMAIN file /\ j <= i
        BY <3>2
      <4>2. EndOf(file[j]) <= EndOf(file[i]) /\ EndOf(file[j]) \in Nat /\ EndOf(file[i]) \in Nat
        BY <1>1, <4>1, FileRow
      <4> QED BY <1>1, <2>1, <3>1, <4>1, <4>2
    <3>4. i \in 1..scan_journal(file).records /\ i \in 1..i
      BY <3>1, <3>2
    <3>5. i \in 1..scan_journal(g).records
      BY <1>1, <2>1, <3>3, <3>4, StillRead
    <3>6. i <= scan_journal(g).records
      BY <3>5, <2>1, ScanDef
    <3> QED BY <3>1, <3>3, <3>4, <3>6, Zenon DEF Readable
  <2>3. Survive(Protected, snapshot, g)
    <3>1. ASSUME NEW id, Readable(g, id, valid_cells)
          PROVE  \E i \in 1..scan_journal(g).records : g[i].id = id
      BY <2>1, <3>1, FileRow, ScanDef DEF Readable
    <3> QED BY <2>2, <3>1, Zenon DEF Survive
  <2> QED BY <2>1, <2>2, <2>3, Zenon DEF g
<1> QED BY <1>2, <1>3

\* While only crashes have happened the file an append writes to ends in a whole
\* record, the one the counters say is the last.
LEMMA BaseClean ==
    ASSUME StoreInv, phase # "Closed", failed_at = None
    PROVE  /\ Len(AppendBase) = last_sequence /\ Cells(AppendBase) = valid_cells
           /\ \A i \in 1..last_sequence :
                 /\ AppendBase[i].seq = i /\ AppendBase[i].id # 0
                 /\ AppendBase[i].len > kHeaderCells /\ AppendBase[i].got = AppendBase[i].len
<1> DEFINE n == scan_journal(file).records
<1>1. /\ file \in Files /\ CleanFile(file) /\ last_sequence = n
      /\ valid_cells = Cells(Records(file))
      /\ torn_tail_pending = (scan_journal(file).stop = "TornTail")
      /\ valid_cells \in Nat
  BY DEF StoreInv, StoreTyped, Counted
<1>2. /\ Len(file) \in Nat /\ DOMAIN file = 1..Len(file) /\ n \in 0..Len(file)
      /\ \A i \in 1..n : file[i].got = file[i].len /\ file[i].seq = i
  BY <1>1, FileRow, ScanDef
<1>3. /\ Records(file) \in Files /\ Len(Records(file)) = n
      /\ \A i \in 1..n : Records(file)[i] = file[i]
      /\ Cells(Records(file)) = IF n = 0 THEN 0 ELSE EndOf(file[n])
  BY <1>1, RecordsFile
<1>4. \/ n = Len(file) /\ scan_journal(file).stop = "Complete"
      \/ n + 1 = Len(file) /\ scan_journal(file).stop = "TornTail"
  BY <1>1, CleanScan
<1> HIDE DEF n
<1>5. AppendBase = Records(file)
  <2>1. CASE n = Len(file) /\ scan_journal(file).stop = "Complete"
    <3>1. AppendBase = file
      BY <1>1, <2>1, Zenon DEF AppendBase
    <3>2. Records(file) = file
      BY <1>1, <1>2, <1>3, <2>1, FileRow
    <3> QED BY <3>1, <3>2
  <2>2. CASE n + 1 = Len(file) /\ scan_journal(file).stop = "TornTail"
    <3>1. AppendBase = truncate_file(file, valid_cells)
      BY <1>1, <2>2, Zenon DEF AppendBase
    <3> QED BY <1>1, <1>2, <1>3, <2>2, <3>1, TruncateTail DEF n
  <2> QED BY <1>4, <2>1, <2>2
<1>6. \A i \in 1..n : file[i].id # 0 /\ file[i].len > kHeaderCells
  BY <1>1, <1>2 DEF CleanFile
<1> QED BY <1>1, <1>2, <1>3, <1>5, <1>6

\* A file whose records are all as they should be is read to its end.
LEMMA WholeScan ==
    ASSUME NEW f \in Files, \A i \in 1..Len(f) : f[i].got = f[i].len /\ f[i].seq = i
    PROVE  /\ scan_journal(f).records = Len(f) /\ scan_journal(f).stop = "Complete"
           /\ Records(f) = f
<1>1. f \in Seq(Rows) /\ Len(f) \in Nat /\ DOMAIN f = 1..Len(f)
  BY FileRow
<1>2. Len(f) <= scan_journal(f).records
  BY <1>1, ScanAtLeast
<1>3. scan_journal(f).records = Len(f)
  BY <1>1, <1>2, ScanDef
<1>4. SubSeq(f, 1, Len(f)) = f
  BY <1>1
<1> QED BY <1>3, <1>4, ScanDef DEF Records

\* An empty journal is such a file.
LEMMA EmptyFile ==
    /\ <<>> \in Files /\ CleanFile(<<>>) /\ Cells(<<>>) = 0 /\ Records(<<>>) = <<>>
    /\ scan_journal(<<>>).records = 0 /\ scan_journal(<<>>).stop = "Complete"
<1>1. <<>> \in Files /\ CleanFile(<<>>) /\ Cells(<<>>) = 0 /\ Len(<<>>) = 0
  BY DEF Files, CleanFile, Cells
<1>2. \A i \in 1..Len(<<>>) : <<>>[i].got = <<>>[i].len /\ <<>>[i].seq = i
  BY <1>1
<1> QED BY <1>1, <1>2, WholeScan

-----------------------------------------------------------------------------
(***************************************************************************)
(* One lemma per call of the store                                         *)
(***************************************************************************)

\* The journal is opened: what can be read is within the recorded length.
LEMMA OpenInv ==
    ASSUME StoreInv, open_store PROVE StoreInv'
<1>1. /\ file \in Files /\ StoreTyped
      /\ file' = file /\ snapshot' = snapshot /\ acked' = acked /\ failed_at' = failed_at
      /\ calls' = calls /\ applied' = applied /\ phase' = "Opened"
  BY DEF StoreInv, StoreTyped, open_store
<1>2. /\ Len(file) \in Nat /\ DOMAIN file = 1..Len(file)
      /\ scan_journal(file).records \in 0..Len(file)
      /\ \A i, j \in DOMAIN file : i <= j => EndOf(file[i]) <= EndOf(file[j])
      /\ \A i \in DOMAIN file : EndOf(file[i]) \in Nat
      /\ Cells(Records(file)) \in Nat
      /\ Cells(Records(file)) = IF scan_journal(file).records = 0 THEN 0
                                ELSE EndOf(file[scan_journal(file).records])
  BY <1>1, FileRow, ScanDef, RecordsFile
<1>3. StoreTyped'
  BY <1>1, <1>2 DEF StoreTyped, open_store
<1>4. Protected' = Protected /\ AckedSurvives' /\ (failed_at' = None => CleanFile(file)')
  BY <1>1 DEF StoreInv, Protected, AckedSurvives
<1>5. Counted(file)'
  BY <1>1 DEF Counted, open_store
<1>6. Shielded'
  <2> SUFFICES ASSUME NEW id \in Protected, ~In(snapshot, id)
               PROVE  Readable(file, id, valid_cells')
    BY <1>1, <1>4 DEF Shielded
  <2>1. PICK i \in 1..scan_journal(file).records : file[i].id = id
    BY SurviveDef, Zenon DEF StoreInv, Survive
  <2>2. i \in DOMAIN file /\ i <= scan_journal(file).records
        /\ scan_journal(file).records \in DOMAIN file /\ scan_journal(file).records # 0
    BY <1>2
  <2>3. EndOf(file[i]) <= Cells(Records(file))
    BY <1>2, <2>2
  <2>4. valid_cells' = Cells(Records(file))
    BY DEF open_store
  <2> QED BY <2>1, <2>2, <2>3, <2>4 DEF Readable
<1>7. Rebuilt'
  BY <1>1 DEF Rebuilt
<1> QED BY <1>3, <1>4, <1>5, <1>6, <1>7 DEF StoreInv

\* The caller rebuilds its state, and the torn tail may be cut off.
LEMMA ReplayInv ==
    ASSUME StoreInv, NEW repair \in BOOLEAN, replay(repair) PROVE StoreInv'
<1>1. /\ file \in Files /\ StoreTyped
      /\ snapshot' = snapshot /\ acked' = acked /\ failed_at' = failed_at
      /\ calls' = calls /\ phase = "Opened" /\ phase' = "Ready" /\ snapshots' = snapshots
      /\ applied' = snapshot \o Ids(Records(file))
      /\ snapshot \in Seq(Nat)
  BY DEF StoreInv, StoreTyped, replay
<1> DEFINE n == scan_journal(file).records
           g == Records(file)
<1>2. /\ n \in Nat /\ g \in Files /\ Len(g) = n /\ \A i \in 1..n : g[i] = file[i]
      /\ \A i \in 1..n : file[i].got = file[i].len /\ file[i].seq = i
      /\ Cells(g) \in Nat /\ DOMAIN g = 1..n
      /\ \A i \in DOMAIN g : g[i].id \in Nat
  <2>1. n \in 0..Len(file) /\ Len(file) \in Nat
        /\ \A i \in 1..n : file[i].got = file[i].len /\ file[i].seq = i
    BY <1>1, FileRow, ScanDef
  <2>2. g \in Files /\ Len(g) = n /\ (\A i \in 1..n : g[i] = file[i]) /\ Cells(g) \in Nat
    BY <1>1, RecordsFile
  <2>3. DOMAIN g = 1..Len(g) /\ \A i \in DOMAIN g : g[i].id \in Nat
    BY <2>2, FileRow
  <2> QED BY <2>1, <2>2, <2>3
<1>3. scan_journal(g).records = n /\ scan_journal(g).stop = "Complete" /\ Records(g) = g
  BY <1>2, WholeScan
<1>4. applied' \in Seq(Nat) /\ \A id \in Protected : In(applied', id)
  <2>1. PICK ids : ids = Ids(g)
    OBVIOUS
  <2>2. ids \in Seq(Nat) /\ Len(ids) = n /\ \A i \in 1..n : ids[i] = g[i].id
    <3>1. ids \in [1..n -> Nat] /\ \A i \in 1..n : ids[i] = g[i].id
      BY <1>2, <2>1 DEF Ids
    <3> QED BY <1>2, <3>1
  <2>3. applied' = snapshot \o ids
    BY <1>1, <2>1
  <2>4. applied' \in Seq(Nat) /\ Len(applied') = Len(snapshot) + n /\ Len(snapshot) \in Nat
        /\ DOMAIN applied' = 1..Len(applied') /\ DOMAIN snapshot = 1..Len(snapshot)
    BY <1>1, <1>2, <2>2, <2>3
  <2>5. \A i \in DOMAIN snapshot : i \in DOMAIN applied' /\ applied'[i] = snapshot[i]
    BY <1>1, <1>2, <2>2, <2>3, <2>4
  <2>6. \A i \in 1..n : Len(snapshot) + i \in DOMAIN applied' /\ applied'[Len(snapshot) + i] = ids[i]
    BY <1>1, <1>2, <2>2, <2>3, <2>4
  <2>7. ASSUME NEW id \in Protected PROVE In(applied', id)
    <3>1. CASE In(snapshot, id)
      BY <2>5, <3>1, Zenon DEF In
    <3>2. CASE \E i \in 1..n : file[i].id = id
      <4>1. PICK i \in 1..n : file[i].id = id
        BY <3>2
      <4>2. Len(snapshot) + i \in DOMAIN applied' /\ applied'[Len(snapshot) + i] = id
        BY <1>2, <2>2, <2>6, <4>1, Zenon
      <4> QED BY <4>2, Zenon DEF In
    <3>3. In(snapshot, id) \/ \E i \in 1..n : file[i].id = id
      BY SurviveDef, Zenon DEF StoreInv, Survive
    <3> QED BY <3>1, <3>2, <3>3
  <2> QED BY <2>4, <2>7
<1>5. Protected' = Protected
  BY <1>1 DEF Protected
<1>6. Rebuilt'
  BY <1>1, <1>4, <1>5 DEF Rebuilt
<1>7. CASE repair /\ scan_journal(file).stop = "TornTail"
  <2>1. file' = g /\ valid_cells' = Cells(g) /\ last_sequence' = n /\ torn_tail_pending' = FALSE
    BY <1>7 DEF replay
  <2>2. StoreTyped'
    BY <1>1, <1>2, <1>4, <2>1, Zenon DEF StoreTyped
  <2>3. failed_at' = None => CleanFile(file)'
    <3>1. failed_at' = None => CleanFile(file)
      BY <1>1 DEF StoreInv
    <3>2. ASSUME CleanFile(file) PROVE CleanFile(g)
      <4>1. \A i \in 1..n : i \in DOMAIN file
        BY <1>1, FileRow, ScanDef
      <4> QED BY <1>2, <3>2, <4>1 DEF CleanFile
    <3> QED BY <2>1, <3>1, <3>2
  <2>4. Counted(file)'
    BY <1>3, <2>1, Zenon DEF Counted
  <2>5. AckedSurvives'
    <3>1. Survive(Protected, snapshot, g)
      BY <1>2, <1>3, SurviveDef, Zenon DEF StoreInv, Survive
    <3> QED BY <1>1, <1>5, <2>1, <3>1, Zenon DEF AckedSurvives, Survive, Protected, In
  <2>6. Shielded'
    BY <2>1 DEF Shielded
  <2> QED BY <1>6, <2>2, <2>3, <2>4, <2>5, <2>6 DEF StoreInv
<1>8. CASE ~(repair /\ scan_journal(file).stop = "TornTail")
  <2>1. /\ file' = file /\ valid_cells' = valid_cells /\ last_sequence' = last_sequence
        /\ torn_tail_pending' = torn_tail_pending
    BY <1>8 DEF replay, storeVars
  <2>2. StoreTyped'
    BY <1>1, <1>4, <2>1 DEF StoreTyped
  <2>3. /\ failed_at' = None => CleanFile(file)' /\ Counted(file)'
        /\ AckedSurvives' /\ Shielded'
    BY <1>1, <1>5, <2>1 DEF StoreInv, Counted, AckedSurvives, Shielded
  <2> QED BY <1>6, <2>2, <2>3 DEF StoreInv
<1> QED BY <1>7, <1>8

\* A record, or its first cells, at the end of the file: what must survive does,
\* and as long as only crashes have happened only the new record can be cut.
LEMMA WriteBase ==
    ASSUME StoreInv, phase # "Closed", NEW r, NEW k \in 0..r.len,
           r.id \in Nat, r.id # 0, r.seq = last_sequence + 1,
           r.len \in Nat, r.len > kHeaderCells
    PROVE  LET g == Write(AppendBase, r, k) IN
           /\ g \in Files /\ Survive(Protected, snapshot, g)
           /\ failed_at = None => CleanFile(g)
           /\ failed_at = None /\ k = r.len =>
                 /\ scan_journal(g).records = last_sequence + 1
                 /\ scan_journal(g).stop = "Complete"
                 /\ Cells(Records(g)) = valid_cells + k
                 /\ g[last_sequence + 1].id = r.id
<1> DEFINE b == AppendBase
           g == Write(b, r, k)
<1>1. b \in Files /\ Survive(Protected, snapshot, b) /\ last_sequence \in Nat
  BY BaseSurvives DEF StoreInv, StoreTyped
<1>2. /\ g \in Files /\ Cells(g) = Cells(b) + k
      /\ Len(g) = IF k = 0 THEN Len(b) ELSE Len(b) + 1
      /\ \A i \in DOMAIN b : i \in DOMAIN g /\ g[i] = b[i]
      /\ k # 0 => /\ g[Len(b) + 1].id = r.id /\ g[Len(b) + 1].seq = r.seq
                  /\ g[Len(b) + 1].len = r.len /\ g[Len(b) + 1].got = k
  <2> HIDE DEF b
  <2> QED BY <1>1, WriteFile
<1>3. Survive(Protected, snapshot, g)
  BY <1>1, <1>2, SurviveLonger
<1>4. ASSUME failed_at = None
      PROVE  /\ CleanFile(g)
             /\ k = r.len => /\ scan_journal(g).records = last_sequence + 1
                             /\ scan_journal(g).stop = "Complete"
                             /\ Cells(Records(g)) = valid_cells + k
                             /\ g[last_sequence + 1].id = r.id
  <2>1. /\ Len(b) = last_sequence /\ Cells(b) = valid_cells
        /\ \A i \in 1..last_sequence :
              /\ b[i].seq = i /\ b[i].id # 0 /\ b[i].len > kHeaderCells /\ b[i].got = b[i].len
    BY <1>4, BaseClean
  <2> HIDE DEF b, g
  <2>2. DOMAIN b = 1..last_sequence /\ DOMAIN g = 1..Len(g) /\ Len(g) \in Nat
    BY <1>1, <1>2, <2>1, FileRow
  <2>3. \A i \in 1..last_sequence : g[i] = b[i]
    BY <1>2, <2>2
  <2>4. CASE k = 0
    <3>1. Len(g) = last_sequence
      BY <1>2, <2>1, <2>4
    <3>2. CleanFile(g)
      BY <2>1, <2>2, <2>3, <3>1 DEF CleanFile
    <3> QED BY <2>4, <3>2 DEF kHeaderCells
  <2>5. CASE k # 0
    <3>1. /\ Len(g) = last_sequence + 1
          /\ g[last_sequence + 1].id = r.id /\ g[last_sequence + 1].seq = r.seq
          /\ g[last_sequence + 1].len = r.len /\ g[last_sequence + 1].got = k
      BY <1>2, <2>1, <2>5
    <3>2. \A i \in DOMAIN g : i \in 1..last_sequence \/ i = last_sequence + 1
      BY <1>1, <2>2, <3>1
    <3>3. CleanFile(g)
      <4> SUFFICES ASSUME NEW i \in DOMAIN g
                   PROVE  /\ g[i].seq = i /\ g[i].id # 0 /\ g[i].len > kHeaderCells
                          /\ i < Len(g) => g[i].got = g[i].len
        BY DEF CleanFile
      <4>1. CASE i \in 1..last_sequence
        BY <2>1, <2>3, <4>1
      <4>2. CASE i = last_sequence + 1
        BY <1>1, <3>1, <4>2
      <4> QED BY <3>2, <4>1, <4>2
    <3>4. ASSUME k = r.len PROVE \A i \in 1..Len(g) : g[i].got = g[i].len /\ g[i].seq = i
      <4> SUFFICES ASSUME NEW i \in DOMAIN g PROVE g[i].got = g[i].len /\ g[i].seq = i
        BY <2>2
      <4>1. CASE i \in 1..last_sequence
        BY <2>1, <2>3, <4>1
      <4>2. CASE i = last_sequence + 1
        BY <3>1, <3>4, <4>2
      <4> QED BY <3>2, <4>1, <4>2
    <3>5. ASSUME k = r.len
          PROVE  /\ scan_journal(g).records = Len(g) /\ scan_journal(g).stop = "Complete"
                 /\ Records(g) = g
      BY <1>2, <3>4, <3>5, WholeScan
    <3> QED BY <1>2, <2>1, <3>1, <3>3, <3>5
  <2> QED BY <2>4, <2>5
<1> QED BY <1>2, <1>3, <1>4

\* The record an append writes.
LEMMA RecordWritten ==
    ASSUME StoreInv, NEW size \in PayloadSizes, NEW r,
           r = build_journal_record(calls + 1, last_sequence + 1, size)
    PROVE  /\ r.id \in Nat /\ r.id # 0 /\ r.id = calls + 1 /\ r.seq = last_sequence + 1
           /\ r.len \in Nat /\ r.len > kHeaderCells /\ r.len = journal_record_cells(size)
BY StoreAssumption
   DEF StoreInv, StoreTyped, build_journal_record, journal_record_cells, kHeaderCells,
       kTrailerCells

\* A record is appended, acknowledged and applied.
LEMMA AppendInv ==
    ASSUME StoreInv, NEW size \in PayloadSizes, append(size) PROVE StoreInv'
<1>1. PICK r : r = build_journal_record(calls + 1, last_sequence + 1, size)
  OBVIOUS
<1>2. /\ r.id \in Nat /\ r.id # 0 /\ r.id = calls + 1 /\ r.seq = last_sequence + 1
      /\ r.len \in Nat /\ r.len > kHeaderCells /\ r.len \in 0..r.len
  BY <1>1, RecordWritten
<1>3. /\ phase = "Ready" /\ phase' = "Ready" /\ snapshot' = snapshot /\ failed_at' = failed_at
      /\ file' = Write(AppendBase, r, r.len) /\ valid_cells' = valid_cells + r.len
      /\ last_sequence' = last_sequence + 1 /\ torn_tail_pending' = FALSE
      /\ calls' = calls + 1 /\ acked' = acked \cup {calls + 1}
      /\ applied' = Append(applied, calls + 1) /\ snapshots' = snapshots
  BY <1>1 DEF append, MayAppend
<1>4. /\ StoreTyped /\ calls \in Nat /\ last_sequence \in Nat /\ applied \in Seq(Nat)
      /\ valid_cells \in Nat /\ failed_at \in (0..calls) \cup {None} /\ acked \subseteq 1..calls
  BY DEF StoreInv, StoreTyped
<1>5. /\ file' \in Files /\ Survive(Protected, snapshot, file')
      /\ failed_at = None =>
            /\ CleanFile(file') /\ scan_journal(file').records = last_sequence'
            /\ scan_journal(file').stop = "Complete" /\ Cells(Records(file')) = valid_cells'
            /\ file'[last_sequence'].id = calls + 1
  BY <1>2, <1>3, WriteBase
<1>6. Protected' \subseteq Protected \cup (IF failed_at = None THEN {calls + 1} ELSE {})
  BY <1>3, <1>4 DEF Protected, None
<1>7. StoreTyped'
  <2>1. applied' \in Seq(Nat) /\ calls' \in Nat
    BY <1>3, <1>4
  <2>2. acked' \subseteq 1..calls' /\ failed_at' \in (0..calls') \cup {None}
    BY <1>3, <1>4
  <2>3. last_sequence' \in Nat /\ valid_cells' \in Nat
    BY <1>2, <1>3, <1>4
  <2> QED BY <1>3, <1>4, <1>5, <2>1, <2>2, <2>3, Zenon DEF StoreTyped
<1>8. failed_at' = None => CleanFile(file)' /\ Counted(file)'
  BY <1>3, <1>5, Zenon DEF Counted
<1>9. AckedSurvives'
  <2>1. failed_at = None => \E i \in 1..scan_journal(file').records : file'[i].id = calls + 1
    <3>1. last_sequence' \in 1..last_sequence'
      BY <1>3, <1>4
    <3> QED BY <1>5, <3>1
  <2>2. Survive(Protected', snapshot, file')
    BY <1>5, <1>6, <2>1, Zenon DEF Survive
  <2> QED BY <1>3, <2>2, Zenon DEF AckedSurvives, Survive, Protected, In
<1>10. Shielded'
  BY <1>3 DEF Shielded
<1>11. Rebuilt'
  <2>1. /\ DOMAIN applied' = 1..(Len(applied) + 1) /\ applied'[Len(applied) + 1] = calls + 1
        /\ DOMAIN applied = 1..Len(applied) /\ Len(applied) \in Nat
        /\ \A i \in DOMAIN applied : i \in DOMAIN applied' /\ applied'[i] = applied[i]
    BY <1>3, <1>4
  <2>2. In(applied', calls + 1)
    <3>1. Len(applied) + 1 \in DOMAIN applied'
      BY <2>1
    <3> QED BY <2>1, <3>1, Zenon DEF In
  <2>3. \A id \in Protected : In(applied, id)
    BY <1>3 DEF StoreInv, Rebuilt
  <2>4. \A id \in Protected : In(applied', id)
    BY <2>1, <2>3, Zenon DEF In
  <2>5. \A id \in Protected' : id \in Protected \/ id = calls + 1
    BY <1>6
  <2> QED BY <1>3, <2>2, <2>4, <2>5 DEF Rebuilt
<1> QED BY <1>7, <1>8, <1>9, <1>10, <1>11 DEF StoreInv

\* The process dies inside append.
LEMMA AppendDiesInv ==
    ASSUME StoreInv, NEW size \in PayloadSizes, NEW k \in 0..journal_record_cells(size),
           append_dies(size, k)
    PROVE  StoreInv'
<1>1. PICK r : r = build_journal_record(calls + 1, last_sequence + 1, size)
  OBVIOUS
<1>2. /\ r.id \in Nat /\ r.id # 0 /\ r.seq = last_sequence + 1
      /\ r.len \in Nat /\ r.len > kHeaderCells /\ k \in 0..r.len
  BY <1>1, RecordWritten
<1>3. /\ phase = "Ready" /\ phase' = "Closed" /\ snapshot' = snapshot /\ failed_at' = failed_at
      /\ file' = Write(AppendBase, r, k) /\ calls' = calls + 1 /\ acked' = acked
      /\ UNCHANGED <<storeVars, applied, snapshots>>
  BY <1>1 DEF append_dies, MayAppend
<1>4. /\ file' \in Files /\ Survive(Protected, snapshot, file')
      /\ failed_at = None => CleanFile(file')
  BY <1>2, <1>3, WriteBase
<1>5. StoreTyped'
  <2>1. /\ calls \in Nat /\ failed_at \in (0..calls) \cup {None} /\ acked \subseteq 1..calls
    BY DEF StoreInv, StoreTyped
  <2>2. /\ calls' \in Nat /\ acked' \subseteq 1..calls' /\ failed_at' \in (0..calls') \cup {None}
    BY <1>3, <2>1
  <2> QED BY <1>3, <1>4, <2>2 DEF StoreInv, StoreTyped, storeVars
<1>6. Protected' = Protected
  BY <1>3 DEF Protected
<1>7. AckedSurvives'
  BY <1>3, <1>4, <1>6, Zenon DEF AckedSurvives, Survive, Protected, In
<1> QED BY <1>3, <1>4, <1>5, <1>7 DEF StoreInv, Shielded, Rebuilt

\* The first failure changes none of the records that must survive: what is
\* acknowledged later has a greater number.
LEMMA FailsKeep ==
    ASSUME StoreInv, Fails, acked' = acked, calls' \in Nat, calls' >= calls
    PROVE  /\ Protected' = Protected /\ failed_at' # None
           /\ failed_at' \in (0..calls') \cup {None} /\ acked' \subseteq 1..calls'
<1>1. calls \in Nat /\ failed_at \in (0..calls) \cup {None} /\ acked \subseteq 1..calls
  BY DEF StoreInv, StoreTyped
<1>2. CASE failed_at = None
  <2>1. failed_at' = calls /\ calls # None
    BY <1>1, <1>2 DEF Fails, None
  <2>2. \A id \in acked : id <= calls
    BY <1>1
  <2>3. Protected = acked /\ Protected' = acked
    BY <1>2, <2>1, <2>2 DEF Protected
  <2> QED BY <1>1, <2>1, <2>3
<1>3. CASE failed_at # None
  <2>1. failed_at' = failed_at
    BY <1>3 DEF Fails
  <2>2. Protected' = Protected
    BY <2>1 DEF Protected
  <2> QED BY <1>1, <1>3, <2>1, <2>2
<1> QED BY <1>2, <1>3

\* A write fails: what is in the file stays there.
LEMMA AppendFailsInv ==
    ASSUME StoreInv, NEW size \in PayloadSizes, NEW k \in 0..journal_record_cells(size),
           append_fails(size, k)
    PROVE  StoreInv'
<1>1. PICK r : r = build_journal_record(calls + 1, last_sequence + 1, size)
  OBVIOUS
<1>2. /\ r.id \in Nat /\ r.id # 0 /\ r.seq = last_sequence + 1
      /\ r.len \in Nat /\ r.len > kHeaderCells /\ k \in 0..r.len
  BY <1>1, RecordWritten
<1>3. /\ Fails /\ phase = "Ready" /\ phase' = "Ready" /\ snapshot' = snapshot
      /\ file' = Write(AppendBase, r, k) /\ calls' = calls + 1 /\ acked' = acked
      /\ torn_tail_pending' = FALSE
      /\ UNCHANGED <<last_sequence, valid_cells, applied, snapshots>>
  BY <1>1 DEF append_fails, MayAppend
<1>4. file' \in Files /\ Survive(Protected, snapshot, file')
  BY <1>2, <1>3, WriteBase
<1>5. /\ Protected' = Protected /\ failed_at' # None /\ calls' \in Nat
      /\ failed_at' \in (0..calls') \cup {None} /\ acked' \subseteq 1..calls'
  <2>1. calls' \in Nat /\ calls' >= calls
    BY <1>3 DEF StoreInv, StoreTyped
  <2> QED BY <1>3, <2>1, FailsKeep
<1>6. StoreTyped'
  BY <1>3, <1>4, <1>5, Zenon DEF StoreInv, StoreTyped
<1>7. AckedSurvives'
  BY <1>3, <1>4, <1>5, Zenon DEF AckedSurvives, Survive, Protected, In
<1>8. Shielded' /\ Rebuilt'
  BY <1>3, <1>5 DEF StoreInv, Shielded, Rebuilt
<1> QED BY <1>5, <1>6, <1>7, <1>8 DEF StoreInv

\* The truncation fails, before or after the tail is gone.
LEMMA TruncateFailsInv ==
    ASSUME StoreInv, truncate_fails PROVE StoreInv'
<1>1. /\ Fails /\ phase = "Ready" /\ torn_tail_pending /\ file' \in {file, AppendBase}
      /\ UNCHANGED <<snapshot, phase, storeVars, applied, acked, calls, snapshots>>
  BY DEF truncate_fails
<1>2. /\ Protected' = Protected /\ failed_at' # None
      /\ failed_at' \in (0..calls') \cup {None} /\ acked' \subseteq 1..calls'
  <2>1. calls' \in Nat /\ calls' >= calls
    BY <1>1 DEF StoreInv, StoreTyped
  <2> QED BY <1>1, <2>1, FailsKeep
<1>3. /\ file' \in Files /\ Survive(Protected, snapshot, file')
      /\ \A id \in Protected : In(snapshot, id) \/ Readable(file', id, valid_cells)
  <2>1. CASE file' = file
    BY <1>1, <2>1, SurviveDef DEF StoreInv, StoreTyped, Shielded
  <2>2. CASE file' = AppendBase
    BY <1>1, <2>2, BaseSurvives
  <2> QED BY <1>1, <2>1, <2>2
<1>4. StoreTyped'
  BY <1>1, <1>2, <1>3 DEF StoreInv, StoreTyped, storeVars
<1>5. AckedSurvives'
  BY <1>1, <1>2, <1>3, Zenon DEF AckedSurvives, Survive, Protected, In
<1>6. Shielded' /\ Rebuilt'
  BY <1>1, <1>2, <1>3 DEF StoreInv, Shielded, Rebuilt, storeVars
<1> QED BY <1>2, <1>4, <1>5, <1>6 DEF StoreInv

\* The snapshot is replaced by what the caller has applied.
LEMMA SnapshotInv ==
    ASSUME StoreInv, write_snapshot PROVE StoreInv'
<1>1. /\ phase = "Ready" /\ phase' = "Compacting" /\ snapshot' = applied
      /\ snapshots' = snapshots + 1
      /\ UNCHANGED <<file, storeVars, applied, acked, failed_at, calls>>
  BY DEF write_snapshot
<1>2. StoreTyped'
  BY <1>1 DEF StoreInv, StoreTyped, storeVars
<1>3. Protected' = Protected /\ \A id \in Protected' : In(snapshot', id) /\ In(applied', id)
  BY <1>1 DEF StoreInv, Protected, Rebuilt
<1>4. AckedSurvives'
  BY <1>3, Zenon DEF AckedSurvives, Protected, In
<1>5. Shielded' /\ Rebuilt'
  BY <1>3 DEF Shielded, Rebuilt
<1>6. failed_at' = None => CleanFile(file)' /\ Counted(file)'
  BY <1>1 DEF StoreInv, Counted, storeVars
<1> QED BY <1>2, <1>4, <1>5, <1>6 DEF StoreInv

\* The journal is emptied: the snapshot has what must survive.
LEMMA CompactInv ==
    ASSUME StoreInv, compact PROVE StoreInv'
<1>1. /\ phase = "Compacting" /\ phase' = "Ready" /\ file' = <<>>
      /\ last_sequence' = 0 /\ valid_cells' = 0 /\ torn_tail_pending' = FALSE
      /\ UNCHANGED <<snapshot, applied, acked, failed_at, calls, snapshots>>
  BY DEF compact
<1>2. StoreTyped'
  BY <1>1, EmptyFile, Zenon DEF StoreInv, StoreTyped
<1>3. Protected' = Protected /\ \A id \in Protected' : In(snapshot', id) /\ In(applied', id)
  BY <1>1 DEF StoreInv, Protected, Rebuilt
<1>4. AckedSurvives'
  BY <1>3, Zenon DEF AckedSurvives, Protected, In
<1>5. Shielded' /\ Rebuilt'
  BY <1>3 DEF Shielded, Rebuilt
<1>6. CleanFile(file)' /\ Counted(file)'
  BY <1>1, EmptyFile, Zenon DEF Counted
<1> QED BY <1>2, <1>4, <1>5, <1>6 DEF StoreInv

\* Emptying the journal fails, before or after it is empty.
LEMMA CompactFailsInv ==
    ASSUME StoreInv, compact_fails PROVE StoreInv'
<1>1. /\ Fails /\ phase = "Compacting" /\ phase' = "Ready" /\ file' \in {file, <<>>}
      /\ UNCHANGED <<snapshot, storeVars, applied, acked, calls, snapshots>>
  BY DEF compact_fails
<1>2. /\ Protected' = Protected /\ failed_at' # None
      /\ failed_at' \in (0..calls') \cup {None} /\ acked' \subseteq 1..calls'
  <2>1. calls' \in Nat /\ calls' >= calls
    BY <1>1 DEF StoreInv, StoreTyped
  <2> QED BY <1>1, <2>1, FailsKeep
<1>3. StoreTyped'
  BY <1>1, <1>2, EmptyFile DEF StoreInv, StoreTyped, storeVars
<1>4. \A id \in Protected' : In(snapshot', id) /\ In(applied', id)
  BY <1>1, <1>2 DEF StoreInv, Rebuilt
<1>5. AckedSurvives'
  BY <1>4, Zenon DEF AckedSurvives, Protected, In
<1>6. Shielded' /\ Rebuilt'
  BY <1>4 DEF Shielded, Rebuilt
<1> QED BY <1>2, <1>3, <1>5, <1>6 DEF StoreInv

-----------------------------------------------------------------------------
(***************************************************************************)
(* The invariant and what it says                                          *)
(***************************************************************************)

\* An empty store.
LEMMA InitInv == Init => StoreInv
<1> SUFFICES ASSUME Init PROVE StoreInv
  OBVIOUS
<1>1. /\ file = <<>> /\ snapshot = <<>> /\ phase = "Closed" /\ last_sequence = 0
      /\ valid_cells = 0 /\ torn_tail_pending = FALSE /\ applied = <<>> /\ acked = {}
      /\ failed_at = None /\ calls = 0 /\ snapshots = 0
  BY DEF Init
<1>2. file \in Files /\ CleanFile(file)
  BY <1>1, EmptyFile
<1>3. snapshot \in Seq(Nat) /\ applied \in Seq(Nat) /\ acked \subseteq 1..calls
  BY <1>1
<1>4. StoreTyped
  BY <1>1, <1>2, <1>3, Zenon DEF StoreTyped
<1> QED BY <1>1, <1>2, <1>4 DEF StoreInv, AckedSurvives, Shielded, Rebuilt

\* Each call of the store, and each way it may end, preserves the invariant.
LEMMA NextInv == StoreInv /\ [Next]_vars => StoreInv'
<1> SUFFICES ASSUME StoreInv, [Next]_vars PROVE StoreInv'
  OBVIOUS
<1>1. CASE open_store
  BY <1>1, OpenInv
<1>2. CASE \E repair \in BOOLEAN : replay(repair)
  BY <1>2, ReplayInv
<1>3. CASE \E size \in PayloadSizes : append(size)
  BY <1>3, AppendInv
<1>4. CASE \E size \in PayloadSizes : \E k \in 0..journal_record_cells(size) : append_dies(size, k)
  BY <1>4, AppendDiesInv
<1>5. CASE \E size \in PayloadSizes : \E k \in 0..journal_record_cells(size) : append_fails(size, k)
  BY <1>5, AppendFailsInv
<1>6. CASE truncate_fails
  BY <1>6, TruncateFailsInv
<1>7. CASE write_snapshot
  BY <1>7, SnapshotInv
<1>8. CASE compact
  BY <1>8, CompactInv
<1>9. CASE compact_fails
  BY <1>9, CompactFailsInv
<1>10. CASE Stop
  <2>1. phase' = "Closed"
        /\ UNCHANGED <<file, snapshot, storeVars, applied, acked, failed_at, calls, snapshots>>
    BY <1>10 DEF Stop
  <2>2. StoreTyped' /\ AckedSurvives' /\ (failed_at' = None => CleanFile(file)')
    BY <2>1 DEF StoreInv, StoreTyped, storeVars, AckedSurvives
  <2> QED BY <2>1, <2>2 DEF StoreInv, Shielded, Rebuilt
<1>11. CASE UNCHANGED vars
  <2>1. UNCHANGED <<file, snapshot, phase, last_sequence, valid_cells, torn_tail_pending,
                    applied, acked, failed_at, calls, snapshots>>
    BY <1>11 DEF vars, storeVars
  <2>2. StoreTyped' /\ AckedSurvives' /\ (failed_at' = None => CleanFile(file)')
    BY <2>1 DEF StoreInv, StoreTyped, AckedSurvives
  <2>3. (failed_at' = None /\ phase' # "Closed" => Counted(file)') /\ Shielded' /\ Rebuilt'
    BY <2>1 DEF StoreInv, Counted, Shielded, Rebuilt, Protected
  <2> QED BY <2>2, <2>3 DEF StoreInv
<1> QED BY <1>1, <1>2, <1>3, <1>4, <1>5, <1>6, <1>7, <1>8, <1>9, <1>10, <1>11 DEF Next

\* The invariant holds of every state of the store, whatever its calls, the
\* crashes and the failures are.
THEOREM StoreInvariance == Spec => []StoreInv
BY InitInv, NextInv, PTL DEF Spec

\* DurableStore::open refuses a journal that is corrupt; a journal that only
\* crashes have touched it never refuses, however many torn tails appends have
\* truncated and crashes have left again.
THEOREM CrashesAreNotCorruption == Spec => []CrashIsNotCorruption
<1>1. StoreInv => CrashIsNotCorruption
  <2> SUFFICES ASSUME StoreInv, failed_at = None PROVE ~Refuses(file)
    BY DEF CrashIsNotCorruption
  <2>1. file \in Files /\ CleanFile(file)
    BY DEF StoreInv, StoreTyped
  <2>2. scan_journal(file).stop \in {"Complete", "TornTail"}
    BY <2>1, CleanScan
  <2> QED BY <2>2 DEF Refuses
<1> QED BY <1>1, StoreInvariance, PTL

\* DurableStore::append is durable before it returns success: no later append,
\* truncation, compaction, crash or failure makes an acknowledged record
\* unreadable, unless a call to the system had failed before it was appended.
THEOREM AcknowledgedSurvives == Spec => []AckedSurvives
<1>1. StoreInv => AckedSurvives
  BY DEF StoreInv
<1> QED BY <1>1, StoreInvariance, PTL

\* The sequence number, the length and the torn-tail flag that append works from
\* are those of the file, without reading it again, until a call to the system
\* fails.
THEOREM CountersDescribeFile == Spec => []CountersMatchFile
<1>1. StoreInv => CountersMatchFile
  BY DEF StoreInv, Counted, CountersMatchFile
<1> QED BY <1>1, StoreInvariance, PTL

=============================================================================
