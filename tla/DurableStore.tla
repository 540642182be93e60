----------------------------- MODULE DurableStore -----------------------------
(***************************************************************************)
(* The durable store of journal.cpp: an append-only journal file and a     *)
(* snapshot that is replaced as a whole, used by a caller that applies     *)
(* every record it appends.                                                *)
(*                                                                         *)
(* A file is a sequence of records as they were written.  A record is cut  *)
(* into cells: two for the header, one per unit of payload, one for the    *)
(* trailer; "at" is where its first cell is in the file, and "got" is how  *)
(* many of its cells reached it.  The process may die at any point of any  *)
(* call.  A call to the operating system may fail as well, when IOMayFail  *)
(* is TRUE.                                                                *)
(***************************************************************************)
EXTENDS Integers, Sequences

CONSTANTS
    MaxCalls,          \* bound: appends in a behaviour
    MaxSnapshots,      \* bound: snapshots written in a behaviour
    PayloadSizes,      \* cells of payload a record may have
    MaxJournalCells,   \* kMaxJournalBytes
    IOMayFail          \* whether fwrite, fsync and ftruncate may fail

ASSUME StoreAssumption ==
    /\ MaxCalls \in Nat
    /\ MaxSnapshots \in Nat
    /\ PayloadSizes \subseteq Nat
    /\ MaxJournalCells \in Nat
    /\ IOMayFail \in BOOLEAN

VARIABLES
    file,              \* the journal file
    snapshot,          \* the snapshot file: what its writer had applied
    phase,             \* how far the process is with its store
    last_sequence,     \* DurableStore::State
    valid_cells,       \* DurableStore::State::valid_bytes
    torn_tail_pending, \* DurableStore::State
    applied,           \* the records the caller has applied, in order
    acked,             \* the records whose append returned success
    failed_at,         \* calls when a call to the system first failed, or None
    calls,             \* appends so far; each record carries its number
    snapshots          \* snapshots written so far

storeVars == <<last_sequence, valid_cells, torn_tail_pending>>
vars == <<file, snapshot, phase, storeVars, applied, acked, failed_at, calls,
          snapshots>>

-----------------------------------------------------------------------------

None == -1

\* The first failure of the system is remembered.
Fails == /\ IOMayFail
         /\ failed_at' = IF failed_at = None THEN calls ELSE failed_at

kHeaderCells == 2
kTrailerCells == 1

journal_record_cells(size) == kHeaderCells + size + kTrailerCells

\* The record with sequence number n that append number id writes.
build_journal_record(id, n, size) ==
    [id |-> id, seq |-> n, len |-> journal_record_cells(size)]

\* Zero bytes, which ftruncate puts at the end of a file it makes longer.
Hole(cells) == [id |-> 0, seq |-> 0, len |-> cells]

EndOf(r) == r.at + r.got

Cells(f) == IF f = <<>> THEN 0 ELSE EndOf(f[Len(f)])

\* The first k cells of record r reach the end of the file.
Write(f, r, k) ==
    IF k = 0 THEN f
    ELSE Append(f, [id |-> r.id, seq |-> r.seq, len |-> r.len, at |-> Cells(f), got |-> k])

\* How many records of f come before the first that is in S.
EndsBefore(f, S, n) == S \cap (1..n) = {} /\ (n < Len(f) => n + 1 \in S)
Before(f, S) == CHOOSE n \in 0..Len(f) : EndsBefore(f, S, n)

\* Records a reader does not take as they are: cut short, or out of sequence.
Irregular(f) == {i \in DOMAIN f : f[i].got < f[i].len \/ f[i].seq # i}

\* How the reader classifies record i.  It reads a header, or finds the end
\* of the file; it trusts a header whose checksum matches; then it reads the
\* payload and the trailer wherever their bytes come from.
Classify(f, i) ==
    LET r == f[i]
        found == Cells(f) - r.at
    IN  IF found < kHeaderCells THEN "TornTail"
        ELSE IF r.got < kHeaderCells \/ r.id = 0 THEN "CorruptData"
        ELSE IF r.seq # i THEN "SequenceGap"
        ELSE IF found < r.len THEN "TornTail"
        ELSE "CorruptData"

\* ScanOutcome: how the scan ended and how many records it delivered.
scan_journal(f) ==
    LET n == Before(f, Irregular(f))
    IN  [stop |-> IF n = Len(f) THEN "Complete" ELSE Classify(f, n + 1), records |-> n]

Refuses(f) == scan_journal(f).stop \in {"CorruptData", "SequenceGap"}

Records(f) == SubSeq(f, 1, scan_journal(f).records)

Ids(f) == [i \in DOMAIN f |-> f[i].id]

-----------------------------------------------------------------------------

Init ==
    /\ file = <<>>
    /\ snapshot = <<>>
    /\ phase = "Closed"
    /\ last_sequence = 0
    /\ valid_cells = 0
    /\ torn_tail_pending = FALSE
    /\ applied = <<>>
    /\ acked = {}
    /\ failed_at = None
    /\ calls = 0
    /\ snapshots = 0

\* A journal that is corrupt is not opened.
open_store ==
    /\ phase = "Closed"
    /\ ~Refuses(file)
    /\ phase' = "Opened"
    /\ torn_tail_pending' = (scan_journal(file).stop = "TornTail")
    /\ valid_cells' = Cells(Records(file))
    /\ last_sequence' = scan_journal(file).records
    /\ UNCHANGED <<file, snapshot, applied, acked, failed_at, calls, snapshots>>

\* read_snapshot, then replay: what the caller rebuilds its state from.
replay(repair) ==
    /\ phase = "Opened"
    /\ ~Refuses(file)
    /\ phase' = "Ready"
    /\ applied' = snapshot \o Ids(Records(file))
    /\ IF repair /\ scan_journal(file).stop = "TornTail"
       THEN /\ file' = Records(file)
            /\ valid_cells' = Cells(Records(file))
            /\ last_sequence' = scan_journal(file).records
            /\ torn_tail_pending' = FALSE
       ELSE UNCHANGED <<file, storeVars>>
    /\ UNCHANGED <<snapshot, acked, failed_at, calls, snapshots>>

\* ftruncate: the first n cells of the file, made up with zeros if it is
\* shorter than that.
truncate_file(f, n) ==
    LET whole == Before(f, {i \in DOMAIN f : EndOf(f[i]) > n})
        kept == SubSeq(f, 1, whole)
        rest == n - Cells(kept)
    IN  Write(kept, IF whole < Len(f) THEN f[whole + 1] ELSE Hole(rest), rest)

\* Mutant of AppendBase: the torn tail stays in place.
AppendOverTail == file

\* The file an append writes to: a torn tail is truncated first.
AppendBase ==
    IF torn_tail_pending THEN truncate_file(file, valid_cells) ELSE file

MayAppend(size) ==
    /\ phase = "Ready"
    /\ calls < MaxCalls
    /\ valid_cells + journal_record_cells(size) <= MaxJournalCells

append(size) ==
    /\ MayAppend(size)
    /\ LET r == build_journal_record(calls + 1, last_sequence + 1, size)
       IN  /\ file' = Write(AppendBase, r, r.len)
           /\ valid_cells' = valid_cells + r.len
    /\ last_sequence' = last_sequence + 1
    /\ torn_tail_pending' = FALSE
    /\ calls' = calls + 1
    /\ acked' = acked \cup {calls + 1}
    /\ applied' = Append(applied, calls + 1)
    /\ UNCHANGED <<snapshot, phase, failed_at, snapshots>>

\* The process dies inside append, with k cells of the record in the file.
append_dies(size, k) ==
    /\ MayAppend(size)
    /\ LET r == build_journal_record(calls + 1, last_sequence + 1, size)
       IN  file' = Write(AppendBase, r, k)
    /\ calls' = calls + 1
    /\ phase' = "Closed"
    /\ UNCHANGED <<snapshot, storeVars, applied, acked, failed_at, snapshots>>

\* fwrite or the flush fails after k cells: append returns an error, the
\* cells stay where they are, and the caller does not apply the record.
append_fails(size, k) ==
    /\ Fails
    /\ MayAppend(size)
    /\ LET r == build_journal_record(calls + 1, last_sequence + 1, size)
       IN  file' = Write(AppendBase, r, k)
    /\ torn_tail_pending' = FALSE
    /\ calls' = calls + 1
    /\ UNCHANGED <<snapshot, phase, last_sequence, valid_cells, applied, acked,
                   snapshots>>

\* The truncation of a torn tail, or the flush after it, fails.
truncate_fails ==
    /\ Fails
    /\ phase = "Ready"
    /\ torn_tail_pending
    /\ file' \in {file, AppendBase}
    /\ UNCHANGED <<snapshot, phase, storeVars, applied, acked, calls,
                   snapshots>>

\* Mutant of write_snapshot: the journal goes before the snapshot is in place.
discard_then_snapshot ==
    /\ phase = "Ready"
    /\ snapshots < MaxSnapshots
    /\ snapshots' = snapshots + 1
    /\ file' = <<>>
    /\ phase' = "Compacting"
    /\ UNCHANGED <<snapshot, storeVars, applied, acked, failed_at, calls>>

\* compact begins with write_snapshot.  The temporary file is never read, so
\* the snapshot changes with the rename and not before; a failure up to that
\* point changes nothing.
write_snapshot ==
    /\ phase = "Ready"
    /\ snapshots < MaxSnapshots
    /\ snapshots' = snapshots + 1
    /\ snapshot' = applied
    /\ phase' = "Compacting"
    /\ UNCHANGED <<file, storeVars, applied, acked, failed_at, calls>>

\* Mutant of compact: the sequence counter is not reset.
compact_keeping_sequence ==
    /\ phase = "Compacting"
    /\ file' = <<>>
    /\ valid_cells' = 0
    /\ torn_tail_pending' = FALSE
    /\ phase' = "Ready"
    /\ UNCHANGED <<snapshot, last_sequence, applied, acked, failed_at, calls,
                   snapshots>>

\* The journal is discarded and the counters start again.
compact ==
    /\ phase = "Compacting"
    /\ file' = <<>>
    /\ last_sequence' = 0
    /\ valid_cells' = 0
    /\ torn_tail_pending' = FALSE
    /\ phase' = "Ready"
    /\ UNCHANGED <<snapshot, applied, acked, failed_at, calls, snapshots>>

\* The truncation of the journal, or the flush after it, fails.
compact_fails ==
    /\ Fails
    /\ phase = "Compacting"
    /\ file' \in {file, <<>>}
    /\ phase' = "Ready"
    /\ UNCHANGED <<snapshot, storeVars, applied, acked, calls, snapshots>>

\* The process ends, by its own decision or not.
Stop ==
    /\ phase # "Closed"
    /\ phase' = "Closed"
    /\ UNCHANGED <<file, snapshot, storeVars, applied, acked, failed_at, calls,
                   snapshots>>

Next ==
    \/ open_store
    \/ \E repair \in BOOLEAN : replay(repair)
    \/ \E size \in PayloadSizes :
          \/ append(size)
          \/ \E k \in 0..journal_record_cells(size) :
                append_dies(size, k) \/ append_fails(size, k)
    \/ truncate_fails
    \/ write_snapshot
    \/ compact
    \/ compact_fails
    \/ Stop

Spec == Init /\ [][Next]_vars

-----------------------------------------------------------------------------

\* A crash never looks like corruption: as long as no call to the system has
\* failed, the journal can be opened whenever the process dies, and however
\* many torn tails it has left behind.
CrashIsNotCorruption == failed_at = None => ~Refuses(file)

\* Durable before acknowledged: a record whose append returned success is
\* part of what the next incarnation reads, in the snapshot or in front of the
\* place where a scan of the journal stops, whatever was compacted, cut or
\* repaired in between.  A failure of the system damages nothing that had been
\* acknowledged by then; of later records nothing is said.
AckedSurvives ==
    \A id \in acked :
        failed_at = None \/ id <= failed_at =>
            \/ \E i \in DOMAIN snapshot : snapshot[i] = id
            \/ \E i \in 1..scan_journal(file).records : file[i].id = id

\* The counters the store keeps in memory describe the file it appends to, as
\* long as no call to the system has failed.
CountersMatchFile ==
    failed_at = None /\ phase \in {"Ready", "Compacting"} =>
        /\ last_sequence = scan_journal(file).records
        /\ valid_cells = Cells(Records(file))
        /\ torn_tail_pending = (scan_journal(file).stop = "TornTail")
=============================================================================
