------------------------------ MODULE SstTable ------------------------------
(***************************************************************************)
(* The sorted table of src/engula/src/format/sstable.rs: SstBuilder with  *)
(* its SstFileWriter, and SstReader reading the table back.               *)
(*                                                                         *)
(* Data abstraction.  The file is a sequence of cells, one cell standing  *)
(* for the bytes of one record: a data-block entry, an index-block entry  *)
(* or the footer (FOOTER_SIZE = 1 cell).  A block of n records is n      *)
(* cells, so a BlockHandle (offset, size) counts cells, and a read_at of  *)
(* a handle is the cells at those positions, short at the end of the     *)
(* file.  An entry is an InternalKey (key, ts); its value is the entry    *)
(* itself.  BlockBuilder (block.rs, not in this tree) is modelled from    *)
(* the spec (4.1, 4.5): a sequence of records, approximate_size its      *)
(* length, finish returning the records and resetting the builder.       *)
(* SequentialWriter::write_all may fail after writing any proper prefix   *)
(* of its buffer (at most MaxWriteFail times).                            *)
(***************************************************************************)
EXTENDS Integers, Sequences, SequencesExt

CONSTANTS
    Keys,          \* user keys, naturals ordered as the byte strings they stand for
    Timestamps,    \* timestamps, naturals
    BlockSize,     \* SstOptions.block_size, in records
    MaxAdds,       \* bound on the caller's add calls
    MaxFinish,     \* bound on the caller's finish calls
    MaxWriteFail,  \* bound on failing write_all calls
    NONE, PANIC, CORRUPT

VARIABLES
    sst,      \* SstBuilder: [file, offset, data, index, last, error]
    added,    \* the entries the caller passed to add, in order
    calls,    \* finish calls made
    result,   \* answer of the last finish: "none", "err" or "ok"
    size,     \* the size an Ok finish returned
    fails     \* write_all calls that failed

vars == <<sst, added, calls, result, size, fails>>

Entries == [key : Keys, ts : Timestamps]

\* InternalKey order (codec.rs, spec 3): user key ascending, then newer
\* timestamps first.  The assert of SstBuilder::add is exactly IKLess.
IKLess(a, b) == a.key < b.key \/ (a.key = b.key /\ a.ts > b.ts)

Handle(off, sz) == [offset |-> off, size |-> sz]
EntryCell(e) == [kind |-> "entry", e |-> e, h |-> NONE]
IndexCell(e, h) == [kind |-> "index", e |-> e, h |-> h]
FooterCell(h) == [kind |-> "footer", e |-> NONE, h |-> h]

\* Mutant: the handle is taken after the offset has advanced.
write_block_handle_after(s, blk) ==
    [st |-> [s EXCEPT !.file = @ \o blk, !.offset = @ + Len(blk)],
     h |-> Handle(s.offset + Len(blk), Len(blk))]

\* SstFileWriter::write_block: the handle at the current offset, then
\* write_all, then the offset advances.
write_block(s, blk) ==
    [st |-> [s EXCEPT !.file = @ \o blk, !.offset = @ + Len(blk)],
     h |-> Handle(s.offset, Len(blk))]

\* write_block whose write_all fails after j cells: the offset stays.
write_block_failed(s, blk, j) == [s EXCEPT !.file = @ \o SubSeq(blk, 1, j)]

\* Mutant: the index entry is keyed by the first key of the block.
flush_data_block_first_key(s) ==
    LET w == write_block([s EXCEPT !.data = <<>>], s.data)
    IN [w.st EXCEPT !.index = Append(@, IndexCell(s.data[1].e, w.h))]

\* SstBuilder::flush_data_block: finish the data block (which resets it),
\* write it, and index it under (last_ts, last_key).
flush_data_block(s) ==
    LET w == write_block([s EXCEPT !.data = <<>>], s.data)
    IN [w.st EXCEPT !.index = Append(@, IndexCell(s.last, w.h))]

flush_data_block_failed(s, j) ==
    write_block_failed([s EXCEPT !.data = <<>>], s.data, j)

\* Results of a step: the builder after it, and whether a write failed.
Out(s, failed) == [st |-> s, failed |-> failed]

\* SstBuilder::add once past the sticky-error check: remember the key,
\* append the record and flush when the block reached block_size; a
\* failed flush becomes the sticky error.
AddOutcomes(s, e) ==
    LET s1 == [s EXCEPT !.last = e, !.data = Append(@, EntryCell(e))]
    IN IF Len(s1.data) < BlockSize THEN {Out(s1, FALSE)}
       ELSE {Out(flush_data_block(s1), FALSE)} \cup
            {Out([flush_data_block_failed(s1, j) EXCEPT !.error = TRUE], TRUE) :
                j \in 0..Len(s1.data) - 1}

\* SstBuilder::finish past the sticky-error check: flush the open data
\* block, then write the index block (finish resets it) and the footer.
\* Every `?` returns the write error without recording it in self.error.
FinishOutcomes(s) ==
    LET d == IF s.data = <<>> THEN s ELSE flush_data_block(s)
        dFail == IF s.data = <<>> THEN {}
                 ELSE {Out(flush_data_block_failed(s, j), TRUE) : j \in 0..Len(s.data) - 1}
        i0 == [d EXCEPT !.index = <<>>]
        wi == write_block(i0, d.index)
        footer == <<FooterCell(wi.h)>>
        iFail == {Out(write_block_failed(i0, d.index, j), TRUE) : j \in 0..Len(d.index) - 1}
        fFail == {Out(write_block_failed(wi.st, footer, 0), TRUE)}
    IN IF d.index = <<>> THEN dFail \cup {Out(d, FALSE)}
       ELSE dFail \cup iFail \cup fFail \cup {Out(write_block(wi.st, footer).st, FALSE)}

Init ==
    /\ sst = [file |-> <<>>, offset |-> 0, data |-> <<>>, index |-> <<>>,
              last |-> NONE, error |-> FALSE]
    /\ added = <<>>
    /\ calls = 0
    /\ result = "none"
    /\ size = 0
    /\ fails = 0

\* The caller adds entries in strictly increasing InternalKey order,
\* before calling finish.
CallerMayAdd(e) ==
    /\ calls = 0
    /\ Len(added) < MaxAdds
    /\ IF added = <<>> THEN TRUE ELSE IKLess(added[Len(added)], e)
    /\ added' = Append(added, e)

\* add with the sticky error set returns at once (sstable.rs:83-85).
AddIgnored(e) ==
    /\ sst.error
    /\ CallerMayAdd(e)
    /\ UNCHANGED <<sst, calls, result, size, fails>>

Add(e) ==
    /\ ~sst.error
    /\ CallerMayAdd(e)
    /\ \E o \in AddOutcomes(sst, e) :
          /\ o.failed => fails < MaxWriteFail
          /\ sst' = o.st
          /\ fails' = fails + IF o.failed THEN 1 ELSE 0
    /\ UNCHANGED <<calls, result, size>>

\* The caller calls finish, and calls it again only after an error.
CallerMayFinish ==
    /\ calls < MaxFinish
    /\ calls = 0 \/ result = "err"
    /\ calls' = calls + 1

FinishStickyError ==
    /\ sst.error
    /\ CallerMayFinish
    /\ result' = "err"
    /\ UNCHANGED <<sst, added, size, fails>>

Finish ==
    /\ ~sst.error
    /\ CallerMayFinish
    /\ \E o \in FinishOutcomes(sst) :
          /\ o.failed => fails < MaxWriteFail
          /\ sst' = o.st
          /\ result' = IF o.failed THEN "err" ELSE "ok"
          /\ size' = IF o.failed THEN size ELSE o.st.offset
          /\ fails' = fails + IF o.failed THEN 1 ELSE 0
    /\ UNCHANGED added

Next ==
    \/ \E e \in Entries : Add(e) \/ AddIgnored(e)
    \/ Finish
    \/ FinishStickyError

Spec == Init /\ [][Next]_vars

-----------------------------------------------------------------------------
(***************************************************************************)
(* SstReader over the file of `size` cells.                               *)
(***************************************************************************)

\* RandomAccessReader::read_at: the n cells from off, fewer at end of file.
ReadAt(f, off, n) == SubSeq(f, off + 1, IF off + n < Len(f) THEN off + n ELSE Len(f))

\* SstFooter::decode_from of the footer buffer: a short read leaves it
\* zeroed, which decodes as the handle (0, 0); any other record is garbage.
DecodeFooter(cells) ==
    IF cells = <<>> THEN Handle(0, 0)
    ELSE IF cells[1].kind = "footer" THEN cells[1].h
    ELSE CORRUPT

\* SstReader::open: assert size >= FOOTER_SIZE, read and decode the footer,
\* read the index block; the counts read_at returns are ignored, so a
\* short index read keeps zeroed (garbage) records.
open(f, n) ==
    IF n < 1 THEN PANIC
    ELSE LET h == DecodeFooter(ReadAt(f, n - 1, 1))
         IN IF h = CORRUPT THEN CORRUPT
            ELSE LET ic == ReadAt(f, h.offset, h.size)
                 IN IF Len(ic) < h.size \/ \E i \in DOMAIN ic : ic[i].kind # "index"
                    THEN CORRUPT ELSE ic

Failed(x) == x \in {PANIC, CORRUPT}

\* SstBlockIterGenerator::spawn: read the block of an index entry; a short
\* read fails the assert_eq.
spawn(f, c) ==
    LET blk == ReadAt(f, c.h.offset, c.h.size)
    IN IF Len(blk) # c.h.size THEN PANIC
       ELSE IF \E i \in DOMAIN blk : blk[i].kind # "entry" THEN CORRUPT
       ELSE [i \in DOMAIN blk |-> blk[i].e]

\* new_iterator scanned from the first entry to the end.
Scan(f, n) ==
    LET idx == open(f, n)
    IN IF Failed(idx) THEN idx
       ELSE LET blks == [i \in DOMAIN idx |-> spawn(f, idx[i])]
            IN IF \E i \in DOMAIN blks : Failed(blks[i])
               THEN PANIC ELSE FlattenSeq(blks)

\* TwoLevelIterator::seek from index entry i on: load the block, seek in
\* it, and move to the next block while the inner iterator is exhausted.
RECURSIVE SeekFrom(_, _, _, _)
SeekFrom(f, idx, i, e) ==
    IF i > Len(idx) THEN NONE
    ELSE LET b == spawn(f, idx[i])
         IN IF Failed(b) THEN b
            ELSE LET q == SelectInSeq(b, LAMBDA x : ~IKLess(x, e))
                 IN IF q = 0 THEN SeekFrom(f, idx, i + 1, e) ELSE b[q]

\* SstReader::get: seek the index to the first block whose last key is
\* >= (ts, key), seek there, and answer only an exact (ts, key) match.
get(f, n, e) ==
    LET idx == open(f, n)
    IN IF Failed(idx) THEN idx
       ELSE LET p == SelectInSeq(idx, LAMBDA c : ~IKLess(c.e, e))
                cur == IF p = 0 THEN NONE ELSE SeekFrom(f, idx, p, e)
            IN IF cur = e \/ Failed(cur) THEN cur ELSE NONE

-----------------------------------------------------------------------------
\* A table finish returned Ok for, holding at least one entry.
Finished == result = "ok" /\ added # <<>>

(***************************************************************************)
(* Once SstBuilder::finish has returned Ok(size), SstReader::open of the  *)
(* file at that size, iterated from the start, yields exactly the entries *)
(* the caller added, in order: no entry an add accepted is lost to a      *)
(* failed flush, and the footer, index handles and data handles all       *)
(* point at what was written (sstable.rs:70-142, 151-166, 206-213).       *)
(***************************************************************************)
FinishedTableReadsBack ==
    Finished => Scan(sst.file, size) = added

(***************************************************************************)
(* Once finish has returned Ok, SstReader::get answers every added entry *)
(* and no other: the index is keyed so that the seek of get lands in the  *)
(* block holding the entry (sstable.rs:70-77, 171-183).                   *)
(***************************************************************************)
FinishedTableGetsEach ==
    Finished =>
        \A e \in Entries :
            get(sst.file, size, e) = IF e \in Range(added) THEN e ELSE NONE
=============================================================================
