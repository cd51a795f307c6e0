------------------------------ MODULE TsQuery ------------------------------
(***************************************************************************)
(* The iterations and queries of src/src/tsdb.rs, as functions of the      *)
(* image and of what the database has in memory.  What they return is the  *)
(* sequence of the records, each as <<sector, number>>; a callback that    *)
(* stops early sees a prefix of it.                                        *)
(***************************************************************************)
EXTENDS Tsdb, SequencesExt

----------------------------------------------------------------------------
(* What is read at the place of an index record *)

UnusedSlot == [status |-> "Unused", time |-> 0]

\* The data of the last record begin right behind the index.
ExactlyFull(sec) ==
    /\ sec.tsls # <<>> /\ LastRecord(sec).data
    /\ LastRecord(sec).top - LastRecord(sec).len
          = SECTOR_HDR_DATA_SIZE + LOG_IDX_DATA_SIZE * Len(sec.tsls)

\* The bytes of a blob read as an index record; they are zeros here.
BlobSlot == [status |-> "UserStatus2", time |-> 0]

\* The second half of a sector header as an index record: the status is the last byte of
\* the end index, which is 0 as soon as the first copy is written; the time is the upper
\* half of the end time and the lower half of the end index of the second copy.
EndIdxAddr(s, e) == s * SecSize + SECTOR_HDR_DATA_SIZE + LOG_IDX_DATA_SIZE * (e.idx - 1)
Signed16(x) == IF x < 2^15 THEN x ELSE x - 2^16
HeaderTime(s, e) ==
    IF e.time = ErasedTime THEN ErasedTime
    ELSE ((e.time \div 2^16) % 2^16) + 2^16 * Signed16(EndIdxAddr(s, e) % 2^16)

HeaderSlot(s) == IF flash[s].ends[1].time = ErasedTime THEN UnusedSlot
                 ELSE [status |-> "UserStatus2", time |-> HeaderTime(s, flash[s].ends[2])]

Slot(s, j) ==
    LET sec == flash[s]
    IN  IF j \in DOMAIN sec.tsls
        THEN [status |-> sec.tsls[j].status, time |-> ReadTime(sec.tsls[j])]
        ELSE IF j = 0 THEN HeaderSlot(s)
        ELSE IF ExactlyFull(sec) THEN BlobSlot ELSE UnusedSlot

----------------------------------------------------------------------------
(* Walks over the sectors *)

\* The description of a sector that is iterated: of one in use the copy the append keeps.
\* Mutant: the header is used.
M_SecFor(s) == read_header(flash, s)
SecFor(s) == LET h == read_header(flash, s)
             IN  IF h.ok /\ h.status = "Using" THEN cur ELSE h

HasRecords(s) == flash[s].ok /\ flash[s].store \in {"Using", "Full"}
\* (A sector with a header is never UNUSED.)
IsEmpty(s) == flash[s].ok /\ flash[s].store = "Empty"

\* The sectors in the order in which they are visited: each once, N of them.
Forward == LET w[i \in 1 .. N] == IF i = 1 THEN oldest ELSE NextSector(SecFor(w[i-1]).sec)
           IN  w
Backward == LET w[i \in 1 .. N] == IF i = 1 THEN cur.sec ELSE LastSector(SecFor(w[i-1]).sec)
            IN  w

\* The walk up to the first sector in S, which is not visited.
Before(w, S) == LET I == {i \in DOMAIN w : w[i] \in S}
                IN  IF I = {} THEN w ELSE SubSeq(w, 1, Least(I) - 1)

Numbers(s, from, to) == [k \in 1 .. to - from + 1 |-> <<s, from + k - 1>>]

\* The first record is read before the end is looked at.
AtLeast(x, y) == IF x >= y THEN x ELSE y

----------------------------------------------------------------------------
(* collect, iter; collect_reverse, iter_reverse *)

collect ==
    IF oldest = NoAddr THEN <<>>
    ELSE FlattenSeq([i \in 1 .. N |->
            LET s == Forward[i]
            IN  IF HasRecords(s) THEN Numbers(SecFor(s).sec, 1, AtLeast(SecFor(s).endIdx, 1))
                ELSE <<>>])

\* Without a record in the sector address 0 is read.
Downward(s, end) == IF end = 0 THEN << <<s, 0>> >> ELSE Reverse(Numbers(s, 1, end))

collect_reverse ==
    IF cur.sec = NoAddr THEN <<>>
    ELSE LET w == Before(Backward, {s \in Sector : IsEmpty(s)})
         IN  FlattenSeq([i \in DOMAIN w |->
                IF HasRecords(w[i]) THEN Downward(SecFor(w[i]).sec, SecFor(w[i]).endIdx)
                ELSE <<>>])

----------------------------------------------------------------------------
(* search_start_tsl_addr: a binary search *)

HalfUp(d) == IF d <= 0 THEN 0 ELSE (d + 1) \div 2

\* The place at which the search ended; backwards the one in front of it.
SearchEnd(s, j, from, to) ==
    IF from > to /\ Slot(s, j).time > from THEN j - 1 ELSE j

\* What is left of the places i[1] .. i[2] when the one in the middle was read.
Middle(i) == i[1] + HalfUp(i[2] - i[1])
Narrowed(s, i, from) == LET mid == Middle(i)
                            t   == Slot(s, mid).time
                        IN  <<IF t < from THEN mid + 1 ELSE i[1], IF t > from THEN mid - 1 ELSE i[2]>>

search_start_tsl_addr(s, last, from, to) ==
    LET search[i \in (1 .. last + 2) \X (0 .. last)] ==
          LET rest == Narrowed(s, i, from)
          IN  IF Slot(s, Middle(i)).time = from THEN Middle(i)
              ELSE IF rest[1] > rest[2] THEN SearchEnd(s, rest[1], from, to)
              ELSE search[rest]
    IN  search[<<1, last>>]

----------------------------------------------------------------------------
(* collect_by_time, iter_by_time, query_count *)

InRange(t, from, to) == (from <= t /\ t <= to) \/ (to <= t /\ t <= from)

\* Whether the interval begins in this sector or before it.
\* Mutant: the end time alone counts.
M_Reached(sec, isFirst, from, to) ==
    IF from <= to THEN from <= sec.endTime ELSE from >= sec.endTime
Reached(sec, isFirst, from, to) ==
    IF from <= to THEN (isFirst /\ from <= sec.start) \/ from <= sec.endTime
    ELSE (isFirst /\ from >= sec.endTime) \/ from >= sec.start

\* The places that are read in a sector, up to the first record out of the interval.
Places(sec, from, to) ==
    LET j == search_start_tsl_addr(sec.sec, sec.endIdx, from, to)
    IN  IF from <= to THEN Numbers(sec.sec, j, AtLeast(sec.endIdx, j))
        ELSE IF j = 0 THEN << <<sec.sec, 0>> >> ELSE Reverse(Numbers(sec.sec, 1, j))

\* Reading a slot that is not one of an unused record and not in the interval is the end.
Outside(p, from, to) ==
    LET r == Slot(p[1], p[2]) IN r.status # "Unused" /\ ~InRange(r.time, from, to)
IsEnd(ps, from, to) == \E k \in DOMAIN ps : Outside(ps[k], from, to)

Reported(ps, from, to) ==
    LET K == {k \in DOMAIN ps : Outside(ps[k], from, to)}
        n == IF K = {} THEN Len(ps) ELSE Least(K) - 1
    IN  FlattenSeq([k \in 1 .. n |-> IF Slot(ps[k][1], ps[k][2]).status = "Unused" THEN <<>>
                                     ELSE <<ps[k]>>])

collect_by_time(from, to) ==
    LET start == IF from <= to THEN oldest ELSE cur.sec
        w == Before(IF from <= to THEN Forward ELSE Backward, {s \in Sector : IsEmpty(s)})
        \* the steps of the walk at and behind which records are looked for
        found == {i \in DOMAIN w : /\ HasRecords(w[i])
                                   /\ Reached(SecFor(w[i]), w[i] = start, from, to)}
        visited == {i \in DOMAIN w : HasRecords(w[i]) /\ \E k \in found : k <= i}
        places == [i \in DOMAIN w |-> IF i \in visited THEN Places(SecFor(w[i]), from, to)
                                      ELSE <<>>]
        ends == {i \in visited : IsEnd(places[i], from, to)}
        last == IF ends = {} THEN Len(w) ELSE Least(ends)
    IN  IF start = NoAddr THEN <<>>
        ELSE FlattenSeq([i \in 1 .. last |-> Reported(places[i], from, to)])

query_count(from, to, status) ==
    LET q == collect_by_time(from, to)
    IN  Cardinality({k \in DOMAIN q : Slot(q[k][1], q[k][2]).status = status})
=============================================================================
