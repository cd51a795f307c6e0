------------------------------ MODULE TsFlash ------------------------------
(***************************************************************************)
(* The storage image of the time-series database (src/src/tsdb.rs) and     *)
(* what the code reads from it: index records, the description of a sector *)
(* (TsdbSecInfo), the scan of init.  Everything here is a pure function of *)
(* the image; Tsdb.tla has the state machine that programs it and          *)
(* TsQuery.tla the iterations and the queries.                             *)
(*                                                                         *)
(* The index of a sector grows up behind its header in records of 16       *)
(* bytes, the data grow down from its end.  An index record is named by    *)
(* its number: record j of a sector is at SECTOR_HDR_DATA_SIZE +           *)
(* (j-1) * LOG_IDX_DATA_SIZE.  Offsets of data and sizes are the bytes of  *)
(* the code, relative to the sector.  The bytes of a blob are abstracted   *)
(* to its length.                                                          *)
(***************************************************************************)
EXTENDS Integers, Sequences, FiniteSets

CONSTANTS
    N,          \* number of sectors: max_size / sec_size
    SecSize,    \* sec_size
    MaxLen,     \* max_len, the longest blob
    NoAddr      \* DATA_UNUSED: no sector

SECTOR_HDR_DATA_SIZE == 32
LOG_IDX_DATA_SIZE == 16

\* validate_geometry.
ASSUME GeometryAssumption == /\ N \in Nat /\ N >= 2
                             /\ SecSize \in Nat /\ \E i \in 0 .. 31 : SecSize = 2^i
\* The longest blob fits in an empty sector.  with_options asks for less: a blob that is
\* longer is written over the index and the header.
ASSUME MaxLenAssumption ==
    MaxLen \in Nat /\ SECTOR_HDR_DATA_SIZE + LOG_IDX_DATA_SIZE + MaxLen <= SecSize

Sector == 0 .. N-1
ASSUME NoAddrAssumption == NoAddr \notin Sector

SectorStoreStatus == {"Unused", "Empty", "Using", "Full"}
TslStatus == {"Unused", "PreWrite", "Write", "UserStatus1", "Deleted", "UserStatus2"}
EndStatus == {"Unused", "PreWrite", "Write"}

\* The bits of a time that was never programmed.
ErasedTime == -1

(***************************************************************************)
(* An index record and its data.  top is the end of the place its data     *)
(* were given, so that they are in top - len .. top - 1 (log_addr is       *)
(* top - len); data says that they were programmed.                        *)
(***************************************************************************)
IndexRecord == [status: TslStatus \ {"Unused"}, time: Int, len: Nat, top: Int, data: BOOLEAN]

\* One of the two copies of the end information; idx is a record number.
EndInfo == [stat: EndStatus, time: Int, idx: Nat]
NoEnd == [stat |-> "Unused", time |-> ErasedTime, idx |-> 0]

\* "ok" is check_ok: the magic word of the sector header is there.
SectorImage == [ok: BOOLEAN, store: SectorStoreStatus, start: Int,
                ends: [1 .. 2 -> EndInfo], tsls: Seq(IndexRecord)]

Erased == [ok |-> FALSE, store |-> "Unused", start |-> ErasedTime,
           ends |-> [e \in 1 .. 2 |-> NoEnd], tsls |-> <<>>]

----------------------------------------------------------------------------
(* read_tsl *)

Torn(r) == r.status \in {"Unused", "PreWrite"}

ReadLen(r) == IF Torn(r) THEN MaxLen ELSE r.len
ReadTime(r) == IF Torn(r) THEN 0 ELSE r.time

----------------------------------------------------------------------------
(* read_sector_info *)

\* TsdbSecInfo: idx is the number of records in front of empty_idx, data is empty_data.
SecInfo == [sec: Sector \cup {NoAddr}, ok: BOOLEAN, status: SectorStoreStatus, start: Int,
            endTime: Int, endIdx: Nat, stat: [1 .. 2 -> EndStatus],
            remain: Int, idx: Nat, data: Int]

Blank(s) == [sec |-> s, ok |-> FALSE, status |-> "Unused", start |-> 0,
             endTime |-> 0, endIdx |-> 0, stat |-> [e \in 1 .. 2 |-> "Unused"],
             remain |-> 0, idx |-> 0, data |-> 0]

\* The end information that counts: the first copy that was completed.
EndOf(sec) ==
    IF sec.ends[1].stat = "Write" THEN sec.ends[1]
    ELSE IF sec.ends[2].stat = "Write" THEN sec.ends[2]
    ELSE [NoEnd EXCEPT !.time = 0]

LastRecord(sec) == sec.tsls[Len(sec.tsls)]

\* Where the data of the next record end.
EmptyData(sec) == IF sec.tsls = <<>> THEN SecSize
                  ELSE LastRecord(sec).top - ReadLen(LastRecord(sec))

\* What is free between the index and the data.
Free(sec) == LET room == EmptyData(sec) - SECTOR_HDR_DATA_SIZE
                         - LOG_IDX_DATA_SIZE * Len(sec.tsls)
             IN  IF room > 0 THEN room ELSE 0

Least(S) == CHOOSE x \in S : \A y \in S : x <= y
Greatest(S) == CHOOSE x \in S : \A y \in S : x >= y

Committed(sec) == {j \in DOMAIN sec.tsls : ~Torn(sec.tsls[j])}

\* The header alone.
read_header(img, s) ==
    LET sec == img[s]
    IN  IF sec.ok
        THEN [sec |-> s, ok |-> TRUE, status |-> sec.store, start |-> sec.start,
              endTime |-> EndOf(sec).time, endIdx |-> EndOf(sec).idx,
              stat |-> [e \in 1 .. 2 |-> sec.ends[e].stat],
              remain |-> SecSize - SECTOR_HDR_DATA_SIZE, idx |-> 0, data |-> SecSize]
        ELSE Blank(s)

\* The header, and of a sector in use the records up to the first unused one.
read_sector_info(img, s) ==
    IF s = NoAddr THEN Blank(NoAddr)
    ELSE LET h == read_header(img, s)
             sec == img[s]
         IN  IF ~h.ok \/ h.status # "Using" \/ sec.tsls = <<>> THEN h
             ELSE [h EXCEPT !.endTime = IF Committed(sec) = {} THEN @
                                        ELSE sec.tsls[Greatest(Committed(sec))].time,
                            !.endIdx = Len(sec.tsls), !.idx = Len(sec.tsls),
                            !.remain = Free(sec), !.data = EmptyData(sec)]

----------------------------------------------------------------------------
(* get_next_sector_addr, get_last_sector_addr, without the count of what was traversed *)

NextSector(s) == (s + 1) % N
LastSector(s) == (s + N - 1) % N

----------------------------------------------------------------------------
(* init *)

Empties(img) == {s \in Sector : img[s].ok /\ img[s].store = "Empty"}
Usings(img) == {s \in Sector : img[s].ok /\ img[s].store = "Using"}

\* The current sector: the first one that is in use or empty.
FirstOpen(img) == LET S == Empties(img) \cup Usings(img)
                  IN  IF S = {} THEN NoAddr ELSE Least(S)

\* A header is missing, or a second sector is in use.
\* Mutant: the first sector in use counts as well.
M_CheckFailed(img) == (\E s \in Sector : ~img[s].ok) \/ Usings(img) # {}
CheckFailed(img) == \/ \E s \in Sector : ~img[s].ok
                    \/ Usings(img) \ {FirstOpen(img)} # {}

\* Behind the current sector one that was filled lies in front of an empty one: power was
\* lost twice, once between two sectors and once while clean went through the sectors in
\* front, and the scan cannot tell any more where the ring begins.
BrokenRing(img) == \E s, t \in Sector : /\ img[s].store = "Full" /\ img[t].store = "Empty"
                                        /\ FirstOpen(img) < s /\ s < t

\* The sector behind the last one that was written.  Without a current sector the sum
\* wraps around to the last byte of sector 0, which is no sector.
\* Mutants: behind the first empty one; no wrap around at the end.
M_FindOldest(img) == IF Empties(img) # {} THEN NextSector(Least(Empties(img)))
                     ELSE IF FirstOpen(img) = NoAddr THEN NoAddr ELSE NextSector(FirstOpen(img))
M_FindOldestEnd(img) == IF Empties(img) # {} THEN Greatest(Empties(img)) + 1
                   ELSE IF FirstOpen(img) = NoAddr THEN NoAddr ELSE NextSector(FirstOpen(img))
FindOldest(img) == IF Empties(img) # {} THEN NextSector(Greatest(Empties(img)))
                   ELSE IF FirstOpen(img) = NoAddr THEN NoAddr ELSE NextSector(FirstOpen(img))

\* last_time, from the current sector or the one in front of it.
FindLastTime(img, c, old) ==
    IF c.status = "Using" THEN c.endTime
    ELSE IF c.status = "Empty" /\ old # c.sec THEN read_header(img, LastSector(c.sec)).endTime
    ELSE 0
=============================================================================
