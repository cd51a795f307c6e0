------------------------------ MODULE TsdbInv ------------------------------
(***************************************************************************)
(* What is always true of the medium of the time-series database and of    *)
(* what is in memory: the properties that are proved in TsdbProofs and     *)
(* their inductive invariant.                                              *)
(***************************************************************************)
EXTENDS Tsdb

----------------------------------------------------------------------------
(* Index and data *)

\* Where the data of a record begin: log_addr.
LogAddr(r) == r.top - r.len
IndexEnd(n) == SECTOR_HDR_DATA_SIZE + LOG_IDX_DATA_SIZE * n

\* The data of no two records overlap, none overlap the index, and the data of a
\* committed record were written: also behind records of which power failure left a
\* part, whose length the next session does not know.
SectorApart(sec) ==
    \A j \in DOMAIN sec.tsls :
        LET r == sec.tsls[j]
        IN  /\ IndexEnd(Len(sec.tsls)) <= LogAddr(r) /\ r.top <= SecSize
            /\ \A k \in 1 .. j-1 : r.top <= LogAddr(sec.tsls[k])
            /\ ~Torn(r) => r.data

DataApart == \A s \in Sector : SectorApart(flash[s])

\* A sector is closed only when it holds its share of max_blob_count, whatever fails; what
\* a failure left of a record counts, for its room is lost.
NoRoomWasted ==
    \A s \in Sector :
        flash[s].ok /\ flash[s].store = "Full" => N * Len(flash[s].tsls) >= max_blob_count

----------------------------------------------------------------------------
(* What a step may do to the medium *)

StatusRank == [Unused |-> 0, PreWrite |-> 1, Write |-> 2,
               UserStatus1 |-> 3, Deleted |-> 4, UserStatus2 |-> 5]
StoreRank == [Unused |-> 0, Empty |-> 1, Using |-> 2, Full |-> 3]

\* A time is programmed once.
TimeOnce(old, new) == old = new \/ old = ErasedTime

EndForward(old, new) ==
    /\ StatusRank[old.stat] <= StatusRank[new.stat]
    /\ old.stat = "Write" => new = old
    /\ TimeOnce(old.time, new.time)

RecordForward(old, new) ==
    /\ StatusRank[old.status] <= StatusRank[new.status]
    /\ TimeOnce(old.time, new.time) /\ old.top = new.top
    /\ old.data => new = [old EXCEPT !.status = new.status]

\* Nothing that was programmed is programmed with something else.
Forward1(old, new) ==
    /\ old.ok => new.ok
    /\ StoreRank[old.store] <= StoreRank[new.store]
    /\ TimeOnce(old.start, new.start)
    /\ \A e \in 1 .. 2 : EndForward(old.ends[e], new.ends[e])
    /\ Len(old.tsls) <= Len(new.tsls)
    /\ \A j \in DOMAIN old.tsls : RecordForward(old.tsls[j], new.tsls[j])

\* The two calls that may program what is not a subset, at once and nothing else: set_status,
\* with a state that is earlier than that of the record, and an append without a current
\* sector, over the magic word of sector 0.
MarksOne(old, new) ==
    \E j \in Committed(old), st \in Marks : new = [old EXCEPT !.tsls[j].status = st]
HidesHeader(s, old, new) == s = 0 /\ ~cur.ok /\ new = [old EXCEPT !.ok = FALSE]

Programs(s, old, new) ==
    \/ Forward1(old, new)
    \/ new = Erased
    \/ pc = "Idle" /\ (MarksOne(old, new) \/ HidesHeader(s, old, new))

\* Every write goes to bytes that are still erased or moves a status on, whatever an earlier
\* session left behind, unless the sector is erased as a whole: "The database engine only
\* ever programs bit patterns that are subsets of what is already there" (storage.rs:6-7).
\* The code keeps to that but for the two calls that are named here.
TsProgramOnlyClears == [][\A s \in Sector : Programs(s, flash[s], flash'[s])]_flash

----------------------------------------------------------------------------
(* The inductive invariant *)

\* A sector that was erased and not used yet.
Fresh(sec) == /\ sec.start = ErasedTime /\ sec.tsls = <<>>
              /\ \A e \in 1 .. 2 : sec.ends[e] = NoEnd

\* What any session leaves behind: the status of a sector, of a copy of the end
\* information and of a record goes ahead of what it announces.
SectorOK(sec) ==
    /\ sec.store \in {"Unused", "Empty"} => Fresh(sec)
    /\ \A e \in 1 .. 2 : sec.ends[e].stat = "Unused" => sec.ends[e] = NoEnd
    /\ \A j \in DOMAIN sec.tsls : sec.tsls[j].len <= MaxLen
    /\ SectorApart(sec)

MediumOK == \A s \in Sector : SectorOK(flash[s])

\* c describes sec, which has n records: the room it claims is free.
RoomAgrees(c, sec, n) ==
    /\ c.idx = n /\ c.remain >= 0 /\ c.data <= SecSize
    /\ c.remain > 0 => IndexEnd(n) + c.remain <= c.data
    /\ \A j \in 1 .. n : c.data <= LogAddr(sec.tsls[j])

StatAgrees(c, sec) == \A e \in 1 .. 2 : c.stat[e] = sec.ends[e].stat

\* A description of a sector between two appends.
Agrees(c, img) ==
    LET sec == img[c.sec]
    IN  /\ c.sec \in Sector
        /\ c.status = "Empty" => /\ sec.store = "Empty" /\ RoomAgrees(c, sec, 0)
                                 /\ c.remain = SecSize - SECTOR_HDR_DATA_SIZE
        /\ c.status = "Using" => sec.store = "Using" /\ RoomAgrees(c, sec, Len(sec.tsls))
        /\ c.status \in {"Empty", "Using"} => StatAgrees(c, sec)

EndLabels == {"EndPre", "EndData", "EndWrite", "SetFull"}
FirstLabels == {"SetUsing", "SetStart", "TslPre"}
RecordLabels == {"TslIdx", "TslData", "TslWrite"}
FormatLabels == {"FmtErase", "FmtStatus", "FmtMagic"}

\* Which call is in execution where, and that its blob was taken.
CallAgrees ==
    /\ pc \in EndLabels \cup FirstLabels \cup RecordLabels => call.op = "Append"
    /\ pc \in FormatLabels => call.op # "None"
    /\ pc = "CleanEnd" => call.op \in {"Clean", "Open"}
    /\ call.op = "Append" => call.len <= MaxLen

\* Every write finds the place it programs as the write before it left it.
EndAgrees ==
    /\ cur.sec \in Sector /\ flash[cur.sec].store = "Using"
    /\ pc = "EndPre" => End = NoEnd
    /\ pc = "EndData" => End.stat = "PreWrite" /\ End.time = ErasedTime
    /\ pc = "EndWrite" => End.stat = "PreWrite"

RoomEnough == cur.remain >= Cost(call.len)

FirstAgrees ==
    /\ cur.ok /\ Agrees(cur, flash)
    /\ pc = "SetUsing" => cur.status = "Empty"
    /\ pc = "SetStart" => flash[cur.sec].start = ErasedTime
    /\ pc \in {"SetStart", "TslPre"} => cur.status = "Using" /\ RoomEnough

RecordAgrees ==
    LET sec == flash[cur.sec]
        n == Len(sec.tsls) - 1
    IN  /\ cur.sec \in Sector /\ cur.ok /\ cur.status = "Using" /\ sec.store = "Using"
        /\ n \in Nat /\ RoomAgrees(cur, sec, n) /\ RoomEnough /\ StatAgrees(cur, sec)
        /\ Record.status = "PreWrite" /\ Record.top = cur.data
        /\ pc = "TslIdx" => Record.time = ErasedTime
        /\ pc \in {"TslData", "TslWrite"} => Record.len = call.len
        /\ (Record.data <=> pc = "TslWrite")

FormatAgrees ==
    /\ pc = "FmtStatus" => flash[call.sec].store = "Unused"
    /\ pc = "FmtMagic" => flash[call.sec].store = "Empty"
    /\ call.op \in {"Clean", "Open"} =>
          \A s \in Sector : s < call.sec \/ pc = "CleanEnd" =>
              flash[s].store = "Empty" /\ flash[s].ok

\* Nothing is known of what is in memory once the medium fails; nothing is written then.
MemoryOK ==
    /\ CallAgrees
    /\ pc = "Idle" /\ cur.ok => Agrees(cur, flash)
    /\ pc \in EndLabels => EndAgrees
    /\ pc \in FirstLabels => FirstAgrees
    /\ pc \in RecordLabels => RecordAgrees
    /\ FormatAgrees

TsIInv == TsTypeOK /\ MediumOK /\ (~failing => MemoryOK)

----------------------------------------------------------------------------
(* The room that is left *)

\* No record was given more room than the longest blob takes.
Packed(sec) == \A j \in DOMAIN sec.tsls : sec.tsls[j].top >= SecSize - (j - 1) * MaxLen

\* The room that a description claims is all there is but for its records.
Roomy(c) == c.ok => /\ c.data >= SecSize - c.idx * MaxLen
                    /\ c.remain >= Room - c.idx * Cost(MaxLen)

\* One more blob may be too long.
Tight(sec) == Room < (Len(sec.tsls) + 1) * Cost(MaxLen)

RoomKept == /\ \A s \in Sector : /\ Packed(flash[s])
                                 /\ flash[s].store = "Full" => Tight(flash[s])
            /\ Roomy(cur)
            /\ ~failing /\ pc \in EndLabels => Tight(flash[cur.sec])
=============================================================================
