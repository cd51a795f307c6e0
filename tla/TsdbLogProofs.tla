--------------------------- MODULE TsdbLogProofs ---------------------------
(***************************************************************************)
(* The time-series database implements the log of TsLog.tla, for every     *)
(* geometry and any number of failures (ImplementsLog): every storage call *)
(* maps to a step of the log or to none.                                   *)
(* At the end, that no sector is closed before its time (NoRoomWasted).    *)
(***************************************************************************)
EXTENDS TsdbRingProofs

----------------------------------------------------------------------------
(* The entries of a sector and of all *)

LEMMA InSectorLog ==
  ASSUME NEW sec
  PROVE  \A e : e \in SectorLog(sec) <=> sec.ok /\ \E j \in Committed(sec) : e = Entry(sec.tsls[j])
BY DEF SectorLog

LEMMA InEntries == \A e : e \in Entries <=> \E s \in Sector : e \in SectorLog(flash[s])
BY DEF Entries

LEMMA InEntriesNext == \A e : e \in Entries' <=> \E s \in Sector : e \in SectorLog(flash'[s])
BY DEF Entries

\* An entry as a record.
LEMMA EntryIs ==
  ASSUME NEW r
  PROVE  /\ Entry(r).time = r.time /\ Entry(r).len = r.len /\ Entry(r).status = r.status
         /\ Entry(r).data = r.data
BY DEF Entry

SameLog == \A s \in Sector : SectorLog(flash'[s]) = SectorLog(flash[s])
LessLog == \A s \in Sector : SectorLog(flash'[s]) \subseteq SectorLog(flash[s])

LEMMA SameEntries ==
  ASSUME SameLog
  PROVE  LessLog /\ Entries' = Entries
<1>1. \A e : e \in Entries' <=> e \in Entries
  BY InEntries, InEntriesNext DEF SameLog
<1> QED BY <1>1 DEF SameLog, LessLog

LEMMA LessEntries ==
  ASSUME LessLog
  PROVE  /\ Entries' \subseteq Entries
         /\ StatusOK => StatusOK'
         /\ OneTime => OneTime'
<1>1. \A e : e \in Entries' => e \in Entries
  BY InEntries, InEntriesNext DEF LessLog
<1> QED BY <1>1 DEF LessLog, StatusOK, OneTime

LEMMA UnchangedLog == ASSUME flash' = flash PROVE SameLog
BY DEF SameLog

----------------------------------------------------------------------------
(* What a write does to the log *)

\* The same committed records.
SameKept(old, new) == /\ Committed(new) = Committed(old) /\ new.ok = old.ok
                      /\ \A j \in Committed(old) : new.tsls[j] = old.tsls[j]

LEMMA KeptLog ==
  ASSUME NEW old, NEW new, SameKept(old, new)
  PROVE  SectorLog(new) = SectorLog(old)
<1>1. \A e : e \in SectorLog(new) <=> e \in SectorLog(old)
  BY InSectorLog DEF SameKept
<1> QED BY <1>1

LEMMA KeptRecords ==
  ASSUME NEW old, NEW new, new.tsls = old.tsls, new.ok = old.ok
  PROVE  SameKept(old, new)
BY DEF SameKept, Committed

\* A torn record at the end is none.
LEMMA TornKept ==
  ASSUME NEW old \in SectorImage, NEW r, Torn(r), NEW new, new.ok = old.ok,
         \/ new.tsls = Append(old.tsls, r) /\ r \in IndexRecord
         \/ /\ Len(old.tsls) > 0 /\ Torn(old.tsls[Len(old.tsls)])
            /\ new.tsls = [old.tsls EXCEPT ![Len(old.tsls)] = r]
  PROVE  SameKept(old, new)
<1>1. old.tsls \in Seq(IndexRecord) /\ Len(old.tsls) \in Nat /\ DOMAIN old.tsls = 1 .. Len(old.tsls)
  BY DEF SectorImage
<1>2. Committed(new) = Committed(old)
  BY TornAtEnd DEF SameTimes
<1>3. ASSUME NEW j \in Committed(old) PROVE new.tsls[j] = old.tsls[j]
  <2>1. j \in 1 .. Len(old.tsls) /\ ~Torn(old.tsls[j])
    BY <1>1, <1>3 DEF Committed
  <2> QED BY <1>1, <2>1
<1> QED BY <1>2, <1>3 DEF SameKept

\* A write to one sector.
LEMMA WriteLog ==
  ASSUME TsIInv, NEW s, NEW image, NEW ok \in BOOLEAN, Program(s, image, ok),
         ok => s \in Sector /\ SameKept(flash[s], image)
  PROVE  /\ SameLog
         /\ ok => ~failing /\ flash'[s] = image /\ \A q \in Sector : q # s => flash'[q] = flash[q]
<1>1. flash \in Image /\ MediumType
  BY TypeParts DEF TsIInv
<1>2. CASE ok
  <2>1. ~failing /\ flash' = [flash EXCEPT ![s] = image]
    BY <1>1, <1>2, Programmed
  <2>2. flash'[s] = image /\ \A q \in Sector : q # s => flash'[q] = flash[q]
    BY <1>1, <1>2, <2>1, OneSector
  <2>3. \A q \in Sector : SectorLog(flash'[q]) = SectorLog(flash[q])
    BY <1>2, <2>2, KeptLog
  <2> QED BY <2>1, <2>2, <2>3 DEF SameLog
<1>3. CASE ~ok
  BY <1>1, <1>3, Programmed, UnchangedLog
<1> QED BY <1>2, <1>3

\* Everything but the records changes.
SameRecs == \A s \in Sector : flash'[s].tsls = flash[s].tsls /\ flash'[s].ok = flash[s].ok

LEMMA SameRecsLog ==
  ASSUME SameRecs
  PROVE  SameLog /\ \A s \in Sector : Committed(flash'[s]) = Committed(flash[s])
<1>1. \A s \in Sector : SameKept(flash[s], flash'[s])
  BY KeptRecords DEF SameRecs
<1> QED BY <1>1, KeptLog DEF SameLog, SameKept

LEMMA HeaderWrite ==
  ASSUME TsIInv, NEW s, NEW image, NEW ok \in BOOLEAN, Program(s, image, ok),
         ok => s \in Sector /\ image.tsls = flash[s].tsls /\ image.ok = flash[s].ok
  PROVE  SameRecs /\ \A q \in Sector : flash'[q].store = flash[q].store \/ (ok /\ q = s /\ flash'[q] = image)
<1>1. flash \in Image /\ MediumType
  BY TypeParts DEF TsIInv
<1>2. CASE ok
  <2>1. flash' = [flash EXCEPT ![s] = image]
    BY <1>1, <1>2, Programmed
  <2>2. flash'[s] = image /\ \A q \in Sector : q # s => flash'[q] = flash[q]
    BY <1>1, <1>2, <2>1, OneSector
  <2> QED BY <1>2, <2>2 DEF SameRecs
<1>3. CASE ~ok
  BY <1>1, <1>3, Programmed DEF SameRecs
<1> QED BY <1>2, <1>3

\* The writes of an append to the header of the current sector.
LEMMA EndWrites ==
  ASSUME TsIInv, NEW ok \in BOOLEAN,
         EndPre(ok) \/ EndData(ok) \/ EndWrite(ok) \/ SetStart(ok)
  PROVE  SameRecs /\ \A s \in Sector : flash'[s].store = flash[s].store
<1>1. PICK image :
         /\ Program(cur.sec, image, ok)
         /\ flash[cur.sec] \in SectorImage =>
               /\ image.tsls = flash[cur.sec].tsls /\ image.ok = flash[cur.sec].ok
               /\ image.store = flash[cur.sec].store
  BY DEF EndPre, EndData, EndWrite, SetStart, WithEnd, SectorImage
<1>2. pc \in AppendLabels /\ MediumType
  BY TypeParts DEF TsIInv, EndPre, EndData, EndWrite, SetStart, AppendLabels, EndLabels, FirstLabels
<1>3. ok => cur.sec \in Sector /\ flash[cur.sec] \in SectorImage
  BY <1>1, <1>2, Programmed, InSector
<1> QED BY <1>1, <1>3, HeaderWrite

LEMMA StoreWrites ==
  ASSUME TsIInv, NEW ok \in BOOLEAN, NEW store, Program(cur.sec, [flash[cur.sec] EXCEPT !.store = store], ok),
         pc \in AppendLabels
  PROVE  /\ SameRecs
         /\ \A s \in Sector : \/ flash'[s].store = flash[s].store
                              \/ ok /\ s = cur.sec /\ flash'[s].store = store
<1>1. MediumType
  BY TypeParts DEF TsIInv
<1>2. ok => cur.sec \in Sector /\ flash[cur.sec] \in SectorImage
  BY <1>1, Programmed, InSector
<1>3. PICK image : image = [flash[cur.sec] EXCEPT !.store = store]
  OBVIOUS
<1>4. ok => image.tsls = flash[cur.sec].tsls /\ image.ok = flash[cur.sec].ok /\ image.store = store
  BY <1>2, <1>3 DEF SectorImage
<1>5. Program(cur.sec, image, ok)
  BY <1>3
<1>6. /\ SameRecs
      /\ \A q \in Sector : \/ flash'[q].store = flash[q].store
                           \/ ok /\ q = cur.sec /\ flash'[q] = image
  BY <1>2, <1>4, <1>5, HeaderWrite
<1> QED BY <1>4, <1>6

\* The writes to a record that come before its commit.
LEMMA TslPreKept ==
  ASSUME TsIInv, NEW ok \in BOOLEAN, TslPre(ok)
  PROVE  /\ SameLog
         /\ ok => /\ \A s \in Sector : s # cur.sec => flash'[s] = flash[s]
                  /\ flash'[cur.sec].tsls = Append(flash[cur.sec].tsls, Reserved)
<1> DEFINE image == [flash[cur.sec] EXCEPT !.tsls = Append(@, Reserved)]
<1>1. Program(cur.sec, image, ok) /\ pc \in AppendLabels
  BY DEF TslPre, AppendLabels, FirstLabels
<1>2. MediumType
  BY TypeParts DEF TsIInv
<1>3. ASSUME ok PROVE /\ cur.sec \in Sector /\ SameKept(flash[cur.sec], image)
                      /\ image.tsls = Append(flash[cur.sec].tsls, Reserved)
  <2>1. cur.sec \in Sector /\ flash[cur.sec] \in SectorImage /\ cur \in SecInfo
    BY <1>1, <1>2, <1>3, Programmed, InSector
  <2>2. image.tsls = Append(flash[cur.sec].tsls, Reserved) /\ image.ok = flash[cur.sec].ok
    BY <2>1 DEF SectorImage
  <2>3. Torn(Reserved) /\ Reserved \in IndexRecord
    BY <2>1 DEF Reserved, Torn, IndexRecord, TslStatus, ErasedTime, SecInfo
  <2> HIDE DEF image
  <2> QED BY <2>1, <2>2, <2>3, TornKept
<1> HIDE DEF image
<1> QED BY <1>1, <1>3, WriteLog

LEMMA RecordKept ==
  ASSUME TsIInv, NEW ok \in BOOLEAN, TslIdx(ok) \/ TslData(ok)
  PROVE  /\ SameLog
         /\ ok => /\ \A s \in Sector : s # cur.sec => flash'[s] = flash[s]
                  /\ Len(flash'[cur.sec].tsls) = Len(flash[cur.sec].tsls)
<1>1. PICK r : /\ Program(cur.sec, WithLast(r), ok)
               /\ Record \in IndexRecord => r.status = Record.status
  <2>1. CASE TslIdx(ok)
    <3>1. Program(cur.sec, WithLast([Record EXCEPT !.time = call.time, !.len = call.len]), ok)
      BY <2>1 DEF TslIdx
    <3>2. PICK r : r = [Record EXCEPT !.time = call.time, !.len = call.len]
      OBVIOUS
    <3>3. Record \in IndexRecord => r.status = Record.status
      BY <3>2 DEF IndexRecord
    <3> QED BY <3>1, <3>2, <3>3
  <2>2. CASE TslData(ok)
    <3>1. Program(cur.sec, WithLast([Record EXCEPT !.data = TRUE]), ok)
      BY <2>2 DEF TslData
    <3>2. PICK r : r = [Record EXCEPT !.data = TRUE]
      OBVIOUS
    <3>3. Record \in IndexRecord => r.status = Record.status
      BY <3>2 DEF IndexRecord
    <3> QED BY <3>1, <3>2, <3>3
  <2> QED BY <2>1, <2>2
<1>2. pc \in RecordLabels /\ MediumType
  BY TypeParts DEF TslIdx, TslData, RecordLabels, TsIInv
<1> DEFINE image == WithLast(r)
<1>3. ASSUME ok PROVE /\ cur.sec \in Sector /\ SameKept(flash[cur.sec], image)
                      /\ Len(image.tsls) = Len(flash[cur.sec].tsls)
  <2>1. ~failing
    BY <1>1, <1>2, <1>3, Programmed
  <2>2. cur.sec \in Sector /\ flash[cur.sec] \in SectorImage /\ RecordAgrees /\ Record \in IndexRecord
    BY <1>2, <2>1, AtRecord
  <2>3. /\ Len(flash[cur.sec].tsls) \in Nat \ {0} /\ Record = flash[cur.sec].tsls[Len(flash[cur.sec].tsls)]
        /\ image.tsls = [flash[cur.sec].tsls EXCEPT ![Len(flash[cur.sec].tsls)] = r]
        /\ image.ok = flash[cur.sec].ok /\ Len(image.tsls) = Len(flash[cur.sec].tsls)
    BY <1>2, <2>1, LastWritten
  <2> HIDE DEF image
  <2>4. Torn(Record) /\ Torn(r)
    BY <1>1, <2>2 DEF RecordAgrees, Torn
  <2> QED BY <2>2, <2>3, <2>4, TornKept
<1> HIDE DEF image
<1> QED BY <1>1, <1>3, WriteLog DEF image

\* The writes of format_sector: the entries of the sector go with the first one.
LEMMA EraseWrites ==
  ASSUME TsIInv, NEW ok \in BOOLEAN, FmtErase(ok)
  PROVE  /\ LessLog
         /\ \A s \in Sector : \/ flash'[s] = flash[s]
                              \/ ok /\ ~failing /\ s = call.sec /\ flash'[s] = Erased /\ SectorLog(flash'[s]) = {}
<1>1. flash \in Image /\ MediumType /\ Program(call.sec, Erased, ok) /\ call.sec \in Sector
  BY TypeParts, InFormat DEF TsIInv, FmtErase, FormatLabels
<1>2. SectorLog(Erased) = {}
  BY DEF SectorLog, Erased
<1>3. CASE ok
  <2>1. ~failing /\ flash' = [flash EXCEPT ![call.sec] = Erased]
    BY <1>1, <1>3, Programmed
  <2>2. flash'[call.sec] = Erased /\ \A q \in Sector : q # call.sec => flash'[q] = flash[q]
    BY <1>1, <2>1, OneSector
  <2> QED BY <1>2, <1>3, <2>1, <2>2 DEF LessLog
<1>4. CASE ~ok
  BY <1>1, <1>4, Programmed DEF LessLog
<1> QED BY <1>3, <1>4

LEMMA StatusWrites ==
  ASSUME TsIInv, NEW ok \in BOOLEAN, FmtStatus(ok)
  PROVE  /\ SameRecs
         /\ \A s \in Sector : flash'[s].store \in {flash[s].store, "Empty"}
<1>1. PICK image : image = [flash[call.sec] EXCEPT !.store = "Empty"]
  OBVIOUS
<1>2. Program(call.sec, image, ok) /\ call.sec \in Sector /\ flash[call.sec] \in SectorImage
  BY <1>1, InFormat DEF FmtStatus, FormatLabels
<1>3. image.tsls = flash[call.sec].tsls /\ image.ok = flash[call.sec].ok /\ image.store = "Empty"
  BY <1>1, <1>2 DEF SectorImage
<1>4. /\ SameRecs
      /\ \A q \in Sector : \/ flash'[q].store = flash[q].store
                           \/ ok /\ q = call.sec /\ flash'[q] = image
  BY <1>2, <1>3, HeaderWrite
<1> QED BY <1>3, <1>4

LEMMA MagicWrites ==
  ASSUME TsIInv, NEW ok \in BOOLEAN, FmtMagic(ok)
  PROVE  /\ SameLog
         /\ \A s \in Sector : flash'[s].tsls = flash[s].tsls /\ flash'[s].store = flash[s].store
<1>1. PICK image : image = [flash[call.sec] EXCEPT !.ok = TRUE]
  OBVIOUS
<1>2. /\ Program(call.sec, image, ok) /\ call.sec \in Sector /\ flash[call.sec] \in SectorImage
      /\ SectorOK(flash[call.sec]) /\ (~failing => FormatAgrees) /\ pc = "FmtMagic"
  BY <1>1, InFormat DEF FmtMagic, FormatLabels
<1>3. image.tsls = flash[call.sec].tsls /\ image.store = flash[call.sec].store
  BY <1>1, <1>2 DEF SectorImage
<1>4. flash \in Image /\ MediumType
  BY TypeParts DEF TsIInv
<1>5. CASE ok
  <2>1. ~failing /\ flash' = [flash EXCEPT ![call.sec] = image]
    BY <1>2, <1>4, <1>5, Programmed
  <2>2. flash'[call.sec] = image /\ \A q \in Sector : q # call.sec => flash'[q] = flash[q]
    BY <1>2, <1>4, <2>1, OneSector
  <2>3. Committed(flash[call.sec]) = {}
    BY <1>2, <2>1, FreshTimes DEF FormatAgrees
  <2>4. Committed(image) = {}
    BY <1>3, <2>3 DEF Committed
  <2>5. SectorLog(image) = {} /\ SectorLog(flash[call.sec]) = {}
    BY <2>3, <2>4 DEF SectorLog
  <2> QED BY <1>3, <2>2, <2>5 DEF SameLog
<1>6. CASE ~ok
  BY <1>2, <1>4, <1>6, Programmed, UnchangedLog
<1> QED BY <1>5, <1>6

\* An index record written over the header of sector 0.
LEMMA NowhereWrites ==
  ASSUME TsIInv, NEW ok \in BOOLEAN, Program(0, [flash[0] EXCEPT !.ok = FALSE], ok)
  PROVE  /\ LessLog /\ (~ok => flash' = flash)
         /\ \A s \in Sector : flash'[s].tsls = flash[s].tsls /\ flash'[s].store = flash[s].store
<1>1. flash \in Image /\ MediumType /\ 0 \in Sector /\ flash[0] \in SectorImage
  BY TypeParts, Geometry DEF TsIInv, Image
<1>2. PICK image : image = [flash[0] EXCEPT !.ok = FALSE]
  OBVIOUS
<1>3. image.tsls = flash[0].tsls /\ image.store = flash[0].store /\ SectorLog(image) = {}
  BY <1>1, <1>2 DEF SectorImage, SectorLog
<1>4. CASE ok
  <2>1. flash' = [flash EXCEPT ![0] = image]
    BY <1>1, <1>2, <1>4, Programmed
  <2>2. flash'[0] = image /\ \A q \in Sector : q # 0 => flash'[q] = flash[q]
    BY <1>1, <2>1, OneSector
  <2> QED BY <1>3, <1>4, <2>2 DEF LessLog
<1>5. CASE ~ok
  <2>1. flash' = flash
    BY <1>1, <1>5, Programmed
  <2> QED BY <2>1 DEF LessLog
<1> QED BY <1>4, <1>5

\* The state of one entry changes.
LEMMA MarkLog ==
  ASSUME TsIInv, TimesOK, StatusOK, OneTime, NEW s \in Sector, NEW st \in Marks,
         NEW j \in Committed(flash[s]), SetStatus(s, j, st, TRUE)
  PROVE  LET e == Entry(flash[s].tsls[j]) IN
         /\ e \in Entries
         /\ \E mark \in Marks : /\ Entries' = (Entries \ {e}) \cup {Log!Entry(e.time, e.len, mark)}
                                /\ StatusOK' /\ OneTime'
<1> DEFINE sec == flash[s]
           old == sec.tsls[j]
           e == Entry(old)
<1>1. flash \in Image /\ MediumType
  BY TypeParts DEF TsIInv
<1>2. PICK r, image : /\ r = [old EXCEPT !.status = st]
                      /\ image = PutRecord(sec, j, r)
  OBVIOUS
<1>3. Program(s, image, TRUE) /\ sec.ok
  BY <1>2 DEF SetStatus, PutRecord
<1>4. flash'[s] = image /\ \A q \in Sector : q # s => flash'[q] = flash[q]
  BY <1>1, <1>3, Programmed, OneSector
<1>5. /\ SameTimes(sec, image) /\ image.ok = sec.ok /\ Len(image.tsls) = Len(sec.tsls)
      /\ \A k \in 1 .. Len(image.tsls) : k # j => image.tsls[k] = sec.tsls[k]
      /\ image.tsls[j] = r
  BY <1>1, <1>2, MarkTimes
<1>6. /\ \A k \in Committed(sec) : k \in 1 .. Len(sec.tsls) /\ k \in Nat /\ sec.tsls[k].time \in Int
      /\ sec.tsls \in Seq(IndexRecord)
  BY <1>1, CommittedType DEF Image
<1>7. Committed(image) = Committed(sec)
  BY <1>5 DEF SameTimes
<1>8. Entry(r) = Log!Entry(e.time, e.len, st)
  <2>1. old \in IndexRecord /\ ~Torn(old) /\ SectorOK(sec) /\ j \in DOMAIN sec.tsls
    BY <1>6 DEF Committed, TsIInv, MediumOK
  <2>2. old.data = TRUE
    BY <2>1 DEF SectorOK, SectorApart, IndexRecord
  <2>3. r.time = old.time /\ r.len = old.len /\ r.status = st /\ r.data = TRUE
    BY <1>2, <2>1, <2>2 DEF IndexRecord
  <2> HIDE DEF old
  <2> QED BY <2>3, EntryIs DEF Entry, Log!Entry
<1> HIDE DEF sec, old
<1>9. \A k \in Committed(sec) : k # j => Entry(sec.tsls[k]).time # e.time
  <2>1. SectorOrdered(sec)
    BY DEF TimesOK, sec
  <2>2. ASSUME NEW k \in Committed(sec), k # j PROVE sec.tsls[k].time # sec.tsls[j].time
    <3>1. j \in Committed(sec) /\ (k < j \/ j < k)
      BY <1>6, <2>2 DEF sec
    <3>2. sec.tsls[k].time < sec.tsls[j].time \/ sec.tsls[j].time < sec.tsls[k].time
      BY <2>1, <2>2, <3>1 DEF SectorOrdered
    <3> QED BY <1>6, <3>1, <3>2
  <2> QED BY <2>2, EntryIs DEF old
<1>10. \A x : x \in SectorLog(image) <=> (x \in SectorLog(sec) /\ x # e) \/ x = Entry(r)
  <2>1. j \in Committed(sec) /\ old = sec.tsls[j]
    BY DEF sec, old
  <2>2. \A k \in Committed(sec) : k # j => image.tsls[k] = sec.tsls[k]
    BY <1>5, <1>6
  <2>3. \A x : x \in SectorLog(image) <=> \E k \in Committed(sec) : x = Entry(image.tsls[k])
    BY <1>3, <1>5, <1>7, InSectorLog
  <2>4. \A x : x \in SectorLog(sec) <=> \E k \in Committed(sec) : x = Entry(sec.tsls[k])
    BY <1>3, InSectorLog
  <2>5. Entry(image.tsls[j]) = Entry(r) /\ e = Entry(sec.tsls[j])
    BY <1>5, <2>1
  <2> QED BY <1>9, <2>1, <2>2, <2>3, <2>4, <2>5
<1>11. e \in SectorLog(flash[s]) /\ SectorLog(sec) = SectorLog(flash[s])
  BY <1>3, InSectorLog DEF sec, old
<1>12. \A q \in Sector : q # s => SectorLog(flash'[q]) = SectorLog(flash[q]) /\ e \notin SectorLog(flash[q])
  BY <1>4, <1>11 DEF OneTime
<1>13. \A x : x \in Entries' <=> (x \in Entries /\ x # e) \/ x = Entry(r)
  BY <1>4, <1>10, <1>11, <1>12, InEntries, InEntriesNext
<1>14. Entries' = (Entries \ {e}) \cup {Log!Entry(e.time, e.len, st)}
  BY <1>8, <1>13
<1>15. Entry(r).status = st /\ Entry(r).time = e.time
  BY <1>8 DEF Log!Entry
<1>16. StatusOK'
  BY <1>4, <1>10, <1>11, <1>12, <1>15 DEF StatusOK
<1>17. OneTime'
  <2>1. \A q \in Sector : \A x \in SectorLog(flash'[q]) : \E y \in SectorLog(flash[q]) : x.time = y.time
    BY <1>4, <1>10, <1>11, <1>12, <1>15
  <2> QED BY <2>1 DEF OneTime
<1>18. e \in Entries
  BY <1>11, InEntries
<1> QED BY <1>14, <1>16, <1>17, <1>18 DEF sec, old

\* The commit: one entry comes, and it is newer than every other one.
LEMMA CommitLog ==
  ASSUME TsIInv, TimesOK, CurOK, TslWrite(TRUE)
  PROVE  /\ \A e \in Entries : e.time < call.time
         /\ Entries' = Entries \cup {Log!Entry(call.time, call.len, "Write")}
         /\ StatusOK => StatusOK'
         /\ OneTime => OneTime'
<1> DEFINE r == [Record EXCEPT !.status = "Write"]
           old == flash[cur.sec]
           n == Len(old.tsls)
           image == WithLast(r)
           new == Log!Entry(call.time, call.len, "Write")
<1>1. flash \in Image /\ MediumType /\ pc \in RecordLabels /\ pc = "TslWrite"
  BY TypeParts DEF TsIInv, TslWrite, RecordLabels
<1>2. Program(cur.sec, image, TRUE)
  BY DEF TslWrite
<1>3. ~failing /\ flash' = [flash EXCEPT ![cur.sec] = image]
  BY <1>1, <1>2, Programmed
<1>4. cur.sec \in Sector /\ old \in SectorImage /\ RecordAgrees /\ Record \in IndexRecord
  BY <1>1, <1>3, AtRecord
<1>5. NewTime /\ call.time \in Int
  BY <1>1, <1>3, AtRecord DEF TimesOK, Appending, AppendLabels
<1>6. Entry(r) = new
  <2>1. r.time = call.time /\ r.len = call.len /\ r.status = "Write" /\ r.data = TRUE
    BY <1>1, <1>4, <1>5 DEF NewTime, RecordAgrees, IndexRecord
  <2> HIDE DEF r
  <2> QED BY <2>1 DEF Entry, Log!Entry
<1> HIDE DEF r
<1>7. /\ n \in Nat \ {0} /\ image.tsls = [old.tsls EXCEPT ![n] = r] /\ image.ok = old.ok
      /\ Len(image.tsls) = n /\ image.tsls[n] = r
  BY <1>1, <1>3, LastWritten
<1>8. flash'[cur.sec] = image /\ \A q \in Sector : q # cur.sec => flash'[q] = flash[q]
  BY <1>1, <1>3, <1>4, OneSector
<1>9. /\ Committed(image) = Committed(old) \cup {n}
      /\ \A j \in Committed(old) : j \in 1 .. n-1
  BY <1>8, Commits
<1>10. old.ok
  BY <1>1, <1>3, <1>4 DEF CurOK, RecordAgrees, AppendLabels
<1> HIDE DEF image, old, n
<1>11. \A j \in Committed(old) : image.tsls[j] = old.tsls[j]
  <2>1. old.tsls \in Seq(IndexRecord) /\ DOMAIN old.tsls = 1 .. n
    BY <1>4 DEF SectorImage, n
  <2> QED BY <1>7, <1>9, <2>1
<1>12. \A e : e \in SectorLog(image) <=> e \in SectorLog(old) \/ e = new
  <2>1. \A e : e \in SectorLog(image) <=> \E j \in Committed(old) \cup {n} : e = Entry(image.tsls[j])
    <3>1. image.ok = TRUE /\ Committed(image) = Committed(old) \cup {n}
      BY <1>7, <1>9, <1>10
    <3> QED BY <3>1, InSectorLog
  <2>2. \A e : e \in SectorLog(old) <=> \E j \in Committed(old) : e = Entry(old.tsls[j])
    BY <1>10, InSectorLog
  <2>3. Entry(image.tsls[n]) = new
    BY <1>6, <1>7
  <2> QED BY <1>11, <2>1, <2>2, <2>3
<1>13. \A e : e \in Entries' <=> e \in Entries \/ e = new
  BY <1>4, <1>8, <1>12, InEntries, InEntriesNext DEF old
<1>14. \A s \in Sector : \A e \in SectorLog(flash[s]) : e.time < call.time /\ e.time \in Int
  <2>1. ASSUME NEW s \in Sector, NEW e \in SectorLog(flash[s]) PROVE e.time < call.time /\ e.time \in Int
    <3>1. PICK j \in Committed(flash[s]) : e = Entry(flash[s].tsls[j])
      BY <2>1, InSectorLog
    <3>2. flash[s].tsls[j].time < call.time /\ flash[s].tsls[j].time \in Int
      BY <1>1, <1>5, <3>1, CommittedType DEF NewTime, Image
    <3> QED BY <3>1, <3>2, EntryIs
  <2> QED BY <2>1
<1>15. \A e \in Entries : e.time < call.time
  BY <1>14, InEntries
<1>16. \A s \in Sector : \A e \in SectorLog(flash'[s]) :
          e \in SectorLog(flash[s]) \/ (s = cur.sec /\ e = new)
  BY <1>8, <1>12 DEF old
<1>17. new.time = call.time /\ new.status = "Write"
  BY DEF Log!Entry
<1> HIDE DEF new
<1>18. StatusOK => StatusOK'
  BY <1>16, <1>17 DEF StatusOK
<1>19. ASSUME OneTime PROVE OneTime'
  <2>1. ASSUME NEW s \in Sector, NEW t \in Sector, NEW e \in SectorLog(flash'[s]),
               NEW f \in SectorLog(flash'[t]), e.time = f.time
        PROVE  s = t
    <3>1. CASE e \in SectorLog(flash[s]) /\ f \in SectorLog(flash[t])
      BY <1>19, <2>1, <3>1 DEF OneTime
    <3>2. CASE e = new /\ f \in SectorLog(flash[t]) /\ t # s
      <4>1. f.time < call.time /\ f.time \in Int
        BY <1>14, <3>2
      <4> QED BY <1>5, <1>17, <2>1, <3>2, <4>1
    <3>3. CASE f = new /\ e \in SectorLog(flash[s]) /\ t # s
      <4>1. e.time < call.time /\ e.time \in Int
        BY <1>14, <3>3
      <4> QED BY <1>5, <1>17, <2>1, <3>3, <4>1
    <3> QED BY <1>16, <2>1, <3>1, <3>2, <3>3
  <2> QED BY <2>1 DEF OneTime
<1> QED BY <1>13, <1>15, <1>18, <1>19 DEF new

----------------------------------------------------------------------------
(* The call in execution *)

\* Where a step leads.
CallGoes == \/ pc' \in {"Idle", "Off"} /\ call' = NoCall
            \/ pc' \in AppendLabels /\ call'.op = "Append"
            \/ pc' \in FormatLabels /\ call'.op # "None"
            \/ pc' = "CleanEnd" /\ call'.op \in {"Clean", "Open"}

LEMMA CallGoesOK ==
  ASSUME CallGoes
  PROVE  CallOK'
BY DEF CallGoes, CallOK, AppendLabels, EndLabels, FirstLabels, RecordLabels, FormatLabels, NoCall

LEMMA ThenGoes ==
  ASSUME NEW ok \in BOOLEAN, NEW label \in AppendLabels, Then(ok, label), call.op = "Append"
  PROVE  CallGoes
BY DEF CallGoes, Then, Goto, Return

LEMMA AppendGoes ==
  ASSUME TsIInv, CallOK, NEW len \in Lens, NEW t \in Int, AppendAt(len, t)
  PROVE  CallOK'
<1>1. CASE TslAppend(len, t)
  <2>1. CASE Return("WriteErr") \/ Return("SavedFull")
    BY <2>1, CallGoesOK DEF CallGoes, Return
  <2>2. ASSUME NEW label \in {"EndPre", "SetFull", "TslPre", "SetUsing"}, NEW slot, Begin(len, t, label, slot)
        PROVE  CallOK'
    <3>1. pc' \in AppendLabels /\ call'.op = "Append"
      BY <2>2 DEF Begin, NoCall, AppendLabels, EndLabels, FirstLabels
    <3> QED BY <3>1, CallGoesOK DEF CallGoes
  <2> QED BY <1>1, <2>1, <2>2 DEF TslAppend
<1>2. CASE AppendPanics(len, t)
  BY <1>2, CallGoesOK DEF AppendPanics, Reset, CallGoes
<1>3. CASE \E ok \in BOOLEAN : AppendNowhere(len, t, ok)
  BY <1>3, CallGoesOK DEF AppendNowhere, Return, CallGoes
<1> QED BY <1>1, <1>2, <1>3 DEF AppendAt

LEMMA WriteGoes ==
  ASSUME TsIInv, CallOK, NEW ok \in BOOLEAN,
         \/ EndPre(ok) \/ EndData(ok) \/ EndWrite(ok) \/ SetFull(ok) \/ SetUsing(ok) \/ SetStart(ok)
         \/ TslPre(ok) \/ TslIdx(ok) \/ TslData(ok) \/ TslWrite(ok)
  PROVE  CallOK'
<1>1. pc \in AppendLabels /\ call.op = "Append" /\ call \in Call
  BY TypeParts DEF CallOK, TsIInv, RunType, AppendLabels, EndLabels, FirstLabels, RecordLabels,
     EndPre, EndData, EndWrite, SetFull, SetUsing, SetStart, TslPre, TslIdx, TslData, TslWrite
<1>2. ASSUME NEW label \in AppendLabels, Then(ok, label) PROVE CallOK'
  BY <1>1, <1>2, ThenGoes, CallGoesOK
<1>3. {"EndData", "EndWrite", "SetFull", "SetStart", "TslPre", "TslIdx", "TslData", "TslWrite"}
         \subseteq AppendLabels
  BY DEF AppendLabels, EndLabels, FirstLabels, RecordLabels
<1>4. CASE SetFull(ok)
  <2>1. \/ Return("WriteErr") \/ Return("SavedFull") \/ TakeSector(NextSector(cur.sec))
    BY <1>4 DEF SetFull
  <2>2. CASE TakeSector(NextSector(cur.sec))
    <3>1. \/ pc' = "SetUsing" /\ call' = call
          \/ pc' = "FmtErase" /\ call' = [call EXCEPT !.sec = NextSector(cur.sec)]
      BY <2>2 DEF TakeSector, Goto
    <3>2. call'.op = "Append"
      BY <1>1, <3>1 DEF Call
    <3> QED BY <3>1, <3>2, CallGoesOK DEF CallGoes, AppendLabels, FirstLabels, FormatLabels
  <2> QED BY <2>1, <2>2, CallGoesOK DEF CallGoes, Return
<1>5. CASE TslWrite(ok)
  <2>1. Return("Ok") \/ Return("WriteErr")
    BY <1>5 DEF TslWrite
  <2> QED BY <2>1, CallGoesOK DEF CallGoes, Return
<1> QED BY <1>2, <1>3, <1>4, <1>5
       DEF EndPre, EndData, EndWrite, SetUsing, SetStart, TslPre, TslIdx, TslData

LEMMA FormatGoesOn ==
  ASSUME TsIInv, CallOK, NEW ok \in BOOLEAN, FmtErase(ok) \/ FmtStatus(ok) \/ FmtMagic(ok)
  PROVE  CallOK'
<1>1. call \in Call /\ pc \in FormatLabels /\ call.op # "None"
  BY TypeParts DEF TsIInv, RunType, CallOK, FormatLabels, FmtErase, FmtStatus, FmtMagic
<1>2. CASE Goto("FmtStatus") \/ Goto("FmtMagic")
  BY <1>1, <1>2, CallGoesOK DEF CallGoes, Goto, FormatLabels
<1>3. ASSUME NEW fine, NEW err, FmtReturn(fine, err) PROVE CallOK'
  <2>1. CASE call.op = "Append"
    BY <1>1, <1>3, <2>1, CallGoesOK DEF CallGoes, FmtReturn, Goto, Return, AppendLabels, FirstLabels
  <2>2. CASE call.op # "Append"
    <3>1. \/ pc' = "FmtErase" /\ call' = [call EXCEPT !.sec = @ + 1]
          \/ pc' = "CleanEnd" /\ call' = call
      BY <1>3, <2>2 DEF FmtReturn
    <3>2. call.op \in {"Clean", "Open"} /\ call'.op = call.op
      BY <1>1, <2>2, <3>1 DEF Call
    <3> QED BY <3>1, <3>2, CallGoesOK DEF CallGoes, FormatLabels
  <2> QED BY <2>1, <2>2
<1> QED BY <1>2, <1>3 DEF FmtErase, FmtStatus, FmtMagic

LEMMA CallNext ==
  ASSUME TsIInv, CallOK, [Next]_vars
  PROVE  CallOK'
<1>1. ASSUME NEW len \in Lens, AppendNow(len) \/ AppendAgain(len) PROVE CallOK'
  <2>1. clock \in Int /\ \A t \in NextTimes : t \in Int
    BY TypeParts, TimesAssumption DEF TsIInv, ClientType, NextTimes
  <2>2. PICK t \in Int : AppendAt(len, t)
    BY <1>1, <2>1 DEF AppendNow, AppendAgain
  <2> QED BY <2>2, AppendGoes
<1>2. CASE pc' = pc /\ call' = call
  BY <1>2 DEF CallOK
<1>3. ASSUME NEW op \in {"Clean", "Open"}, CleanCall(op) PROVE CallOK'
  <2>1. pc' \in FormatLabels /\ call'.op # "None"
    BY <1>3 DEF CleanCall, NoCall, FormatLabels
  <2> QED BY <2>1, CallGoesOK DEF CallGoes
<1>4. CASE \E r : Return(r)
  BY <1>4, CallGoesOK DEF CallGoes, Return
<1>5. CASE Reset
  BY <1>5, CallGoesOK DEF CallGoes, Reset
<1>6. CASE Client
  <2>1. ASSUME NEW strict \in BOOLEAN, Open(strict) PROVE CallOK'
    BY <1>2, <1>3, <1>4, <2>1 DEF Open
  <2>2. CASE OpenPanics
    BY <1>2, <2>2 DEF OpenPanics
  <2>3. CASE \E s \in Sector, st \in Marks, ok \in BOOLEAN :
                \E j \in Committed(flash[s]) : SetStatus(s, j, st, ok)
    BY <1>4, <2>3 DEF SetStatus
  <2> QED BY <1>1, <1>3, <1>4, <1>5, <1>6, <2>1, <2>2, <2>3 DEF Client, SetRollover, Clean, Close
<1>7. CASE Step
  <2>1. CASE CleanEnd
    BY <1>4, <2>1 DEF CleanEnd
  <2> QED BY <1>7, <2>1, WriteGoes, FormatGoesOn DEF Step
<1>8. CASE PowerLoss
  BY <1>5, <1>8 DEF PowerLoss
<1>9. CASE UNCHANGED vars
  BY <1>2, <1>9 DEF vars
<1> QED BY <1>6, <1>7, <1>8, <1>9 DEF Next

----------------------------------------------------------------------------
(* The description of the current sector *)

LEMMA CurVain ==
  ASSUME failing' \/ pc' \in FormatLabels \cup {"CleanEnd", "Off"} \/ ~cur'.ok
  PROVE  CurOK'
BY DEF CurOK, AppendLabels, EndLabels, FirstLabels, RecordLabels, FormatLabels

LEMMA CurKept ==
  ASSUME CurOK, pc \in AppendLabels \cup {"Idle"},
         ~failing' => /\ ~failing /\ cur'.sec = cur.sec /\ cur'.ok = cur.ok
                      /\ \A s \in Sector : flash[s].ok => flash'[s].ok
                      /\ pc' = "Idle" /\ cur'.status = "Full" => flash'[cur.sec].store = "Full"
  PROVE  CurOK'
BY DEF CurOK

\* A description that is read is that of the sector.
LEMMA CurRead ==
  ASSUME NEW img \in Image, NEW s \in Sector, cur' \in {read_header(img, s), read_sector_info(img, s)},
         img[s].ok => flash'[s].ok /\ flash'[s].store = img[s].store
  PROVE  CurOK'
<1>1. s # NoAddr
  BY NoAddrAssumption
<1>2. CASE ~img[s].ok
  <2>1. ~cur'.ok
    BY <1>1, <1>2 DEF read_sector_info, read_header, Blank
  <2> QED BY <2>1, CurVain
<1>3. CASE img[s].ok
  <2>1. cur'.sec = s /\ cur'.status = img[s].store
    BY <1>3, HeaderOf, InfoSector
  <2> QED BY <1>3, <2>1 DEF CurOK
<1> QED BY <1>2, <1>3

LEMMA CurAppend ==
  ASSUME TsIInv, CurOK, NEW len \in Lens, NEW t \in Int, AppendAt(len, t)
  PROVE  CurOK'
<1>1. CASE TslAppend(len, t)
  <2>1. cur' = cur /\ flash' = flash /\ failing' = failing /\ pc = "Idle"
    BY <1>1, QuietType DEF TslAppend, ram
  <2> QED BY <2>1 DEF CurOK
<1>2. CASE AppendPanics(len, t)
  BY <1>2, CurVain DEF AppendPanics, Reset
<1>3. CASE \E ok \in BOOLEAN : AppendNowhere(len, t, ok)
  BY <1>3, CurVain DEF AppendNowhere, ram
<1> QED BY <1>1, <1>2, <1>3 DEF AppendAt

LEMMA CurSetFull ==
  ASSUME TsIInv, CurOK, NEW ok \in BOOLEAN, SetFull(ok)
  PROVE  CurOK'
<1>1. pc \in AppendLabels /\ Program(cur.sec, [flash[cur.sec] EXCEPT !.store = "Full"], ok)
  BY DEF SetFull, AppendLabels, EndLabels
<1>2. flash \in Image /\ RamType /\ MediumType
  BY TypeParts DEF TsIInv
<1>3. CASE ok
  <2>1. ~failing
    BY <1>1, <1>2, <1>3, Programmed
  <2>2. cur.sec \in Sector /\ cur \in SecInfo /\ flash[cur.sec] \in SectorImage
    BY <1>1, <2>1, InSector
  <2>3. PICK image : image = [flash[cur.sec] EXCEPT !.store = "Full"]
    OBVIOUS
  <2>4. image.store = "Full"
    BY <2>2, <2>3 DEF SectorImage
  <2>5. flash' = [flash EXCEPT ![cur.sec] = image]
    BY <1>1, <1>2, <1>3, <2>3, Programmed
  <2>6. flash'[cur.sec] = image /\ \A q \in Sector : q # cur.sec => flash'[q] = flash[q]
    BY <1>2, <2>2, <2>5, OneSector
  <2>7. SameRecs
    BY <1>1, StoreWrites
  <2>8. CASE TakeSector(NextSector(cur.sec))
    <3>1. NextSector(cur.sec) \in Sector /\ NextSector(cur.sec) # cur.sec
      BY <2>2, NextSectorType
    <3> QED BY <1>2, <2>6, <2>8, <3>1, CurRead DEF TakeSector
  <2>9. CASE cur' = [cur EXCEPT !.status = "Full"]
    <3>1. cur'.sec = cur.sec /\ cur'.ok = cur.ok
      BY <2>2, <2>9 DEF SecInfo
    <3> QED BY <1>1, <2>1, <2>4, <2>6, <2>7, <3>1, CurKept DEF SameRecs
  <2> QED BY <1>3, <2>8, <2>9 DEF SetFull
<1>4. CASE ~ok
  BY <1>1, <1>2, <1>4, Programmed, CurVain
<1> QED BY <1>3, <1>4

LEMMA CurWrite ==
  ASSUME TsIInv, TimesOK, CurOK, NEW ok \in BOOLEAN,
         \/ EndPre(ok) \/ EndData(ok) \/ EndWrite(ok) \/ SetUsing(ok) \/ SetStart(ok)
         \/ TslPre(ok) \/ TslIdx(ok) \/ TslData(ok) \/ TslWrite(ok)
  PROVE  CurOK'
<1>1. pc \in AppendLabels
  BY DEF AppendLabels, EndLabels, FirstLabels, RecordLabels,
     EndPre, EndData, EndWrite, SetUsing, SetStart, TslPre, TslIdx, TslData, TslWrite
<1>2. MediumType /\ \E s, image : Program(s, image, ok)
  BY TypeParts DEF TsIInv, EndPre, EndData, EndWrite, SetUsing, SetStart, TslPre, TslIdx, TslData, TslWrite
<1>3. CASE ok
  <2>1. ~failing
    BY <1>2, <1>3, Programmed
  <2>2. cur.sec \in Sector /\ cur \in SecInfo
    BY <1>1, <2>1, InSector
  <2>3. CASE EndPre(ok) \/ EndData(ok) \/ EndWrite(ok) \/ SetStart(ok)
    <3>1. SameRecs
      BY <2>3, EndWrites
    <3>2. cur' = cur /\ pc' # "Idle"
      BY <1>3, <2>3 DEF EndPre, EndData, EndWrite, SetStart, Then, Goto, ram
    <3> QED BY <1>1, <2>1, <3>1, <3>2, CurKept DEF SameRecs
  <2>4. CASE SetUsing(ok)
    <3>1. SameRecs
      BY <1>1, <2>4, StoreWrites DEF SetUsing
    <3>2. cur' = [cur EXCEPT !.status = "Using", !.start = call.time] /\ pc' # "Idle"
      BY <1>3, <2>4 DEF SetUsing, Then, Goto
    <3>3. cur'.sec = cur.sec /\ cur'.ok = cur.ok
      BY <2>2, <3>2 DEF SecInfo
    <3> QED BY <1>1, <2>1, <3>1, <3>2, <3>3, CurKept DEF SameRecs
  <2>5. CASE TslPre(ok) \/ TslIdx(ok) \/ TslData(ok)
    <3>1. Silent
      BY <2>5, TslPreTimes, TslIdxTimes, TslDataTimes
    <3>2. cur' = cur /\ pc' # "Idle"
      BY <1>3, <2>5 DEF TslPre, TslIdx, TslData, Then, Goto, ram
    <3> QED BY <1>1, <2>1, <3>1, <3>2, CurKept DEF Silent
  <2>6. CASE TslWrite(ok)
    <3>1. cur' = WithRecord(cur)
      BY <1>3, <2>6 DEF TslWrite
    <3>2. pc \in RecordLabels
      BY <2>6 DEF TslWrite, RecordLabels
    <3>3. cur.status = "Using"
      BY <2>1, <3>2, AtRecord DEF RecordAgrees
    <3>4. cur'.sec = cur.sec /\ cur'.ok = cur.ok /\ cur'.status = "Using"
      BY <2>2, <3>1, <3>3 DEF WithRecord, SecInfo
    <3>5. \A s \in Sector : flash'[s].ok = flash[s].ok
      BY <1>3, <2>6, Commits
    <3> QED BY <1>1, <2>1, <3>4, <3>5, CurKept
  <2> QED BY <2>3, <2>4, <2>5, <2>6
<1>4. CASE ~ok
  BY <1>2, <1>4, Programmed, CurVain
<1> QED BY <1>3, <1>4

LEMMA CurFormat ==
  ASSUME TsIInv, NEW ok \in BOOLEAN, FmtErase(ok) \/ FmtStatus(ok) \/ FmtMagic(ok)
  PROVE  CurOK'
<1>1. MediumType /\ \E s, image : Program(s, image, ok)
  BY TypeParts DEF TsIInv, FmtErase, FmtStatus, FmtMagic
<1>2. CASE ~ok
  BY <1>1, <1>2, Programmed, CurVain
<1>3. CASE ok /\ ~FmtMagic(ok)
  BY <1>3, CurVain DEF FmtErase, FmtStatus, Goto, FormatLabels
<1>4. CASE ok /\ FmtMagic(ok)
  <2>1. CASE call.op = "Append"
    <3>1. cur' = read_header(flash', call.sec) /\ call.sec \in Sector /\ flash' \in Image
      BY <1>4, <2>1, InFormat, NextStep, TypePartsNext DEF FmtMagic, FormatLabels, TsIInv, Next, Step
    <3> QED BY <3>1, CurRead
  <2>2. CASE call.op # "Append"
    BY <1>4, <2>2, CurVain DEF FmtMagic, FmtReturn, FormatLabels
  <2> QED BY <2>1, <2>2
<1> QED BY <1>2, <1>3, <1>4

LEMMA CurOpen ==
  ASSUME TsIInv, CurOK, NEW strict \in BOOLEAN, Open(strict)
  PROVE  CurOK'
<1>1. flash' = flash /\ flash \in Image
  BY QuietType, TypeParts DEF Open, TsIInv
<1>2. CASE Opened
  <2>1. CASE FirstOpen(flash) = NoAddr
    <3>1. ~cur'.ok
      BY <1>2, <2>1 DEF Opened, read_sector_info, Blank
    <3> QED BY <3>1, CurVain
  <2>2. CASE FirstOpen(flash) # NoAddr
    <3>1. FirstOpen(flash) \in Sector
      BY <1>1, <2>2, FirstOpenType
    <3> QED BY <1>1, <1>2, <3>1, CurRead DEF Opened
  <2> QED BY <2>1, <2>2
<1>3. CASE pc' = "Off" \/ CleanCall("Open")
  BY <1>3, CurVain DEF CleanCall, FormatLabels
<1> QED BY <1>2, <1>3 DEF Open

LEMMA CurNext ==
  ASSUME TsIInv, TimesOK, CurOK, [Next]_vars
  PROVE  CurOK'
<1>1. ASSUME NEW len \in Lens, AppendNow(len) \/ AppendAgain(len) PROVE CurOK'
  <2>1. clock \in Int /\ \A t \in NextTimes : t \in Int
    BY TypeParts, TimesAssumption DEF TsIInv, ClientType, NextTimes
  <2>2. PICK t \in Int : AppendAt(len, t)
    BY <1>1, <2>1 DEF AppendNow, AppendAgain
  <2> QED BY <2>2, CurAppend
<1>2. CASE pc' = "Off"
  BY <1>2, CurVain
<1>3. CASE Client
  <2>1. CASE \E s \in Sector, st \in Marks, ok \in BOOLEAN :
                \E j \in Committed(flash[s]) : SetStatus(s, j, st, ok)
    <3>1. PICK s \in Sector, st \in Marks, ok \in BOOLEAN : \E j \in Committed(flash[s]) : SetStatus(s, j, st, ok)
      BY <2>1
    <3>2. PICK j \in Committed(flash[s]) : SetStatus(s, j, st, ok)
      BY <3>1
    <3>3. Silent
      BY <3>2, SetStatusTimes
    <3>4. cur' = cur /\ pc = "Idle" /\ (~failing' => ~failing)
      BY <3>2, Programmed, TypeParts DEF SetStatus, ram, TsIInv
    <3> QED BY <3>3, <3>4 DEF CurOK, Silent
  <2>2. CASE OpenPanics
    BY <1>2, <2>2 DEF OpenPanics
  <2>3. CASE SetRollover
    <3>1. cur' = cur /\ flash' = flash /\ failing' = failing /\ pc = "Idle"
      BY <2>3, QuietType DEF SetRollover
    <3> QED BY <3>1 DEF CurOK
  <2>4. CASE Clean
    BY <2>4, CurVain DEF Clean, CleanCall, FormatLabels
  <2>5. CASE Close
    BY <1>2, <2>5 DEF Close, Reset
  <2> QED BY <1>1, <1>3, <2>1, <2>2, <2>3, <2>4, <2>5, CurOpen DEF Client
<1>4. CASE Step
  <2>1. CASE CleanEnd
    <3>1. flash' = flash /\ flash \in Image /\ 0 \in Sector
      BY <2>1, QuietType, TypeParts, Geometry DEF CleanEnd, TsIInv
    <3>2. cur' \in {read_header(flash, 0), read_sector_info(flash, 0)}
      BY <2>1 DEF CleanEnd
    <3> QED BY <3>1, <3>2, CurRead
  <2> QED BY <1>4, <2>1, CurWrite, CurSetFull, CurFormat DEF Step
<1>5. CASE PowerLoss
  BY <1>2, <1>5 DEF PowerLoss, Reset
<1>6. CASE UNCHANGED vars
  BY <1>6 DEF vars, CurOK
<1> QED BY <1>3, <1>4, <1>5, <1>6 DEF Next

----------------------------------------------------------------------------
(* The states and the times of entries *)

LEMMA LessOK ==
  ASSUME StatusOK, OneTime, LessLog
  PROVE  StatusOK' /\ OneTime'
BY LessEntries

LEMMA SilentLog ==
  ASSUME StatusOK, OneTime, SameLog
  PROVE  StatusOK' /\ OneTime'
BY SameEntries, LessOK

LEMMA EntriesAppend ==
  ASSUME TsIInv, StatusOK, OneTime, NEW len, NEW t, AppendAt(len, t)
  PROVE  StatusOK' /\ OneTime'
<1>1. CASE flash' = flash
  BY <1>1, UnchangedLog, SilentLog
<1>2. CASE \E ok \in BOOLEAN : AppendNowhere(len, t, ok)
  BY <1>2, NowhereWrites, LessOK DEF AppendNowhere
<1> QED BY <1>1, <1>2 DEF AppendAt, TslAppend, Quiet, AppendPanics

LEMMA EntriesNext ==
  ASSUME TsIInv, TimesOK, CurOK, StatusOK, OneTime, [Next]_vars
  PROVE  StatusOK' /\ OneTime'
<1>1. CASE flash' = flash
  BY <1>1, UnchangedLog, SilentLog
<1>2. CASE Client
  <2>1. CASE \E len \in Lens : AppendNow(len) \/ AppendAgain(len)
    BY <2>1, EntriesAppend DEF AppendNow, AppendAgain
  <2>2. CASE \E s \in Sector, st \in Marks, ok \in BOOLEAN :
                \E j \in Committed(flash[s]) : SetStatus(s, j, st, ok)
    <3>1. PICK s \in Sector, st \in Marks, ok \in BOOLEAN : \E j \in Committed(flash[s]) : SetStatus(s, j, st, ok)
      BY <2>2
    <3>2. PICK j \in Committed(flash[s]) : SetStatus(s, j, st, ok)
      BY <3>1
    <3>3. CASE ok
      <4>1. SetStatus(s, j, st, TRUE)
        BY <3>2, <3>3
      <4> QED BY <4>1, MarkLog
    <3>4. CASE ~ok
      <4>1. flash' = flash
        BY <3>2, <3>4 DEF SetStatus, Program
      <4> QED BY <1>1, <4>1
    <3> QED BY <3>3, <3>4
  <2> QED BY <1>1, <1>2, <2>1, <2>2 DEF Client, Open, OpenPanics, SetRollover, Clean, Close, Quiet
<1>3. CASE Step
  <2>1. ASSUME NEW ok \in BOOLEAN, EndPre(ok) \/ EndData(ok) \/ EndWrite(ok) \/ SetStart(ok) PROVE SameLog
    BY <2>1, EndWrites, SameRecsLog
  <2>2. ASSUME NEW ok \in BOOLEAN, SetFull(ok) \/ SetUsing(ok) PROVE SameLog
    <3>1. pc \in AppendLabels
      BY <2>2 DEF SetFull, SetUsing, AppendLabels, EndLabels, FirstLabels
    <3> QED BY <2>2, <3>1, StoreWrites, SameRecsLog DEF SetFull, SetUsing
  <2>3. ASSUME NEW ok \in BOOLEAN, TslWrite(ok) PROVE StatusOK' /\ OneTime'
    <3>1. CASE ok
      <4>1. TslWrite(TRUE)
        BY <2>3, <3>1
      <4> QED BY <4>1, CommitLog
    <3>2. CASE ~ok
      <4>1. flash' = flash
        BY <2>3, <3>2 DEF TslWrite, Program
      <4> QED BY <1>1, <4>1
    <3> QED BY <3>1, <3>2
  <2>4. ASSUME NEW ok \in BOOLEAN, FmtErase(ok) \/ FmtStatus(ok) \/ FmtMagic(ok) PROVE LessLog
    BY <2>4, EraseWrites, StatusWrites, MagicWrites, SameRecsLog, SameEntries
  <2>5. CASE CleanEnd
    BY <1>1, <2>5 DEF CleanEnd, Quiet
  <2> QED BY <1>3, <2>1, <2>2, <2>3, <2>4, <2>5, TslPreKept, RecordKept, SilentLog, LessOK DEF Step
<1> QED BY <1>1, <1>2, <1>3 DEF Next, PowerLoss, vars

----------------------------------------------------------------------------
(* As long as nothing failed *)

\* A write that failed is known afterwards.
LEMMA CalmWrite ==
  ASSUME TsIInv, CalmOK, NEW s, NEW image, NEW ok \in BOOLEAN, Program(s, image, ok), Calm'
  PROVE  ok /\ Calm /\ ~failing /\ ~failing' /\ NoneTorn /\ ClosedLate /\ NothingToWipe
<1>1. MediumType /\ MaxFailures \in Nat
  BY TypeParts, TsBoundsAssumption DEF TsIInv
<1>2. failures \in Int /\ failures <= MaxFailures /\ failures' = MaxFailures
  BY <1>1 DEF MediumType, Calm
<1>3. Calm
  BY <1>1, <1>2 DEF Program, Outcome, Calm
<1>4. ~failing /\ NoneTorn /\ ClosedLate /\ NothingToWipe
  BY <1>3 DEF CalmOK
<1>5. ok
  BY <1>1, <1>2, <1>4 DEF Program, Outcome
<1> QED BY <1>1, <1>3, <1>4, <1>5, Programmed

LEMMA CalmQuiet ==
  ASSUME CalmOK, failures' = failures, Calm'
  PROVE  Calm /\ ~failing /\ NoneTorn /\ ClosedLate /\ NothingToWipe
BY DEF Calm, CalmOK

\* Records are whole where none is written.
LEMMA NoneTornKept ==
  ASSUME NoneTorn, pc \notin RecordLabels, \A s \in Sector : flash'[s].tsls = flash[s].tsls,
         \A s \in Sector : flash'[s].store = "Full" => flash[s].store = "Full" \/ flash[s].tsls # <<>>
  PROVE  NoneTorn'
BY DEF NoneTorn, Committed

\* What is not a question between two calls or in front of the end of a sector.
LEMMA NoEndNow ==
  ASSUME pc' \notin EndLabels \cup {"Idle"} \/ (pc' = "Idle" /\ (~cur'.ok \/ cur'.status # "Using"))
  PROVE  ClosedLate'
BY DEF ClosedLate, EndLabels

LEMMA NothingNow ==
  ASSUME CallOK', pc' \in AppendLabels \cup {"Idle"}
  PROVE  NothingToWipe'
BY DEF NothingToWipe, CallOK, NoCall, AppendLabels, EndLabels, FirstLabels, RecordLabels

LEMMA CalmParts ==
  ASSUME Calm' => ~failing' /\ NoneTorn' /\ ClosedLate' /\ NothingToWipe'
  PROVE  CalmOK'
BY DEF CalmOK

\* A blob has room in an empty sector.
LEMMA CalmAppend ==
  ASSUME TsIInv, CurOK, CalmOK, CallOK', NEW len \in Lens, NEW t \in Int, TslAppend(len, t)
  PROVE  CalmOK'
<1>1. /\ flash' = flash /\ failing' = failing /\ failures' = failures /\ cur' = cur /\ pc = "Idle"
  BY QuietType DEF TslAppend, Quiet, medium, ram
<1> SUFFICES ASSUME Calm'
             PROVE  ~failing' /\ NoneTorn' /\ ClosedLate' /\ NothingToWipe'
  BY CalmParts
<1>2. Calm /\ ~failing /\ NoneTorn /\ ClosedLate
  BY <1>1, CalmQuiet
<1>3. NoneTorn'
  BY <1>1, <1>2, NoneTornKept DEF RecordLabels
<1>4. ClosedLate'
  <2>1. CASE pc' = "Idle"
    BY <1>1, <1>2, <2>1 DEF ClosedLate, EndLabels
  <2>2. CASE pc' \in EndLabels
    <3>1. cur.ok /\ cur.status = "Using" /\ NoRoom(len) /\ len <= MaxLen
      <4>1. ~Refused(len, t) /\ cur.ok /\ cur.status = "Using" /\ NoRoom(len)
        BY <2>2 DEF TslAppend, Begin, Return, EndLabels
      <4>2. len \in Nat /\ MaxLen \in Nat
        BY LensAssumption, Geometry
      <4> QED BY <4>1, <4>2 DEF Refused
    <3>2. cur.remain # SecSize - SECTOR_HDR_DATA_SIZE
      <4>1. len \in Nat
        BY LensAssumption
      <4> QED BY <3>1, <4>1, Geometry DEF NoRoom, Cost
    <3>3. flash[cur.sec].tsls # <<>>
      BY <1>1, <1>2, <3>1, <3>2 DEF ClosedLate
    <3>4. flash[cur.sec].ok
      BY <1>1, <1>2, <3>1 DEF CurOK
    <3> QED BY <1>1, <2>2, <3>3, <3>4 DEF ClosedLate, EndLabels
  <2> QED BY <2>1, <2>2, NoEndNow
<1>5. pc' \in AppendLabels \cup {"Idle"}
  BY DEF TslAppend, Begin, Return, AppendLabels, EndLabels, FirstLabels
<1>6. NothingToWipe'
  BY <1>5, NothingNow
<1> QED BY <1>1, <1>2, <1>3, <1>4, <1>6

LEMMA CalmNowhere ==
  ASSUME TsIInv, CalmOK, CallOK', NEW len, NEW t, NEW ok \in BOOLEAN, AppendNowhere(len, t, ok)
  PROVE  CalmOK'
<1> SUFFICES ASSUME Calm'
             PROVE  ~failing' /\ NoneTorn' /\ ClosedLate' /\ NothingToWipe'
  BY CalmParts
<1>1. Program(0, [flash[0] EXCEPT !.ok = FALSE], ok) /\ pc = "Idle" /\ pc' = "Idle" /\ ~cur'.ok
  BY DEF AppendNowhere, Return, ram
<1>2. ~failing' /\ NoneTorn
  BY <1>1, CalmWrite
<1>3. NoneTorn'
  BY <1>1, <1>2, NowhereWrites, NoneTornKept DEF RecordLabels
<1> QED BY <1>1, <1>2, <1>3, NoEndNow, NothingNow

LEMMA CalmPanics ==
  ASSUME TsIInv, RingOK, CalmOK, NEW len, NEW t, AppendPanics(len, t)
  PROVE  CalmOK'
<1> SUFFICES ASSUME Calm'
             PROVE  ~failing' /\ NoneTorn' /\ ClosedLate' /\ NothingToWipe'
  BY CalmParts
<1>1. /\ flash' = flash /\ failures' = failures /\ ~failing' /\ ruined' = ruined
      /\ pc = "Idle" /\ ~cur.ok /\ pc' = "Off"
  BY DEF AppendPanics, Reset
<1>2. ~failing /\ NoneTorn
  BY <1>1, CalmQuiet
<1>3. ruined
  BY <1>1, <1>2 DEF RingOK, RingAgrees
<1>4. NoneTorn'
  BY <1>1, <1>2, NoneTornKept DEF RecordLabels
<1>5. ClosedLate'
  BY <1>1, NoEndNow DEF EndLabels
<1> QED BY <1>1, <1>3, <1>4, <1>5 DEF NothingToWipe

\* The writes to the header of the current sector.
LEMMA CalmEnd ==
  ASSUME TsIInv, CalmOK, CallOK', NEW ok \in BOOLEAN,
         EndPre(ok) \/ EndData(ok) \/ EndWrite(ok) \/ SetStart(ok)
  PROVE  CalmOK'
<1> SUFFICES ASSUME Calm'
             PROVE  ~failing' /\ NoneTorn' /\ ClosedLate' /\ NothingToWipe'
  BY CalmParts
<1>1. /\ \E s, image : Program(s, image, ok)
      /\ cur' = cur /\ (pc \in EndLabels \/ pc = "SetStart")
  BY DEF EndPre, EndData, EndWrite, SetStart, ram, EndLabels
<1>2. ok /\ ~failing /\ ~failing' /\ NoneTorn /\ ClosedLate
  BY <1>1, CalmWrite
<1>3. \A s \in Sector : /\ flash'[s].tsls = flash[s].tsls /\ flash'[s].ok = flash[s].ok
                        /\ flash'[s].store = flash[s].store
  BY EndWrites DEF SameRecs
<1>4. NoneTorn'
  BY <1>1, <1>2, <1>3, NoneTornKept DEF RecordLabels, EndLabels
<1>5. cur.sec \in Sector
  BY <1>1, <1>2, InSector DEF AppendLabels, FirstLabels
<1>6. pc' \in AppendLabels /\ (pc' \in EndLabels => pc \in EndLabels) /\ pc' # "Idle"
  BY <1>2 DEF EndPre, EndData, EndWrite, SetStart, Then, Goto, AppendLabels, EndLabels, FirstLabels
<1>7. ClosedLate'
  BY <1>1, <1>2, <1>3, <1>5, <1>6 DEF ClosedLate
<1> QED BY <1>2, <1>4, <1>6, <1>7, NothingNow

LEMMA CalmSetUsing ==
  ASSUME TsIInv, CalmOK, CallOK', NEW ok \in BOOLEAN, SetUsing(ok)
  PROVE  CalmOK'
<1> SUFFICES ASSUME Calm'
             PROVE  ~failing' /\ NoneTorn' /\ ClosedLate' /\ NothingToWipe'
  BY CalmParts
<1>1. Program(cur.sec, [flash[cur.sec] EXCEPT !.store = "Using"], ok) /\ pc = "SetUsing" /\ pc \in AppendLabels
  BY DEF SetUsing, AppendLabels, FirstLabels
<1>2. ok /\ ~failing' /\ NoneTorn
  BY <1>1, CalmWrite
<1>3. \A s \in Sector : /\ flash'[s].tsls = flash[s].tsls
                        /\ flash'[s].store = "Full" => flash[s].store = "Full"
  BY <1>1, StoreWrites DEF SameRecs
<1>4. NoneTorn'
  BY <1>1, <1>2, <1>3, NoneTornKept DEF RecordLabels
<1>5. pc' \in AppendLabels /\ pc' \notin EndLabels \cup {"Idle"}
  BY <1>2 DEF SetUsing, Then, Goto, AppendLabels, FirstLabels, EndLabels
<1> QED BY <1>2, <1>4, <1>5, NoEndNow, NothingNow

LEMMA CalmSetFull ==
  ASSUME TsIInv, CalmOK, CallOK', NEW ok \in BOOLEAN, SetFull(ok)
  PROVE  CalmOK'
<1> SUFFICES ASSUME Calm'
             PROVE  ~failing' /\ NoneTorn' /\ ClosedLate' /\ NothingToWipe'
  BY CalmParts
<1>1. Program(cur.sec, [flash[cur.sec] EXCEPT !.store = "Full"], ok) /\ pc = "SetFull" /\ pc \in AppendLabels
  BY DEF SetFull, AppendLabels, EndLabels
<1>2. ok /\ ~failing /\ ~failing' /\ NoneTorn /\ ClosedLate
  BY <1>1, CalmWrite
<1>3. cur.sec \in Sector /\ cur \in SecInfo /\ call \in Call /\ call.op = "Append"
  BY <1>1, <1>2, InSector
<1>4. flash[cur.sec].tsls # <<>>
  BY <1>1, <1>2 DEF ClosedLate, EndLabels
<1>5. \A s \in Sector : /\ flash'[s].tsls = flash[s].tsls
                        /\ flash'[s].store = "Full" => flash[s].store = "Full" \/ flash[s].tsls # <<>>
  <2>1. \A s \in Sector : /\ flash'[s].tsls = flash[s].tsls
                          /\ flash'[s].store = flash[s].store \/ s = cur.sec
    BY <1>1, StoreWrites DEF SameRecs
  <2> QED BY <1>4, <2>1
<1>6. NoneTorn'
  BY <1>1, <1>2, <1>5, NoneTornKept DEF RecordLabels
<1>7. CASE TakeSector(NextSector(cur.sec))
  <2>1. /\ pc' \in {"SetUsing", "FmtErase"}
        /\ call' = call \/ call' = [call EXCEPT !.sec = NextSector(cur.sec)]
    BY <1>7 DEF TakeSector, Goto
  <2>2. ClosedLate'
    BY <2>1, NoEndNow DEF EndLabels
  <2>3. call'.op = "Append"
    BY <1>3, <2>1 DEF Call
  <2>4. NothingToWipe'
    BY <2>1, <2>3 DEF NothingToWipe
  <2> QED BY <1>2, <1>6, <2>2, <2>4
<1>8. CASE cur' = [cur EXCEPT !.status = "Full"] /\ Return("SavedFull")
  <2>1. cur'.status = "Full" /\ pc' = "Idle"
    BY <1>3, <1>8 DEF SecInfo, Return
  <2> QED BY <1>2, <1>6, <2>1, NoEndNow, NothingNow
<1> QED BY <1>2, <1>7, <1>8 DEF SetFull

\* The writes of a record.  The record that is written is the only one that is torn.
LEMMA CalmRecords ==
  ASSUME TsIInv, TimesOK, CalmOK, CallOK', NEW ok \in BOOLEAN, TslPre(ok) \/ TslIdx(ok) \/ TslData(ok)
  PROVE  CalmOK'
<1> SUFFICES ASSUME Calm'
             PROVE  ~failing' /\ NoneTorn' /\ ClosedLate' /\ NothingToWipe'
  BY CalmParts
<1>1. (\E s, image : Program(s, image, ok)) /\ pc \in AppendLabels /\ cur' = cur
  BY DEF TslPre, TslIdx, TslData, ram, AppendLabels, FirstLabels, RecordLabels
<1>2. ok /\ ~failing /\ ~failing' /\ NoneTorn
  BY <1>1, CalmWrite
<1>3. pc' \in RecordLabels /\ pc' \in AppendLabels
  BY <1>2 DEF TslPre, TslIdx, TslData, Then, Goto, AppendLabels, RecordLabels
<1>4. /\ \A s \in Sector : /\ Committed(flash'[s]) = Committed(flash[s])
                           /\ flash'[s].store = flash[s].store
      /\ \A s \in Sector : s # cur.sec => flash'[s] = flash[s]
  BY <1>2, TslPreTimes, TslIdxTimes, TslDataTimes, TslPreKept, RecordKept DEF Silent, SameTimes
<1>5. cur.sec \in Sector /\ flash[cur.sec] \in SectorImage
  BY <1>1, <1>2, InSector
<1>6. flash[cur.sec].tsls \in Seq(IndexRecord) /\ flash'[cur.sec].tsls \in Seq(IndexRecord)
  <2>1. flash' \in Image
    <3>1. Step
      BY DEF Step
    <3> QED BY <3>1, NextStep, TypePartsNext DEF Next, TsIInv
  <2> QED BY <1>5, <2>1, ImageFields DEF SectorImage
<1>7. /\ Len(flash'[cur.sec].tsls) # 0
      /\ \A j \in DOMAIN flash'[cur.sec].tsls :
            \/ j \in Committed(flash[cur.sec])
            \/ j = Len(flash'[cur.sec].tsls)
  <2>1. CASE TslPre(ok)
    <3>1. flash'[cur.sec].tsls = Append(flash[cur.sec].tsls, Reserved)
      BY <1>2, <2>1, TslPreKept
    <3>2. pc \notin RecordLabels
      BY <2>1 DEF TslPre, RecordLabels
    <3>3. \A j \in 1 .. Len(flash[cur.sec].tsls) : j \in Committed(flash[cur.sec])
      BY <1>2, <1>5, <1>6, <3>2 DEF NoneTorn
    <3>4. Len(flash'[cur.sec].tsls) = Len(flash[cur.sec].tsls) + 1
      BY <1>6, <3>1
    <3>5. Len(flash[cur.sec].tsls) \in Nat /\ DOMAIN flash'[cur.sec].tsls = 1 .. Len(flash'[cur.sec].tsls)
      BY <1>6
    <3>6. \A j \in DOMAIN flash'[cur.sec].tsls : \/ j \in 1 .. Len(flash[cur.sec].tsls)
                                                \/ j = Len(flash'[cur.sec].tsls)
      BY ONLY <3>4, <3>5
    <3> QED BY ONLY <3>3, <3>4, <3>5, <3>6
  <2>2. CASE TslIdx(ok) \/ TslData(ok)
    <3>1. Len(flash'[cur.sec].tsls) = Len(flash[cur.sec].tsls)
      BY <1>2, <2>2, RecordKept
    <3>2. pc \in RecordLabels
      BY <2>2 DEF TslIdx, TslData, RecordLabels
    <3>3. Len(flash[cur.sec].tsls) # 0
      BY <1>2, <3>2, AtRecord DEF RecordAgrees
    <3>4. \A j \in 1 .. Len(flash[cur.sec].tsls) : \/ j \in Committed(flash[cur.sec])
                                                   \/ j = Len(flash[cur.sec].tsls)
      BY <1>2, <1>5, <1>6 DEF NoneTorn
    <3> QED BY <1>6, <3>1, <3>3, <3>4
  <2> QED BY <2>1, <2>2
<1>8. ASSUME NEW s \in Sector
      PROVE  /\ \A j \in DOMAIN flash'[s].tsls :
                   \/ j \in Committed(flash'[s])
                   \/ pc' \in RecordLabels /\ s = cur'.sec /\ j = Len(flash'[s].tsls)
             /\ flash'[s].store = "Full" => flash'[s].tsls # <<>>
  <2>1. CASE s = cur.sec
    BY <1>1, <1>3, <1>4, <1>7, <2>1
  <2>2. CASE s # cur.sec
    BY <1>2, <1>4, <2>2 DEF NoneTorn
  <2> QED BY <2>1, <2>2
<1>9. NoneTorn'
  BY <1>8 DEF NoneTorn
<1>10. ClosedLate'
  BY <1>3, NoEndNow DEF RecordLabels, EndLabels
<1> QED BY <1>2, <1>3, <1>9, <1>10, NothingNow

LEMMA CalmCommit ==
  ASSUME TsIInv, TimesOK, CalmOK, CallOK', NEW ok \in BOOLEAN, TslWrite(ok)
  PROVE  CalmOK'
<1> SUFFICES ASSUME Calm'
             PROVE  ~failing' /\ NoneTorn' /\ ClosedLate' /\ NothingToWipe'
  BY CalmParts
<1>1. (\E s, image : Program(s, image, ok)) /\ pc \in RecordLabels
  BY DEF TslWrite, RecordLabels
<1>2. ok /\ ~failing /\ ~failing' /\ NoneTorn
  BY <1>1, CalmWrite
<1>3. pc' = "Idle" /\ cur' = WithRecord(cur)
  BY <1>2 DEF TslWrite, Return
<1>4. cur.sec \in Sector /\ flash[cur.sec] \in SectorImage /\ cur \in SecInfo
  BY <1>1, <1>2, AtRecord
<1>5. cur'.sec = cur.sec
  BY <1>3, <1>4 DEF WithRecord, SecInfo
<1> DEFINE n == Len(flash[cur.sec].tsls)
<1>6. /\ n \in Nat \ {0}
      /\ \A s \in Sector : s # cur.sec => flash'[s] = flash[s]
      /\ flash'[cur.sec].store = "Using"
      /\ Committed(flash'[cur.sec]) = Committed(flash[cur.sec]) \cup {n}
  BY <1>2, Commits
<1>7. Len(flash'[cur.sec].tsls) = n /\ DOMAIN flash'[cur.sec].tsls = 1 .. n
  <2>1. PICK r : r = [Record EXCEPT !.status = "Write"]
    OBVIOUS
  <2>2. PICK image : image = WithLast(r)
    OBVIOUS
  <2>3. flash \in Image /\ MediumType
    BY TypeParts DEF TsIInv
  <2>4. Program(cur.sec, image, ok)
    BY <2>1, <2>2 DEF TslWrite
  <2>5. flash' = [flash EXCEPT ![cur.sec] = image]
    BY <1>2, <2>3, <2>4, Programmed
  <2>6. flash'[cur.sec] = image
    BY <1>4, <2>3, <2>5, OneSector
  <2>7. Len(image.tsls) = n /\ image.tsls = [flash[cur.sec].tsls EXCEPT ![n] = r]
    BY <1>1, <1>2, <2>2, LastWritten
  <2>8. flash[cur.sec].tsls \in Seq(IndexRecord)
    BY <1>4 DEF SectorImage
  <2> QED BY <2>6, <2>7, <2>8
<1>8. \A j \in 1 .. n : j \in Committed(flash[cur.sec]) \cup {n}
  <2>1. DOMAIN flash[cur.sec].tsls = 1 .. n
    BY <1>4 DEF SectorImage
  <2> QED BY <1>2, <1>4, <2>1 DEF NoneTorn
<1> HIDE DEF n
<1>9. NoneTorn'
  <2>1. ASSUME NEW s \in Sector
        PROVE  /\ \A j \in DOMAIN flash'[s].tsls :
                     \/ j \in Committed(flash'[s])
                     \/ pc' \in RecordLabels /\ s = cur'.sec /\ j = Len(flash'[s].tsls)
               /\ flash'[s].store = "Full" => flash'[s].tsls # <<>>
    <3>1. CASE s = cur.sec
      BY <1>6, <1>7, <1>8, <3>1
    <3>2. CASE s # cur.sec
      BY <1>2, <1>6, <3>2 DEF NoneTorn
    <3> QED BY <3>1, <3>2
  <2> QED BY <2>1 DEF NoneTorn
<1>10. ClosedLate'
  <2>1. flash'[cur'.sec].tsls # <<>>
    BY <1>5, <1>6, <1>7
  <2> QED BY <1>3, <2>1 DEF ClosedLate, EndLabels
<1> QED BY <1>2, <1>3, <1>9, <1>10, NothingNow

LEMMA CalmMark ==
  ASSUME TsIInv, CalmOK, CallOK', NEW s \in Sector, NEW st \in Marks, NEW ok \in BOOLEAN,
         NEW j \in Committed(flash[s]), SetStatus(s, j, st, ok)
  PROVE  CalmOK'
<1> SUFFICES ASSUME Calm'
             PROVE  ~failing' /\ NoneTorn' /\ ClosedLate' /\ NothingToWipe'
  BY CalmParts
<1>1. flash \in Image /\ MediumType
  BY TypeParts DEF TsIInv
<1>2. PICK r, image : /\ r = [flash[s].tsls[j] EXCEPT !.status = st]
                      /\ image = PutRecord(flash[s], j, r)
  OBVIOUS
<1>3. Program(s, image, ok) /\ pc = "Idle" /\ pc' = "Idle" /\ cur' = cur
  BY <1>2 DEF SetStatus, Return, ram, PutRecord
<1>4. ok /\ ~failing /\ ~failing' /\ NoneTorn /\ ClosedLate
  BY <1>3, CalmWrite
<1>5. /\ Committed(image) = Committed(flash[s]) /\ image.store = flash[s].store
      /\ Len(image.tsls) = Len(flash[s].tsls)
  BY <1>1, <1>2, MarkTimes DEF SameTimes
<1>6. flash'[s] = image /\ \A q \in Sector : q # s => flash'[q] = flash[q]
  <2>1. flash' = [flash EXCEPT ![s] = image]
    BY <1>1, <1>3, <1>4, Programmed
  <2> QED BY <1>1, <2>1, OneSector
<1>7. flash[s].tsls \in Seq(IndexRecord) /\ image.tsls \in Seq(IndexRecord)
  <2>1. flash' \in Image
    <3>1. Client
      BY DEF Client
    <3> QED BY <3>1, NextStep, TypePartsNext DEF Next, TsIInv
  <2> QED BY <1>1, <1>6, <2>1 DEF Image, SectorImage
<1>8. DOMAIN image.tsls = DOMAIN flash[s].tsls /\ (image.tsls = <<>> <=> flash[s].tsls = <<>>)
  BY <1>5, <1>7
<1>9. NoneTorn'
  <2>1. \A q \in Sector : \A k \in DOMAIN flash[q].tsls : k \in Committed(flash[q])
    BY <1>3, <1>4 DEF NoneTorn, RecordLabels
  <2>2. \A q \in Sector : /\ \A k \in DOMAIN flash'[q].tsls : k \in Committed(flash'[q])
                          /\ flash'[q].store = "Full" => flash'[q].tsls # <<>>
    BY <1>4, <1>5, <1>6, <1>8, <2>1 DEF NoneTorn
  <2> QED BY <2>2 DEF NoneTorn
<1>10. ClosedLate'
  <2>1. cur.ok => cur.sec \in Sector
    BY <1>3, <1>4, AtIdle
  <2> QED BY <1>3, <1>4, <1>6, <1>8, <2>1 DEF ClosedLate, EndLabels
<1> QED BY <1>3, <1>4, <1>9, <1>10, NothingNow

\* format_sector: for the open of a database in which nothing was found yet there is still
\* nothing.
LEMMA CalmFormat ==
  ASSUME TsIInv, CalmOK, CallOK, CallOK', NEW ok \in BOOLEAN, FmtErase(ok) \/ FmtStatus(ok) \/ FmtMagic(ok)
  PROVE  CalmOK'
<1> SUFFICES ASSUME Calm'
             PROVE  ~failing' /\ NoneTorn' /\ ClosedLate' /\ NothingToWipe'
  BY CalmParts
<1>1. /\ \E s, image : Program(s, image, ok)
      /\ pc \in FormatLabels /\ pc \notin RecordLabels /\ ruined' = ruined /\ call \in Call
  BY TypeParts DEF FmtErase, FmtStatus, FmtMagic, client, FormatLabels, RecordLabels, TsIInv, RunType
<1>2. ok /\ ~failing /\ ~failing' /\ NoneTorn /\ NothingToWipe
  BY <1>1, CalmWrite
<1>3. NoneTorn'
  <2>1. CASE FmtErase(ok)
    <3>1. \A s \in Sector : flash'[s] = flash[s] \/ flash'[s] = Erased
      BY <2>1, EraseWrites
    <3>2. Erased.tsls = <<>> /\ Erased.store # "Full"
      BY DEF Erased
    <3>3. \A s \in Sector : \A j \in DOMAIN flash[s].tsls : j \in Committed(flash[s])
      BY <1>1, <1>2 DEF NoneTorn
    <3>4. ASSUME NEW s \in Sector
          PROVE  /\ \A j \in DOMAIN flash'[s].tsls : j \in Committed(flash'[s])
                 /\ flash'[s].store = "Full" => flash'[s].tsls # <<>>
      BY <1>2, <3>1, <3>2, <3>3 DEF NoneTorn
    <3> QED BY <3>4 DEF NoneTorn
  <2>2. CASE FmtStatus(ok)
    <3>1. \A s \in Sector : /\ flash'[s].tsls = flash[s].tsls
                            /\ flash'[s].store = "Full" => flash[s].store = "Full"
      BY <2>2, StatusWrites DEF SameRecs
    <3> QED BY <1>1, <1>2, <3>1, NoneTornKept
  <2>3. CASE FmtMagic(ok)
    BY <1>1, <1>2, <2>3, MagicWrites, NoneTornKept
  <2> QED BY <2>1, <2>2, <2>3
<1>4. pc' \in FormatLabels \cup {"SetUsing", "CleanEnd"} /\ call'.op = call.op
  <2>1. \/ pc' \in {"FmtStatus", "FmtMagic"} /\ call' = call
        \/ call.op = "Append" /\ pc' = "SetUsing" /\ call' = call
        \/ pc' = "FmtErase" /\ call' = [call EXCEPT !.sec = @ + 1]
        \/ pc' = "CleanEnd" /\ call' = call
    BY <1>2 DEF FmtErase, FmtStatus, FmtMagic, FmtReturn, Goto
  <2> QED BY <1>1, <2>1 DEF FormatLabels, Call
<1>5. ClosedLate'
  BY <1>4, NoEndNow DEF FormatLabels, EndLabels
<1>6. Entries' \subseteq Entries
  BY EraseWrites, StatusWrites, MagicWrites, SameRecsLog, SameEntries, LessEntries
<1>7. NothingToWipe'
  BY <1>1, <1>2, <1>4, <1>6 DEF NothingToWipe, FormatLabels
<1> QED BY <1>2, <1>3, <1>5, <1>7

\* A description that was read of a sector without records claims all of it.
LEMMA ReadRoom ==
  ASSUME NEW img \in Image, NEW s \in Sector, NEW c, c \in {read_header(img, s), read_sector_info(img, s)},
         c.ok, img[s].tsls = <<>>
  PROVE  c.sec = s /\ c.remain = SecSize - SECTOR_HDR_DATA_SIZE
<1>1. c = read_header(img, s)
  BY InfoOfHeader
<1>2. img[s].ok
  BY <1>1 DEF read_header, Blank
<1> QED BY <1>1, <1>2, HeaderOf

LEMMA CalmRead ==
  ASSUME TsIInv, flash' = flash, NEW s \in Sector, cur' \in {read_header(flash, s), read_sector_info(flash, s)},
         pc' = "Idle"
  PROVE  ClosedLate'
<1>1. flash \in Image
  BY TypeParts DEF TsIInv
<1>2. ASSUME cur'.ok, flash[cur'.sec].tsls = <<>> PROVE cur'.remain = SecSize - SECTOR_HDR_DATA_SIZE
  <2>1. cur'.sec = s
    <3>1. flash[s].ok
      BY <1>1, <1>2, InfoSector DEF read_header, Blank
    <3> QED BY <1>1, <3>1, InfoSector, HeaderOf
  <2> QED BY <1>1, <1>2, <2>1, ReadRoom
<1> QED BY <1>2 DEF ClosedLate, EndLabels

LEMMA CalmOpen ==
  ASSUME TsIInv, CalmOK, CallOK, CallOK', NEW strict \in BOOLEAN, Open(strict)
  PROVE  CalmOK'
<1> SUFFICES ASSUME Calm'
             PROVE  ~failing' /\ NoneTorn' /\ ClosedLate' /\ NothingToWipe'
  BY CalmParts
<1>1. flash' = flash /\ failing' = failing /\ failures' = failures /\ pc = "Off" /\ flash \in Image
  BY QuietType, TypeParts DEF Open, Quiet, medium, TsIInv
<1>2. ~failing /\ NoneTorn /\ NothingToWipe
  BY <1>1, CalmQuiet
<1>3. NoneTorn'
  BY <1>1, <1>2, NoneTornKept DEF RecordLabels
<1>4. Entries' = Entries
  BY <1>1, UnchangedLog, SameEntries
<1>5. CASE Opened /\ Return("Ok")
  <2>1. pc' = "Idle"
    BY <1>5 DEF Return
  <2>2. CASE FirstOpen(flash) = NoAddr
    <3>1. ~cur'.ok
      BY <1>5, <2>2 DEF Opened, read_sector_info, Blank
    <3> QED BY <1>1, <1>2, <1>3, <2>1, <3>1, NoEndNow, NothingNow
  <2>3. CASE FirstOpen(flash) # NoAddr
    <3>1. FirstOpen(flash) \in Sector /\ cur' = read_sector_info(flash, FirstOpen(flash))
      BY <1>1, <1>5, <2>3, FirstOpenType DEF Opened
    <3>2. ClosedLate'
      BY <1>1, <2>1, <3>1, CalmRead
    <3> QED BY <1>1, <1>2, <1>3, <2>1, <3>2, NothingNow
  <2> QED BY <2>2, <2>3
<1>6. CASE pc' = "Off" /\ call' = call /\ ruined' = ruined
  <2>1. ClosedLate'
    BY <1>6, NoEndNow DEF EndLabels
  <2>2. NothingToWipe'
    BY <1>1, <1>2, <1>4, <1>6 DEF NothingToWipe
  <2> QED BY <1>1, <1>2, <1>3, <2>1, <2>2
<1>7. CASE CheckFailed(flash) /\ CleanCall("Open") /\ ruined' = ruined
  <2>1. pc' = "FmtErase"
    BY <1>7 DEF CleanCall
  <2>2. ClosedLate'
    BY <2>1, NoEndNow DEF EndLabels
  <2>3. NothingToWipe'
    BY <1>1, <1>2, <1>4, <1>7, <2>1 DEF NothingToWipe
  <2> QED BY <1>1, <1>2, <1>3, <2>2, <2>3
<1> QED BY <1>1, <1>5, <1>6, <1>7 DEF Open

\* The check of the next open does not fail for the ring of a session.
LEMMA RingChecks ==
  ASSUME RingAgrees
  PROVE  ~CheckFailed(flash)
<1> DEFINE c == cur.sec
           S == Empties(flash) \cup Usings(flash)
<1>1. c \in Sector /\ \A s \in Sector : flash[s].ok
  BY DEF RingAgrees, Ring
<1>2. Usings(flash) \subseteq {c}
  BY DEF RingAgrees, Ring, Usings
<1>3. ASSUME c \in Usings(flash) PROVE FirstOpen(flash) = c
  <2>1. S \subseteq Nat /\ S # {} /\ S \subseteq Sector
    BY <1>3 DEF Empties, Usings, Sector
  <2>2. Least(S) \in S /\ Least(S) <= c
    BY <1>3, <2>1, LeastExists
  <2>3. ~ (Least(S) < c)
    <3>1. \A s \in Sector : s < c => flash[s].store = "Full"
      BY DEF RingAgrees, Ring
    <3>2. \A s \in S : flash[s].store # "Full"
      BY DEF Empties, Usings
    <3> QED BY <2>1, <2>2, <3>1, <3>2
  <2>4. Least(S) = c
    BY <1>1, <2>1, <2>2, <2>3 DEF Sector
  <2> QED BY <2>1, <2>4 DEF FirstOpen
<1> QED BY <1>1, <1>2, <1>3 DEF CheckFailed

LEMMA CalmQuietSteps ==
  ASSUME TsIInv, RingOK, CalmOK, CallOK', SetRollover \/ Clean \/ CleanEnd \/ Close \/ OpenPanics
  PROVE  CalmOK'
<1> SUFFICES ASSUME Calm'
             PROVE  ~failing' /\ NoneTorn' /\ ClosedLate' /\ NothingToWipe'
  BY CalmParts
<1>1. flash' = flash /\ failures' = failures /\ ruined' = ruined /\ pc \notin RecordLabels
  BY DEF SetRollover, Clean, CleanEnd, Close, OpenPanics, Quiet, medium, client, RecordLabels
<1>2. ~failing /\ NoneTorn /\ ClosedLate /\ NothingToWipe
  BY <1>1, CalmQuiet
<1>3. ~failing'
  BY <1>2 DEF SetRollover, Clean, CleanEnd, Close, OpenPanics, Quiet, medium
<1>4. NoneTorn'
  BY <1>1, <1>2, NoneTornKept
<1>5. Entries' = Entries
  BY <1>1, UnchangedLog, SameEntries
<1>6. CASE SetRollover
  <2>1. cur' = cur /\ pc = "Idle" /\ pc' = "Idle"
    BY <1>6 DEF SetRollover, Return
  <2>2. ClosedLate'
    BY <1>1, <1>2, <2>1 DEF ClosedLate, EndLabels
  <2> QED BY <1>3, <1>4, <2>1, <2>2, NothingNow
<1>7. CASE Clean
  <2>1. pc' = "FmtErase" /\ call'.op = "Clean"
    BY <1>7 DEF Clean, CleanCall, NoCall
  <2> QED BY <1>3, <1>4, <2>1, NoEndNow DEF NothingToWipe, EndLabels
<1>8. CASE CleanEnd
  <2>1. /\ cur' \in {read_header(flash, 0), read_sector_info(flash, 0)}
        /\ pc' = "Idle" /\ 0 \in Sector
    BY <1>8, Geometry DEF CleanEnd, Return
  <2> QED BY <1>1, <1>3, <1>4, <2>1, CalmRead, NothingNow
<1>9. CASE Close
  <2>1. pc = "Idle" /\ pc' = "Off" /\ call' = NoCall
    BY <1>9 DEF Close, Reset
  <2>2. ~ruined => ~CheckFailed(flash)
    BY <1>2, <2>1, RingChecks DEF RingOK
  <2>3. CheckFailed(flash') = CheckFailed(flash)
    BY <1>1
  <2> QED BY <1>1, <1>3, <1>4, <2>1, <2>2, <2>3, NoEndNow DEF NothingToWipe, NoCall, EndLabels
<1>10. CASE OpenPanics
  <2>1. pc' = "Off" /\ call' = call /\ pc = "Off"
    BY <1>10 DEF OpenPanics
  <2> QED BY <1>1, <1>2, <1>3, <1>4, <1>5, <2>1, NoEndNow DEF NothingToWipe, EndLabels
<1> QED BY <1>6, <1>7, <1>8, <1>9, <1>10

LEMMA CalmNext ==
  ASSUME TsIInv, TimesOK, RingOK, CurOK, CalmOK, CallOK, CallOK', [Next]_vars
  PROVE  CalmOK'
<1>1. ASSUME NEW len \in Lens, AppendNow(len) \/ AppendAgain(len) PROVE CalmOK'
  <2>1. clock \in Int /\ \A t \in NextTimes : t \in Int
    BY TypeParts, TimesAssumption DEF TsIInv, ClientType, NextTimes
  <2>2. PICK t \in Int : AppendAt(len, t)
    BY <1>1, <2>1 DEF AppendNow, AppendAgain
  <2> QED BY <2>2, CalmAppend, CalmNowhere, CalmPanics DEF AppendAt
<1>2. CASE Client
  BY <1>1, <1>2, CalmMark, CalmOpen, CalmQuietSteps DEF Client
<1>3. CASE Step
  BY <1>3, CalmEnd, CalmSetFull, CalmSetUsing, CalmRecords, CalmCommit, CalmFormat, CalmQuietSteps DEF Step
<1>4. CASE PowerLoss
  <2>1. failures \in Int /\ failures <= MaxFailures /\ failures' = failures - 1 /\ MaxFailures \in Int
    BY <1>4, TypeParts, TsBoundsAssumption DEF PowerLoss, TsIInv, MediumType
  <2> QED BY <2>1 DEF CalmOK, Calm
<1>5. CASE UNCHANGED vars
  <2>1. /\ flash' = flash /\ cur' = cur /\ pc' = pc /\ call' = call /\ ruined' = ruined
        /\ failing' = failing /\ failures' = failures
    BY <1>5 DEF vars
  <2>2. /\ NoneTorn' = NoneTorn /\ ClosedLate' = ClosedLate /\ Calm' = Calm
    BY <2>1 DEF NoneTorn, ClosedLate, Calm
  <2>3. NothingToWipe' = NothingToWipe
    BY <2>1, UnchangedLog, SameEntries DEF NothingToWipe
  <2> QED BY <2>1, <2>2, <2>3 DEF CalmOK
<1> QED BY <1>2, <1>3, <1>4, <1>5 DEF Next

LEMMA LogInvNext ==
  ASSUME TsIInv, TsRInv, LogInv, [Next]_vars
  PROVE  LogInv'
BY CallNext, CurNext, EntriesNext, CalmNext DEF LogInv, TsRInv

LEMMA LogInvInit ==
  ASSUME Init
  PROVE  LogInv /\ Entries = {}
<1>1. \A s \in Sector : flash[s] = Erased
  BY DEF Init
<1>2. Committed(Erased) = {} /\ ~Erased.ok /\ Erased.tsls = <<>> /\ Erased.store # "Full"
  BY DEF Committed, Erased
<1>3. \A s \in Sector : SectorLog(flash[s]) = {}
  BY <1>1, <1>2 DEF SectorLog
<1>4. Entries = {}
  BY <1>3 DEF Entries
<1>5. pc = "Off" /\ call = NoCall /\ ~failing /\ ~cur.ok
  BY DEF Init, Closed, Blank
<1>6. CallOK
  BY <1>5 DEF CallOK, AppendLabels, EndLabels, FirstLabels, RecordLabels, FormatLabels
<1>7. CurOK
  BY <1>5 DEF CurOK
<1>8. StatusOK /\ OneTime
  BY <1>3 DEF StatusOK, OneTime
<1>9. NoneTorn /\ ClosedLate /\ NothingToWipe
  BY <1>1, <1>2, <1>4, <1>5 DEF NoneTorn, ClosedLate, NothingToWipe, EndLabels
<1> QED BY <1>4, <1>5, <1>6, <1>7, <1>8, <1>9 DEF LogInv, CalmOK

----------------------------------------------------------------------------
(* The steps of the log *)

\* No step of the log.
NoStep == UNCHANGED <<On, Entries, Req, Answer, ruined>>

LEMMA ReqOf ==
  /\ call = NoCall => Req = Log!NoReq
  /\ call' = NoCall => Req' = Log!NoReq
  /\ call' = call => Req' = Req
  /\ call \in Call => \A s : call' = [call EXCEPT !.sec = s] => Req' = Req
<1>1. (call = NoCall => Req = Log!NoReq) /\ (call' = NoCall => Req' = Log!NoReq)
  BY DEF Req, NoCall, Log!NoReq
<1>2. ASSUME call \in Call, NEW s, call' = [call EXCEPT !.sec = s] PROVE Req' = Req
  <2>1. call'.op = call.op /\ call'.time = call.time /\ call'.len = call.len
    BY <1>2 DEF Call
  <2> QED BY <2>1 DEF Req
<1> QED BY <1>1, <1>2 DEF Req

\* Inside of a call.
LEMMA Inside ==
  ASSUME pc \notin {"Off", "Idle"}, pc' \notin {"Off", "Idle"}, Req' = Req
  PROVE  On /\ UNCHANGED <<On, Req, Answer>>
BY DEF On, Answer

\* The end of a call.
LEMMA Returns ==
  ASSUME pc # "Off", NEW r, Return(r)
  PROVE  On /\ On' = On /\ Req' = Log!NoReq /\ Answer' = r
BY ReqOf DEF Return, On, Answer

LEMMA ReplyError ==
  ASSUME pc # "Off", call.op \in {"None", "Append"}, NEW r \in {"WriteErr", "EraseErr"}, Return(r),
         Entries' = Entries, ruined' = ruined
  PROVE  Log!Reply(r)
BY Returns DEF Log!Reply, Req

LEMMA FailuresNext ==
  ASSUME TsIInv, [Next]_vars
  PROVE  Calm' \in {Calm, FALSE}
<1>1. failures \in Int /\ failures <= MaxFailures /\ MaxFailures \in Int
  BY TypeParts, TsBoundsAssumption DEF TsIInv, MediumType
<1>2. failures' = failures \/ failures' = failures - 1
  <2>1. ASSUME NEW s, NEW image, NEW ok, Program(s, image, ok) PROVE failures' = failures \/ failures' = failures - 1
    BY <2>1 DEF Program, Outcome
  <2>2. ASSUME Quiet PROVE failures' = failures
    BY <2>2 DEF Quiet, medium
  <2>3. ASSUME NEW len, NEW t, AppendAt(len, t) PROVE failures' = failures \/ failures' = failures - 1
    BY <2>1, <2>2, <2>3 DEF AppendAt, TslAppend, AppendPanics, AppendNowhere
  <2>4. CASE Client
    BY <2>1, <2>2, <2>3, <2>4 DEF Client, AppendNow, AppendAgain, SetStatus, Open, OpenPanics, SetRollover,
       Clean, Close
  <2>5. CASE Step
    BY <2>1, <2>2, <2>5 DEF Step, EndPre, EndData, EndWrite, SetFull, SetUsing, SetStart, TslPre, TslIdx,
       TslData, TslWrite, FmtErase, FmtStatus, FmtMagic, CleanEnd
  <2> QED BY <2>4, <2>5 DEF Next, PowerLoss, vars
<1>3. (failures' = MaxFailures) => (failures = MaxFailures)
  BY <1>1, <1>2
<1> QED BY <1>3 DEF Calm

\* append up to its first write.
LEMMA AppendLog ==
  ASSUME TsIInv, LogInv, NEW len \in Lens, NEW t, TslAppend(len, t)
  PROVE  Log!Request \/ Log!Reply("WriteErr") \/ Log!Reply("SavedFull")
<1>1. /\ flash' = flash /\ failing' = failing /\ pc = "Idle" /\ ruined' = ruined
      /\ call = NoCall
  BY QuietType DEF TslAppend, LogInv, CallOK
<1>2. Entries' = Entries
  BY <1>1, UnchangedLog, SameEntries
<1>3. CASE Return("WriteErr")
  BY <1>1, <1>2, <1>3, ReplyError DEF NoCall
<1>4. CASE cur.ok /\ cur.status = "Full" /\ Return("SavedFull")
  <2>1. Calm => Entries # {}
    <3>1. ASSUME Calm PROVE Entries # {}
      <4>1. NoneTorn /\ ~failing
        BY <3>1 DEF LogInv, CalmOK
      <4>2. cur.sec \in Sector /\ flash[cur.sec].ok /\ flash[cur.sec].store = "Full"
        BY <1>1, <1>4, <4>1 DEF LogInv, CurOK
      <4>3. flash[cur.sec].tsls # <<>> /\ flash[cur.sec].tsls \in Seq(IndexRecord)
        BY <4>1, <4>2, TypeParts, ImageFields DEF NoneTorn, TsIInv
      <4>4. 1 \in DOMAIN flash[cur.sec].tsls
        BY <4>3
      <4>5. 1 \in Committed(flash[cur.sec])
        BY <1>1, <4>1, <4>2, <4>4 DEF NoneTorn, RecordLabels
      <4>6. Entry(flash[cur.sec].tsls[1]) \in SectorLog(flash[cur.sec])
        BY <4>2, <4>5, InSectorLog
      <4> QED BY <4>2, <4>6, InEntries
    <3> QED BY <3>1
  <2>2. Log!Reply("SavedFull")
    BY <1>1, <1>2, <1>4, <2>1, Returns DEF Log!Reply, Req, NoCall
  <2> QED BY <2>2
<1>5. ASSUME NEW label \in {"EndPre", "SetFull", "TslPre", "SetUsing"}, NEW slot, Begin(len, t, label, slot)
      PROVE  Log!Request
  <2>1. Req'.op = "Append" /\ Req'.len \in Lens
    BY <1>5 DEF Begin, Req, NoCall
  <2>2. On /\ On' = On /\ Answer' = "None" /\ Req = Log!NoReq
    BY <1>1, <1>5, ReqOf DEF Begin, On, Answer
  <2> QED BY <1>1, <1>2, <2>1, <2>2 DEF Log!Request
<1> QED BY <1>3, <1>4, <1>5 DEF TslAppend

\* A record that is written where no record goes.
LEMMA NowhereLog ==
  ASSUME TsIInv, RingOK, LogInv, NEW len, NEW t, NEW ok \in BOOLEAN, AppendNowhere(len, t, ok)
  PROVE  Log!Ruin \/ Log!Reply("WriteErr")
<1>1. /\ Program(0, [flash[0] EXCEPT !.ok = FALSE], ok) /\ pc = "Idle" /\ ~cur.ok /\ ruined' = ruined
      /\ Return("WriteErr") /\ call = NoCall
  BY DEF AppendNowhere, LogInv, CallOK
<1>2. CASE ok
  <2>1. ~failing
    BY <1>1, <1>2, TypeParts, Programmed DEF TsIInv
  <2>2. ruined
    BY <1>1, <2>1 DEF RingOK, RingAgrees
  <2>3. Entries' \subseteq Entries
    BY <1>1, NowhereWrites, LessEntries
  <2>4. Req = Log!NoReq
    BY <1>1, ReqOf
  <2> QED BY <1>1, <2>2, <2>3, <2>4, Returns DEF Log!Ruin
<1>3. CASE ~ok
  <2>1. Entries' = Entries
    BY <1>1, <1>3, NowhereWrites, UnchangedLog, SameEntries
  <2> QED BY <1>1, <2>1, ReplyError DEF NoCall
<1> QED BY <1>2, <1>3

\* The writes of append that change no entry.
LEMMA WriteSteps ==
  ASSUME TsIInv, LogInv, NEW ok \in BOOLEAN,
         \/ EndPre(ok) \/ EndData(ok) \/ EndWrite(ok) \/ SetUsing(ok) \/ SetStart(ok)
         \/ TslPre(ok) \/ TslIdx(ok) \/ TslData(ok)
  PROVE  NoStep \/ Log!Reply("WriteErr")
<1>1. pc \in AppendLabels /\ pc \notin {"Off", "Idle"} /\ call.op = "Append" /\ ruined' = ruined
  BY DEF LogInv, CallOK, AppendLabels, EndLabels, FirstLabels, RecordLabels, client,
     EndPre, EndData, EndWrite, SetUsing, SetStart, TslPre, TslIdx, TslData
<1>2. Entries' = Entries
  <2>1. SetUsing(ok) => SameLog
    BY <1>1, StoreWrites, SameRecsLog DEF SetUsing
  <2> QED BY <2>1, EndWrites, SameRecsLog, TslPreKept, RecordKept, SameEntries
<1>3. CASE ok
  <2>1. pc' \notin {"Off", "Idle"} /\ call' = call
    BY <1>3 DEF EndPre, EndData, EndWrite, SetUsing, SetStart, TslPre, TslIdx, TslData, Then, Goto
  <2> QED BY <1>1, <1>2, <2>1, ReqOf, Inside DEF NoStep
<1>4. CASE ~ok
  <2>1. Return("WriteErr")
    BY <1>4 DEF EndPre, EndData, EndWrite, SetUsing, SetStart, TslPre, TslIdx, TslData, Then
  <2> QED BY <1>1, <1>2, <2>1, ReplyError
<1> QED BY <1>3, <1>4

LEMMA SetFullLog ==
  ASSUME TsIInv, LogInv, NEW ok \in BOOLEAN, SetFull(ok)
  PROVE  NoStep \/ Log!Reply("WriteErr") \/ Log!Reply("SavedFull")
<1>1. /\ pc = "SetFull" /\ pc \in AppendLabels /\ call.op = "Append" /\ ruined' = ruined
      /\ Program(cur.sec, [flash[cur.sec] EXCEPT !.store = "Full"], ok)
  BY DEF SetFull, LogInv, CallOK, AppendLabels, EndLabels, client
<1>2. Entries' = Entries /\ call \in Call
  BY <1>1, StoreWrites, SameRecsLog, SameEntries, TypeParts DEF TsIInv, RunType
<1>3. CASE Return("WriteErr")
  BY <1>1, <1>2, <1>3, ReplyError
<1>4. CASE TakeSector(NextSector(cur.sec))
  <2>1. /\ pc' \in {"SetUsing", "FmtErase"}
        /\ call' = call \/ call' = [call EXCEPT !.sec = NextSector(cur.sec)]
    BY <1>4 DEF TakeSector, Goto
  <2> QED BY <1>1, <1>2, <2>1, ReqOf, Inside DEF NoStep
<1>5. CASE ok /\ Return("SavedFull")
  <2>1. Calm => Entries # {}
    <3>1. ASSUME Calm PROVE Entries # {}
      <4>1. NoneTorn /\ ClosedLate /\ ~failing
        BY <3>1 DEF LogInv, CalmOK
      <4>2. cur.sec \in Sector /\ flash[cur.sec] \in SectorImage
        BY <1>1, <4>1, InSector
      <4>3. flash[cur.sec].ok /\ flash[cur.sec].tsls # <<>> /\ flash[cur.sec].tsls \in Seq(IndexRecord)
        BY <1>1, <4>1, <4>2 DEF ClosedLate, EndLabels, SectorImage
      <4>4. 1 \in DOMAIN flash[cur.sec].tsls
        BY <4>3
      <4>5. 1 \in Committed(flash[cur.sec])
        BY <1>1, <4>1, <4>2, <4>4 DEF NoneTorn, RecordLabels
      <4>6. Entry(flash[cur.sec].tsls[1]) \in SectorLog(flash[cur.sec])
        BY <4>3, <4>5, InSectorLog
      <4> QED BY <4>2, <4>6, InEntries
    <3> QED BY <3>1
  <2> QED BY <1>1, <1>2, <1>5, <2>1, Returns DEF Log!Reply, Req
<1> QED BY <1>3, <1>4, <1>5 DEF SetFull

\* The commit is the instant at which the append takes effect.
LEMMA TslWriteLog ==
  ASSUME TsIInv, TimesOK, LogInv, NEW ok \in BOOLEAN, TslWrite(ok)
  PROVE  Log!Effect \/ Log!Reply("WriteErr")
<1>1. pc = "TslWrite" /\ call.op = "Append" /\ ruined' = ruined
  BY DEF TslWrite, LogInv, CallOK, AppendLabels, RecordLabels, client
<1>2. CASE ok
  <2>1. TslWrite(TRUE) /\ Return("Ok")
    BY <1>2 DEF TslWrite
  <2>2. /\ \A e \in Entries : e.time < call.time
        /\ Entries' = Entries \cup {Log!Entry(call.time, call.len, "Write")}
    BY <2>1, CommitLog DEF LogInv
  <2>3. Req.op = "Append" /\ Req.time = call.time /\ Req.len = call.len
    BY <1>1 DEF Req
  <2>4. On' = On /\ Req' = Log!NoReq /\ Answer' = "Ok"
    BY <1>1, <2>1, Returns
  <2> QED BY <1>1, <2>2, <2>3, <2>4 DEF Log!Effect
<1>3. CASE ~ok
  <2>1. Return("WriteErr") /\ flash' = flash
    BY <1>3 DEF TslWrite, Program
  <2>2. Entries' = Entries
    BY <2>1, UnchangedLog, SameEntries
  <2> QED BY <1>1, <2>1, <2>2, ReplyError
<1> QED BY <1>2, <1>3

LEMMA SetStatusLog ==
  ASSUME TsIInv, TimesOK, LogInv, NEW s \in Sector, NEW st \in Marks, NEW ok \in BOOLEAN,
         NEW j \in Committed(flash[s]), SetStatus(s, j, st, ok)
  PROVE  Log!Mark \/ Log!Reply("WriteErr")
<1>1. pc = "Idle" /\ call = NoCall /\ ruined' = ruined
  BY DEF SetStatus, LogInv, CallOK
<1>2. CASE ok
  <2>1. SetStatus(s, j, st, TRUE) /\ Return("Ok")
    BY <1>2 DEF SetStatus
  <2>2. PICK e : e = Entry(flash[s].tsls[j])
    OBVIOUS
  <2>3. e \in Entries /\ \E mark \in Marks : Entries' = (Entries \ {e}) \cup {Log!Entry(e.time, e.len, mark)}
    <3>1. StatusOK /\ OneTime
      BY DEF LogInv
    <3>2. LET f == Entry(flash[s].tsls[j])
          IN  /\ f \in Entries
              /\ \E mark \in Marks : /\ Entries' = (Entries \ {f}) \cup {Log!Entry(f.time, f.len, mark)}
                                     /\ StatusOK' /\ OneTime'
      BY <2>1, <3>1, MarkLog
    <3> QED BY ONLY <2>2, <3>2
  <2>4. On /\ On' = On /\ Req = Log!NoReq /\ Req' = Log!NoReq /\ Answer' = "Ok"
    BY <1>1, <2>1, Returns, ReqOf
  <2> QED BY <1>1, <2>3, <2>4 DEF Log!Mark
<1>3. CASE ~ok
  <2>1. Return("WriteErr") /\ flash' = flash
    BY <1>3 DEF SetStatus, Program
  <2>2. Entries' = Entries
    BY <2>1, UnchangedLog, SameEntries
  <2> QED BY <1>1, <2>1, <2>2, ReplyError DEF NoCall
<1> QED BY <1>2, <1>3

\* The sector that is erased for an append holds the oldest entries.
LEMMA EraseOldest ==
  ASSUME TsIInv, RingOK, ~ruined, NEW ok \in BOOLEAN, FmtErase(ok), call.op = "Append"
  PROVE  \A e \in Entries \ Entries', f \in Entries' : e.time < f.time
<1>1. \A s \in Sector : \/ flash'[s] = flash[s]
                        \/ /\ ok /\ ~failing /\ s = call.sec /\ flash'[s] = Erased
                           /\ SectorLog(flash'[s]) = {}
  BY EraseWrites
<1>2. ASSUME NEW e \in Entries \ Entries', NEW f \in Entries' PROVE e.time < f.time
  <2>1. PICK s \in Sector : e \in SectorLog(flash[s])
    BY InEntries
  <2>2. PICK t \in Sector : f \in SectorLog(flash'[t])
    BY InEntriesNext
  <2>3. flash'[s] # flash[s]
    BY <2>1, InEntriesNext
  <2>4. ~failing /\ s = call.sec /\ flash'[t] = flash[t]
    BY <1>1, <2>2, <2>3
  <2>5. t # s
    BY <2>3, <2>4
  <2>6. Ordered(flash, s)
    BY <2>4 DEF RingOK, Formatting, FormatRing, FmtErase, FormatLabels
  <2>7. Earlier(s, s, t)
    BY <2>5 DEF Earlier, Sector
  <2>8. /\ \E j \in Committed(flash[s]) : e = Entry(flash[s].tsls[j])
        /\ \E k \in Committed(flash[t]) : f = Entry(flash[t].tsls[k])
    BY <2>1, <2>2, <2>4, InSectorLog
  <2> QED BY <2>6, <2>7, <2>8, EntryIs DEF Ordered
<1> QED BY <1>2

\* The writes of format_sector.
LEMMA FormatLog ==
  ASSUME TsIInv, RingOK, LogInv, NEW ok \in BOOLEAN, FmtErase(ok) \/ FmtStatus(ok) \/ FmtMagic(ok)
  PROVE  NoStep \/ Log!Reuse \/ Log!Wipe \/ Log!Reply("WriteErr") \/ Log!Reply("EraseErr")
<1>1. /\ pc \in FormatLabels /\ pc \notin {"Off", "Idle"} /\ ruined' = ruined /\ call \in Call
      /\ call.op # "None"
  BY TypeParts DEF FmtErase, FmtStatus, FmtMagic, client, FormatLabels, TsIInv, RunType, LogInv, CallOK
<1>2. \/ pc' \notin {"Off", "Idle"} /\ Req' = Req
      \/ ~ok /\ call.op = "Append" /\ (Return("WriteErr") \/ Return("EraseErr"))
  <2>1. \/ pc' \in {"FmtStatus", "FmtMagic"} /\ call' = call
        \/ ok /\ call.op = "Append" /\ pc' = "SetUsing" /\ call' = call
        \/ ~ok /\ call.op = "Append" /\ (Return("WriteErr") \/ Return("EraseErr"))
        \/ pc' = "FmtErase" /\ call' = [call EXCEPT !.sec = @ + 1]
        \/ pc' = "CleanEnd" /\ call' = call
    BY DEF FmtErase, FmtStatus, FmtMagic, FmtReturn, Goto
  <2>2. call' = [call EXCEPT !.sec = @ + 1] => Req' = Req
    <3>1. call.op = [call EXCEPT !.sec = @ + 1].op /\ call.time = [call EXCEPT !.sec = @ + 1].time
          /\ call.len = [call EXCEPT !.sec = @ + 1].len
      BY <1>1 DEF Call
    <3> QED BY <3>1 DEF Req
  <2> QED BY <2>1, <2>2, ReqOf
<1>3. Entries' \subseteq Entries /\ (~FmtErase(ok) \/ ~ok => Entries' = Entries)
  <2>1. Entries' \subseteq Entries
    BY EraseWrites, StatusWrites, MagicWrites, SameRecsLog, SameEntries, LessEntries
  <2>2. ~FmtErase(ok) => Entries' = Entries
    BY StatusWrites, MagicWrites, SameRecsLog, SameEntries
  <2>3. ~ok => Entries' = Entries
    <3>1. ~ok => flash' = flash
      BY DEF FmtErase, FmtStatus, FmtMagic, Program
    <3> QED BY <3>1, UnchangedLog, SameEntries
  <2> QED BY <2>1, <2>2, <2>3
<1>4. CASE ~ok /\ call.op = "Append" /\ (Return("WriteErr") \/ Return("EraseErr"))
  BY <1>1, <1>3, <1>4, ReplyError
<1>5. CASE pc' \notin {"Off", "Idle"} /\ Req' = Req
  <2>1. On /\ UNCHANGED <<On, Req, Answer>>
    BY <1>1, <1>5, Inside
  <2>2. CASE ~FmtErase(ok)
    BY <1>1, <1>3, <2>1, <2>2 DEF NoStep
  <2>3. CASE FmtErase(ok) /\ call.op = "Append"
    <3>1. ruined \/ \A e \in Entries \ Entries', f \in Entries' : e.time < f.time
      BY <2>3, EraseOldest
    <3>2. Req.op = "Append"
      BY <2>3 DEF Req
    <3> QED BY <1>1, <1>3, <2>1, <3>1, <3>2 DEF Log!Reuse
  <2>4. CASE FmtErase(ok) /\ call.op # "Append"
    <3>1. Req.op \in {"Clean", "Open"}
      BY <1>1, <2>4 DEF Req, Call
    <3>2. Req.op = "Open" => (Calm => Entries = {} \/ ruined)
      BY DEF Req, LogInv, CalmOK, NothingToWipe
    <3> QED BY <1>1, <1>3, <2>1, <3>1, <3>2 DEF Log!Wipe
  <2> QED BY <2>2, <2>3, <2>4
<1> QED BY <1>2, <1>4, <1>5

\* clean answers when every sector is empty.
LEMMA CleanEndLog ==
  ASSUME TsIInv, LogInv, CleanEnd
  PROVE  Log!Reply("Ok")
<1>1. /\ pc = "CleanEnd" /\ flash' = flash /\ ruined' = ruined /\ Return("Ok")
      /\ call.op \in {"Clean", "Open"}
  BY DEF CleanEnd, Quiet, client, LogInv, CallOK
<1>2. ASSUME Calm PROVE Entries = {}
  <2>1. FormatAgrees /\ MediumOK /\ flash \in Image
    BY <1>2, TypeParts DEF LogInv, CalmOK, TsIInv, MemoryOK
  <2>2. \A s \in Sector : flash[s].store = "Empty"
    BY <1>1, <2>1 DEF FormatAgrees
  <2>3. \A s \in Sector : Committed(flash[s]) = {}
    BY <2>2, EmptyNone
  <2>4. \A s \in Sector : SectorLog(flash[s]) = {}
    BY <2>3 DEF SectorLog
  <2> QED BY <2>4 DEF Entries
<1>3. Entries' = Entries
  BY <1>1, UnchangedLog, SameEntries
<1>4. Req.op \in {"Clean", "Open"}
  BY <1>1 DEF Req
<1> QED BY <1>1, <1>2, <1>3, <1>4, Returns DEF Log!Reply

LEMMA OpenLog ==
  ASSUME TsIInv, LogInv, NEW strict \in BOOLEAN, Open(strict)
  PROVE  Log!Open \/ Log!CannotOpen
<1>1. /\ flash' = flash /\ pc = "Off" /\ call = NoCall
  BY QuietType DEF Open, LogInv, CallOK
<1>2. Entries' = Entries /\ ~On
  BY <1>1, UnchangedLog, SameEntries DEF On
<1>3. CASE Opened /\ Return("Ok")
  <2>1. On' /\ Req' = Log!NoReq /\ Answer' = "Ok"
    BY <1>3, ReqOf DEF Return, On, Answer
  <2>2. ruined' \in {ruined, TRUE}
    <3>1. ruined \in BOOLEAN
      BY TypeParts DEF TsIInv, ClientType
    <3> QED BY <1>3, <3>1 DEF Opened
  <2>3. On' = TRUE
    BY <2>1 DEF On
  <2> QED BY <1>2, <2>1, <2>2, <2>3 DEF Log!Open
<1>4. CASE result' = "ReadErr" /\ pc' = pc /\ call' = call /\ ruined' = ruined
  <2>1. Req' = Log!NoReq /\ Answer' = "ReadErr" /\ On' = On
    BY <1>1, <1>4, ReqOf DEF Answer, On
  <2> QED BY <1>2, <1>4, <2>1 DEF Log!CannotOpen
<1>5. CASE CleanCall("Open") /\ ruined' = ruined
  <2>1. pc' = "FmtErase" /\ Req' = [Log!NoReq EXCEPT !.op = "Open"]
    BY <1>5 DEF CleanCall, Req, NoCall, Log!NoReq
  <2>2. On' = TRUE /\ Answer' = "None"
    BY <2>1 DEF On, Answer
  <2> QED BY <1>2, <1>5, <2>1, <2>2 DEF Log!Open
<1> QED BY <1>3, <1>4, <1>5 DEF Open

\* The end of a session, in a call or between two.
LEMMA StopLog ==
  ASSUME pc # "Off", Reset, flash' = flash, ruined' = ruined, result' \in {"None", "Panic"}
  PROVE  Log!Stop
<1>1. Entries' = Entries
  BY UnchangedLog, SameEntries
<1>2. On /\ On' = FALSE /\ Req' = Log!NoReq /\ Answer' = result'
  BY ReqOf DEF Reset, On, Answer
<1> QED BY <1>1, <1>2 DEF Log!Stop

LEMMA LogNext ==
  ASSUME TsIInv, TsRInv, LogInv, [Next]_vars
  PROVE  [Log!Next]_(Log!vars)
<1> DEFINE A == \/ Log!Request \/ Log!Effect \/ Log!Reuse \/ Log!Mark \/ Log!Wipe \/ Log!Ruin
                \/ Log!Open \/ Log!CannotOpen \/ Log!Stop
                \/ \E r \in {"None", "Ok", "SavedFull", "WriteErr", "EraseErr"} : Log!Reply(r)
                \/ NoStep
<1>1. TimesOK /\ RingOK /\ Calm' \in {Calm, FALSE}
  BY FailuresNext DEF TsRInv
<1>2. A => Log!Next
  BY <1>1 DEF Log!Next, NoStep
<1>3. ASSUME NEW len \in Lens, NEW t, AppendAt(len, t) PROVE A
  <2>1. CASE AppendPanics(len, t)
    BY <2>1, StopLog DEF AppendPanics
  <2> QED BY <1>1, <1>3, <2>1, AppendLog, NowhereLog DEF AppendAt
<1>4. ASSUME Client PROVE A
  <2>1. CASE \E len \in Lens : AppendNow(len) \/ AppendAgain(len)
    BY <1>3, <2>1 DEF AppendNow, AppendAgain
  <2>2. CASE \E s \in Sector, st \in Marks, ok \in BOOLEAN :
                \E j \in Committed(flash[s]) : SetStatus(s, j, st, ok)
    BY <1>1, <2>2, SetStatusLog
  <2>3. CASE \E strict \in BOOLEAN : Open(strict)
    BY <2>3, OpenLog
  <2>4. CASE OpenPanics
    <3>1. /\ flash' = flash /\ pc = "Off" /\ pc' = "Off" /\ call' = NoCall /\ ruined' = ruined
          /\ result' = "Panic"
      BY <2>4 DEF OpenPanics, Quiet, client, LogInv, CallOK
    <3>2. Entries' = Entries /\ ~On /\ On' = On /\ Req' = Log!NoReq /\ Answer' = "Panic"
      BY <3>1, UnchangedLog, SameEntries, ReqOf DEF On, Answer
    <3> QED BY <3>1, <3>2 DEF Log!CannotOpen
  <2>5. CASE SetRollover
    <3>1. flash' = flash /\ pc = "Idle" /\ Return("None") /\ ruined' = ruined
      BY <2>5 DEF SetRollover, Quiet, client
    <3>2. Entries' = Entries
      BY <3>1, UnchangedLog, SameEntries
    <3>3. Log!Reply("None")
      BY <3>1, <3>2, Returns DEF Log!Reply
    <3> QED BY <3>3
  <2>6. CASE Clean
    <3>1. /\ flash' = flash /\ pc = "Idle" /\ CleanCall("Clean") /\ ruined' = ruined /\ call = NoCall
      BY <2>6 DEF Clean, Quiet, client, LogInv, CallOK
    <3>2. Entries' = Entries /\ Req = Log!NoReq
      BY <3>1, UnchangedLog, SameEntries, ReqOf
    <3>3. On /\ On' = On /\ Answer' = "None" /\ Req' = [Log!NoReq EXCEPT !.op = "Clean"]
      BY <3>1 DEF CleanCall, On, Answer, Req, NoCall, Log!NoReq
    <3>4. Log!Request
      BY <3>1, <3>2, <3>3 DEF Log!Request
    <3> QED BY <3>4
  <2>7. CASE Close
    BY <2>7, StopLog DEF Close, client
  <2> QED BY <1>4, <2>1, <2>2, <2>3, <2>4, <2>5, <2>6, <2>7 DEF Client
<1>5. ASSUME Step PROVE A
  <2>1. CASE CleanEnd
    BY <2>1, CleanEndLog
  <2> QED BY <1>1, <1>5, <2>1, WriteSteps, SetFullLog, TslWriteLog, FormatLog DEF Step
<1>6. ASSUME PowerLoss PROVE A
  BY <1>6, StopLog DEF PowerLoss, client
<1>7. CASE UNCHANGED vars
  <2>1. /\ flash' = flash /\ pc' = pc /\ call' = call /\ result' = result /\ ruined' = ruined
        /\ failures' = failures
    BY <1>7 DEF vars
  <2>2. NoStep /\ Calm' = Calm
    BY <2>1, UnchangedLog, SameEntries, ReqOf DEF NoStep, On, Answer, Calm
  <2> QED BY <2>2 DEF Log!vars, NoStep
<1> HIDE DEF A
<1>8. Next => A
  BY <1>4, <1>5, <1>6 DEF Next
<1> QED BY <1>2, <1>7, <1>8

----------------------------------------------------------------------------

\* What is known of the call in execution, of the current sector and of entries, and what
\* besides as long as nothing failed.
THEOREM LogInvariant == Spec => []LogInv
<1>1. Init => LogInv
  BY LogInvInit
<1>2. TsIInv /\ TsRInv /\ LogInv /\ [Next]_vars => LogInv'
  BY LogInvNext
<1> QED BY <1>1, <1>2, TsInductive, RingAlways, PTL DEF Spec

\* The database is a log: an append takes effect with the one storage call that commits
\* it, whole, and whatever fails; nothing but the oldest entries makes room for it; no
\* entry goes in any other way but by clean, or by the open of a damaged storage.
THEOREM LogImplemented == Spec => ImplementsLog
<1>1. Init => Log!Init
  <2>1. ASSUME Init PROVE Log!Init
    <3>1. pc = "Off" /\ call = NoCall /\ result = "None" /\ failures = MaxFailures /\ ruined = FALSE
      BY <2>1 DEF Init, Closed
    <3>2. Entries = {}
      BY <2>1, LogInvInit
    <3>3. On = FALSE /\ Req = Log!NoReq /\ Answer = "None" /\ Calm = TRUE
      BY <3>1, ReqOf DEF On, Answer, Calm
    <3> QED BY <3>1, <3>2, <3>3 DEF Log!Init
  <2> QED BY <2>1
<1>2. TsIInv /\ TsRInv /\ LogInv /\ [Next]_vars => [Log!Next]_(Log!vars)
  BY LogNext
<1> QED BY <1>1, <1>2, TsInductive, RingAlways, LogInvariant, PTL DEF Spec, ImplementsLog, Log!Spec

----------------------------------------------------------------------------
(* No sector is closed before its time *)

LEMMA OneMore ==
  ASSUME NEW n \in Nat
  PROVE  /\ (n + 1) * MaxLen = n * MaxLen + MaxLen
         /\ (n + 1) * Cost(MaxLen) = n * Cost(MaxLen) + Cost(MaxLen)
         /\ n * Cost(MaxLen) = n * LOG_IDX_DATA_SIZE + n * MaxLen
         /\ n * MaxLen \in Int /\ n * Cost(MaxLen) \in Int /\ Cost(MaxLen) \in Nat \ {0} /\ Room \in Nat
<1>1. MaxLen \in Nat /\ SecSize \in Nat /\ Room \in Nat
  BY Geometry DEF Room
<1>2. Cost(MaxLen) = LOG_IDX_DATA_SIZE + MaxLen /\ LOG_IDX_DATA_SIZE \in Nat \ {0}
  BY DEF Cost, LOG_IDX_DATA_SIZE
<1> QED BY <1>1, <1>2

\* What is read of a sector claims the room it has.
LEMMA ReadRoomy ==
  ASSUME NEW img \in Image, NEW s \in Sector, SectorOK(img[s]), Packed(img[s]),
         NEW c, c \in {read_header(img, s), read_sector_info(img, s)}
  PROVE  Roomy(c)
<1> DEFINE sec == img[s]
           n == Len(sec.tsls)
<1>1. CASE ~sec.ok
  <2>1. ~read_header(img, s).ok
    BY <1>1 DEF read_header, Blank
  <2>2. ~read_sector_info(img, s).ok
    BY <2>1 DEF read_sector_info, Blank
  <2> QED BY <2>1, <2>2 DEF Roomy
<1>2. CASE sec.ok /\ c = read_header(img, s)
  <2>1. c.data = SecSize /\ c.idx = 0 /\ c.remain = Room
    BY <1>2 DEF read_header, Room
  <2> QED BY <2>1, OneMore, Geometry DEF Roomy
<1>3. CASE sec.ok /\ c = read_sector_info(img, s) /\ c # read_header(img, s)
  <2>1. s # NoAddr /\ sec.tsls # <<>> /\ read_header(img, s) \in SecInfo
    BY <1>3, HeaderType, NoAddrAssumption DEF read_sector_info
  <2>2. c.data = EmptyData(sec) /\ c.idx = n /\ c.remain = Free(sec)
    BY <1>3, <2>1 DEF read_sector_info, SecInfo
  <2>3. /\ n \in Nat \ {0} /\ LastRecord(sec) = sec.tsls[n] /\ LastRecord(sec) \in IndexRecord
        /\ ReadLen(LastRecord(sec)) \in Nat
    BY <2>1, LastType
  <2>4. n \in DOMAIN sec.tsls
    BY <2>3, ImageFields
  <2>5. ReadLen(LastRecord(sec)) <= MaxLen
    BY <2>3, <2>4, Geometry DEF ReadLen, SectorOK
  <2>6. LastRecord(sec).top >= SecSize - (n - 1) * MaxLen
    BY <2>3, <2>4 DEF Packed
  <2>7. EmptyData(sec) = LastRecord(sec).top - ReadLen(LastRecord(sec))
    BY <2>1 DEF EmptyData
  <2>8. n * MaxLen = (n - 1) * MaxLen + MaxLen /\ (n - 1) * MaxLen \in Int
    BY <2>3, Geometry
  <2> HIDE DEF n, sec
  <2>9. EmptyData(sec) >= SecSize - n * MaxLen /\ EmptyData(sec) \in Int
    BY <2>3, <2>5, <2>6, <2>7, <2>8, Geometry DEF IndexRecord
  <2>10. Free(sec) >= Room - n * Cost(MaxLen)
    <3>1. n * Cost(MaxLen) = n * LOG_IDX_DATA_SIZE + n * MaxLen /\ n * MaxLen \in Int
      BY <2>3, OneMore
    <3>2. Free(sec) >= EmptyData(sec) - SECTOR_HDR_DATA_SIZE - LOG_IDX_DATA_SIZE * n
      BY <2>3, <2>9, Geometry DEF Free, n
    <3>3. LOG_IDX_DATA_SIZE * n = n * LOG_IDX_DATA_SIZE /\ n * LOG_IDX_DATA_SIZE \in Int
      BY <2>3, Geometry
    <3>4. Free(sec) \in Int
      BY DataType DEF sec
    <3> QED BY <2>9, <3>1, <3>2, <3>3, <3>4, Geometry DEF Room
  <2> QED BY <2>2, <2>9, <2>10 DEF Roomy
<1> QED BY <1>1, <1>2, <1>3

\* A record that is given a state keeps its place.
LEMMA MarkTops ==
  ASSUME NEW sec \in SectorImage, NEW image, MarksOne(sec, image)
  PROVE  \A k \in DOMAIN sec.tsls : image.tsls[k].top = sec.tsls[k].top
<1>1. PICK j \in Committed(sec), st \in Marks : image = [sec EXCEPT !.tsls[j].status = st]
  BY DEF MarksOne
<1>2. sec.tsls \in Seq(IndexRecord) /\ j \in DOMAIN sec.tsls
  BY DEF SectorImage, Committed
<1>3. image.tsls = [sec.tsls EXCEPT ![j] = [sec.tsls[j] EXCEPT !.status = st]]
  BY <1>1 DEF SectorImage
<1>4. [sec.tsls[j] EXCEPT !.status = st].top = sec.tsls[j].top
  BY <1>2 DEF IndexRecord
<1> QED BY <1>2, <1>3, <1>4

\* Where no record is begun the sectors are as full as before; old records keep their places.
LEMMA PackedStep ==
  ASSUME TsIInv, [Next]_vars, \A s \in Sector : Packed(flash[s]),
         NEW s \in Sector, Len(flash'[s].tsls) = Len(flash[s].tsls) \/ flash'[s] = Erased
  PROVE  Packed(flash'[s])
<1>1. flash \in Image /\ flash' \in Image /\ OnlyClears
  BY NextStep, TypeParts, TypePartsNext DEF TsIInv
<1>2. CASE flash'[s] = Erased
  BY <1>2 DEF Packed, Erased
<1>3. CASE flash'[s] # Erased
  <2>1. /\ \/ Forward1(flash[s], flash'[s])
           \/ MarksOne(flash[s], flash'[s]) \/ HidesHeader(s, flash[s], flash'[s])
        /\ Len(flash'[s].tsls) = Len(flash[s].tsls)
    BY <1>1, <1>3 DEF OnlyClears, Programs
  <2>2. flash[s].tsls \in Seq(IndexRecord) /\ flash'[s].tsls \in Seq(IndexRecord)
    BY <1>1, ImageFields
  <2>3. DOMAIN flash'[s].tsls = DOMAIN flash[s].tsls
    BY <2>1, <2>2
  <2>4. \A j \in DOMAIN flash[s].tsls : flash'[s].tsls[j].top = flash[s].tsls[j].top
    <3>1. CASE Forward1(flash[s], flash'[s])
      BY <3>1 DEF Forward1, RecordForward
    <3>2. CASE MarksOne(flash[s], flash'[s])
      BY <1>1, <3>2, MarkTops DEF Image
    <3>3. CASE HidesHeader(s, flash[s], flash'[s])
      <4>1. flash[s] \in SectorImage
        BY <1>1 DEF Image
      <4> QED BY <3>3, <4>1 DEF HidesHeader, SectorImage
    <3> QED BY <2>1, <3>1, <3>2, <3>3
  <2> QED BY <2>3, <2>4 DEF Packed
<1> QED BY <1>2, <1>3

\* Every sector has the records it had, or none.
SameLens == \A s \in Sector :
               \/ flash'[s] = Erased
               \/ /\ Len(flash'[s].tsls) = Len(flash[s].tsls)
                  /\ flash'[s].store = "Full" => flash[s].store = "Full"

LEMMA RoomSame ==
  ASSUME TsIInv, [Next]_vars, RoomKept, SameLens
  PROVE  \A s \in Sector : Packed(flash'[s]) /\ (flash'[s].store = "Full" => Tight(flash'[s]))
<1>1. \A s \in Sector : Packed(flash'[s])
  BY PackedStep DEF SameLens, RoomKept
<1>2. Erased.store # "Full"
  BY DEF Erased
<1>3. \A s \in Sector : flash'[s].store = "Full" => Tight(flash'[s])
  BY <1>2 DEF SameLens, RoomKept, Tight
<1> QED BY <1>1, <1>3

\* A step outside of the end of a sector that leaves the description alone or reads it anew.
LEMMA RoomGoes ==
  ASSUME TsIInv, [Next]_vars, RoomKept, SameLens, Roomy(cur'),
         pc' \notin EndLabels \/ failing' \/ Tight(flash'[cur'.sec])
  PROVE  RoomKept'
BY RoomSame DEF RoomKept

\* tsl_append: an end is begun only when the blob finds no room.
LEMMA AppendRoom ==
  ASSUME TsIInv, [Next]_vars, RoomKept, NEW len \in Lens, NEW t \in Int, TslAppend(len, t)
  PROVE  RoomKept'
<1>1. flash' = flash /\ cur' = cur /\ failing' = failing /\ pc = "Idle"
  BY QuietType DEF TslAppend, ram
<1>2. SameLens
  BY <1>1 DEF SameLens
<1>3. ASSUME pc' \in EndLabels, ~failing PROVE Tight(flash[cur.sec])
  <2>1. ~Refused(len, t) /\ cur.ok /\ cur.status = "Using" /\ NoRoom(len)
    BY <1>3 DEF TslAppend, Begin, Return, EndLabels
  <2>2. /\ cur.idx = Len(flash[cur.sec].tsls) /\ cur.idx \in Nat /\ cur.remain \in Int
        /\ len \in Nat /\ len <= MaxLen /\ MaxLen \in Nat
    <3>1. cur \in SecInfo /\ len \in Nat /\ MaxLen \in Nat
      BY TypeParts, LensAssumption, Geometry DEF TsIInv, RamType
    <3>2. RoomAgrees(cur, flash[cur.sec], Len(flash[cur.sec].tsls))
      BY <1>1, <1>3, <2>1, AtIdle DEF Agrees
    <3> QED BY <2>1, <3>1, <3>2 DEF SecInfo, RoomAgrees, Refused
  <2>3. cur.remain < Cost(len) /\ Cost(len) <= Cost(MaxLen) /\ Cost(len) \in Int
    BY <2>1, <2>2, Geometry DEF NoRoom, Cost
  <2>4. cur.remain >= Room - cur.idx * Cost(MaxLen)
    BY <2>1 DEF RoomKept, Roomy
  <2>5. /\ (cur.idx + 1) * Cost(MaxLen) = cur.idx * Cost(MaxLen) + Cost(MaxLen)
        /\ cur.idx * Cost(MaxLen) \in Int /\ Cost(MaxLen) \in Nat /\ Room \in Nat
    BY <2>2, OneMore
  <2>6. Room < (cur.idx + 1) * Cost(MaxLen)
    <3>1. PICK p, c, r : p = cur.idx * Cost(MaxLen) /\ c = Cost(MaxLen) /\ r = cur.remain
      OBVIOUS
    <3>2. r < c /\ r >= Room - p /\ r \in Int /\ p \in Int /\ c \in Nat /\ Room \in Nat
      <4>1. r < c
        BY <2>2, <2>3, <2>5, <3>1
      <4> QED BY <2>2, <2>4, <2>5, <3>1, <4>1
    <3>3. Room < p + c
      BY ONLY <3>2
    <3> QED BY <2>5, <3>1, <3>3
  <2> QED BY <2>2, <2>6 DEF Tight
<1>4. Roomy(cur')
  BY <1>1 DEF RoomKept
<1> QED BY <1>1, <1>2, <1>3, <1>4, RoomGoes

\* The writes to the header of the current sector.
LEMMA HeaderRoom ==
  ASSUME TsIInv, [Next]_vars, RoomKept, NEW ok \in BOOLEAN,
         EndPre(ok) \/ EndData(ok) \/ EndWrite(ok) \/ SetStart(ok)
  PROVE  RoomKept'
<1>1. SameRecs /\ \A s \in Sector : flash'[s].store = flash[s].store
  BY EndWrites
<1>2. cur' = cur /\ pc \in AppendLabels /\ (pc \in EndLabels \/ pc = "SetStart")
  BY DEF EndPre, EndData, EndWrite, SetStart, ram, AppendLabels, EndLabels, FirstLabels
<1>3. pc' \in EndLabels => ok /\ pc \in EndLabels
  BY DEF EndPre, EndData, EndWrite, SetStart, Then, Goto, Return, EndLabels
<1>4. ok => ~failing
  BY TypeParts, Programmed DEF EndPre, EndData, EndWrite, SetStart, TsIInv
<1>5. ASSUME pc' \in EndLabels PROVE Tight(flash'[cur'.sec])
  <2>1. cur.sec \in Sector
    BY <1>2, <1>3, <1>4, <1>5, InSector
  <2> QED BY <1>1, <1>2, <1>3, <1>4, <1>5, <2>1 DEF RoomKept, SameRecs, Tight
<1>6. SameLens
  BY <1>1 DEF SameLens, SameRecs
<1> QED BY <1>2, <1>5, <1>6, RoomGoes DEF RoomKept

\* The sector that is closed; the next one is read.
LEMMA SetFullRoom ==
  ASSUME TsIInv, [Next]_vars, RoomKept, NEW ok \in BOOLEAN, SetFull(ok)
  PROVE  RoomKept'
<1>1. Program(cur.sec, [flash[cur.sec] EXCEPT !.store = "Full"], ok) /\ pc = "SetFull" /\ pc \in AppendLabels
  BY DEF SetFull, AppendLabels, EndLabels
<1>2. /\ SameRecs
      /\ \A s \in Sector : flash'[s].store = flash[s].store \/ (ok /\ s = cur.sec)
  BY <1>1, StoreWrites
<1>3. ASSUME ok PROVE ~failing /\ cur.sec \in Sector /\ Tight(flash[cur.sec])
  <2>1. ~failing
    BY <1>1, <1>3, TypeParts, Programmed DEF TsIInv
  <2> QED BY <1>1, <2>1, InSector DEF RoomKept, EndLabels
<1>4. /\ flash \in Image /\ MediumOK /\ cur \in SecInfo
  BY TypeParts DEF TsIInv, RamType
<1>5. \A s \in Sector : Packed(flash'[s])
  BY <1>2, PackedStep DEF RoomKept, SameRecs
<1>6. \A s \in Sector : flash'[s].store = "Full" => Tight(flash'[s])
  BY <1>2, <1>3 DEF RoomKept, SameRecs, Tight
<1>7. Roomy(cur') /\ pc' \notin EndLabels
  <2>1. CASE ~ok
    <3>1. cur' = cur /\ pc' = "Idle"
      BY <2>1 DEF SetFull, Return
    <3> QED BY <3>1 DEF RoomKept, EndLabels
  <2>2. CASE ok /\ TakeSector(NextSector(cur.sec))
    <3>1. NextSector(cur.sec) \in Sector
      BY <1>3, <2>2, NextSectorType
    <3>2. cur' = read_header(flash, NextSector(cur.sec)) /\ pc' \in {"SetUsing", "FmtErase"}
      BY <2>2 DEF TakeSector, Goto
    <3>3. Roomy(cur')
      BY <1>4, <3>1, <3>2, ReadRoomy DEF RoomKept, MediumOK
    <3> QED BY <3>2, <3>3 DEF EndLabels
  <2>3. CASE cur' = [cur EXCEPT !.status = "Full"] /\ Return("SavedFull")
    <3>1. pc' = "Idle" /\ cur'.ok = cur.ok /\ cur'.data = cur.data /\ cur'.idx = cur.idx
          /\ cur'.remain = cur.remain
      BY <1>4, <2>3 DEF Return, SecInfo
    <3> QED BY <3>1 DEF RoomKept, Roomy, EndLabels
  <2> QED BY <2>1, <2>2, <2>3 DEF SetFull
<1> QED BY <1>5, <1>6, <1>7 DEF RoomKept

LEMMA SetUsingRoom ==
  ASSUME TsIInv, [Next]_vars, RoomKept, NEW ok \in BOOLEAN, SetUsing(ok)
  PROVE  RoomKept'
<1>1. Program(cur.sec, [flash[cur.sec] EXCEPT !.store = "Using"], ok) /\ pc \in AppendLabels
  BY DEF SetUsing, AppendLabels, FirstLabels
<1>2. /\ SameRecs
      /\ \A s \in Sector : flash'[s].store = flash[s].store \/ flash'[s].store = "Using"
  BY <1>1, StoreWrites
<1>3. SameLens
  BY <1>2 DEF SameLens, SameRecs
<1>4. cur \in SecInfo
  BY TypeParts DEF TsIInv, RamType
<1>5. cur'.ok = cur.ok /\ cur'.data = cur.data /\ cur'.idx = cur.idx /\ cur'.remain = cur.remain
  BY <1>4 DEF SetUsing, SecInfo
<1>6. Roomy(cur')
  BY <1>5 DEF RoomKept, Roomy
<1>7. pc' \notin EndLabels
  BY DEF SetUsing, Then, Goto, Return, EndLabels
<1> QED BY <1>3, <1>6, <1>7, RoomGoes

\* A record that is begun gets the room behind the last one.
LEMMA TslPreRoom ==
  ASSUME TsIInv, [Next]_vars, RoomKept, NEW ok \in BOOLEAN, TslPre(ok)
  PROVE  RoomKept'
<1>1. cur' = cur /\ pc' \notin EndLabels /\ pc \in FirstLabels /\ pc = "TslPre"
  BY DEF TslPre, ram, Then, Goto, Return, EndLabels, FirstLabels
<1>2. CASE ~ok
  <2>1. flash' = flash
    BY <1>2 DEF TslPre, Program
  <2> QED BY <1>1, <2>1, RoomGoes DEF SameLens, RoomKept
<1>3. CASE ok
  <2>1. ~failing
    BY <1>3, TypeParts, Programmed DEF TslPre, TsIInv
  <2>2. /\ cur.sec \in Sector /\ cur \in SecInfo /\ cur.ok /\ flash[cur.sec] \in SectorImage
        /\ Agrees(cur, flash) /\ cur.status = "Using"
    BY <1>1, <2>1, AtFirst DEF FirstAgrees
  <2> DEFINE old == flash[cur.sec]
             n == Len(old.tsls)
  <2>3. /\ \A s \in Sector : s # cur.sec => flash'[s] = flash[s]
        /\ flash'[cur.sec].tsls = Append(old.tsls, Reserved)
    BY <1>3, TslPreKept
  <2>4. old.store = "Using" /\ cur.idx = n /\ n \in Nat /\ old.tsls \in Seq(IndexRecord)
    BY <2>2 DEF Agrees, RoomAgrees, SectorImage
  <2>5. flash'[cur.sec].store # "Full"
    <3>1. PICK image : image = [old EXCEPT !.tsls = Append(@, Reserved)]
      OBVIOUS
    <3>2. flash' = [flash EXCEPT ![cur.sec] = image]
      BY <1>3, <3>1 DEF TslPre, Program
    <3>3. flash'[cur.sec] = image
      BY <2>2, <3>2, TypeParts DEF TsIInv, Image
    <3> QED BY <2>2, <2>4, <3>1, <3>3 DEF SectorImage
  <2>6. Packed(flash'[cur.sec])
    <3>1. Reserved.top = cur.data
      BY DEF Reserved
    <3>2. cur.data >= SecSize - n * MaxLen
      BY <2>2, <2>4 DEF RoomKept, Roomy
    <3>3. \A j \in 1 .. n : old.tsls[j].top >= SecSize - (j - 1) * MaxLen
      BY <2>2, <2>4 DEF RoomKept, Packed
    <3>4. Reserved \in IndexRecord
      BY <2>2 DEF Reserved, IndexRecord, TslStatus, ErasedTime, SecInfo
    <3> HIDE DEF n, old
    <3>5. /\ DOMAIN flash'[cur.sec].tsls = 1 .. n + 1
          /\ \A j \in 1 .. n : flash'[cur.sec].tsls[j] = old.tsls[j]
          /\ flash'[cur.sec].tsls[n + 1] = Reserved
      BY <2>3, <2>4, <3>4, AppendProperties DEF n
    <3>6. (n + 1) - 1 = n /\ \A j \in 1 .. n + 1 : j \in 1 .. n \/ j = n + 1
      BY <2>4
    <3>7. \A j \in 1 .. n + 1 : flash'[cur.sec].tsls[j].top >= SecSize - (j - 1) * MaxLen
      <4> TAKE j \in 1 .. n + 1
      <4>1. CASE j = n + 1
        BY <3>1, <3>2, <3>5, <3>6, <4>1
      <4>2. CASE j \in 1 .. n
        BY <3>3, <3>5, <4>2
      <4> QED BY <3>6, <4>1, <4>2
    <3> QED BY <3>5, <3>7 DEF Packed
  <2>7. ASSUME NEW s \in Sector
        PROVE  Packed(flash'[s]) /\ (flash'[s].store = "Full" => Tight(flash'[s]))
    <3>1. CASE s = cur.sec
      BY <2>5, <2>6, <3>1
    <3>2. CASE s # cur.sec
      BY <2>3, <3>2 DEF RoomKept
    <3> QED BY <3>1, <3>2
  <2> QED BY <1>1, <2>7 DEF RoomKept
<1> QED BY <1>2, <1>3

\* The other writes of a record; the commit counts it.
LEMMA RecordRoom ==
  ASSUME TsIInv, [Next]_vars, RoomKept, NEW ok \in BOOLEAN, TslIdx(ok) \/ TslData(ok) \/ TslWrite(ok)
  PROVE  RoomKept'
<1>1. pc' \notin EndLabels /\ pc \in RecordLabels
  BY DEF TslIdx, TslData, TslWrite, Then, Goto, Return, EndLabels, RecordLabels
<1>2. CASE ~ok
  <2>1. flash' = flash /\ cur' = cur
    BY <1>2 DEF TslIdx, TslData, TslWrite, Program, ram
  <2> QED BY <1>1, <2>1, RoomGoes DEF SameLens, RoomKept
<1>3. CASE ok
  <2>1. PICK r : Program(cur.sec, WithLast(r), ok)
    BY DEF TslIdx, TslData, TslWrite
  <2>2. PICK image : image = WithLast(r)
    OBVIOUS
  <2>3. ~failing /\ flash' = [flash EXCEPT ![cur.sec] = image] /\ flash \in Image
    BY <1>3, <2>1, <2>2, TypeParts, Programmed DEF TsIInv
  <2>4. /\ cur.sec \in Sector /\ cur \in SecInfo /\ RecordAgrees
        /\ call.len <= MaxLen /\ call.len \in Nat
    BY <1>1, <2>3, AtRecord
  <2>5. flash'[cur.sec] = image /\ \A q \in Sector : q # cur.sec => flash'[q] = flash[q]
    BY <2>3, <2>4, OneSector
  <2>6. Len(image.tsls) = Len(flash[cur.sec].tsls) /\ image.store = flash[cur.sec].store
    BY <1>1, <2>2, <2>3, LastWritten
  <2>7. SameLens
    BY <2>5, <2>6 DEF SameLens
  <2>8. Roomy(cur')
    <3>1. CASE cur' = cur
      BY <3>1 DEF RoomKept
    <3>2. CASE cur' = WithRecord(cur)
      <4>1. /\ cur.ok /\ cur'.idx = cur.idx + 1 /\ cur'.data = cur.data - call.len
            /\ cur'.remain = cur.remain - Cost(call.len)
            /\ cur.idx \in Nat /\ cur.data \in Int /\ cur.remain \in Int
        BY <2>4, <3>2 DEF WithRecord, SecInfo, RecordAgrees
      <4>2. Cost(call.len) <= Cost(MaxLen) /\ Cost(call.len) \in Int
        BY <2>4, Geometry DEF Cost
      <4>3. /\ (cur.idx + 1) * MaxLen = cur.idx * MaxLen + MaxLen
            /\ (cur.idx + 1) * Cost(MaxLen) = cur.idx * Cost(MaxLen) + Cost(MaxLen)
            /\ cur.idx * MaxLen \in Int /\ cur.idx * Cost(MaxLen) \in Int
            /\ Cost(MaxLen) \in Nat /\ Room \in Nat
        BY <4>1, OneMore
      <4>4. cur.data >= SecSize - cur.idx * MaxLen /\ cur.remain >= Room - cur.idx * Cost(MaxLen)
        BY <4>1 DEF RoomKept, Roomy
      <4>5. MaxLen \in Nat /\ SecSize \in Nat
        BY Geometry
      <4>6. cur'.data >= SecSize - (cur.idx + 1) * MaxLen
        BY ONLY <2>4, <4>1, <4>3, <4>4, <4>5
      <4>7. cur'.remain >= Room - (cur.idx + 1) * Cost(MaxLen)
        BY ONLY <4>1, <4>2, <4>3, <4>4
      <4> QED BY <4>1, <4>6, <4>7 DEF Roomy
    <3> QED BY <1>3, <3>1, <3>2 DEF TslIdx, TslData, TslWrite, ram
  <2> QED BY <1>1, <2>7, <2>8, RoomGoes
<1> QED BY <1>2, <1>3

LEMMA MarkRoom ==
  ASSUME TsIInv, [Next]_vars, RoomKept, NEW s \in Sector, NEW st \in Marks, NEW ok \in BOOLEAN,
         NEW j \in Committed(flash[s]), SetStatus(s, j, st, ok)
  PROVE  RoomKept'
<1>1. cur' = cur /\ pc' \notin EndLabels
  BY DEF SetStatus, Return, ram, EndLabels
<1>2. flash \in Image /\ MediumType
  BY TypeParts DEF TsIInv
<1>3. PICK r, image : /\ r = [flash[s].tsls[j] EXCEPT !.status = st]
                      /\ image = PutRecord(flash[s], j, r)
  OBVIOUS
<1>4. Program(s, image, ok)
  BY <1>3 DEF SetStatus, PutRecord
<1>5. image.store = flash[s].store /\ Len(image.tsls) = Len(flash[s].tsls)
  BY <1>2, <1>3, MarkTimes
<1>6. flash' = flash \/ (flash'[s] = image /\ \A q \in Sector : q # s => flash'[q] = flash[q])
  <2>1. flash' = flash \/ flash' = [flash EXCEPT ![s] = image]
    BY <1>2, <1>4, Programmed
  <2> QED BY <1>2, <2>1, OneSector
<1>7. SameLens
  BY <1>5, <1>6 DEF SameLens
<1> QED BY <1>1, <1>7, RoomGoes DEF RoomKept

LEMMA FormatRoom ==
  ASSUME TsIInv, [Next]_vars, RoomKept, NEW ok \in BOOLEAN, FmtErase(ok) \/ FmtStatus(ok) \/ FmtMagic(ok)
  PROVE  RoomKept'
<1>1. pc' \notin EndLabels
  BY DEF FmtErase, FmtStatus, FmtMagic, FmtReturn, Goto, Return, EndLabels
<1>2. SameLens
  BY EraseWrites, StatusWrites, MagicWrites DEF SameLens, SameRecs
<1>3. \A s \in Sector : Packed(flash'[s]) /\ SectorOK(flash'[s])
  BY <1>2, RoomSame, NextStep DEF TsIInv, MediumOK
<1>4. flash' \in Image /\ call.sec \in Sector
  BY NextStep, TypeParts, TypePartsNext DEF TsIInv, RunType, Call
<1>5. cur' = cur \/ cur' = read_header(flash', call.sec)
  BY DEF FmtErase, FmtStatus, FmtMagic, ram
<1>6. Roomy(cur')
  <2>1. CASE cur' = cur
    BY <2>1 DEF RoomKept
  <2>2. CASE cur' = read_header(flash', call.sec)
    BY <1>3, <1>4, <2>2, ReadRoomy
  <2> QED BY <1>5, <2>1, <2>2
<1> QED BY <1>1, <1>2, <1>6, RoomGoes

\* The steps that write nothing: what is in memory stays, goes or is read.
LEMMA QuietRoom ==
  ASSUME TsIInv, [Next]_vars, RoomKept, flash' = flash,
         pc' \notin EndLabels \/ (pc' = pc /\ cur' = cur /\ failing' = failing),
         \/ cur' = cur \/ ~cur'.ok
         \/ \E s \in Sector : cur' \in {read_header(flash, s), read_sector_info(flash, s)}
  PROVE  RoomKept'
<1>1. SameLens
  BY DEF SameLens
<1>2. flash \in Image /\ MediumOK
  BY TypeParts DEF TsIInv
<1>3. Roomy(cur')
  <2>1. CASE cur' = cur
    BY <2>1 DEF RoomKept
  <2>2. CASE ~cur'.ok
    BY <2>2 DEF Roomy
  <2>3. CASE \E s \in Sector : cur' \in {read_header(flash, s), read_sector_info(flash, s)}
    BY <1>2, <2>3, ReadRoomy DEF RoomKept, MediumOK
  <2> QED BY <2>1, <2>2, <2>3
<1> QED BY <1>1, <1>3, RoomGoes DEF RoomKept

LEMMA RoomNext ==
  ASSUME TsIInv, RoomKept, [Next]_vars
  PROVE  RoomKept'
<1>1. ASSUME NEW len \in Lens, AppendNow(len) \/ AppendAgain(len) PROVE RoomKept'
  <2>1. clock \in Int /\ \A t \in NextTimes : t \in Int
    BY TypeParts, TimesAssumption DEF TsIInv, ClientType, NextTimes
  <2>2. PICK t \in Int : AppendAt(len, t)
    BY <1>1, <2>1 DEF AppendNow, AppendAgain
  <2>3. CASE AppendPanics(len, t)
    <3>1. ~cur'.ok /\ flash' = flash /\ pc' \notin EndLabels
      BY <2>3 DEF AppendPanics, Reset, Blank, EndLabels
    <3> QED BY <3>1, QuietRoom
  <2>4. ASSUME NEW ok \in BOOLEAN, AppendNowhere(len, t, ok) PROVE RoomKept'
    <3>1. cur' = cur /\ pc' \notin EndLabels
      BY <2>4 DEF AppendNowhere, Return, ram, EndLabels
    <3>2. SameLens
      BY <2>4, NowhereWrites DEF AppendNowhere, SameLens
    <3> QED BY <3>1, <3>2, RoomGoes DEF RoomKept
  <2> QED BY <2>2, <2>3, <2>4, AppendRoom DEF AppendAt
<1>2. ASSUME NEW strict \in BOOLEAN, Open(strict) PROVE RoomKept'
  <2>1. flash' = flash /\ flash \in Image /\ pc' \notin EndLabels
    BY <1>2, QuietType, TypeParts DEF Open, Return, CleanCall, TsIInv, EndLabels
  <2>2. CASE Opened
    <3>1. CASE FirstOpen(flash) = NoAddr
      <4>1. ~cur'.ok
        BY <2>2, <3>1 DEF Opened, read_sector_info, Blank
      <4> QED BY <2>1, <4>1, QuietRoom
    <3>2. CASE FirstOpen(flash) # NoAddr
      <4>1. FirstOpen(flash) \in Sector /\ cur' = read_sector_info(flash, FirstOpen(flash))
        BY <2>1, <2>2, <3>2, FirstOpenType DEF Opened
      <4> QED BY <2>1, <4>1, QuietRoom
    <3> QED BY <3>1, <3>2
  <2>3. CASE cur' = cur
    BY <2>1, <2>3, QuietRoom
  <2> QED BY <1>2, <2>2, <2>3 DEF Open
<1>3. CASE OpenPanics \/ SetRollover \/ Clean \/ Close
  <2>1. flash' = flash /\ pc' \notin EndLabels /\ (cur' = cur \/ ~cur'.ok)
    BY <1>3 DEF OpenPanics, SetRollover, Clean, CleanCall, Close, Reset, Blank, Quiet, Return, ram,
                EndLabels
  <2> QED BY <2>1, QuietRoom
<1>4. CASE CleanEnd
  <2>1. /\ flash' = flash /\ pc' \notin EndLabels /\ 0 \in Sector
        /\ cur' \in {read_header(flash, 0), read_sector_info(flash, 0)}
    BY <1>4, Geometry DEF CleanEnd, Quiet, Return, EndLabels
  <2> QED BY <2>1, QuietRoom
<1>5. CASE Client
  BY <1>1, <1>2, <1>3, <1>5, MarkRoom DEF Client
<1>6. CASE Step
  BY <1>4, <1>6, HeaderRoom, SetFullRoom, SetUsingRoom, TslPreRoom, RecordRoom, FormatRoom DEF Step
<1>7. CASE PowerLoss
  <2>1. flash' = flash /\ pc' \notin EndLabels /\ ~cur'.ok
    BY <1>7 DEF PowerLoss, Reset, Blank, EndLabels
  <2> QED BY <2>1, QuietRoom
<1>8. CASE UNCHANGED vars
  <2>1. flash' = flash /\ pc' = pc /\ cur' = cur /\ failing' = failing
    BY <1>8 DEF vars
  <2> QED BY <2>1, QuietRoom
<1> QED BY <1>5, <1>6, <1>7, <1>8 DEF Next

LEMMA RoomInit ==
  ASSUME Init
  PROVE  RoomKept
BY DEF Init, Closed, Blank, Erased, RoomKept, Packed, Roomy, EndLabels

LEMMA RoomShare ==
  ASSUME TsIInv, RoomKept
  PROVE  NoRoomWasted
<1> SUFFICES ASSUME NEW s \in Sector, flash[s].store = "Full"
             PROVE  N * Len(flash[s].tsls) >= max_blob_count
  BY DEF NoRoomWasted
<1> DEFINE n == Len(flash[s].tsls)
           c == Cost(MaxLen)
<1>1. n \in Nat /\ Room < (n + 1) * c
  BY TypeParts, ImageFields DEF TsIInv, RoomKept, Tight
<1>2. c \in Nat \ {0} /\ Room \in Nat /\ N \in Nat
  BY OneMore, Geometry
<1> HIDE DEF n, c
<1>3. n >= Room \div c
  <2>1. PICK q : q = Room \div c
    OBVIOUS
  <2>2. q \in Nat /\ q * c <= Room
    BY <1>2, <2>1
  <2>3. q * c < (n + 1) * c
    BY <1>1, <1>2, <2>2
  <2>4. q < n + 1
    BY <1>1, <1>2, <2>2, <2>3
  <2> QED BY <1>1, <2>1, <2>2, <2>4
<1>4. N * n >= N * (Room \div c)
  <2>1. PICK q : q = Room \div c
    OBVIOUS
  <2>2. q \in Nat /\ n >= q
    BY <1>2, <1>3, <2>1
  <2>3. N * n >= N * q
    BY <1>1, <1>2, <2>2
  <2> QED BY <2>1, <2>3
<1> QED BY <1>4 DEF max_blob_count, n, c

\* update_sec_status closes a sector only when a blob finds no room in it, so that a full
\* sector holds its share of max_blob_count: in every session, for records of any length,
\* also when some were left unfinished.
THEOREM RoomUsed == Spec => []NoRoomWasted
<1>1. TsIInv /\ TsIInv' /\ RoomKept /\ [Next]_vars => RoomKept'
  BY RoomNext
<1>2. TsIInv /\ RoomKept => NoRoomWasted
  BY RoomShare
<1>3. Init => RoomKept
  BY RoomInit
<1> QED BY <1>1, <1>2, <1>3, TsInductive, PTL DEF Spec
=============================================================================
