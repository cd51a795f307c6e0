--------------------------- MODULE TsdbRingProofs ---------------------------
(***************************************************************************)
(* Proofs about the ring of the time-series database, for every geometry   *)
(* and any number of failures: that times increase along the ring          *)
(* (TimesIncrease) and that the next session finds what this one has in    *)
(* memory (ReopenAgrees).                                                  *)
(*                                                                         *)
(* Three invariants are proved one after the other, each from the ones     *)
(* before it and from TsIInv: TimesOK, about the times of single records   *)
(* and the clock; RingOK, about the order of the sectors; MemoryAgain,     *)
(* about the description of the current sector.                            *)
(***************************************************************************)
EXTENDS TsdbRing, TsdbProofs

----------------------------------------------------------------------------
(* Steps that change no committed record *)

SameTimes(old, new) == /\ Committed(new) = Committed(old)
                       /\ \A j \in Committed(old) : new.tsls[j].time = old.tsls[j].time

\* No sector changes its state, no committed record comes, goes or changes its time.
Silent == \A s \in Sector : /\ SameTimes(flash[s], flash'[s])
                            /\ flash'[s].store = flash[s].store /\ flash'[s].ok = flash[s].ok

LEMMA Unchanged == ASSUME flash' = flash PROVE Silent
BY DEF Silent, SameTimes

LEMMA SilentWrite ==
  ASSUME flash \in Image, NEW s \in Sector, NEW image, flash' = [flash EXCEPT ![s] = image],
         SameTimes(flash[s], image), image.store = flash[s].store, image.ok = flash[s].ok
  PROVE  Silent
<1>1. \A q \in Sector : flash'[q] = IF q = s THEN image ELSE flash[q]
  BY DEF Image
<1> QED BY <1>1 DEF Silent, SameTimes

\* Everything but the records stays.
LEMMA SameRecords ==
  ASSUME NEW old, NEW new, new.tsls = old.tsls
  PROVE  SameTimes(old, new)
BY DEF SameTimes, Committed

\* The number of a record is a number, its time as well.
LEMMA CommittedType ==
  ASSUME NEW sec \in SectorImage
  PROVE  /\ sec.tsls \in Seq(IndexRecord) /\ Len(sec.tsls) \in Nat
         /\ \A j \in Committed(sec) : j \in 1 .. Len(sec.tsls) /\ j \in Nat /\ sec.tsls[j].time \in Int
<1>1. sec.tsls \in Seq(IndexRecord) /\ Len(sec.tsls) \in Nat
  BY DEF SectorImage
<1>2. \A j \in Committed(sec) : j \in 1 .. Len(sec.tsls) /\ sec.tsls[j] \in IndexRecord
  BY <1>1 DEF Committed
<1> QED BY <1>1, <1>2 DEF IndexRecord

\* A torn record at the end is none.
LEMMA TornAtEnd ==
  ASSUME NEW old \in SectorImage, NEW r, Torn(r), NEW new,
         \/ new.tsls = Append(old.tsls, r) /\ r \in IndexRecord
         \/ /\ Len(old.tsls) > 0 /\ Torn(old.tsls[Len(old.tsls)])
            /\ new.tsls = [old.tsls EXCEPT ![Len(old.tsls)] = r]
  PROVE  SameTimes(old, new)
<1> DEFINE n == Len(old.tsls)
<1>1. old.tsls \in Seq(IndexRecord) /\ n \in Nat /\ DOMAIN old.tsls = 1 .. n
  BY DEF SectorImage
<1>2. CASE new.tsls = Append(old.tsls, r) /\ r \in IndexRecord
  <2>1. DOMAIN new.tsls = 1 .. n+1 /\ new.tsls[n+1] = r /\ \A j \in 1 .. n : new.tsls[j] = old.tsls[j]
    BY <1>1, <1>2
  <2>2. \A j : j \in 1 .. n+1 <=> (j \in 1 .. n \/ j = n+1)
    BY <1>1
  <2> HIDE DEF n
  <2>3. Committed(new) = Committed(old)
    BY <1>1, <2>1, <2>2 DEF Committed
  <2> QED BY <1>1, <2>1, <2>3 DEF SameTimes, Committed
<1>3. CASE n > 0 /\ Torn(old.tsls[n]) /\ new.tsls = [old.tsls EXCEPT ![n] = r]
  <2>1. DOMAIN new.tsls = 1 .. n /\ new.tsls[n] = r /\ \A j \in 1 .. n : j # n => new.tsls[j] = old.tsls[j]
    BY <1>1, <1>3
  <2>2. n \in 1 .. n
    BY <1>1, <1>3
  <2> HIDE DEF n
  <2>3. Committed(new) = Committed(old)
    BY <1>1, <1>3, <2>1, <2>2 DEF Committed
  <2> QED BY <1>1, <1>3, <2>1, <2>3 DEF SameTimes, Committed
<1> QED BY <1>2, <1>3

----------------------------------------------------------------------------
(* TimesOK *)

LEMMA SilentOrder ==
  ASSUME TimesOK, Silent, clock' = clock
  PROVE  HeaderOK' /\ ClockOK' /\ \A s \in Sector : SectorOrdered(flash'[s])
<1>1. HeaderOK'
  BY DEF TimesOK, HeaderOK, Silent
<1>2. ClockOK'
  BY DEF TimesOK, ClockOK, Silent, SameTimes
<1>3. \A s \in Sector : SectorOrdered(flash'[s])
  BY DEF TimesOK, SectorOrdered, Silent, SameTimes
<1> QED BY <1>1, <1>2, <1>3

\* A call that goes on, or a step between two calls.
LEMMA TimesKept ==
  ASSUME TimesOK, Silent, clock' = clock, cur'.sec = cur.sec, lastTime' = lastTime,
         ~failing' => /\ ~failing
                      /\ Appending' => /\ pc \in AppendLabels /\ pc' \in AppendLabels
                                       /\ call' = call
                                       /\ pc' \in {"TslData", "TslWrite"} => Record'.time = call.time
                      /\ pc' = "Idle" => pc = "Idle"
  PROVE  TimesOK'
<1>1. HeaderOK' /\ ClockOK' /\ \A s \in Sector : SectorOrdered(flash'[s])
  BY SilentOrder
<1>2. ASSUME ~failing', Appending' PROVE NewTime' /\ OneInUse'
  <2>1. Appending /\ pc' \in AppendLabels /\ ~failing /\ call' = call
    BY <1>2 DEF Appending
  <2>2. NewTime /\ OneInUse
    BY <2>1 DEF TimesOK
  <2>3. ~Formatting'
    BY <2>1 DEF Formatting, AppendLabels, EndLabels, FirstLabels, RecordLabels, FormatLabels
  <2>4. OneInUse'
    BY <2>2, <2>3 DEF OneInUse, Silent
  <2>5. \A s \in Sector : \A j \in Committed(flash'[s]) : flash'[s].tsls[j].time < clock'
    BY <2>2 DEF NewTime, Silent, SameTimes
  <2> QED BY <1>2, <2>1, <2>2, <2>4, <2>5 DEF NewTime
<1>3. ASSUME ~failing', pc' = "Idle" PROVE OneInUse' /\ LastOK'
  <2>1. OneInUse /\ LastOK
    BY <1>3 DEF TimesOK
  <2>2. ~Formatting'
    BY <1>3 DEF Formatting, FormatLabels
  <2> QED BY <2>1, <2>2 DEF OneInUse, LastOK, Silent, SameTimes
<1> QED BY <1>1, <1>2, <1>3 DEF TimesOK

\* The medium failed, or no session is there.
LEMMA TimesAlone ==
  ASSUME TimesOK, Silent, clock' = clock, failing' \/ (pc' \notin {"Idle"} /\ ~Appending')
  PROVE  TimesOK'
BY SilentOrder DEF TimesOK

\* A write of an append that no reader of records sees.
LEMMA TimesWritten ==
  ASSUME TsIInv, TimesOK, NEW s, NEW image, NEW ok \in BOOLEAN, Program(s, image, ok),
         UNCHANGED <<ram, client>>, NEW label \in AppendLabels, Then(ok, label), pc \in AppendLabels,
         ok => /\ s \in Sector /\ SameTimes(flash[s], image)
               /\ image.store = flash[s].store /\ image.ok = flash[s].ok
               /\ label \in {"TslData", "TslWrite"} => Record'.time = call.time
  PROVE  TimesOK' /\ Silent
<1>1. flash \in Image /\ MediumType
  BY TypeParts DEF TsIInv
<1>2. clock' = clock /\ cur' = cur /\ lastTime' = lastTime
  BY DEF client, ram
<1>3. CASE ok
  <2>1. ~failing /\ flash' = [flash EXCEPT ![s] = image]
    BY <1>1, <1>3, Programmed
  <2>2. Silent
    BY <1>1, <1>3, <2>1, SilentWrite
  <2>3. pc' = label /\ call' = call /\ label # "Idle"
    BY <1>3 DEF Then, Goto, AppendLabels, EndLabels, FirstLabels, RecordLabels
  <2> QED BY <1>2, <1>3, <2>1, <2>2, <2>3, TimesKept
<1>4. CASE ~ok
  BY <1>1, <1>2, <1>4, Programmed, Unchanged, TimesAlone
<1> QED BY <1>3, <1>4

LEMMA EndTimes ==
  ASSUME TsIInv, TimesOK, NEW ok \in BOOLEAN, EndPre(ok) \/ EndData(ok) \/ EndWrite(ok)
  PROVE  TimesOK' /\ Silent
<1>1. ASSUME NEW end, NEW label \in EndLabels, Program(cur.sec, WithEnd(end), ok), pc \in EndLabels,
             Then(ok, label), UNCHANGED <<ram, client>>
      PROVE  TimesOK' /\ Silent
  <2>1. flash \in Image /\ MediumType
    BY TypeParts DEF TsIInv
  <2>2. ASSUME ok PROVE cur.sec \in Sector
    BY <1>1, <2>1, <2>2, Programmed DEF TsIInv, MemoryOK, EndAgrees
  <2>3. ASSUME cur.sec \in Sector
        PROVE  /\ SameTimes(flash[cur.sec], WithEnd(end))
               /\ WithEnd(end).store = flash[cur.sec].store /\ WithEnd(end).ok = flash[cur.sec].ok
    <3>1. flash[cur.sec] \in SectorImage
      BY <2>1, <2>3 DEF Image
    <3> QED BY <3>1, SameRecords DEF WithEnd, SectorImage
  <2>4. pc \in AppendLabels /\ label \in AppendLabels /\ label \notin {"TslData", "TslWrite"}
    BY <1>1 DEF AppendLabels, EndLabels
  <2> QED BY <1>1, <2>2, <2>3, <2>4, TimesWritten
<1>2. pc \in EndLabels /\ "EndData" \in EndLabels /\ "EndWrite" \in EndLabels /\ "SetFull" \in EndLabels
  BY DEF EndPre, EndData, EndWrite, EndLabels
<1>3. CASE EndPre(ok)
  <2> DEFINE end == [End EXCEPT !.stat = "PreWrite"]
  <2>1. Program(cur.sec, WithEnd(end), ok) /\ Then(ok, "EndData") /\ UNCHANGED <<ram, client>>
    BY <1>3 DEF EndPre
  <2> QED BY <1>1, <1>2, <2>1
<1>4. CASE EndData(ok)
  <2> DEFINE end == [End EXCEPT !.time = lastTime, !.idx = cur.idx]
  <2>1. Program(cur.sec, WithEnd(end), ok) /\ Then(ok, "EndWrite") /\ UNCHANGED <<ram, client>>
    BY <1>4 DEF EndData
  <2> QED BY <1>1, <1>2, <2>1
<1>5. CASE EndWrite(ok)
  <2> DEFINE end == [End EXCEPT !.stat = "Write"]
  <2>1. Program(cur.sec, WithEnd(end), ok) /\ Then(ok, "SetFull") /\ UNCHANGED <<ram, client>>
    BY <1>5 DEF EndWrite
  <2> QED BY <1>1, <1>2, <2>1
<1> QED BY <1>3, <1>4, <1>5

\* What is known of the current sector in an append that goes on.
LEMMA InSector ==
  ASSUME TsIInv, pc \in AppendLabels, ~failing
  PROVE  /\ cur.sec \in Sector /\ flash[cur.sec] \in SectorImage /\ SectorOK(flash[cur.sec])
         /\ cur \in SecInfo /\ call \in Call /\ call.op = "Append" /\ call.time \in Int
<1>1. flash \in Image /\ RamType /\ RunType
  BY TypeParts DEF TsIInv
<1>2. cur.sec \in Sector
  BY DEF TsIInv, MemoryOK, EndAgrees, FirstAgrees, Agrees, RecordAgrees, AppendLabels
<1> QED BY <1>1, <1>2 DEF TsIInv, MemoryOK, CallAgrees, Image, MediumOK, RamType, RunType, Call, AppendLabels

LEMMA SetStartTimes ==
  ASSUME TsIInv, TimesOK, NEW ok \in BOOLEAN, SetStart(ok)
  PROVE  TimesOK' /\ Silent
<1> DEFINE image == [flash[cur.sec] EXCEPT !.start = call.time]
<1>1. Program(cur.sec, image, ok) /\ Then(ok, "TslPre") /\ UNCHANGED <<ram, client>>
  BY DEF SetStart
<1>2. pc \in AppendLabels /\ "TslPre" \in AppendLabels
  BY DEF SetStart, AppendLabels, FirstLabels
<1>3. MediumType
  BY TypeParts DEF TsIInv
<1>4. ASSUME ok PROVE /\ cur.sec \in Sector /\ SameTimes(flash[cur.sec], image)
                      /\ image.store = flash[cur.sec].store /\ image.ok = flash[cur.sec].ok
  <2>1. cur.sec \in Sector /\ flash[cur.sec] \in SectorImage
    BY <1>1, <1>2, <1>3, <1>4, Programmed, InSector
  <2> QED BY <2>1, SameRecords DEF SectorImage
<1> HIDE DEF image
<1> QED BY <1>1, <1>2, <1>4, TimesWritten

LEMMA TslPreTimes ==
  ASSUME TsIInv, TimesOK, NEW ok \in BOOLEAN, TslPre(ok)
  PROVE  TimesOK' /\ Silent
<1> DEFINE image == [flash[cur.sec] EXCEPT !.tsls = Append(@, Reserved)]
<1>1. Program(cur.sec, image, ok) /\ Then(ok, "TslIdx") /\ UNCHANGED <<ram, client>>
  BY DEF TslPre
<1>2. pc \in AppendLabels /\ "TslIdx" \in AppendLabels
  BY DEF TslPre, AppendLabels, FirstLabels, RecordLabels
<1>3. MediumType
  BY TypeParts DEF TsIInv
<1>4. ASSUME ok PROVE /\ cur.sec \in Sector /\ SameTimes(flash[cur.sec], image)
                      /\ image.store = flash[cur.sec].store /\ image.ok = flash[cur.sec].ok
  <2>1. cur.sec \in Sector /\ flash[cur.sec] \in SectorImage /\ cur \in SecInfo
    BY <1>1, <1>2, <1>3, <1>4, Programmed, InSector
  <2>2. /\ image.tsls = Append(flash[cur.sec].tsls, Reserved)
        /\ image.store = flash[cur.sec].store /\ image.ok = flash[cur.sec].ok
    BY <2>1 DEF SectorImage
  <2>3. Torn(Reserved) /\ Reserved \in IndexRecord
    BY <2>1 DEF Reserved, Torn, IndexRecord, TslStatus, ErasedTime, SecInfo
  <2> HIDE DEF image
  <2> QED BY <2>1, <2>2, <2>3, TornAtEnd
<1> HIDE DEF image
<1> QED BY <1>1, <1>2, <1>4, TimesWritten

\* The last record of the current sector after the write of r.
LEMMA LastWritten ==
  ASSUME TsIInv, pc \in RecordLabels, ~failing, NEW r, NEW image, image = WithLast(r)
  PROVE  /\ Len(flash[cur.sec].tsls) \in Nat \ {0} /\ Record = flash[cur.sec].tsls[Len(flash[cur.sec].tsls)]
         /\ image.tsls = [flash[cur.sec].tsls EXCEPT ![Len(flash[cur.sec].tsls)] = r]
         /\ image.store = flash[cur.sec].store /\ image.ok = flash[cur.sec].ok
         /\ image.ends = flash[cur.sec].ends /\ image.start = flash[cur.sec].start
         /\ Len(image.tsls) = Len(flash[cur.sec].tsls)
         /\ image.tsls[Len(flash[cur.sec].tsls)] = r
<1>1. flash[cur.sec] \in SectorImage /\ RecordAgrees /\ Len(flash[cur.sec].tsls) \in Nat
  BY AtRecord
<1>2. Len(flash[cur.sec].tsls) \in Nat \ {0}
  BY <1>1 DEF RecordAgrees
<1>3. /\ image.tsls = [flash[cur.sec].tsls EXCEPT ![Len(flash[cur.sec].tsls)] = r]
      /\ image.store = flash[cur.sec].store /\ image.ok = flash[cur.sec].ok
      /\ image.ends = flash[cur.sec].ends /\ image.start = flash[cur.sec].start
  BY <1>1 DEF WithLast, SectorImage
<1>4. flash[cur.sec].tsls \in Seq(IndexRecord)
  BY <1>1 DEF SectorImage
<1> QED BY <1>2, <1>3, <1>4 DEF Record, LastRecord

\* TslIdx and TslData: the record stays torn.
LEMMA RecordTimes ==
  ASSUME TsIInv, TimesOK, NEW ok \in BOOLEAN, pc \in RecordLabels, NEW r, NEW label \in {"TslData", "TslWrite"},
         Program(cur.sec, WithLast(r), ok), Then(ok, label), UNCHANGED <<ram, client>>,
         ok /\ ~failing => Torn(r) /\ r.time = call.time
  PROVE  TimesOK' /\ Silent
<1> DEFINE image == WithLast(r)
<1>1. pc \in AppendLabels /\ label \in AppendLabels
  BY DEF AppendLabels, RecordLabels
<1>2. flash \in Image /\ MediumType
  BY TypeParts DEF TsIInv
<1>3. ASSUME ok PROVE /\ cur.sec \in Sector /\ SameTimes(flash[cur.sec], image)
                      /\ image.store = flash[cur.sec].store /\ image.ok = flash[cur.sec].ok
                      /\ Record'.time = call.time
  <2>1. ~failing /\ flash' = [flash EXCEPT ![cur.sec] = image]
    BY <1>2, <1>3, Programmed
  <2>2. cur.sec \in Sector /\ flash[cur.sec] \in SectorImage /\ RecordAgrees
    BY <2>1, AtRecord
  <2>3. /\ Len(flash[cur.sec].tsls) \in Nat \ {0} /\ Record = flash[cur.sec].tsls[Len(flash[cur.sec].tsls)]
        /\ image.tsls = [flash[cur.sec].tsls EXCEPT ![Len(flash[cur.sec].tsls)] = r]
        /\ image.store = flash[cur.sec].store /\ image.ok = flash[cur.sec].ok
        /\ Len(image.tsls) = Len(flash[cur.sec].tsls)
        /\ image.tsls[Len(flash[cur.sec].tsls)] = r
    BY <2>1, LastWritten
  <2>4. flash'[cur.sec] = image /\ cur' = cur
    BY <1>2, <2>1, <2>2 DEF Image, ram
  <2> HIDE DEF image
  <2>5. Torn(Record) /\ Torn(r)
    BY <1>3, <2>1, <2>2 DEF RecordAgrees, Torn
  <2>6. SameTimes(flash[cur.sec], image)
    BY <2>2, <2>3, <2>5, TornAtEnd
  <2>7. Record' = r
    BY <2>3, <2>4 DEF Record, LastRecord
  <2> QED BY <1>3, <2>1, <2>2, <2>3, <2>6, <2>7
<1> HIDE DEF image
<1> QED BY <1>1, <1>3, TimesWritten DEF image

LEMMA TslIdxTimes ==
  ASSUME TsIInv, TimesOK, NEW ok \in BOOLEAN, TslIdx(ok)
  PROVE  TimesOK' /\ Silent
<1> DEFINE r == [Record EXCEPT !.time = call.time, !.len = call.len]
<1>1. /\ Program(cur.sec, WithLast(r), ok) /\ Then(ok, "TslData") /\ UNCHANGED <<ram, client>>
      /\ pc \in RecordLabels
  BY DEF TslIdx, RecordLabels
<1>2. ASSUME ~failing PROVE Torn(r) /\ r.time = call.time
  BY <1>1, <1>2, AtRecord DEF RecordAgrees, Torn, IndexRecord
<1> HIDE DEF r
<1> QED BY <1>1, <1>2, RecordTimes

LEMMA TslDataTimes ==
  ASSUME TsIInv, TimesOK, NEW ok \in BOOLEAN, TslData(ok)
  PROVE  TimesOK' /\ Silent
<1> DEFINE r == [Record EXCEPT !.data = TRUE]
<1>1. /\ Program(cur.sec, WithLast(r), ok) /\ Then(ok, "TslWrite") /\ UNCHANGED <<ram, client>>
      /\ pc \in RecordLabels /\ pc = "TslData"
  BY DEF TslData, RecordLabels
<1>2. ASSUME ~failing PROVE Torn(r) /\ r.time = call.time
  <2>1. NewTime
    BY <1>1, <1>2 DEF TimesOK, Appending, AppendLabels
  <2> QED BY <1>1, <1>2, <2>1, AtRecord DEF RecordAgrees, Torn, IndexRecord, NewTime
<1> HIDE DEF r
<1> QED BY <1>1, <1>2, RecordTimes

\* A write to one sector.
LEMMA OneSector ==
  ASSUME flash \in Image, NEW s \in Sector, NEW image, flash' = [flash EXCEPT ![s] = image]
  PROVE  flash'[s] = image /\ \A q \in Sector : q # s => flash'[q] = flash[q]
BY DEF Image

\* The state of the current sector goes on in an append; its records stay.
LEMMA StoreTimes ==
  ASSUME TimesOK, flash \in Image, ~failing, pc \in AppendLabels, NEW image, cur.sec \in Sector,
         flash' = [flash EXCEPT ![cur.sec] = image], SameTimes(flash[cur.sec], image),
         image.ok => image.store # "Unused", clock' = clock
  PROVE  /\ HeaderOK' /\ ClockOK' /\ \A s \in Sector : SectorOrdered(flash'[s])
         /\ \A s \in Sector : \A j \in Committed(flash'[s]) : flash'[s].tsls[j].time < clock'
<1>1. flash'[cur.sec] = image /\ \A q \in Sector : q # cur.sec => flash'[q] = flash[q]
  BY OneSector
<1>2. NewTime
  BY DEF TimesOK, Appending
<1>3. \A s \in Sector : SameTimes(flash[s], flash'[s])
  BY <1>1 DEF SameTimes
<1>4. HeaderOK'
  BY <1>1 DEF TimesOK, HeaderOK
<1>5. \A s \in Sector : SectorOrdered(flash'[s])
  BY <1>3 DEF TimesOK, SectorOrdered, SameTimes
<1>6. \A s \in Sector : \A j \in Committed(flash'[s]) : flash'[s].tsls[j].time < clock'
  BY <1>2, <1>3 DEF NewTime, SameTimes
<1>7. ClockOK'
  <2>1. \A s \in Sector : \A j \in Committed(flash'[s]) : flash'[s].tsls[j].time <= clock'
    BY <1>3 DEF TimesOK, ClockOK, SameTimes
  <2> QED BY <1>6, <2>1 DEF ClockOK
<1> QED BY <1>4, <1>5, <1>6, <1>7

LEMMA SetFullTimes ==
  ASSUME TsIInv, TimesOK, NEW ok \in BOOLEAN, SetFull(ok)
  PROVE  TimesOK'
<1> DEFINE image == [flash[cur.sec] EXCEPT !.store = "Full"]
<1>1. flash \in Image /\ MediumType
  BY TypeParts DEF TsIInv
<1>2. /\ Program(cur.sec, image, ok) /\ clock' = clock /\ lastTime' = lastTime
      /\ pc \in AppendLabels
  BY DEF SetFull, client, AppendLabels, EndLabels
<1>3. CASE ok
  <2>1. ~failing /\ ~failing' /\ flash' = [flash EXCEPT ![cur.sec] = image]
    BY <1>1, <1>2, <1>3, Programmed
  <2>2. cur.sec \in Sector /\ flash[cur.sec] \in SectorImage /\ call.op = "Append"
    BY <1>2, <2>1, InSector
  <2>3. image.store = "Full" /\ SameTimes(flash[cur.sec], image)
    BY <2>2, SameRecords DEF SectorImage
  <2> HIDE DEF image
  <2>4. /\ HeaderOK' /\ ClockOK' /\ \A s \in Sector : SectorOrdered(flash'[s])
        /\ \A s \in Sector : \A j \in Committed(flash'[s]) : flash'[s].tsls[j].time < clock'
    BY <1>1, <1>2, <2>1, <2>2, <2>3, StoreTimes
  <2>5. flash'[cur.sec] = image /\ \A q \in Sector : q # cur.sec => flash'[q] = flash[q]
    BY <1>1, <2>1, <2>2, OneSector
  <2>6. \A s \in Sector : flash'[s].store # "Using"
    BY <1>2, <2>1, <2>3, <2>5 DEF TimesOK, OneInUse, Appending
  <2>7. OneInUse' /\ LastOK'
    BY <2>6 DEF OneInUse, LastOK
  <2>8. ASSUME Appending' PROVE NewTime'
    <3>1. pc' \in {"SetUsing", "FmtErase"} /\ call'.time = call.time
      <4>1. call \in Call
        BY <1>2, <2>1, InSector
      <4> QED BY <1>3, <2>8, <4>1
         DEF SetFull, TakeSector, Goto, Return, Appending, AppendLabels, EndLabels, FirstLabels,
             RecordLabels, FormatLabels, Formatting, Call
    <3>2. NewTime
      BY <1>2, <2>1 DEF TimesOK, Appending
    <3> QED BY <1>2, <2>4, <3>1, <3>2 DEF NewTime
  <2> QED BY <2>4, <2>7, <2>8 DEF TimesOK
<1>4. CASE ~ok
  BY <1>1, <1>2, <1>4, Programmed, Unchanged, TimesAlone
<1> QED BY <1>3, <1>4

LEMMA SetUsingTimes ==
  ASSUME TsIInv, TimesOK, NEW ok \in BOOLEAN, SetUsing(ok)
  PROVE  TimesOK'
<1> DEFINE image == [flash[cur.sec] EXCEPT !.store = "Using"]
<1>1. flash \in Image /\ MediumType /\ RamType
  BY TypeParts DEF TsIInv
<1>2. /\ Program(cur.sec, image, ok) /\ clock' = clock /\ lastTime' = lastTime
      /\ pc \in AppendLabels
  BY DEF SetUsing, client, AppendLabels, FirstLabels
<1>3. CASE ok
  <2>1. ~failing /\ ~failing' /\ flash' = [flash EXCEPT ![cur.sec] = image]
    BY <1>1, <1>2, <1>3, Programmed
  <2>2. cur.sec \in Sector /\ flash[cur.sec] \in SectorImage
    BY <1>2, <2>1, InSector
  <2>3. image.store = "Using" /\ SameTimes(flash[cur.sec], image)
    BY <2>2, SameRecords DEF SectorImage
  <2> HIDE DEF image
  <2>4. /\ HeaderOK' /\ ClockOK' /\ \A s \in Sector : SectorOrdered(flash'[s])
        /\ \A s \in Sector : \A j \in Committed(flash'[s]) : flash'[s].tsls[j].time < clock'
    BY <1>1, <1>2, <2>1, <2>2, <2>3, StoreTimes
  <2>5. flash'[cur.sec] = image /\ \A q \in Sector : q # cur.sec => flash'[q] = flash[q]
    BY <1>1, <2>1, <2>2, OneSector
  <2>6. cur'.sec = cur.sec /\ pc' = "SetStart" /\ call' = call
    BY <1>1, <1>3 DEF SetUsing, Then, Goto, RamType, SecInfo
  <2>7. OneInUse'
    <3>1. ~Formatting'
      BY <2>6 DEF Formatting, FormatLabels
    <3> QED BY <1>2, <2>1, <2>5, <2>6, <3>1 DEF TimesOK, OneInUse, Appending
  <2>8. NewTime'
    <3>1. NewTime
      BY <1>2, <2>1 DEF TimesOK, Appending
    <3> QED BY <1>2, <2>4, <2>6, <3>1 DEF NewTime
  <2> QED BY <2>4, <2>6, <2>7, <2>8 DEF TimesOK
<1>4. CASE ~ok
  BY <1>1, <1>2, <1>4, Programmed, Unchanged, TimesAlone
<1> QED BY <1>3, <1>4

\* The commit: the last record is counted, the others stay.
LEMMA Commits ==
  ASSUME TsIInv, TimesOK, TslWrite(TRUE)
  PROVE  LET n == Len(flash[cur.sec].tsls) IN
         /\ cur.sec \in Sector /\ n \in Nat \ {0} /\ ~failing /\ ~failing'
         /\ \A s \in Sector : s # cur.sec => flash'[s] = flash[s]
         /\ flash[cur.sec].store = "Using" /\ flash'[cur.sec].store = "Using"
         /\ flash'[cur.sec].ok = flash[cur.sec].ok
         /\ Committed(flash'[cur.sec]) = Committed(flash[cur.sec]) \cup {n}
         /\ flash'[cur.sec].tsls[n].time = call.time
         /\ \A j \in Committed(flash[cur.sec]) : /\ j \in 1 .. n-1
                                                 /\ flash'[cur.sec].tsls[j].time = flash[cur.sec].tsls[j].time
<1> DEFINE r == [Record EXCEPT !.status = "Write"]
           old == flash[cur.sec]
           n == Len(old.tsls)
           image == WithLast(r)
<1>1. flash \in Image /\ MediumType /\ pc \in RecordLabels
  BY TypeParts DEF TsIInv, TslWrite, RecordLabels
<1>2. Program(cur.sec, image, TRUE)
  BY DEF TslWrite
<1>3. ~failing /\ ~failing' /\ flash' = [flash EXCEPT ![cur.sec] = image]
  BY <1>1, <1>2, Programmed
<1>4. cur.sec \in Sector /\ old \in SectorImage /\ RecordAgrees /\ Record \in IndexRecord
  BY <1>1, <1>3, AtRecord
<1>5. r.time = call.time /\ ~Torn(r) /\ Torn(Record)
  <2>1. NewTime
    BY <1>1, <1>3 DEF TimesOK, Appending, AppendLabels
  <2>2. r.time = Record.time /\ r.status = "Write"
    BY <1>4 DEF IndexRecord
  <2> QED BY <1>4, <2>1, <2>2 DEF NewTime, TslWrite, RecordAgrees, Torn
<1> HIDE DEF r
<1>6. /\ n \in Nat \ {0} /\ Record = old.tsls[n]
      /\ image.tsls = [old.tsls EXCEPT ![n] = r]
      /\ image.store = old.store /\ image.ok = old.ok
      /\ Len(image.tsls) = n /\ image.tsls[n] = r
  BY <1>1, <1>3, LastWritten
<1>7. old.tsls \in Seq(IndexRecord) /\ DOMAIN old.tsls = 1 .. n /\ DOMAIN image.tsls = 1 .. n
  BY <1>4, <1>6 DEF SectorImage
<1>8. flash'[cur.sec] = image /\ \A q \in Sector : q # cur.sec => flash'[q] = flash[q]
  BY <1>1, <1>3, <1>4, OneSector
<1>9. old.store = "Using"
  BY <1>4 DEF RecordAgrees
<1> HIDE DEF image, old, n
<1>10. \A j \in 1 .. n : j # n => image.tsls[j] = old.tsls[j]
  BY <1>6, <1>7
<1>11. \A j \in Committed(old) : j \in 1 .. n /\ j # n
  BY <1>5, <1>6, <1>7 DEF Committed
<1>12. \A j \in Committed(old) : j \in 1 .. n-1
  BY <1>6, <1>11
<1>13. n \in 1 .. n
  BY <1>6
<1>14. Committed(image) = Committed(old) \cup {n}
  BY <1>5, <1>6, <1>7, <1>10, <1>11, <1>13 DEF Committed
<1> QED BY <1>3, <1>4, <1>5, <1>6, <1>8, <1>9, <1>10, <1>11, <1>12, <1>14 DEF n, old

LEMMA TslWriteTimes ==
  ASSUME TsIInv, TimesOK, NEW ok \in BOOLEAN, TslWrite(ok)
  PROVE  TimesOK'
<1>1. flash \in Image /\ MediumType /\ RamType /\ clock' = clock /\ clock \in Int
  BY TypeParts DEF TsIInv, TslWrite, client, ClientType
<1>2. CASE ok
  <2> DEFINE n == Len(flash[cur.sec].tsls)
  <2>1. /\ cur.sec \in Sector /\ n \in Nat \ {0} /\ ~failing /\ ~failing'
        /\ \A s \in Sector : s # cur.sec => flash'[s] = flash[s]
        /\ flash[cur.sec].store = "Using" /\ flash'[cur.sec].store = "Using"
        /\ Committed(flash'[cur.sec]) = Committed(flash[cur.sec]) \cup {n}
        /\ flash'[cur.sec].tsls[n].time = call.time
        /\ \A j \in Committed(flash[cur.sec]) : /\ j \in 1 .. n-1
                                                /\ flash'[cur.sec].tsls[j].time = flash[cur.sec].tsls[j].time
    BY <1>2, Commits
  <2> HIDE DEF n
  <2>2. NewTime /\ OneInUse
    BY <2>1 DEF TimesOK, Appending, AppendLabels, RecordLabels, TslWrite
  <2>3. cur'.sec = cur.sec /\ lastTime' = call.time /\ pc' = "Idle"
    BY <1>1, <1>2 DEF TslWrite, WithRecord, Return, RamType, SecInfo
  <2>4. call.time = clock
    BY <2>2 DEF NewTime
  <2>5. \A s \in Sector : \A j \in Committed(flash'[s]) :
           \/ s = cur.sec /\ j = n /\ flash'[s].tsls[j].time = clock
           \/ j \in Committed(flash[s]) /\ flash'[s].tsls[j].time = flash[s].tsls[j].time
    BY <2>1, <2>4
  <2>6. \A s \in Sector : \A j \in Committed(flash[s]) : flash[s].tsls[j].time \in Int
    BY <1>1, CommittedType DEF Image
  <2>7. HeaderOK'
    BY <2>1 DEF TimesOK, HeaderOK
  <2>8. ClockOK'
    <3>1. \A s \in Sector : \A j \in Committed(flash'[s]) : flash'[s].tsls[j].time <= clock
      BY <1>1, <2>5 DEF TimesOK, ClockOK
    <3>2. \A s \in Sector : s # cur.sec => flash'[s] = flash[s]
      BY <2>1
    <3> QED BY <1>1, <2>1, <3>1, <3>2 DEF TimesOK, ClockOK
  <2>9. \A s \in Sector : SectorOrdered(flash'[s])
    <3> TAKE s \in Sector
    <3>1. CASE s # cur.sec
      BY <2>1, <3>1 DEF TimesOK
    <3>2. CASE s = cur.sec
      <4>1. SUFFICES ASSUME NEW j \in Committed(flash'[s]), NEW k \in Committed(flash'[s]), j < k
                     PROVE  flash'[s].tsls[j].time < flash'[s].tsls[k].time
        BY DEF SectorOrdered
      <4>2. CASE k = n
        <5>1. j # n /\ j \in Committed(flash[s])
          BY <2>1, <3>2, <4>1, <4>2
        <5> QED BY <2>1, <2>2, <2>4, <3>2, <4>2, <5>1 DEF NewTime
      <4>3. CASE k # n
        <5>1. k \in Committed(flash[s]) /\ k \in 1 .. n-1
          BY <2>1, <3>2, <4>1, <4>3
        <5>2. j # n
          BY <2>1, <4>1, <5>1
        <5>3. j \in Committed(flash[s])
          BY <2>1, <3>2, <4>1, <5>2
        <5> QED BY <2>1, <3>2, <4>1, <5>1, <5>3 DEF TimesOK, SectorOrdered
      <4> QED BY <4>2, <4>3
    <3> QED BY <3>1, <3>2
  <2>10. OneInUse'
    <3>1. ~Formatting'
      BY <2>3 DEF Formatting, FormatLabels
    <3> QED BY <2>1, <2>2, <2>3, <3>1 DEF OneInUse
  <2>11. LastOK'
    BY <1>1, <2>3, <2>4, <2>8 DEF LastOK, ClockOK
  <2>12. ~Appending'
    BY <2>3 DEF Appending, Formatting, AppendLabels, EndLabels, FirstLabels, RecordLabels, FormatLabels
  <2> QED BY <2>7, <2>8, <2>9, <2>10, <2>11, <2>12 DEF TimesOK
<1>3. CASE ~ok
  BY <1>1, <1>3, Programmed, Unchanged, TimesAlone DEF TslWrite
<1> QED BY <1>2, <1>3

\* An append that begins: its time is newer than every record.
LEMMA BeginTimes ==
  ASSUME TsIInv, TimesOK, pc = "Idle", flash' = flash, failing' = failing, cur' = cur,
         NEW t \in Int, clock <= t, t > lastTime, clock' = (IF failing THEN clock ELSE t),
         call'.time = t, pc' \in {"EndPre", "SetFull", "TslPre", "SetUsing"}
  PROVE  TimesOK'
<1>1. flash \in Image /\ RamType /\ clock \in Int
  BY TypeParts DEF TsIInv, ClientType
<1>2. \A s \in Sector : \A j \in Committed(flash[s]) : flash[s].tsls[j].time \in Int
  BY <1>1, CommittedType DEF Image
<1>3. \A s \in Sector : \A j \in Committed(flash[s]) : flash[s].tsls[j].time <= clock
  BY DEF TimesOK, ClockOK
<1>4. CASE failing
  <2>1. clock' = clock /\ failing'
    BY <1>4
  <2> QED BY <2>1, Unchanged, TimesAlone
<1>5. CASE ~failing
  <2>1. clock' = t /\ OneInUse /\ LastOK
    BY <1>5 DEF TimesOK
  <2>2. \A s \in Sector : \A j \in Committed(flash[s]) : flash[s].tsls[j].time < t
    <3> TAKE s \in Sector
    <3> TAKE j \in Committed(flash[s])
    <3>1. CASE flash[s].store = "Using"
      <4>1. flash[s].tsls[j].time <= lastTime
        BY <2>1, <3>1 DEF LastOK
      <4> QED BY <1>1, <1>2, <4>1 DEF RamType
    <3>2. CASE flash[s].store # "Using"
      <4>1. flash[s].tsls[j].time < clock
        BY <3>2 DEF TimesOK, ClockOK
      <4> QED BY <1>1, <1>2, <4>1
    <3> QED BY <3>1, <3>2
  <2>3. \A s \in Sector : \A j \in Committed(flash[s]) : flash[s].tsls[j].time <= t
    BY <1>2, <2>2
  <2>4. ClockOK' /\ HeaderOK' /\ \A s \in Sector : SectorOrdered(flash'[s])
    BY <2>1, <2>2, <2>3 DEF TimesOK, ClockOK, HeaderOK
  <2>5. NewTime' /\ OneInUse'
    <3>1. ~Formatting' /\ pc' \notin {"TslData", "TslWrite"}
      BY DEF Formatting, FormatLabels
    <3>2. NewTime'
      BY <2>1, <2>2, <3>1 DEF NewTime
    <3>3. OneInUse'
      BY <2>1, <3>1 DEF OneInUse
    <3> QED BY <3>2, <3>3
  <2> QED BY <2>4, <2>5 DEF TimesOK
<1> QED BY <1>4, <1>5

LEMMA AppendTimes ==
  ASSUME TsIInv, TimesOK, NEW len \in Lens, NEW t \in Int, clock <= t, AppendAt(len, t)
  PROVE  TimesOK'
<1>1. flash \in Image /\ RamType /\ MediumType /\ clock \in Int /\ lastTime \in Int
  BY TypeParts DEF TsIInv, ClientType, RamType
<1>2. clock' = IF pc' \in {"Idle", "Off"} \/ failing THEN clock ELSE t
  BY DEF AppendAt
<1>3. CASE TslAppend(len, t)
  <2>1. flash' = flash /\ failing' = failing /\ cur' = cur /\ lastTime' = lastTime /\ pc = "Idle"
    BY <1>3, QuietType DEF TslAppend, ram
  <2>2. CASE pc' = "Idle"
    <3>1. ~Appending' /\ clock' = clock
      BY <1>2, <2>2 DEF Appending, Formatting, AppendLabels, EndLabels, FirstLabels, RecordLabels, FormatLabels
    <3> QED BY <2>1, <2>2, <3>1, Unchanged, TimesKept
  <2>3. CASE pc' # "Idle"
    <3>1. ~Refused(len, t) /\ pc' \in {"EndPre", "SetFull", "TslPre", "SetUsing"} /\ call'.time = t
      BY <1>3, <2>3 DEF TslAppend, Begin, Return, NoCall
    <3>2. t > lastTime
      BY <1>1, <3>1 DEF Refused
    <3>3. clock' = (IF failing THEN clock ELSE t)
      BY <1>2, <3>1
    <3> QED BY <2>1, <3>1, <3>2, <3>3, BeginTimes
  <2> QED BY <2>2, <2>3
<1>4. CASE AppendPanics(len, t)
  <2>1. flash' = flash /\ pc' = "Off"
    BY <1>4 DEF AppendPanics, Reset
  <2>2. ~Appending' /\ clock' = clock
    BY <1>2, <2>1 DEF Appending, Formatting, AppendLabels, EndLabels, FirstLabels, RecordLabels, FormatLabels
  <2> QED BY <2>1, <2>2, Unchanged, TimesAlone
<1>5. ASSUME NEW ok \in BOOLEAN, AppendNowhere(len, t, ok) PROVE TimesOK'
  <2> DEFINE image == [flash[0] EXCEPT !.ok = FALSE]
  <2>1. Program(0, image, ok) /\ pc = "Idle" /\ pc' = "Idle" /\ cur' = cur /\ lastTime' = lastTime
    BY <1>5 DEF AppendNowhere, Return, ram
  <2>2. ~Appending' /\ ~Formatting' /\ clock' = clock
    BY <1>2, <2>1 DEF Appending, Formatting, AppendLabels, EndLabels, FirstLabels, RecordLabels, FormatLabels
  <2>3. CASE ok
    <3>1. ~failing /\ flash' = [flash EXCEPT ![0] = image] /\ 0 \in Sector
      BY <1>1, <2>1, <2>3, Programmed, Geometry
    <3>2. flash[0] \in SectorImage
      BY <1>1, <3>1 DEF Image
    <3>3. SameTimes(flash[0], image) /\ image.store = flash[0].store /\ ~image.ok
      BY <3>2, SameRecords DEF SectorImage
    <3> HIDE DEF image
    <3>4. flash'[0] = image /\ \A q \in Sector : q # 0 => flash'[q] = flash[q]
      BY <1>1, <3>1, OneSector
    <3>5. \A s \in Sector : SameTimes(flash[s], flash'[s]) /\ flash'[s].store = flash[s].store
      BY <3>3, <3>4 DEF SameTimes
    <3>6. HeaderOK'
      BY <3>3, <3>4 DEF TimesOK, HeaderOK
    <3>7. ClockOK'
      BY <2>2, <3>5 DEF TimesOK, ClockOK, SameTimes
    <3>8. \A s \in Sector : SectorOrdered(flash'[s])
      BY <3>5 DEF TimesOK, SectorOrdered, SameTimes
    <3>9. OneInUse' /\ LastOK'
      <4>1. OneInUse /\ LastOK
        BY <2>1, <3>1 DEF TimesOK
      <4> QED BY <2>1, <2>2, <3>5, <4>1 DEF OneInUse, LastOK, SameTimes
    <3> QED BY <2>2, <3>6, <3>7, <3>8, <3>9 DEF TimesOK
  <2>4. CASE ~ok
    <3> HIDE DEF image
    <3>1. flash' = flash /\ failing'
      BY <1>1, <2>1, <2>4, Programmed
    <3> QED BY <2>2, <3>1, Unchanged, TimesAlone
  <2> QED BY <2>3, <2>4
<1> QED BY <1>3, <1>4, <1>5 DEF AppendAt

\* set_status changes no time.
LEMMA MarkTimes ==
  ASSUME flash \in Image, NEW s \in Sector, NEW j \in Committed(flash[s]), NEW st \in Marks,
         NEW r, r = [flash[s].tsls[j] EXCEPT !.status = st],
         NEW image, image = PutRecord(flash[s], j, r)
  PROVE  /\ SameTimes(flash[s], image) /\ image.store = flash[s].store /\ image.ok = flash[s].ok
         /\ image.ends = flash[s].ends /\ image.start = flash[s].start
         /\ Len(image.tsls) = Len(flash[s].tsls)
         /\ \A k \in 1 .. Len(image.tsls) :
               /\ Torn(image.tsls[k]) <=> Torn(flash[s].tsls[k])
               /\ image.tsls[k].time = flash[s].tsls[k].time /\ image.tsls[k].len = flash[s].tsls[k].len
               /\ image.tsls[k].top = flash[s].tsls[k].top /\ image.tsls[k].data = flash[s].tsls[k].data
               /\ k # j => image.tsls[k] = flash[s].tsls[k]
         /\ image.tsls[j] = r
<1> DEFINE sec == flash[s]
           old == sec.tsls[j]
<1>1. sec \in SectorImage /\ sec.tsls \in Seq(IndexRecord) /\ Len(sec.tsls) \in Nat /\ j \in 1 .. Len(sec.tsls)
  BY CommittedType DEF Image
<1>2. ~Torn(old) /\ old \in IndexRecord
  BY <1>1 DEF Committed
<1>3. st \in TslStatus \ {"Unused", "PreWrite"}
  BY MarkType
<1>4. /\ r.status = st /\ r.time = old.time /\ r.len = old.len /\ r.top = old.top
      /\ r.data = old.data
  BY <1>2 DEF IndexRecord
<1>5. ~Torn(r)
  BY <1>3, <1>4 DEF Torn
<1>6. /\ image.tsls = [sec.tsls EXCEPT ![j] = r] /\ image.store = sec.store /\ image.ok = sec.ok
      /\ image.ends = sec.ends /\ image.start = sec.start
  BY <1>1 DEF SectorImage, PutRecord
<1>7. /\ Len(image.tsls) = Len(sec.tsls) /\ DOMAIN image.tsls = 1 .. Len(sec.tsls)
      /\ DOMAIN sec.tsls = 1 .. Len(sec.tsls)
      /\ image.tsls[j] = r /\ \A k \in 1 .. Len(sec.tsls) : k # j => image.tsls[k] = sec.tsls[k]
  BY <1>1, <1>6
<1>8. \A k \in 1 .. Len(image.tsls) :
               /\ Torn(image.tsls[k]) <=> Torn(sec.tsls[k])
               /\ image.tsls[k].time = sec.tsls[k].time /\ image.tsls[k].len = sec.tsls[k].len
               /\ image.tsls[k].top = sec.tsls[k].top /\ image.tsls[k].data = sec.tsls[k].data
  BY <1>2, <1>4, <1>5, <1>7
<1>9. SameTimes(sec, image)
  BY <1>7, <1>8 DEF SameTimes, Committed
<1> QED BY <1>6, <1>7, <1>8, <1>9

LEMMA SetStatusTimes ==
  ASSUME TsIInv, TimesOK, NEW s \in Sector, NEW st \in Marks, NEW ok \in BOOLEAN,
         NEW j \in Committed(flash[s]), SetStatus(s, j, st, ok)
  PROVE  TimesOK' /\ Silent
<1>1. flash \in Image /\ MediumType
  BY TypeParts DEF TsIInv
<1>2. PICK r, image : /\ r = [flash[s].tsls[j] EXCEPT !.status = st]
                      /\ image = PutRecord(flash[s], j, r)
  OBVIOUS
<1>3. /\ Program(s, image, ok) /\ pc = "Idle" /\ pc' = "Idle" /\ clock' = clock /\ cur' = cur
      /\ lastTime' = lastTime
  BY <1>2 DEF SetStatus, Return, ram, PutRecord
<1>4. SameTimes(flash[s], image) /\ image.store = flash[s].store /\ image.ok = flash[s].ok
  BY <1>1, <1>2, MarkTimes
<1>5. Silent /\ (~failing' => ~failing)
  BY <1>1, <1>3, <1>4, Programmed, SilentWrite, Unchanged
<1>6. ~Appending'
  BY <1>3 DEF Appending, Formatting, AppendLabels, EndLabels, FirstLabels, RecordLabels, FormatLabels
<1> QED BY <1>3, <1>5, <1>6, TimesKept

LEMMA SetRolloverTimes ==
  ASSUME TsIInv, TimesOK, SetRollover
  PROVE  TimesOK'
<1>1. /\ flash' = flash /\ failing' = failing /\ pc = "Idle" /\ pc' = "Idle" /\ clock' = clock
      /\ cur' = cur /\ lastTime' = lastTime
  BY QuietType DEF SetRollover, Return, client
<1>2. ~Appending'
  BY <1>1 DEF Appending, Formatting, AppendLabels, EndLabels, FirstLabels, RecordLabels, FormatLabels
<1> QED BY <1>1, <1>2, Unchanged, TimesKept

\* A write of format_sector: the sector has no records.
LEMMA FormatTimes ==
  ASSUME TsIInv, TimesOK, pc \in FormatLabels, NEW ok \in BOOLEAN, NEW image,
         Program(call.sec, image, ok), clock' = clock,
         ok => /\ Committed(image) = {} /\ image.store \in {"Unused", "Empty"}
               /\ image.ok => image.store = "Empty"
               /\ IF call.op = "Append" THEN call' = call /\ pc' \in {"FmtStatus", "FmtMagic", "SetUsing"}
                  ELSE call'.op # "Append" /\ pc' \in FormatLabels \cup {"CleanEnd"}
  PROVE  TimesOK'
<1>1. flash \in Image /\ MediumType /\ call.sec \in Sector
  BY TypeParts, InFormat DEF TsIInv
<1>2. CASE ok
  <2>1. ~failing /\ ~failing' /\ flash' = [flash EXCEPT ![call.sec] = image]
    BY <1>1, <1>2, Programmed
  <2>2. flash'[call.sec] = image /\ \A q \in Sector : q # call.sec => flash'[q] = flash[q]
    BY <1>1, <2>1, OneSector
  <2>3. \A s \in Sector : Committed(flash'[s]) = {} \/ flash'[s] = flash[s]
    BY <1>2, <2>2
  <2>4. HeaderOK'
    BY <1>2, <2>2 DEF TimesOK, HeaderOK
  <2>5. ClockOK' /\ \A s \in Sector : SectorOrdered(flash'[s])
    BY <2>3 DEF TimesOK, ClockOK, SectorOrdered
  <2>6. pc' # "Idle"
    BY <1>2 DEF FormatLabels
  <2>7. ASSUME Appending' PROVE NewTime' /\ OneInUse'
    <3>1. call.op = "Append" /\ call' = call /\ pc' \in {"FmtStatus", "FmtMagic", "SetUsing"}
      BY <1>2, <2>7
         DEF Appending, Formatting, AppendLabels, EndLabels, FirstLabels, RecordLabels, FormatLabels
    <3>2. Formatting /\ Appending
      BY <3>1 DEF Formatting, Appending
    <3>3. NewTime /\ OneInUse
      BY <2>1, <3>2 DEF TimesOK
    <3>4. NewTime'
      BY <2>3, <3>1, <3>3 DEF NewTime
    <3>5. \A s \in Sector : flash'[s].store # "Using"
      BY <1>2, <2>2, <3>2, <3>3 DEF OneInUse
    <3> QED BY <3>4, <3>5 DEF OneInUse
  <2> QED BY <2>4, <2>5, <2>6, <2>7 DEF TimesOK
<1>3. CASE ~ok
  BY <1>1, <1>3, Programmed, Unchanged, TimesAlone
<1> QED BY <1>2, <1>3

\* What is not used yet has no records.
LEMMA FreshTimes ==
  ASSUME NEW sec \in SectorImage, SectorOK(sec), sec.store \in {"Unused", "Empty"}
  PROVE  sec.tsls = <<>> /\ Committed(sec) = {}
BY DEF SectorOK, Fresh, Committed

LEMMA FmtEraseTimes ==
  ASSUME TsIInv, TimesOK, NEW ok \in BOOLEAN, FmtErase(ok)
  PROVE  TimesOK'
<1>1. pc \in FormatLabels /\ Program(call.sec, Erased, ok) /\ clock' = clock
  BY DEF FmtErase, FormatLabels, client
<1>2. Committed(Erased) = {} /\ Erased.store = "Unused" /\ ~Erased.ok
  BY DEF Erased, Committed
<1>3. ok => call' = call /\ pc' = "FmtStatus"
  BY DEF FmtErase, Goto
<1> QED BY <1>1, <1>2, <1>3, FormatTimes DEF FormatLabels

LEMMA FmtStatusTimes ==
  ASSUME TsIInv, TimesOK, NEW ok \in BOOLEAN, FmtStatus(ok)
  PROVE  TimesOK'
<1>1. PICK image : image = [flash[call.sec] EXCEPT !.store = "Empty"]
  OBVIOUS
<1>2. pc \in FormatLabels /\ Program(call.sec, image, ok) /\ clock' = clock /\ MediumType
  BY <1>1, TypeParts DEF TsIInv, FmtStatus, FormatLabels, client
<1>3. ASSUME ok PROVE Committed(image) = {} /\ image.store = "Empty"
  <2>1. ~failing
    BY <1>2, <1>3, Programmed
  <2>2. /\ flash[call.sec] \in SectorImage /\ SectorOK(flash[call.sec])
        /\ flash[call.sec].store = "Unused"
    BY <1>2, <2>1, InFormat DEF FmtStatus, FormatAgrees
  <2>3. Committed(flash[call.sec]) = {}
    BY <2>2, FreshTimes
  <2> QED BY <1>1, <2>2, <2>3 DEF SectorImage, Committed
<1>4. ok => call' = call /\ pc' = "FmtMagic"
  BY DEF FmtStatus, Goto
<1> QED BY <1>2, <1>3, <1>4, FormatTimes DEF FormatLabels

LEMMA FmtMagicTimes ==
  ASSUME TsIInv, TimesOK, NEW ok \in BOOLEAN, FmtMagic(ok)
  PROVE  TimesOK'
<1>1. PICK image : image = [flash[call.sec] EXCEPT !.ok = TRUE]
  OBVIOUS
<1>2. pc \in FormatLabels /\ Program(call.sec, image, ok) /\ clock' = clock /\ MediumType
  BY <1>1, TypeParts DEF TsIInv, FmtMagic, FormatLabels, client
<1>3. ASSUME ok PROVE Committed(image) = {} /\ image.store = "Empty"
  <2>1. ~failing
    BY <1>2, <1>3, Programmed
  <2>2. /\ flash[call.sec] \in SectorImage /\ SectorOK(flash[call.sec])
        /\ flash[call.sec].store = "Empty"
    BY <1>2, <2>1, InFormat DEF FmtMagic, FormatAgrees
  <2>3. Committed(flash[call.sec]) = {}
    BY <2>2, FreshTimes
  <2> QED BY <1>1, <2>2, <2>3 DEF SectorImage, Committed
<1>4. call \in Call
  BY <1>2, InFormat
<1>5. ASSUME ok, call.op = "Append" PROVE call' = call /\ pc' = "SetUsing"
  BY <1>5 DEF FmtMagic, FmtReturn, Goto
<1>6. ASSUME ok, call.op # "Append" PROVE call'.op # "Append" /\ pc' \in {"FmtErase", "CleanEnd"}
  BY <1>4, <1>6 DEF FmtMagic, FmtReturn, Call
<1> QED BY <1>2, <1>3, <1>5, <1>6, FormatTimes DEF FormatLabels

\* clean, and an open that formats, begin.
LEMMA CleanCallTimes ==
  ASSUME TimesOK, flash' = flash, clock' = clock, NEW op \in {"Clean", "Open"}, CleanCall(op)
  PROVE  TimesOK'
<1>1. pc' = "FmtErase" /\ call'.op = op
  BY DEF CleanCall, NoCall
<1>2. ~Appending' /\ pc' # "Idle"
  BY <1>1 DEF Appending, Formatting, AppendLabels, EndLabels, FirstLabels, RecordLabels
<1> QED BY <1>2, Unchanged, TimesAlone

LEMMA CleanEndTimes ==
  ASSUME TsIInv, TimesOK, CleanEnd
  PROVE  TimesOK'
<1>1. /\ flash' = flash /\ failing' = failing /\ pc = "CleanEnd" /\ pc' = "Idle" /\ clock' = clock
  BY QuietType DEF CleanEnd, Return, client
<1>2. ~Appending'
  BY <1>1 DEF Appending, Formatting, AppendLabels, EndLabels, FirstLabels, RecordLabels, FormatLabels
<1>3. ASSUME ~failing PROVE OneInUse' /\ LastOK'
  <2>1. \A s \in Sector : flash[s].store = "Empty"
    BY <1>1, <1>3 DEF TsIInv, MemoryOK, CallAgrees, FormatAgrees
  <2> QED BY <1>1, <2>1 DEF OneInUse, LastOK
<1>4. HeaderOK' /\ ClockOK' /\ \A s \in Sector : SectorOrdered(flash'[s])
  BY <1>1, Unchanged, SilentOrder
<1> QED BY <1>1, <1>2, <1>3, <1>4 DEF TimesOK

\* The time of the last record of a sector in use.
EndTimeOf(sec) == IF Committed(sec) = {} THEN EndOf(sec).time
                  ELSE sec.tsls[Greatest(Committed(sec))].time

\* A sector in use with records, as it is read.
LEMMA InfoOfRecords ==
  ASSUME NEW img \in Image, NEW s \in Sector, img[s].ok, img[s].store = "Using", img[s].tsls # <<>>
  PROVE  LET c == read_sector_info(img, s) IN
         /\ c.sec = s /\ c.ok /\ c.status = "Using" /\ c.start = img[s].start
         /\ c.endIdx = Len(img[s].tsls) /\ c.idx = Len(img[s].tsls)
         /\ c.remain = Free(img[s]) /\ c.data = EmptyData(img[s])
         /\ c.endTime = EndTimeOf(img[s])
         /\ \A e \in 1 .. 2 : c.stat[e] = img[s].ends[e].stat
<1> DEFINE h == read_header(img, s)
           c == read_sector_info(img, s)
<1>1. h \in SecInfo /\ s # NoAddr
  BY HeaderType, NoAddrAssumption
<1>2. /\ h.sec = s /\ h.ok /\ h.status = "Using" /\ h.start = img[s].start
      /\ h.endTime = EndOf(img[s]).time /\ \A e \in 1 .. 2 : h.stat[e] = img[s].ends[e].stat
  BY DEF read_header
<1>3. c = [h EXCEPT !.endTime = IF Committed(img[s]) = {} THEN h.endTime
                                ELSE img[s].tsls[Greatest(Committed(img[s]))].time,
                    !.endIdx = Len(img[s].tsls), !.idx = Len(img[s].tsls),
                    !.remain = Free(img[s]), !.data = EmptyData(img[s])]
  BY <1>1, <1>2 DEF read_sector_info
<1> HIDE DEF h, c
<1>4. c.endTime = EndTimeOf(img[s])
  BY <1>1, <1>2, <1>3 DEF SecInfo, EndTimeOf
<1> QED BY <1>1, <1>2, <1>3, <1>4 DEF SecInfo, c

\* The sector that is read, whatever it holds.
LEMMA InfoSector ==
  ASSUME NEW img \in Image, NEW s \in Sector, NEW c, c = read_sector_info(img, s)
  PROVE  c.sec = s /\ c.ok = img[s].ok /\ (img[s].ok => c.status = img[s].store)
<1> DEFINE h == read_header(img, s)
<1>1. h \in SecInfo /\ s # NoAddr
  BY HeaderType, NoAddrAssumption
<1>2. CASE img[s].ok
  <2>1. h.sec = s /\ h.ok /\ h.status = img[s].store
    BY <1>2 DEF read_header
  <2> HIDE DEF h
  <2>2. c.sec = h.sec /\ c.ok = h.ok /\ c.status = h.status
    BY <1>1 DEF read_sector_info, SecInfo, h
  <2> QED BY <1>2, <2>1, <2>2, ImageFields
<1>3. CASE ~img[s].ok
  <2>1. h = Blank(s)
    BY <1>3 DEF read_header
  <2>2. h.sec = s /\ h.ok = FALSE
    BY <2>1 DEF Blank
  <2> HIDE DEF h
  <2>3. c = h
    BY <1>1, <2>2 DEF read_sector_info, h
  <2> QED BY <1>3, <2>2, <2>3, ImageFields
<1> QED BY <1>2, <1>3

LEMMA OpenedTimes ==
  ASSUME TsIInv, TimesOK, flash' = flash, failing' = failing, clock' = clock, pc' = "Idle",
         ~CheckFailed(flash), Opened
  PROVE  TimesOK'
<1>1. flash \in Image
  BY TypeParts DEF TsIInv
<1>2. ~Appending' /\ ~Formatting'
  BY DEF Appending, Formatting, AppendLabels, EndLabels, FirstLabels, RecordLabels, FormatLabels
<1>3. HeaderOK' /\ ClockOK' /\ \A s \in Sector : SectorOrdered(flash'[s])
  BY Unchanged, SilentOrder
<1>4. PICK o : o = FirstOpen(flash)
  OBVIOUS
<1>5. cur' = read_sector_info(flash, o) /\ lastTime' = FindLastTime(flash, cur', oldest')
  BY <1>4 DEF Opened
<1>6. ASSUME NEW s \in Sector, flash[s].store = "Using"
      PROVE  s = cur'.sec /\ \A j \in Committed(flash[s]) : flash[s].tsls[j].time <= lastTime'
  <2>1. flash[s].ok /\ s = o
    BY <1>4, <1>6 DEF CheckFailed, Usings
  <2>2. s = cur'.sec /\ cur'.status = "Using"
    BY <1>1, <1>5, <1>6, <2>1, InfoSector
  <2>3. lastTime' = cur'.endTime
    BY <1>5, <2>2 DEF FindLastTime
  <2>4. ASSUME NEW j \in Committed(flash[s]) PROVE flash[s].tsls[j].time <= lastTime'
    <3> DEFINE C == Committed(flash[s])
               g == Greatest(C)
    <3>1. /\ flash[s] \in SectorImage /\ flash[s].tsls \in Seq(IndexRecord) /\ Len(flash[s].tsls) \in Nat
          /\ \A k \in C : k \in 1 .. Len(flash[s].tsls) /\ k \in Nat /\ flash[s].tsls[k].time \in Int
      BY <1>1, CommittedType DEF Image
    <3>2. C \subseteq 0 .. Len(flash[s].tsls) /\ C # {}
      BY <2>4, <3>1
    <3> HIDE DEF C
    <3>3. g \in C /\ \A k \in C : k <= g
      BY <3>1, <3>2, GreatestExists
    <3>4. flash[s].tsls # <<>>
      <4>1. PICK k \in C : k \in 1 .. Len(flash[s].tsls)
        BY <3>1, <3>2
      <4> QED BY <4>1
    <3>5. lastTime' = flash[s].tsls[g].time
      <4>1. cur' = read_sector_info(flash, s) /\ Committed(flash[s]) # {}
        BY <1>5, <2>1, <3>2 DEF C
      <4>2. /\ Committed(flash[s]) # {}
            /\ read_sector_info(flash, s).endTime = flash[s].tsls[Greatest(Committed(flash[s]))].time
        BY <1>1, <1>6, <2>1, <3>4, <4>1, InfoOfRecords DEF EndTimeOf
      <4> QED BY <2>3, <4>1, <4>2 DEF C
    <3>6. CASE j = g
      BY <3>1, <3>3, <3>5, <3>6
    <3>7. CASE j # g
      <4>1. j \in C
        BY <2>4 DEF C
      <4>2. j < g
        BY <3>1, <3>3, <3>7, <4>1
      <4>3. flash[s].tsls[j].time < flash[s].tsls[g].time
        BY <3>3, <4>1, <4>2 DEF TimesOK, SectorOrdered, C
      <4> QED BY <3>1, <3>3, <3>5, <4>1, <4>3
    <3> QED BY <3>6, <3>7
  <2> QED BY <2>2, <2>4
<1>7. OneInUse' /\ LastOK'
  BY <1>2, <1>6 DEF OneInUse, LastOK
<1> QED BY <1>2, <1>3, <1>7 DEF TimesOK

LEMMA OpenTimes ==
  ASSUME TsIInv, TimesOK, NEW strict \in BOOLEAN, Open(strict)
  PROVE  TimesOK'
<1>1. flash' = flash /\ failing' = failing /\ clock' = clock
  BY QuietType DEF Open
<1>2. CASE ~CheckFailed(flash) /\ Opened /\ Return("Ok")
  BY <1>1, <1>2, OpenedTimes DEF Return
<1>3. CASE pc = "Off" /\ pc' = pc
  <2>1. ~Appending' /\ pc' # "Idle"
    BY <1>3 DEF Appending, Formatting, AppendLabels, EndLabels, FirstLabels, RecordLabels, FormatLabels
  <2> QED BY <1>1, <2>1, Unchanged, TimesAlone
<1>4. CASE CleanCall("Open")
  BY <1>1, <1>4, CleanCallTimes
<1> QED BY <1>2, <1>3, <1>4 DEF Open

\* The session ends.
LEMMA OffTimes ==
  ASSUME TimesOK, flash' = flash, clock' = clock, pc' = "Off"
  PROVE  TimesOK'
<1>1. ~Appending' /\ pc' # "Idle"
  BY DEF Appending, Formatting, AppendLabels, EndLabels, FirstLabels, RecordLabels, FormatLabels
<1> QED BY <1>1, Unchanged, TimesAlone

LEMMA TimesNext ==
  ASSUME TsIInv, TimesOK, [Next]_vars
  PROVE  TimesOK'
<1>1. ASSUME NEW len \in Lens, AppendNow(len) \/ AppendAgain(len) PROVE TimesOK'
  <2>1. clock \in Int /\ \A t \in NextTimes : t \in Int /\ clock <= t
    BY TypeParts, TimesAssumption DEF TsIInv, ClientType, NextTimes
  <2>2. PICK t \in Int : clock <= t /\ AppendAt(len, t)
    BY <1>1, <2>1 DEF AppendNow, AppendAgain
  <2> QED BY <2>2, AppendTimes
<1>2. CASE Client
  <2>1. CASE \E s \in Sector, st \in Marks, ok \in BOOLEAN :
                \E j \in Committed(flash[s]) : SetStatus(s, j, st, ok)
    BY <2>1, SetStatusTimes
  <2>2. CASE OpenPanics
    BY <2>2, OffTimes, QuietType DEF OpenPanics, client
  <2>3. CASE Clean
    <3>1. flash' = flash /\ clock' = clock /\ CleanCall("Clean")
      BY <2>3, QuietType DEF Clean, client
    <3> QED BY <3>1, CleanCallTimes
  <2>4. CASE Close
    BY <2>4, OffTimes DEF Close, Reset, client
  <2> QED BY <1>1, <1>2, <2>1, <2>2, <2>3, <2>4, OpenTimes, SetRolloverTimes DEF Client
<1>3. CASE Step
  BY <1>3, EndTimes, SetFullTimes, SetUsingTimes, SetStartTimes, TslPreTimes, TslIdxTimes, TslDataTimes,
     TslWriteTimes, FmtEraseTimes, FmtStatusTimes, FmtMagicTimes, CleanEndTimes DEF Step
<1>4. CASE PowerLoss
  BY <1>4, OffTimes DEF PowerLoss, Reset, client
<1>5. CASE UNCHANGED vars
  <2>1. /\ flash' = flash /\ cur' = cur /\ lastTime' = lastTime /\ pc' = pc /\ call' = call
        /\ failing' = failing /\ clock' = clock
    BY <1>5 DEF vars
  <2>2. /\ HeaderOK' = HeaderOK /\ ClockOK' = ClockOK /\ Appending' = Appending
        /\ NewTime' = NewTime /\ OneInUse' = OneInUse /\ LastOK' = LastOK
        /\ \A s \in Sector : SectorOrdered(flash'[s]) = SectorOrdered(flash[s])
    BY <2>1 DEF HeaderOK, ClockOK, Appending, Formatting, NewTime, OneInUse, LastOK, Record
  <2> QED BY <2>1, <2>2 DEF TimesOK
<1> QED BY <1>2, <1>3, <1>4, <1>5 DEF Next

LEMMA TimesInit ==
  ASSUME Init
  PROVE  TimesOK
<1>1. \A s \in Sector : ~flash[s].ok /\ Committed(flash[s]) = {} /\ flash[s].store = "Unused"
  BY DEF Init, Erased, Committed
<1>2. pc = "Off"
  BY DEF Init, Closed
<1> QED BY <1>1, <1>2 DEF TimesOK, HeaderOK, ClockOK, SectorOrdered, Appending, Formatting,
                          AppendLabels, EndLabels, FirstLabels, RecordLabels, FormatLabels

----------------------------------------------------------------------------
(* RingOK: the order of the sectors *)

\* The same records in the same sectors.
LEMMA SilentRing ==
  ASSUME Silent
  PROVE  /\ \A c : Ordered(flash, c) => Ordered(flash', c)
         /\ \A c : Ring(flash, c) => Ring(flash', c)
         /\ \A c \in Sector : Cleaned(flash, c) => Cleaned(flash', c)
         /\ \A c, old : BeginsAt(flash, c, old) => BeginsAt(flash', c, old)
         /\ AllFull(flash) => AllFull(flash')
         /\ Remains(flash) => Remains(flash')
<1>1. ASSUME NEW c, Ordered(flash, c) PROVE Ordered(flash', c)
  BY <1>1 DEF Ordered, Silent, SameTimes
<1>2. ASSUME NEW c, Ring(flash, c) PROVE Ring(flash', c)
  BY <1>1, <1>2 DEF Ring, Silent
<1>3. ASSUME NEW c \in Sector, Cleaned(flash, c) PROVE Cleaned(flash', c)
  BY <1>1, <1>3 DEF Cleaned, Silent
<1>4. ASSUME NEW c, NEW old, BeginsAt(flash, c, old) PROVE BeginsAt(flash', c, old)
  BY <1>4 DEF BeginsAt, Silent
<1>5. ASSUME AllFull(flash) PROVE AllFull(flash')
  BY <1>5 DEF AllFull, Silent
<1>6. ASSUME Remains(flash) PROVE Remains(flash')
  BY <1>3, <1>5, <1>6 DEF Remains
<1> QED BY <1>1, <1>2, <1>3, <1>4, <1>5, <1>6

\* Sectors without records have no place in the order.
LEMMA OrderedMoved ==
  ASSUME NEW a, NEW b, NEW img, Ordered(img, a),
         \A s, t \in Sector : Committed(img[s]) # {} /\ Committed(img[t]) # {} /\ Earlier(b, s, t)
                                 => Earlier(a, s, t)
  PROVE  Ordered(img, b)
BY DEF Ordered

\* Nor do records that are gone.
LEMMA OrderedLess ==
  ASSUME NEW a, Ordered(flash, a),
         \A s \in Sector : Committed(flash'[s]) = {} \/ SameTimes(flash[s], flash'[s])
  PROVE  Ordered(flash', a)
BY DEF Ordered, SameTimes

\* The ring of a session is what clean may be called with.
LEMMA RingCleaned ==
  ASSUME NEW img, NEW c \in Sector, Ring(img, c), img[c].store = "Full" => c = N - 1
  PROVE  Cleaned(img, c)
<1>1. \A s \in Sector : s < c => s # c /\ img[s].store = "Full"
  BY Geometry DEF Ring, Sector
<1>2. \A s, t \in Sector : s < t /\ t < c => img[t].store = "Full"
  BY <1>1
<1>3. Ordered(img, c + 1) /\ \A s \in Sector : s < c => img[s].store # "Using"
  BY <1>1 DEF Ring
<1> QED BY <1>2, <1>3 DEF Cleaned

\* What has no records.
LEMMA EmptyNone ==
  ASSUME TsIInv
  PROVE  /\ flash \in Image
         /\ \A s \in Sector : flash[s].store \in {"Unused", "Empty"} => Committed(flash[s]) = {}
<1>1. flash \in Image /\ MediumOK
  BY TypeParts DEF TsIInv
<1> QED BY <1>1, FreshTimes DEF Image, MediumOK

\* The calls that do not move the ring.
LEMMA RingKept ==
  ASSUME RingOK, Silent, ruined' = ruined, cur'.sec = cur.sec, cur'.ok = cur.ok, oldest' = oldest,
         ~failing' => /\ ~failing /\ pc \in AppendLabels \cup {"Idle"}
                      /\ pc' \in AppendLabels \cup {"Idle"}
                      /\ pc' = "Idle" => /\ cur'.status = flash[cur.sec].store
                                         /\ cur'.status = "Full" => cur.sec = N - 1
  PROVE  RingOK'
<1>1. SUFFICES ASSUME ~ruined PROVE RingOK'
  BY DEF RingOK
<1>2. Remains(flash')
  BY <1>1, SilentRing DEF RingOK
<1>3. ASSUME ~failing' PROVE RingAgrees'
  <2>1. RingAgrees
    BY <1>1, <1>3 DEF RingOK
  <2>2. Ring(flash', cur.sec) /\ BeginsAt(flash', cur.sec, oldest)
    BY <2>1, SilentRing DEF RingAgrees
  <2>3. flash'[cur.sec].store = flash[cur.sec].store /\ flash'[cur.sec].ok = flash[cur.sec].ok
    BY <2>1 DEF RingAgrees, Silent
  <2> QED BY <1>3, <2>1, <2>2, <2>3 DEF RingAgrees
<1>4. ~failing' => ~Formatting' /\ pc' \notin FormatLabels \cup {"CleanEnd"}
  BY DEF Formatting, AppendLabels, EndLabels, FirstLabels, RecordLabels, FormatLabels
<1> QED BY <1>2, <1>3, <1>4 DEF RingOK

\* The medium failed, or no session is there.
LEMMA RingAlone ==
  ASSUME RingOK, Silent, ruined' = ruined, failing' \/ pc' = "Off"
  PROVE  RingOK'
<1>1. ~ruined => Remains(flash')
  BY SilentRing DEF RingOK
<1>2. pc' = "Off" => /\ pc' \notin AppendLabels \cup {"Idle"} /\ ~Formatting'
                     /\ pc' \notin FormatLabels \cup {"CleanEnd"}
  BY DEF Formatting, AppendLabels, EndLabels, FirstLabels, RecordLabels, FormatLabels
<1> QED BY <1>1, <1>2 DEF RingOK

\* The writes of an append that nobody reads before its last one.
LEMMA QuietSteps ==
  ASSUME TsIInv, RingOK, Silent, NEW ok \in BOOLEAN,
         \/ EndPre(ok) \/ EndData(ok) \/ EndWrite(ok) \/ SetStart(ok)
         \/ TslPre(ok) \/ TslIdx(ok) \/ TslData(ok)
  PROVE  RingOK'
<1>1. MediumType /\ UNCHANGED ram /\ UNCHANGED client
  BY TypeParts DEF TsIInv, EndPre, EndData, EndWrite, SetStart, TslPre, TslIdx, TslData
<1>2. ruined' = ruined /\ cur' = cur /\ oldest' = oldest
  BY <1>1 DEF client, ram
<1>3. PICK s, image : Program(s, image, ok)
  BY DEF EndPre, EndData, EndWrite, SetStart, TslPre, TslIdx, TslData
<1>4. CASE ok
  <2>1. ~failing
    BY <1>1, <1>3, <1>4, Programmed
  <2>2. pc \in AppendLabels /\ pc' \in AppendLabels /\ pc' # "Idle"
    BY <1>4 DEF EndPre, EndData, EndWrite, SetStart, TslPre, TslIdx, TslData, Then, Goto,
                AppendLabels, EndLabels, FirstLabels, RecordLabels
  <2> QED BY <1>2, <2>1, <2>2, RingKept
<1>5. CASE ~ok
  BY <1>1, <1>2, <1>3, <1>5, Programmed, RingAlone
<1> QED BY <1>4, <1>5

\* The current sector was filled: the next one is empty, or all are full.
LEMMA RingAdvances ==
  ASSUME TsIInv, RingAgrees, NEW c \in Sector, c = cur.sec,
         NEW image, flash' = [flash EXCEPT ![c] = image], image.store = "Full", image.ok = flash[c].ok,
         SameTimes(flash[c], image), NEW s \in Sector, s = NextSector(c)
  PROVE  /\ flash'[s].store = "Empty" => /\ s = c + 1 /\ flash'[s] = flash[s]
                                         /\ Ring(flash', s) /\ BeginsAt(flash', s, oldest)
         /\ flash'[s].store # "Empty" => AllFull(flash') /\ Ordered(flash', s)
         /\ Ordered(flash', c + 1) /\ (c = N - 1 => AllFull(flash'))
<1>1. flash \in Image /\ \A t \in Sector : flash[t].store \in {"Unused", "Empty"} => Committed(flash[t]) = {}
  BY EmptyNone
<1>2. flash'[c] = image /\ \A q \in Sector : q # c => flash'[q] = flash[q]
  BY <1>1, OneSector
<1>3. Ring(flash, c) /\ BeginsAt(flash, c, oldest) /\ flash[c].ok
  BY DEF RingAgrees
<1>4. \A t \in Sector : SameTimes(flash[t], flash'[t])
  BY <1>2 DEF SameTimes
<1>5. Ordered(flash', c + 1)
  BY <1>3, <1>4 DEF Ring, Ordered, SameTimes
<1>6. \A t \in Sector : t <= c => flash'[t].ok /\ flash'[t].store = "Full"
  <2>1. \A t \in Sector : t <= c => t = c \/ (t < c /\ t # c)
    BY DEF Sector
  <2>2. flash'[c].ok /\ flash'[c].store = "Full"
    BY <1>2, <1>3
  <2>3. \A t \in Sector : t < c /\ t # c => flash'[t].ok /\ flash'[t].store = "Full"
    BY <1>2, <1>3 DEF Ring
  <2> QED BY <2>1, <2>2, <2>3
<1>7. \A t \in Sector : t # c => flash'[t].ok /\ flash'[t].store \in {"Empty", "Full"}
  BY <1>2, <1>3 DEF Ring
<1>8. \A p, q \in Sector : c < p /\ p < q /\ flash'[p].store = "Full" => flash'[q].store = "Full"
  <2>1. \A p \in Sector : c < p => flash'[p] = flash[p]
    BY <1>2 DEF Sector
  <2>2. \A p, q \in Sector : c < p /\ p < q => c < q
    BY DEF Sector
  <2> QED BY <1>3, <2>1, <2>2 DEF Ring
<1>9. N \in Nat /\ c \in 0 .. N-1 /\ s \in 0 .. N-1
  BY Geometry DEF Sector
<1>10. CASE c = N - 1
  <2>1. AllFull(flash') /\ s = 0
    BY <1>6, <1>9, <1>10 DEF AllFull, NextSector, Sector
  <2>2. \A p, q \in Sector : Earlier(0, p, q) => Earlier(c + 1, p, q)
    BY <1>9, <1>10 DEF Earlier, Sector
  <2>3. Ordered(flash', 0)
    BY <1>5, <2>2, OrderedMoved
  <2>4. flash'[s].store = "Full"
    BY <2>1 DEF AllFull
  <2> QED BY <1>5, <2>1, <2>3, <2>4
<1>11. CASE c # N - 1
  <2>1. s = c + 1 /\ s # c /\ flash'[s] = flash[s]
    BY <1>2, <1>9, <1>11 DEF NextSector
  <2>2. CASE flash'[s].store = "Empty"
    <3>1. Committed(flash'[s]) = {}
      BY <1>1, <2>1, <2>2
    <3>2. \A p, q \in Sector : p # s /\ q # s /\ Earlier(s + 1, p, q) => Earlier(c + 1, p, q)
      BY <1>9, <2>1 DEF Earlier, Sector
    <3>3. Ordered(flash', s + 1)
      BY <1>5, <3>1, <3>2, OrderedMoved
    <3>4. /\ \A t \in Sector : t < s => t <= c
          /\ \A t \in Sector : s < t => c < t
      BY <1>9, <2>1 DEF Sector
    <3>5. /\ \A t \in Sector : t # s => flash'[t].ok /\ flash'[t].store \in {"Empty", "Full"}
          /\ \A t \in Sector : t < s => flash'[t].store = "Full"
      <4>1. flash'[c].ok /\ flash'[c].store = "Full"
        BY <1>2, <1>3
      <4> QED BY <1>6, <1>7, <3>4, <4>1
    <3>6. Ring(flash', s)
      BY <1>8, <3>3, <3>4, <3>5 DEF Ring
    <3>7. BeginsAt(flash', s, oldest)
      <4>1. \A t \in Sector : c < t => flash'[t] = flash[t]
        BY <1>2, <1>9 DEF Sector
      <4>2. /\ oldest \in Sector /\ (oldest = 0 \/ c < oldest)
            /\ \A t \in Sector : c < t => (flash'[t].store = "Full" <=> oldest # 0 /\ oldest <= t)
        BY <1>3, <4>1 DEF BeginsAt
      <4>3. oldest # 0 => oldest # s
        <5>1. c < s
          BY <1>9, <2>1
        <5>2. ~(oldest # 0 /\ oldest <= s)
          BY <2>2, <4>2, <5>1
        <5> QED BY <1>9, <5>2
      <4>4. oldest = 0 \/ s < oldest
        BY <1>9, <2>1, <4>2, <4>3 DEF Sector
      <4> QED BY <3>4, <4>2, <4>4 DEF BeginsAt
    <3> QED BY <1>5, <1>11, <2>1, <2>2, <3>6, <3>7
  <2>3. CASE flash'[s].store # "Empty"
    <3>1. flash'[s].store = "Full"
      BY <1>7, <2>1, <2>3
    <3>2. \A t \in Sector : t <= c \/ t = s \/ s < t
      BY <1>9, <2>1 DEF Sector
    <3>3. c < s
      BY <1>9, <2>1
    <3>4. \A t \in Sector : flash'[t].store = "Full"
      BY <1>6, <1>8, <3>1, <3>2, <3>3
    <3>5. \A t \in Sector : flash'[t].ok
      BY <1>2, <1>3, <1>7
    <3> QED BY <1>5, <1>11, <2>1, <2>3, <3>4, <3>5 DEF AllFull
  <2> QED BY <2>2, <2>3
<1> QED BY <1>10, <1>11

LEMMA SetFullRing ==
  ASSUME TsIInv, TimesOK, RingOK, NEW ok \in BOOLEAN, SetFull(ok)
  PROVE  RingOK'
<1> DEFINE image == [flash[cur.sec] EXCEPT !.store = "Full"]
<1>1. flash \in Image /\ MediumType /\ RamType
  BY TypeParts DEF TsIInv
<1>2. Program(cur.sec, image, ok) /\ ruined' = ruined /\ pc \in AppendLabels
  BY DEF SetFull, client, AppendLabels, EndLabels
<1>3. CASE ok
  <2>1. ~failing /\ ~failing' /\ flash' = [flash EXCEPT ![cur.sec] = image]
    BY <1>1, <1>2, <1>3, Programmed
  <2>2. /\ cur.sec \in Sector /\ flash[cur.sec] \in SectorImage /\ call.op = "Append" /\ call \in Call
        /\ cur \in SecInfo
    BY <1>2, <2>1, InSector
  <2>3. image.store = "Full" /\ image.ok = flash[cur.sec].ok /\ SameTimes(flash[cur.sec], image)
    BY <2>2, SameRecords DEF SectorImage
  <2> HIDE DEF image
  <2>4. SUFFICES ASSUME ~ruined PROVE RingOK'
    BY <1>2 DEF RingOK
  <2>5. RingAgrees
    BY <1>2, <2>1, <2>4 DEF RingOK
  <2>6. PICK s \in Sector : s = NextSector(cur.sec)
    BY <2>2, NextSectorType
  <2>7. /\ flash'[s].store = "Empty" => /\ s = cur.sec + 1 /\ flash'[s] = flash[s]
                                        /\ Ring(flash', s) /\ BeginsAt(flash', s, oldest)
        /\ flash'[s].store # "Empty" => AllFull(flash') /\ Ordered(flash', s)
        /\ Ordered(flash', cur.sec + 1) /\ (cur.sec = N - 1 => AllFull(flash'))
    BY <2>1, <2>2, <2>3, <2>5, <2>6, RingAdvances
  <2>8. CASE TakeSector(NextSector(cur.sec)) /\ read_header(flash, s).status = "Empty"
    <3>1. /\ cur' = read_header(flash, s) /\ oldest' = oldest /\ pc' = "SetUsing"
      BY <2>6, <2>8 DEF TakeSector, Goto
    <3>2. cur'.ok /\ cur'.sec = s /\ flash[s].ok /\ flash[s].store = "Empty"
      BY <1>1, <2>6, <2>8, <3>1, HeaderEmptyOK
    <3>3. flash'[s] = flash[s]
      BY <1>1, <2>1, <2>2, <2>6, NextSectorType, OneSector
    <3>4. Ring(flash', s) /\ BeginsAt(flash', s, oldest)
      BY <2>7, <3>2, <3>3
    <3>5. RingAgrees'
      BY <3>1, <3>2, <3>3, <3>4 DEF RingAgrees
    <3>6. Remains(flash')
      BY <3>2, <3>3, <3>4, RingCleaned DEF Remains
    <3> QED BY <3>1, <3>5, <3>6 DEF RingOK, Formatting, FormatLabels
  <2>9. CASE TakeSector(NextSector(cur.sec)) /\ read_header(flash, s).status # "Empty"
    <3>1. oldest' = NextSector(s) /\ pc' = "FmtErase" /\ call' = [call EXCEPT !.sec = s]
      BY <2>6, <2>9 DEF TakeSector
    <3>2. call'.op = "Append" /\ call'.sec = s
      BY <2>2, <3>1 DEF Call
    <3>3. flash'[s].store # "Empty"
      <4>1. s # cur.sec /\ flash'[s] = flash[s]
        BY <1>1, <2>1, <2>2, <2>6, NextSectorType, OneSector
      <4>2. flash[s].ok
        BY <2>5, <4>1 DEF RingAgrees, Ring
      <4> QED BY <2>9, <4>1, <4>2 DEF read_header
    <3>4. AllFull(flash') /\ Ordered(flash', s)
      BY <2>7, <3>3
    <3>5. FormatRing'
      BY <3>1, <3>2, <3>4 DEF FormatRing, AllFull
    <3>6. Formatting'
      BY <3>1, <3>2 DEF Formatting, FormatLabels
    <3> QED BY <3>1, <3>4, <3>5, <3>6
            DEF RingOK, Remains, AppendLabels, EndLabels, FirstLabels, RecordLabels
  <2>10. CASE /\ cur.sec + 1 = N /\ cur' = [cur EXCEPT !.status = "Full"]
              /\ Return("SavedFull") /\ oldest' = oldest
    <3>1. cur'.sec = cur.sec /\ cur'.ok = cur.ok /\ cur'.status = "Full" /\ pc' = "Idle"
      BY <2>2, <2>10 DEF SecInfo, Return
    <3>2. cur.sec = N - 1
      BY <2>2, <2>10, Geometry DEF Sector
    <3>3. AllFull(flash')
      BY <2>7, <3>2
    <3>4. \A t \in Sector : ~(cur.sec < t)
      BY <3>2, Geometry DEF Sector
    <3>5. Ring(flash', cur.sec) /\ BeginsAt(flash', cur.sec, oldest)
      BY <2>5, <2>7, <3>3, <3>4 DEF Ring, AllFull, BeginsAt, RingAgrees
    <3>6. RingAgrees'
      BY <2>2, <2>5, <2>10, <3>1, <3>2, <3>3, <3>5 DEF RingAgrees, AllFull
    <3> QED BY <3>1, <3>3, <3>6 DEF RingOK, Remains, Formatting, FormatLabels
  <2> QED BY <1>3, <2>8, <2>9, <2>10 DEF SetFull
<1>4. CASE ~ok
  BY <1>1, <1>2, <1>4, Programmed, Unchanged, RingAlone
<1> QED BY <1>3, <1>4

\* Of the current sector the ring does not ask the state.
LEMMA UsingRing ==
  ASSUME NEW c \in Sector, RingAgrees, c = cur.sec, SameTimes(flash[c], flash'[c]),
         \A q \in Sector : q # c => flash'[q] = flash[q]
  PROVE  Ring(flash', c) /\ BeginsAt(flash', c, oldest)
<1>1. Ring(flash, c) /\ BeginsAt(flash, c, oldest)
  BY DEF RingAgrees
<1>2. \A t \in Sector : SameTimes(flash[t], flash'[t])
  BY DEF SameTimes
<1>3. Ordered(flash', c + 1)
  BY <1>1, <1>2 DEF Ring, Ordered, SameTimes
<1>4. \A t \in Sector : t < c \/ c < t => t # c
  BY DEF Sector
<1>5. \A p, q \in Sector : c < p /\ p < q => c < q
  BY DEF Sector
<1>6. BeginsAt(flash', c, oldest)
  BY <1>1, <1>4 DEF BeginsAt
<1>7. Ring(flash', c)
  BY <1>1, <1>3, <1>4, <1>5 DEF Ring
<1> QED BY <1>6, <1>7

LEMMA SetUsingRing ==
  ASSUME TsIInv, RingOK, NEW ok \in BOOLEAN, SetUsing(ok)
  PROVE  RingOK'
<1> DEFINE image == [flash[cur.sec] EXCEPT !.store = "Using"]
<1>1. flash \in Image /\ MediumType /\ RamType
  BY TypeParts DEF TsIInv
<1>2. /\ Program(cur.sec, image, ok) /\ ruined' = ruined /\ oldest' = oldest
      /\ pc \in AppendLabels
  BY DEF SetUsing, client, AppendLabels, FirstLabels
<1>3. CASE ok
  <2>1. ~failing /\ ~failing' /\ flash' = [flash EXCEPT ![cur.sec] = image]
    BY <1>1, <1>2, <1>3, Programmed
  <2>2. cur.sec \in Sector /\ flash[cur.sec] \in SectorImage
    BY <1>2, <2>1, InSector
  <2>3. image.store = "Using" /\ image.ok = flash[cur.sec].ok /\ SameTimes(flash[cur.sec], image)
    BY <2>2, SameRecords DEF SectorImage
  <2> HIDE DEF image
  <2>4. SUFFICES ASSUME ~ruined PROVE RingOK'
    BY <1>2 DEF RingOK
  <2>5. RingAgrees
    BY <1>2, <2>1, <2>4 DEF RingOK
  <2>6. flash'[cur.sec] = image /\ \A q \in Sector : q # cur.sec => flash'[q] = flash[q]
    BY <1>1, <2>1, <2>2, OneSector
  <2>7. cur'.sec = cur.sec /\ cur'.ok = cur.ok /\ pc' = "SetStart"
    BY <1>1, <1>3 DEF SetUsing, Then, Goto, RamType, SecInfo
  <2>8. Ring(flash', cur.sec) /\ BeginsAt(flash', cur.sec, oldest)
    BY <2>2, <2>3, <2>5, <2>6, UsingRing
  <2>9. RingAgrees'
    BY <1>2, <2>2, <2>3, <2>5, <2>6, <2>7, <2>8 DEF RingAgrees
  <2>10. Remains(flash')
    BY <2>2, <2>3, <2>6, <2>8, RingCleaned DEF Remains
  <2> QED BY <2>7, <2>9, <2>10 DEF RingOK, Formatting, FormatLabels
<1>4. CASE ~ok
  <2> HIDE DEF image
  <2>1. flash' = flash /\ failing'
    BY <1>1, <1>2, <1>4, Programmed
  <2> QED BY <1>2, <2>1, Unchanged, RingAlone
<1> QED BY <1>3, <1>4

\* The commit: the new record is the last one around the ring.
LEMMA TslWriteRing ==
  ASSUME TsIInv, TimesOK, RingOK, NEW ok \in BOOLEAN, TslWrite(ok)
  PROVE  RingOK'
<1>1. flash \in Image /\ MediumType /\ RamType /\ ruined' = ruined /\ oldest' = oldest
  BY TypeParts DEF TsIInv, TslWrite, client
<1>2. CASE ok
  <2> DEFINE c == cur.sec
             n == Len(flash[c].tsls)
  <2>1. /\ c \in Sector /\ n \in Nat \ {0} /\ ~failing /\ ~failing'
        /\ \A s \in Sector : s # c => flash'[s] = flash[s]
        /\ flash[c].store = "Using" /\ flash'[c].store = "Using" /\ flash'[c].ok = flash[c].ok
        /\ Committed(flash'[c]) = Committed(flash[c]) \cup {n}
        /\ flash'[c].tsls[n].time = call.time
        /\ \A j \in Committed(flash[c]) : flash'[c].tsls[j].time = flash[c].tsls[j].time
    BY <1>2, Commits
  <2>2. NewTime
    BY <2>1 DEF TimesOK, Appending, AppendLabels, RecordLabels, TslWrite
  <2>3. cur' = WithRecord(cur) /\ pc' = "Idle"
    BY <1>2 DEF TslWrite, Return
  <2>4. cur'.sec = c /\ cur'.ok = cur.ok /\ cur'.status = cur.status
    BY <1>1, <2>3 DEF WithRecord, RamType, SecInfo
  <2>5. cur.status = "Using"
    BY <2>1, AtRecord DEF RecordAgrees, TslWrite, RecordLabels
  <2>6. SUFFICES ASSUME ~ruined PROVE RingOK'
    BY <1>1 DEF RingOK
  <2>7. RingAgrees
    BY <2>1, <2>6 DEF RingOK, AppendLabels, RecordLabels, TslWrite
  <2> HIDE DEF c, n
  <2>8. Ring(flash, c) /\ BeginsAt(flash, c, oldest) /\ flash[c].ok
    BY <2>7 DEF RingAgrees, c
  <2>9. Ordered(flash', c + 1)
    <3>1. SUFFICES ASSUME NEW s \in Sector, NEW t \in Sector, Earlier(c + 1, s, t),
                          NEW j \in Committed(flash'[s]), NEW k \in Committed(flash'[t])
                   PROVE  flash'[s].tsls[j].time < flash'[t].tsls[k].time
      BY DEF Ordered
    <3>2. s # c /\ s # t
      BY <2>1, <3>1 DEF Earlier, Sector
    <3>3. flash'[s] = flash[s] /\ j \in Committed(flash[s])
      BY <2>1, <3>2
    <3>4. CASE t = c /\ k = n
      BY <2>1, <2>2, <3>3, <3>4 DEF NewTime
    <3>5. CASE ~(t = c /\ k = n)
      <4>1. k \in Committed(flash[t]) /\ flash'[t].tsls[k].time = flash[t].tsls[k].time
        BY <2>1, <3>5
      <4>2. flash[s].tsls[j].time < flash[t].tsls[k].time
        BY <2>8, <3>1, <3>3, <4>1 DEF Ring, Ordered
      <4> QED BY <3>3, <4>1, <4>2
    <3> QED BY <3>4, <3>5
  <2>10. Ring(flash', c) /\ BeginsAt(flash', c, oldest)
    <3>1. \A t \in Sector : t < c \/ c < t => t # c
      BY <2>1 DEF Sector
    <3>2. \A p, q \in Sector : c < p /\ p < q => c < q
      BY <2>1 DEF Sector
    <3>3. BeginsAt(flash', c, oldest)
      BY <2>1, <2>8, <3>1 DEF BeginsAt
    <3>4. Ring(flash', c)
      BY <2>1, <2>8, <2>9, <3>1, <3>2 DEF Ring
    <3> QED BY <3>3, <3>4
  <2>11. RingAgrees'
    BY <1>1, <2>1, <2>4, <2>5, <2>7, <2>8, <2>10 DEF RingAgrees
  <2>12. Remains(flash')
    BY <2>1, <2>10, RingCleaned DEF Remains
  <2> QED BY <2>3, <2>11, <2>12 DEF RingOK, Formatting, FormatLabels
<1>3. CASE ~ok
  BY <1>1, <1>3, Programmed, Unchanged, RingAlone DEF TslWrite
<1> QED BY <1>2, <1>3

\* Between two calls nothing moves.
LEMMA AppendRing ==
  ASSUME TsIInv, RingOK, NEW len \in Lens, NEW t \in Int, AppendAt(len, t)
  PROVE  RingOK'
<1>1. flash \in Image /\ RamType /\ MediumType
  BY TypeParts DEF TsIInv
<1>2. CASE TslAppend(len, t)
  <2>1. /\ flash' = flash /\ failing' = failing /\ cur' = cur /\ oldest' = oldest /\ pc = "Idle"
        /\ ruined' = ruined
    BY <1>2, QuietType DEF TslAppend, ram
  <2>2. pc' \in {"Idle", "EndPre", "SetFull", "TslPre", "SetUsing"}
    BY <1>2 DEF TslAppend, Begin, Return
  <2>3. pc' \in AppendLabels \cup {"Idle"}
    BY <2>2 DEF AppendLabels, EndLabels, FirstLabels
  <2>4. ~failing /\ ~ruined => RingAgrees
    BY <2>1 DEF RingOK
  <2>5. CASE ruined
    BY <2>1, <2>5 DEF RingOK
  <2>6. CASE ~ruined
    BY <2>1, <2>3, <2>4, <2>6, Unchanged, RingKept DEF RingAgrees
  <2> QED BY <2>5, <2>6
<1>3. CASE AppendPanics(len, t)
  BY <1>3, Unchanged, RingAlone DEF AppendPanics, Reset
<1>4. ASSUME NEW ok \in BOOLEAN, AppendNowhere(len, t, ok) PROVE RingOK'
  <2>1. PICK image : Program(0, image, ok)
    BY <1>4 DEF AppendNowhere
  <2>2. pc = "Idle" /\ ~cur.ok /\ ruined' = ruined
    BY <1>4 DEF AppendNowhere
  <2>3. CASE ok
    <3>1. ~failing
      BY <1>1, <2>1, <2>3, Programmed
    <3>2. ruined
      BY <2>2, <3>1 DEF RingOK, RingAgrees
    <3> QED BY <2>2, <3>2 DEF RingOK
  <2>4. CASE ~ok
    BY <1>1, <2>1, <2>2, <2>4, Programmed, Unchanged, RingAlone
  <2> QED BY <2>3, <2>4
<1> QED BY <1>2, <1>3, <1>4 DEF AppendAt

\* set_status and rollover.
LEMMA IdleRing ==
  ASSUME RingOK, Silent, pc = "Idle", pc' = "Idle", UNCHANGED <<cur, oldest, ruined>>,
         ~failing' => ~failing
  PROVE  RingOK'
<1>1. CASE ruined
  BY <1>1 DEF RingOK
<1>2. CASE ~ruined
  BY <1>2, RingKept DEF RingOK, RingAgrees
<1> QED BY <1>1, <1>2

\* format_sector in an append: the sector that was the oldest one becomes the last one.
LEMMA FormatRingStep ==
  ASSUME TsIInv, RingOK, ~ruined, ~failing, Formatting, NEW s \in Sector, s = call.sec,
         NEW image, flash' = [flash EXCEPT ![s] = image], Committed(image) = {},
         image.store \in {"Unused", "Empty"}
  PROVE  /\ oldest = NextSector(s)
         /\ \A t \in Sector : t # s => flash'[t].ok /\ flash'[t].store = "Full"
         /\ Ordered(flash', s) /\ Cleaned(flash', s)
         /\ image.ok => Ring(flash', s) /\ BeginsAt(flash', s, oldest)
<1>1. flash \in Image /\ FormatRing
  BY EmptyNone DEF RingOK
<1>2. flash'[s] = image /\ \A q \in Sector : q # s => flash'[q] = flash[q]
  BY <1>1, OneSector
<1>3. /\ oldest = NextSector(s) /\ Ordered(flash, s)
      /\ \A t \in Sector : t # s => flash'[t].ok /\ flash'[t].store = "Full"
  BY <1>1, <1>2 DEF FormatRing
<1>4. \A t \in Sector : Committed(flash'[t]) = {} \/ SameTimes(flash[t], flash'[t])
  BY <1>2 DEF SameTimes
<1>5. Ordered(flash', s)
  BY <1>3, <1>4, OrderedLess
<1>6. Ordered(flash', s + 1)
  <2>1. \A p, q \in Sector : p # s /\ q # s /\ Earlier(s + 1, p, q) => Earlier(s, p, q)
    BY DEF Earlier, Sector
  <2>2. Committed(flash'[s]) = {}
    BY <1>2
  <2> QED BY <1>5, <2>1, <2>2, OrderedMoved
<1>7. \A t \in Sector : t < s \/ s < t => t # s
  BY DEF Sector
<1>8. \A p, q \in Sector : (p < q /\ q < s) \/ (s < p /\ p < q) => p # s /\ q # s
  BY DEF Sector
<1>9. Cleaned(flash', s)
  BY <1>2, <1>3, <1>6, <1>7, <1>8 DEF Cleaned
<1>10. ASSUME image.ok PROVE Ring(flash', s) /\ BeginsAt(flash', s, oldest)
  <2>1. Ring(flash', s)
    BY <1>3, <1>6, <1>7, <1>8 DEF Ring
  <2>2. N \in Nat /\ s \in 0 .. N-1
    BY Geometry DEF Sector
  <2>3. oldest = IF s = N-1 THEN 0 ELSE s + 1
    BY <1>3, <2>2, Geometry DEF NextSector
  <2>4. oldest \in Sector /\ (oldest = 0 \/ s < oldest)
    BY <2>2, <2>3 DEF Sector
  <2>5. \A t \in Sector : s < t => oldest # 0 /\ oldest <= t
    BY <2>2, <2>3 DEF Sector
  <2>6. BeginsAt(flash', s, oldest)
    BY <1>3, <1>7, <2>4, <2>5 DEF BeginsAt
  <2> QED BY <2>1, <2>6
<1> QED BY <1>3, <1>5, <1>9, <1>10

\* format_sector in clean: the sectors in front were cleaned before.
LEMMA CleanRingStep ==
  ASSUME TsIInv, ~failing, pc \in FormatLabels, call.op # "Append", NEW s \in Sector, s = call.sec,
         NEW c \in Sector, Cleaned(flash, c),
         NEW image, flash' = [flash EXCEPT ![s] = image], Committed(image) = {},
         image.store \in {"Unused", "Empty"}
  PROVE  Cleaned(flash', c)
<1>1. flash \in Image
  BY EmptyNone
<1>2. flash'[s] = image /\ \A q \in Sector : q # s => flash'[q] = flash[q]
  BY <1>1, OneSector
<1>3. \A t \in Sector : Committed(flash'[t]) = {} \/ SameTimes(flash[t], flash'[t])
  BY <1>2 DEF SameTimes
<1>4. Ordered(flash', c + 1)
  BY <1>3, OrderedLess DEF Cleaned
<1>5. \A q \in Sector : q < s => flash[q].store = "Empty"
  BY InFormat DEF FormatAgrees, Call
<1>6. \A q \in Sector : flash'[q].store \in {"Full", "Using"} => q # s /\ flash'[q] = flash[q]
  BY <1>2
<1>7. \A p, q \in Sector : p < q /\ q < c /\ flash'[p].store = "Full" => flash'[q].store = "Full"
  <2> SUFFICES ASSUME NEW p \in Sector, NEW q \in Sector, p < q, q < c, flash'[p].store = "Full"
               PROVE  flash'[q].store = "Full"
    OBVIOUS
  <2>1. p # s /\ flash[p].store = "Full"
    BY <1>6
  <2>2. q # s
    BY <1>5, <2>1
  <2> QED BY <1>2, <2>1, <2>2 DEF Cleaned
<1>8. flash'[c].store = "Full" => c = N - 1
  BY <1>6 DEF Cleaned
<1>9. \A q \in Sector : q < c => flash'[q].store # "Using"
  BY <1>6 DEF Cleaned
<1> QED BY <1>4, <1>7, <1>8, <1>9 DEF Cleaned

\* The three writes of format_sector.
LEMMA FormatWriteRing ==
  ASSUME TsIInv, RingOK, pc \in FormatLabels, NEW ok \in BOOLEAN, NEW image,
         Program(call.sec, image, ok), ruined' = ruined, oldest' = oldest,
         ok => /\ Committed(image) = {} /\ image.store \in {"Unused", "Empty"}
               /\ IF call.op = "Append"
                  THEN \/ call' = call /\ pc' \in {"FmtStatus", "FmtMagic"}
                       \/ pc' = "SetUsing" /\ cur' = read_header(flash', call.sec) /\ image.ok
                  ELSE call'.op # "Append" /\ pc' \in FormatLabels \cup {"CleanEnd"}
  PROVE  RingOK'
<1>1. flash \in Image /\ MediumType
  BY TypeParts DEF TsIInv
<1>2. CASE ok
  <2>1. ~failing /\ ~failing' /\ flash' = [flash EXCEPT ![call.sec] = image]
    BY <1>1, <1>2, Programmed
  <2>2. PICK s \in Sector : s = call.sec
    BY InFormat
  <2>3. SUFFICES ASSUME ~ruined PROVE RingOK'
    BY DEF RingOK
  <2>4. flash'[s] = image
    BY <1>1, <2>1, <2>2, OneSector
  <2>5. CASE call.op = "Append"
    <3>1. Formatting
      BY <2>5 DEF Formatting
    <3>2. /\ oldest = NextSector(s)
          /\ \A t \in Sector : t # s => flash'[t].ok /\ flash'[t].store = "Full"
          /\ Ordered(flash', s) /\ Cleaned(flash', s)
          /\ image.ok => Ring(flash', s) /\ BeginsAt(flash', s, oldest)
      BY <1>2, <2>1, <2>2, <2>3, <3>1, FormatRingStep
    <3>3. Remains(flash')
      BY <3>2 DEF Remains
    <3>4. CASE call' = call /\ pc' \in {"FmtStatus", "FmtMagic"}
      <4>1. FormatRing'
        BY <2>2, <3>2, <3>4 DEF FormatRing
      <4>2. Formatting' /\ pc' \notin AppendLabels \cup {"Idle"}
        BY <2>5, <3>4 DEF Formatting, FormatLabels, AppendLabels, EndLabels, FirstLabels, RecordLabels
      <4> QED BY <3>3, <4>1, <4>2 DEF RingOK
    <3>5. CASE pc' = "SetUsing" /\ cur' = read_header(flash', call.sec) /\ image.ok
      <4>1. cur'.ok /\ cur'.sec = s /\ flash'[s].ok
        BY <2>2, <2>4, <3>5 DEF read_header
      <4>2. Ring(flash', s) /\ BeginsAt(flash', s, oldest)
        BY <3>2, <3>5
      <4>3. RingAgrees'
        BY <3>5, <4>1, <4>2 DEF RingAgrees
      <4> QED BY <3>3, <3>5, <4>3 DEF RingOK, Formatting, FormatLabels
    <3> QED BY <1>2, <2>5, <3>4, <3>5
  <2>6. CASE call.op # "Append"
    <3>1. PICK c \in Sector : Cleaned(flash, c)
      BY <2>1, <2>3, <2>6 DEF RingOK, Formatting
    <3>2. Cleaned(flash', c)
      BY <1>2, <2>1, <2>2, <2>6, <3>1, CleanRingStep
    <3>3. call'.op # "Append" /\ pc' \in FormatLabels \cup {"CleanEnd"}
      BY <1>2, <2>6
    <3>4. pc' \notin AppendLabels \cup {"Idle"}
      BY <3>3 DEF FormatLabels, AppendLabels, EndLabels, FirstLabels, RecordLabels
    <3> QED BY <3>2, <3>3, <3>4 DEF RingOK, Remains, Formatting
  <2> QED BY <2>5, <2>6
<1>3. CASE ~ok
  BY <1>1, <1>3, Programmed, Unchanged, RingAlone
<1> QED BY <1>2, <1>3

LEMMA FmtEraseRing ==
  ASSUME TsIInv, RingOK, NEW ok \in BOOLEAN, FmtErase(ok)
  PROVE  RingOK'
<1>1. pc \in FormatLabels /\ Program(call.sec, Erased, ok) /\ ruined' = ruined /\ oldest' = oldest
  BY DEF FmtErase, FormatLabels, client, ram
<1>2. Committed(Erased) = {} /\ Erased.store = "Unused" /\ ~Erased.ok
  BY DEF Erased, Committed
<1>3. ok => call' = call /\ pc' = "FmtStatus"
  BY DEF FmtErase, Goto
<1> QED BY <1>1, <1>2, <1>3, FormatWriteRing DEF FormatLabels

LEMMA FmtStatusRing ==
  ASSUME TsIInv, RingOK, NEW ok \in BOOLEAN, FmtStatus(ok)
  PROVE  RingOK'
<1>1. PICK image : image = [flash[call.sec] EXCEPT !.store = "Empty"]
  OBVIOUS
<1>2. /\ pc \in FormatLabels /\ Program(call.sec, image, ok) /\ MediumType
      /\ ruined' = ruined /\ oldest' = oldest
  BY <1>1, TypeParts DEF TsIInv, FmtStatus, FormatLabels, client, ram
<1>3. ASSUME ok PROVE Committed(image) = {} /\ image.store = "Empty"
  <2>1. ~failing
    BY <1>2, <1>3, Programmed
  <2>2. /\ flash[call.sec] \in SectorImage /\ SectorOK(flash[call.sec])
        /\ flash[call.sec].store = "Unused"
    BY <1>2, <2>1, InFormat DEF FmtStatus, FormatAgrees
  <2>3. Committed(flash[call.sec]) = {}
    BY <2>2, FreshTimes
  <2> QED BY <1>1, <2>2, <2>3 DEF SectorImage, Committed
<1>4. ok => call' = call /\ pc' = "FmtMagic"
  BY DEF FmtStatus, Goto
<1> QED BY <1>2, <1>3, <1>4, FormatWriteRing DEF FormatLabels

LEMMA FmtMagicRing ==
  ASSUME TsIInv, RingOK, NEW ok \in BOOLEAN, FmtMagic(ok)
  PROVE  RingOK'
<1>1. PICK image : image = [flash[call.sec] EXCEPT !.ok = TRUE]
  OBVIOUS
<1>2. /\ pc \in FormatLabels /\ Program(call.sec, image, ok) /\ MediumType
      /\ ruined' = ruined /\ oldest' = oldest
  BY <1>1, TypeParts DEF TsIInv, FmtMagic, FormatLabels, client
<1>3. ASSUME ok PROVE Committed(image) = {} /\ image.store = "Empty" /\ image.ok
  <2>1. ~failing
    BY <1>2, <1>3, Programmed
  <2>2. /\ flash[call.sec] \in SectorImage /\ SectorOK(flash[call.sec])
        /\ flash[call.sec].store = "Empty"
    BY <1>2, <2>1, InFormat DEF FmtMagic, FormatAgrees
  <2>3. Committed(flash[call.sec]) = {}
    BY <2>2, FreshTimes
  <2> QED BY <1>1, <2>2, <2>3 DEF SectorImage, Committed
<1>4. call \in Call
  BY <1>2, InFormat
<1>5. ASSUME ok, call.op = "Append" PROVE pc' = "SetUsing" /\ cur' = read_header(flash', call.sec)
  BY <1>5 DEF FmtMagic, FmtReturn, Goto
<1>6. ASSUME ok, call.op # "Append" PROVE call'.op # "Append" /\ pc' \in {"FmtErase", "CleanEnd"}
  BY <1>4, <1>6 DEF FmtMagic, FmtReturn, Call
<1> QED BY <1>2, <1>3, <1>5, <1>6, FormatWriteRing DEF FormatLabels

LEMMA CleanRing ==
  ASSUME TsIInv, RingOK, Clean
  PROVE  RingOK'
<1>1. /\ flash' = flash /\ failing' = failing /\ pc = "Idle" /\ pc' = "FmtErase" /\ call'.op = "Clean"
      /\ ruined' = ruined
  BY QuietType DEF Clean, CleanCall, NoCall, client
<1>2. SUFFICES ASSUME ~ruined PROVE RingOK'
  BY <1>1 DEF RingOK
<1>3. ASSUME ~failing PROVE \E c \in Sector : Cleaned(flash, c)
  <2>1. RingAgrees
    BY <1>1, <1>2, <1>3 DEF RingOK
  <2> QED BY <1>1, <2>1, RingCleaned DEF RingAgrees
<1> QED BY <1>1, <1>2, <1>3
        DEF RingOK, Formatting, FormatLabels, AppendLabels, EndLabels, FirstLabels, RecordLabels

LEMMA CleanEndRing ==
  ASSUME TsIInv, RingOK, CleanEnd
  PROVE  RingOK'
<1>1. /\ flash' = flash /\ failing' = failing /\ pc = "CleanEnd" /\ pc' = "Idle" /\ oldest' = 0
      /\ ruined' = ruined
      /\ cur' = IF call.op = "Open" THEN read_sector_info(flash, 0) ELSE read_header(flash, 0)
  BY QuietType DEF CleanEnd, Return, client
<1>2. CASE failing \/ ruined
  BY <1>1, <1>2, Unchanged, RingAlone DEF RingOK
<1>3. CASE ~failing /\ ~ruined
  <2>1. flash \in Image /\ \A t \in Sector : flash[t].store \in {"Unused", "Empty"} => Committed(flash[t]) = {}
    BY EmptyNone
  <2>2. \A s \in Sector : flash[s].store = "Empty" /\ flash[s].ok
    BY <1>1, <1>3 DEF TsIInv, MemoryOK, CallAgrees, FormatAgrees
  <2>3. 0 \in Sector /\ \A s \in Sector : ~(s < 0)
    BY Geometry DEF Sector
  <2>4. Ring(flash, 0)
    BY <2>1, <2>2, <2>3 DEF Ring, Ordered
  <2>5. BeginsAt(flash, 0, 0)
    BY <2>2, <2>3 DEF BeginsAt
  <2>6. cur'.sec = 0 /\ cur'.ok /\ cur'.status = "Empty"
    <3>1. CASE call.op = "Open"
      BY <1>1, <2>1, <2>2, <2>3, <3>1, InfoSector
    <3>2. CASE call.op # "Open"
      BY <1>1, <2>2, <2>3, <3>2 DEF read_header
    <3> QED BY <3>1, <3>2
  <2>7. RingAgrees'
    BY <1>1, <2>2, <2>3, <2>4, <2>5, <2>6 DEF RingAgrees
  <2> QED BY <1>1, <1>3, <2>7 DEF RingOK, Formatting, FormatLabels
<1> QED BY <1>2, <1>3

\* What the scan of init tells of a medium that passes it: the current sector is the first
\* one that is not full.
LEMMA FirstOpenIs ==
  ASSUME TsIInv, TimesOK, ~CheckFailed(flash), FirstOpen(flash) # NoAddr
  PROVE  LET f == FirstOpen(flash) IN
         /\ f \in Sector /\ flash[f].store \in {"Empty", "Using"}
         /\ \A s \in Sector : /\ flash[s].ok
                              /\ s # f => flash[s].store \in {"Empty", "Full"}
                              /\ s < f => flash[s].store = "Full"
<1> DEFINE S == Empties(flash) \cup Usings(flash)
<1>1. flash \in Image
  BY EmptyNone
<1>2. \A s \in Sector : flash[s].ok /\ flash[s].store \in {"Empty", "Using", "Full"}
  <2>1. \A s \in Sector : flash[s].store \in SectorStoreStatus
    BY <1>1, ImageFields
  <2> QED BY <2>1 DEF CheckFailed, TimesOK, HeaderOK, SectorStoreStatus
<1>3. S = {s \in Sector : flash[s].store \in {"Empty", "Using"}} /\ S \subseteq Nat
  BY <1>2 DEF Empties, Usings, Sector
<1> HIDE DEF S
<1>4. S # {} /\ FirstOpen(flash) = Least(S)
  BY DEF FirstOpen, S
<1>5. PICK f : f = FirstOpen(flash)
  OBVIOUS
<1>6. f \in S /\ \A s \in S : f <= s
  BY <1>3, <1>4, <1>5, LeastExists
<1>7. \A s \in Sector : s # f => flash[s].store # "Using"
  BY <1>2, <1>5 DEF CheckFailed, Usings
<1>8. \A s \in Sector : s < f => s \notin S
  BY <1>3, <1>6
<1>9. \A s \in Sector : s < f => flash[s].store = "Full"
  BY <1>2, <1>3, <1>8
<1> QED BY <1>2, <1>3, <1>5, <1>6, <1>7, <1>9

\* Then what remained is a ring.
LEMMA WholeRing ==
  ASSUME TsIInv, TimesOK, Remains(flash), Whole(flash)
  PROVE  /\ FirstOpen(flash) \in Sector /\ Ring(flash, FirstOpen(flash))
         /\ BeginsAt(flash, FirstOpen(flash), FindOldest(flash))
<1>1. PICK f : f = FirstOpen(flash)
  OBVIOUS
<1>2. /\ f \in Sector /\ flash[f].store \in {"Empty", "Using"}
      /\ \A s \in Sector : /\ flash[s].ok
                           /\ s # f => flash[s].store \in {"Empty", "Full"}
                           /\ s < f => flash[s].store = "Full"
  BY <1>1, FirstOpenIs DEF Whole
<1>3. \A s, t \in Sector : f < s /\ s < t /\ flash[s].store = "Full" => flash[t].store = "Full"
  <2> SUFFICES ASSUME NEW s \in Sector, NEW t \in Sector, f < s, s < t, flash[s].store = "Full"
               PROVE  flash[t].store = "Full"
    OBVIOUS
  <2>1. flash[t].store # "Empty"
    BY <1>1 DEF Whole, BrokenRing
  <2>2. t # f
    BY <1>2 DEF Sector
  <2> QED BY <1>2, <2>1, <2>2
<1>4. flash \in Image /\ \A t \in Sector : flash[t].store \in {"Unused", "Empty"} => Committed(flash[t]) = {}
  BY EmptyNone
<1>5. N \in Nat /\ \A s : s \in Sector <=> s \in 0 .. N-1
  BY Geometry DEF Sector
<1>6. Ordered(flash, f + 1)
  <2>1. PICK c \in Sector : Cleaned(flash, c)
    BY <1>2 DEF Remains, AllFull
  <2>2. CASE c = f
    BY <2>1, <2>2 DEF Cleaned
  <2>3. CASE f < c
    <3>1. flash[f].store = "Empty"
      BY <1>2, <2>1, <2>3 DEF Cleaned
    <3>2. ASSUME NEW s \in Sector, s < f PROVE FALSE
      <4>1. flash[s].store = "Full" /\ flash[f].store = "Full"
        BY <1>2, <2>1, <2>3, <3>2 DEF Cleaned
      <4> QED BY <3>1, <4>1
    <3>3. f = 0
      <4>1. ~(0 < f) /\ 0 \in Sector
        BY <3>2, Geometry
      <4> QED BY <1>2, <1>5, <4>1
    <3>4. ASSUME NEW p \in Sector, NEW q \in Sector, Committed(flash[p]) # {}, Committed(flash[q]) # {},
                 Earlier(f + 1, p, q)
          PROVE  Earlier(c + 1, p, q)
      <4>1. p # 0 /\ q # 0
        BY <1>4, <3>1, <3>3, <3>4
      <4>2. p < q /\ 0 < p
        BY <1>5, <3>3, <3>4, <4>1 DEF Earlier
      <4>3. flash[p].store = "Full"
        BY <1>2, <1>4, <3>3, <3>4, <4>1
      <4>4. ~(p <= c /\ c < q)
        <5> SUFFICES ASSUME p <= c, c < q PROVE FALSE
          OBVIOUS
        <5>1. c # N - 1 /\ c # f
          BY <1>5, <2>3
        <5>2. flash[c].store = "Empty"
          BY <1>2, <2>1, <5>1 DEF Cleaned
        <5>3. p # c
          BY <4>3, <5>2
        <5>4. f < p /\ p < c
          BY <1>5, <3>3, <4>2, <5>3
        <5> QED BY <1>3, <4>3, <5>2, <5>4
      <4> QED BY <1>5, <4>2, <4>4 DEF Earlier
    <3> QED BY <2>1, <3>4, OrderedMoved DEF Cleaned
  <2>4. CASE c < f
    <3>1. flash[c].store = "Full" /\ c = N - 1
      BY <1>2, <2>1, <2>4 DEF Cleaned
    <3> QED BY <1>2, <1>5, <2>4, <3>1
  <2> QED BY <1>2, <1>5, <2>2, <2>3, <2>4
<1>7. Ring(flash, f)
  BY <1>2, <1>3, <1>6 DEF Ring
<1>8. BeginsAt(flash, f, FindOldest(flash))
  <2> DEFINE FullBehind(g) == \A t \in Sector : g < t => flash[t].store = "Full"
  <2>1. PICK old : old = FindOldest(flash)
    OBVIOUS
  <2>2. ASSUME NEW g \in Sector, old = NextSector(g), f <= g, flash[g].store = "Empty" \/ g = f,
               FullBehind(g)
        PROVE  BeginsAt(flash, f, old)
    <3>1. old = IF g = N-1 THEN 0 ELSE g + 1
      BY <1>5, <2>2, Geometry DEF NextSector
    <3>2. old \in Sector /\ (old = 0 \/ f < old)
      BY <1>2, <1>5, <2>2, <3>1
    <3>3. ASSUME NEW t \in Sector, f < t, t <= g PROVE flash[t].store # "Full"
      <4>1. flash[g].store = "Empty"
        BY <1>2, <1>5, <2>2, <3>3
      <4>2. CASE t = g
        BY <4>1, <4>2
      <4>3. CASE t # g
        BY <1>3, <1>5, <3>3, <4>1, <4>3
      <4> QED BY <4>2, <4>3
    <3>4. \A t \in Sector : f < t => ((old # 0 /\ old <= t) <=> ~(t <= g))
      BY <1>5, <2>2, <3>1
    <3>5. \A t \in Sector : ~(t <= g) => flash[t].store = "Full"
      BY <1>5, <2>2
    <3> QED BY <3>2, <3>3, <3>4, <3>5 DEF BeginsAt
  <2>3. CASE Empties(flash) # {}
    <3>1. PICK g : g = Greatest(Empties(flash))
      OBVIOUS
    <3>2. Empties(flash) \subseteq 0 .. N /\ N \in Nat
      BY <1>5 DEF Empties
    <3>3. g \in Empties(flash) /\ \A t \in Empties(flash) : t <= g
      BY <2>3, <3>1, <3>2, GreatestExists
    <3>4. g \in Sector /\ flash[g].store = "Empty" /\ old = NextSector(g)
      BY <2>1, <2>3, <3>1, <3>3 DEF Empties, FindOldest
    <3>5. f <= g
      <4>1. ~(g < f)
        BY <1>2, <3>4
      <4> QED BY <1>2, <1>5, <3>4, <4>1
    <3>6. FullBehind(g)
      <4> SUFFICES ASSUME NEW t \in Sector, g < t PROVE flash[t].store = "Full"
        OBVIOUS
      <4>1. t \notin Empties(flash) /\ t # f
        BY <1>2, <1>5, <3>3, <3>4, <3>5
      <4> QED BY <1>2, <4>1 DEF Empties
    <3> HIDE DEF FullBehind
    <3> QED BY <2>1, <2>2, <3>4, <3>5, <3>6
  <2>4. CASE Empties(flash) = {}
    <3>1. old = NextSector(f) /\ f # NoAddr
      BY <1>1, <2>1, <2>4 DEF FindOldest, Whole
    <3>2. FullBehind(f)
      <4> SUFFICES ASSUME NEW t \in Sector, f < t PROVE flash[t].store = "Full"
        OBVIOUS
      <4>1. t \notin Empties(flash) /\ t # f
        BY <1>2, <1>5, <2>4
      <4> QED BY <1>2, <4>1 DEF Empties
    <3>3. f <= f
      BY <1>2, <1>5
    <3> HIDE DEF FullBehind
    <3> QED BY <1>2, <2>1, <2>2, <3>1, <3>2, <3>3
  <2> QED BY <2>1, <2>3, <2>4
<1> QED BY <1>1, <1>2, <1>7, <1>8

LEMMA OpenRing ==
  ASSUME TsIInv, TimesOK, RingOK, NEW strict \in BOOLEAN, Open(strict)
  PROVE  RingOK'
<1>1. flash' = flash /\ failing' = failing /\ pc = "Off"
  BY QuietType DEF Open
<1>2. CASE ~CheckFailed(flash) /\ Opened /\ Return("Ok")
  <2>1. SUFFICES ASSUME ~ruined' PROVE RingOK'
    BY DEF RingOK
  <2>2. ~ruined /\ FirstOpen(flash) # NoAddr /\ ~BrokenRing(flash)
    BY <1>2, <2>1 DEF Opened
  <2>3. Whole(flash) /\ Remains(flash) /\ flash \in Image
    BY <1>2, <2>2, EmptyNone DEF Whole, RingOK
  <2>4. PICK f : f = FirstOpen(flash)
    OBVIOUS
  <2>5. f \in Sector /\ Ring(flash, f) /\ BeginsAt(flash, f, oldest')
    BY <1>2, <2>3, <2>4, WholeRing DEF Opened
  <2>6. flash[f].ok /\ flash[f].store \in {"Empty", "Using"}
    BY <1>2, <2>2, <2>4, FirstOpenIs
  <2>7. cur'.sec = f /\ cur'.ok /\ cur'.status = flash[f].store
    <3>1. cur' = read_sector_info(flash, f)
      BY <1>2, <2>4 DEF Opened
    <3> QED BY <2>3, <2>5, <2>6, <3>1, InfoSector
  <2>8. RingAgrees'
    BY <1>1, <2>5, <2>6, <2>7 DEF RingAgrees
  <2>9. pc' = "Idle"
    BY <1>2 DEF Return
  <2> QED BY <1>1, <2>3, <2>8, <2>9 DEF RingOK, Formatting, FormatLabels
<1>3. CASE ruined' = ruined /\ pc' = pc
  BY <1>1, <1>3, Unchanged, RingAlone
<1>4. CASE CheckFailed(flash) /\ CleanCall("Open") /\ ruined' = ruined
  <2>1. pc' = "FmtErase" /\ call'.op = "Open"
    BY <1>4 DEF CleanCall, NoCall
  <2>2. ~AllFull(flash)
    BY <1>4 DEF AllFull, CheckFailed, Usings
  <2> QED BY <1>1, <1>4, <2>1, <2>2
          DEF RingOK, Remains, Formatting, FormatLabels, AppendLabels, EndLabels, FirstLabels, RecordLabels
<1> QED BY <1>2, <1>3, <1>4 DEF Open

LEMMA RingNext ==
  ASSUME TsIInv, TimesOK, RingOK, [Next]_vars
  PROVE  RingOK'
<1>1. ASSUME NEW len \in Lens, AppendNow(len) \/ AppendAgain(len) PROVE RingOK'
  <2>1. clock \in Int /\ \A t \in NextTimes : t \in Int
    BY TypeParts, TimesAssumption DEF TsIInv, ClientType, NextTimes
  <2> QED BY <1>1, <2>1, AppendRing DEF AppendNow, AppendAgain
<1>2. CASE Client
  <2>1. ASSUME NEW s \in Sector, NEW st \in Marks, NEW ok \in BOOLEAN, NEW j \in Committed(flash[s]),
               SetStatus(s, j, st, ok)
        PROVE  RingOK'
    <3>1. Silent /\ MediumType
      BY <2>1, SetStatusTimes, TypeParts DEF TsIInv
    <3>2. PICK image : Program(s, image, ok)
      BY <2>1 DEF SetStatus
    <3>3. ~failing' => ~failing
      BY <3>1, <3>2, Programmed
    <3> QED BY <2>1, <3>1, <3>3, IdleRing DEF SetStatus, Return, ram
  <2>2. CASE SetRollover
    <3>1. flash' = flash /\ failing' = failing
      BY <2>2, QuietType DEF SetRollover
    <3> QED BY <2>2, <3>1, Unchanged, IdleRing DEF SetRollover, Return, client
  <2>3. CASE OpenPanics
    BY <2>3, QuietType, Unchanged, RingAlone DEF OpenPanics, client
  <2>4. CASE Close
    BY <2>4, Unchanged, RingAlone DEF Close, Reset, client
  <2> QED BY <1>1, <1>2, <2>1, <2>2, <2>3, <2>4, OpenRing, CleanRing DEF Client
<1>3. CASE Step
  <2>1. ASSUME NEW ok \in BOOLEAN,
               \/ EndPre(ok) \/ EndData(ok) \/ EndWrite(ok) \/ SetStart(ok)
               \/ TslPre(ok) \/ TslIdx(ok) \/ TslData(ok)
        PROVE  RingOK'
    BY <2>1, EndTimes, SetStartTimes, TslPreTimes, TslIdxTimes, TslDataTimes, QuietSteps
  <2> QED BY <1>3, <2>1, SetFullRing, SetUsingRing, TslWriteRing, FmtEraseRing, FmtStatusRing,
             FmtMagicRing, CleanEndRing DEF Step
<1>4. CASE PowerLoss
  BY <1>4, Unchanged, RingAlone DEF PowerLoss, Reset, client
<1>5. CASE UNCHANGED vars
  <2>1. /\ flash' = flash /\ cur' = cur /\ oldest' = oldest /\ pc' = pc /\ call' = call
        /\ failing' = failing /\ ruined' = ruined
    BY <1>5 DEF vars
  <2>2. RingAgrees' = RingAgrees /\ Formatting' = Formatting /\ FormatRing' = FormatRing
    BY <2>1 DEF RingAgrees, Formatting, FormatRing
  <2> QED BY <2>1, <2>2 DEF RingOK
<1> QED BY <1>2, <1>3, <1>4, <1>5 DEF Next

LEMMA RingInit ==
  ASSUME Init
  PROVE  RingOK
<1>1. \A s \in Sector : Committed(flash[s]) = {} /\ flash[s].store = "Unused"
  BY DEF Init, Erased, Committed
<1>2. pc = "Off"
  BY DEF Init, Closed
<1>3. 0 \in Sector
  BY Geometry
<1>4. Cleaned(flash, 0)
  BY <1>1, <1>3 DEF Cleaned, Ordered
<1> QED BY <1>2, <1>3, <1>4
        DEF RingOK, Remains, Formatting, AppendLabels, EndLabels, FirstLabels, RecordLabels, FormatLabels

----------------------------------------------------------------------------
(* TimesIncrease *)

\* The distance of a sector from the beginning of the ring.
Rank(s, b) == (s - b + N) % N

LEMMA RankEarlier ==
  ASSUME NEW s \in Sector, NEW t \in Sector, NEW b \in Sector
  PROVE  /\ Rank(s, b) \in Nat
         /\ Rank(s, b) < Rank(t, b) => Earlier(b, s, t)
         /\ Rank(s, b) = Rank(t, b) => s = t
<1>1. N \in Nat /\ N > 0 /\ s \in 0 .. N-1 /\ t \in 0 .. N-1 /\ b \in 0 .. N-1
  BY Geometry DEF Sector
<1>2. Rank(s, b) = IF s >= b THEN s - b ELSE s - b + N
  BY <1>1 DEF Rank
<1>3. Rank(t, b) = IF t >= b THEN t - b ELSE t - b + N
  BY <1>1 DEF Rank
<1> QED BY <1>1, <1>2, <1>3 DEF Earlier

\* Numbers of two digits.
LEMMA Digits ==
  ASSUME NEW m \in Nat, NEW r \in Nat, NEW q \in Nat, NEW j \in 1 .. m-1, NEW k \in 1 .. m-1,
         r * m + j < q * m + k
  PROVE  r < q \/ (r = q /\ j < k)
<1>1. CASE r < q
  BY <1>1
<1>2. CASE r = q
  BY <1>2
<1>3. CASE q < r
  <2>1. PICK d \in Nat : r = q + 1 + d
    <3>1. r - q - 1 \in Nat /\ r = q + 1 + (r - q - 1)
      BY <1>3
    <3> QED BY <3>1
  <2>2. d * m \in Nat /\ q * m \in Nat
    OBVIOUS
  <2>3. r * m = q * m + m + d * m
    BY <2>1
  <2> QED BY <2>2, <2>3
<1> QED BY <1>1, <1>2, <1>3

\* Around the ring, from its first sector on, times increase.
LEMMA RingTimes ==
  ASSUME TsIInv, TimesOK, NEW c \in Sector, Ring(flash, c), NEW b, BeginsAt(flash, c, b)
  PROVE  Ordered(flash, b)
<1>1. \A t \in Sector : flash[t].store \in {"Unused", "Empty"} => Committed(flash[t]) = {}
  BY EmptyNone
<1>2. N \in Nat /\ c \in 0 .. N-1 /\ b \in 0 .. N-1 /\ (b = 0 \/ c < b)
  BY Geometry DEF Sector, BeginsAt
<1>3. ASSUME NEW t \in Sector, Committed(flash[t]) # {} PROVE t <= c \/ (b # 0 /\ b <= t)
  <2>1. SUFFICES ASSUME c < t PROVE b # 0 /\ b <= t
    BY <1>2 DEF Sector
  <2>2. t # c
    BY <1>2, <2>1
  <2>3. flash[t].store = "Full"
    BY <1>1, <1>3, <2>2 DEF Ring
  <2> QED BY <2>1, <2>3 DEF BeginsAt
<1>4. ASSUME NEW s \in Sector, NEW t \in Sector, Committed(flash[s]) # {}, Committed(flash[t]) # {},
             Earlier(b, s, t)
      PROVE  Earlier(c + 1, s, t)
  <2>1. s \in 0 .. N-1 /\ t \in 0 .. N-1
    BY DEF Sector
  <2>2. (s <= c \/ (b # 0 /\ b <= s)) /\ (t <= c \/ (b # 0 /\ b <= t))
    BY <1>3, <1>4
  <2> QED BY <1>2, <1>4, <2>1, <2>2 DEF Earlier
<1>5. Ordered(flash, c + 1)
  BY DEF Ring
<1> QED BY <1>4, <1>5, OrderedMoved

LEMMA TimesAlong ==
  ASSUME TsIInv, TimesOK, RingOK
  PROVE  TimesIncrease
<1>1. SUFFICES ASSUME pc \in {"Off", "Idle"}, ~failing, ~ruined, Base # NoAddr,
                      NEW p \in Records, NEW q \in Records,
                      Rank(p[1], Base) * SecSize + p[2] < Rank(q[1], Base) * SecSize + q[2]
               PROVE  Rec(p).time < Rec(q).time
  BY DEF TimesIncrease, Rank
<1>2. PICK c \in Sector : Ring(flash, c) /\ BeginsAt(flash, c, Base)
  <2>1. CASE pc = "Idle"
    <3>1. RingAgrees /\ Base = oldest
      BY <1>1, <2>1 DEF RingOK, Base
    <3> QED BY <3>1 DEF RingAgrees
  <2>2. CASE pc = "Off"
    <3>1. Whole(flash) /\ Base = FindOldest(flash)
      BY <1>1, <2>2 DEF Base
    <3> QED BY <1>1, <3>1, WholeRing DEF RingOK
  <2> QED BY <1>1, <2>1, <2>2
<1>3. PICK b : b = Base
  OBVIOUS
<1>4. b \in Sector /\ Ordered(flash, b)
  BY <1>2, <1>3, RingTimes DEF BeginsAt
<1>5. ASSUME NEW x \in Records
      PROVE  /\ x[1] \in Sector /\ x[2] \in Committed(flash[x[1]])
             /\ x[2] \in 1 .. SecSize-1
  <2>1. PICK s, j : s \in Sector /\ j \in Committed(flash[s]) /\ x = <<s, j>>
    BY <1>5 DEF Records
  <2>2. flash[s] \in SectorImage /\ SectorApart(flash[s])
    BY <2>1, EmptyNone DEF TsIInv, MediumOK, SectorOK, Image
  <2>3. j \in 1 .. Len(flash[s].tsls) /\ Len(flash[s].tsls) \in Nat /\ flash[s].tsls \in Seq(IndexRecord)
    BY <2>1, <2>2, CommittedType
  <2>4. flash[s].tsls[j] \in IndexRecord
    BY <2>3
  <2>5. IndexEnd(Len(flash[s].tsls)) <= LogAddr(flash[s].tsls[j]) /\ flash[s].tsls[j].top <= SecSize
    BY <2>2, <2>3 DEF SectorApart
  <2>6. j < SecSize
    <3>1. PICK n, r : n = Len(flash[s].tsls) /\ r = flash[s].tsls[j]
      OBVIOUS
    <3>2. /\ n \in Nat /\ j \in 1 .. n /\ r.top \in Int /\ r.len \in Nat /\ r.top <= SecSize
          /\ 32 + 16 * n <= r.top - r.len
      BY <2>3, <2>4, <2>5, <3>1, Geometry DEF IndexRecord, IndexEnd, LogAddr
    <3> QED BY <3>2, Geometry
  <2> QED BY <2>1, <2>3, <2>6, Geometry
<1>6. PICK s, t, j, k :
         /\ s \in Sector /\ t \in Sector /\ p[1] = s /\ q[1] = t /\ p[2] = j /\ q[2] = k
         /\ j \in Committed(flash[s]) /\ k \in Committed(flash[t])
         /\ j \in 1 .. SecSize-1 /\ k \in 1 .. SecSize-1
  BY <1>5
<1>7. Rank(s, b) * SecSize + j < Rank(t, b) * SecSize + k
  BY <1>1, <1>3, <1>6
<1>8. Rank(s, b) \in Nat /\ Rank(t, b) \in Nat /\ SecSize \in Nat
  BY <1>4, <1>6, RankEarlier, Geometry
<1>9. Rank(s, b) < Rank(t, b) \/ (Rank(s, b) = Rank(t, b) /\ j < k)
  <2>1. PICK x, y : x = Rank(s, b) /\ y = Rank(t, b)
    OBVIOUS
  <2>2. x \in Nat /\ y \in Nat /\ SecSize \in Nat /\ j \in 1 .. SecSize-1 /\ k \in 1 .. SecSize-1
    BY <1>6, <1>8, <2>1
  <2>3. x * SecSize + j < y * SecSize + k
    BY <1>7, <2>1
  <2>4. x < y \/ (x = y /\ j < k)
    BY ONLY <2>2, <2>3, Digits, Zenon
  <2> QED BY <2>1, <2>4
<1>10. CASE Rank(s, b) < Rank(t, b)
  <2>1. Earlier(b, s, t)
    BY <1>4, <1>6, <1>10, RankEarlier
  <2> QED BY <1>4, <1>6, <2>1 DEF Ordered, Rec
<1>11. CASE Rank(s, b) = Rank(t, b) /\ j < k
  <2>1. s = t
    BY <1>4, <1>6, <1>11, RankEarlier
  <2> QED BY <1>6, <1>11, <2>1 DEF TimesOK, SectorOrdered, Rec
<1> QED BY <1>9, <1>10, <1>11

----------------------------------------------------------------------------
(* MemoryAgain: what is read of a sector *)

\* Of a header that is there.
LEMMA HeaderOf ==
  ASSUME NEW img \in Image, NEW s \in Sector, img[s].ok
  PROVE  LET h == read_header(img, s) IN
         /\ h \in SecInfo /\ h.sec = s /\ h.ok /\ h.status = img[s].store /\ h.start = img[s].start
         /\ h.endTime = EndOf(img[s]).time /\ h.endIdx = EndOf(img[s]).idx
         /\ \A e \in 1 .. 2 : h.stat[e] = img[s].ends[e].stat
         /\ h.remain = SecSize - SECTOR_HDR_DATA_SIZE /\ h.idx = 0 /\ h.data = SecSize
<1>1. read_header(img, s) \in SecInfo
  BY HeaderType
<1> QED BY <1>1 DEF read_header

\* Descriptions with the same fields are the same.
LEMMA SameInfo ==
  ASSUME NEW c \in SecInfo, NEW d \in SecInfo,
         c.sec = d.sec, c.ok = d.ok, c.status = d.status, c.start = d.start, c.endTime = d.endTime,
         c.endIdx = d.endIdx, \A e \in 1 .. 2 : c.stat[e] = d.stat[e], c.remain = d.remain,
         c.idx = d.idx, c.data = d.data
  PROVE  c = d
<1>1. c.stat = d.stat
  BY DEF SecInfo
<1> QED BY <1>1 DEF SecInfo

\* A sector without records, or one that is not in use, is read like its header.
LEMMA InfoOfHeader ==
  ASSUME NEW img \in Image, NEW s \in Sector, img[s].store # "Using" \/ img[s].tsls = <<>>
  PROVE  read_sector_info(img, s) = read_header(img, s)
<1>1. s # NoAddr
  BY NoAddrAssumption
<1>2. CASE ~img[s].ok
  BY <1>1, <1>2 DEF read_sector_info, read_header, Blank
<1>3. CASE img[s].ok
  <2>1. read_header(img, s).status = img[s].store
    BY <1>3, HeaderOf
  <2> QED BY <1>1, <2>1 DEF read_sector_info
<1> QED BY <1>2, <1>3

\* A state that is given to a record leaves what is read of the sector.
SameFields(old, new) ==
    /\ new.ok = old.ok /\ new.store = old.store /\ new.start = old.start /\ new.ends = old.ends
    /\ Len(new.tsls) = Len(old.tsls)
    /\ \A k \in 1 .. Len(new.tsls) :
          /\ Torn(new.tsls[k]) <=> Torn(old.tsls[k])
          /\ new.tsls[k].time = old.tsls[k].time /\ new.tsls[k].len = old.tsls[k].len
          /\ new.tsls[k].top = old.tsls[k].top

LEMMA SameHeader ==
  ASSUME NEW a \in Image, NEW b \in Image, NEW s \in Sector, a[s].ok = b[s].ok, a[s].store = b[s].store,
         a[s].start = b[s].start, a[s].ends = b[s].ends
  PROVE  read_header(a, s) = read_header(b, s)
<1>1. CASE ~a[s].ok
  BY <1>1 DEF read_header
<1>2. CASE a[s].ok
  <2>1. PICK c, d : c = read_header(a, s) /\ d = read_header(b, s)
    OBVIOUS
  <2>2. EndOf(a[s]) = EndOf(b[s])
    BY DEF EndOf
  <2>3. /\ c \in SecInfo /\ c.sec = s /\ c.ok = TRUE /\ c.status = a[s].store /\ c.start = a[s].start
        /\ c.endTime = EndOf(a[s]).time /\ c.endIdx = EndOf(a[s]).idx
        /\ \A e \in 1 .. 2 : c.stat[e] = a[s].ends[e].stat
        /\ c.remain = SecSize - SECTOR_HDR_DATA_SIZE /\ c.idx = 0 /\ c.data = SecSize
    BY <1>2, <2>1, HeaderOf DEF SecInfo
  <2>4. /\ d \in SecInfo /\ d.sec = s /\ d.ok = TRUE /\ d.status = b[s].store /\ d.start = b[s].start
        /\ d.endTime = EndOf(b[s]).time /\ d.endIdx = EndOf(b[s]).idx
        /\ \A e \in 1 .. 2 : d.stat[e] = b[s].ends[e].stat
        /\ d.remain = SecSize - SECTOR_HDR_DATA_SIZE /\ d.idx = 0 /\ d.data = SecSize
    BY <1>2, <2>1, HeaderOf DEF SecInfo
  <2>5. /\ c.sec = d.sec /\ c.ok = d.ok /\ c.status = d.status /\ c.start = d.start
        /\ c.endTime = d.endTime /\ c.endIdx = d.endIdx /\ c.remain = d.remain /\ c.idx = d.idx
        /\ c.data = d.data /\ \A e \in 1 .. 2 : c.stat[e] = d.stat[e]
    BY <2>2, <2>3, <2>4
  <2>6. c = d
    BY <2>3, <2>4, <2>5, SameInfo
  <2> QED BY <2>1, <2>6
<1> QED BY <1>1, <1>2

LEMMA SameRead ==
  ASSUME NEW a \in Image, NEW b \in Image, NEW s \in Sector, SameFields(a[s], b[s])
  PROVE  /\ read_header(a, s) = read_header(b, s)
         /\ read_sector_info(a, s) = read_sector_info(b, s)
<1>1. read_header(a, s) = read_header(b, s)
  BY SameHeader DEF SameFields
<1>2. /\ a[s] \in SectorImage /\ b[s] \in SectorImage /\ a[s].tsls \in Seq(IndexRecord)
      /\ b[s].tsls \in Seq(IndexRecord) /\ Len(a[s].tsls) = Len(b[s].tsls)
      /\ a[s].store = b[s].store /\ a[s].ok = b[s].ok
  BY DEF Image, SectorImage, SameFields
<1>3. a[s].tsls = <<>> <=> b[s].tsls = <<>>
  BY <1>2
<1>4. CASE a[s].store # "Using" \/ a[s].tsls = <<>> \/ ~a[s].ok
  <2>1. CASE a[s].store # "Using" \/ a[s].tsls = <<>>
    BY <1>1, <1>2, <1>3, <2>1, InfoOfHeader
  <2>2. CASE ~a[s].ok
    <3>1. ~read_header(a, s).ok /\ ~read_header(b, s).ok
      BY <1>2, <2>2 DEF read_header, Blank
    <3> QED BY <1>1, <3>1 DEF read_sector_info
  <2> QED BY <1>4, <2>1, <2>2
<1>5. CASE ~(a[s].store # "Using" \/ a[s].tsls = <<>> \/ ~a[s].ok)
  <2> DEFINE n == Len(a[s].tsls)
             x == a[s].tsls
             y == b[s].tsls
  <2>1. /\ n \in Nat \ {0} /\ n \in 1 .. n /\ Len(y) = n
        /\ \A k \in 1 .. n : /\ Torn(x[k]) <=> Torn(y[k])
                             /\ x[k].time = y[k].time /\ x[k].len = y[k].len /\ x[k].top = y[k].top
    BY <1>2, <1>5 DEF SameFields
  <2>2. Committed(a[s]) = Committed(b[s])
    BY <1>2, <2>1 DEF Committed
  <2>3. EmptyData(a[s]) = EmptyData(b[s])
    <3>1. LastRecord(a[s]) = x[n] /\ LastRecord(b[s]) = y[n]
      BY <2>1 DEF LastRecord
    <3>2. x # <<>> /\ y # <<>>
      BY <1>3, <1>5
    <3> HIDE DEF n, x, y
    <3>3. ReadLen(x[n]) = ReadLen(y[n]) /\ x[n].top = y[n].top
      BY <2>1 DEF ReadLen
    <3> QED BY <3>1, <3>2, <3>3 DEF EmptyData, x, y
  <2>4. Free(a[s]) = Free(b[s])
    BY <1>2, <2>3 DEF Free
  <2>5. EndOf(a[s]) = EndOf(b[s])
    BY DEF EndOf, SameFields
  <2>6. Committed(a[s]) # {} => x[Greatest(Committed(a[s]))].time = y[Greatest(Committed(a[s]))].time
    <3>1. Committed(a[s]) \subseteq 0 .. n /\ Committed(a[s]) \subseteq 1 .. n
      BY <1>2 DEF Committed
    <3>2. Committed(a[s]) # {} => Greatest(Committed(a[s])) \in 1 .. n
      BY <2>1, <3>1, GreatestExists
    <3> QED BY <2>1, <3>2
  <2>7. PICK c, d : c = read_sector_info(a, s) /\ d = read_sector_info(b, s)
    OBVIOUS
  <2>8. c \in SecInfo /\ d \in SecInfo
    BY <2>7, SecInfoType
  <2>9. LET h == read_sector_info(a, s) IN
        /\ h.sec = s /\ h.ok /\ h.status = "Using" /\ h.start = a[s].start
        /\ h.endIdx = n /\ h.idx = n /\ h.remain = Free(a[s]) /\ h.data = EmptyData(a[s])
        /\ h.endTime = EndTimeOf(a[s])
        /\ \A e \in 1 .. 2 : h.stat[e] = a[s].ends[e].stat
    BY <1>5, InfoOfRecords
  <2>10. b[s].ok /\ b[s].store = "Using" /\ b[s].tsls # <<>>
    BY <1>2, <1>3, <1>5
  <2>11. LET h == read_sector_info(b, s) IN
         /\ h.sec = s /\ h.ok /\ h.status = "Using" /\ h.start = b[s].start
         /\ h.endIdx = n /\ h.idx = n /\ h.remain = Free(b[s]) /\ h.data = EmptyData(b[s])
         /\ h.endTime = EndTimeOf(b[s])
         /\ \A e \in 1 .. 2 : h.stat[e] = b[s].ends[e].stat
    BY <2>1, <2>10, InfoOfRecords
  <2>12. a[s].start = b[s].start /\ a[s].ends = b[s].ends
    BY DEF SameFields
  <2>17. EndTimeOf(a[s]) = EndTimeOf(b[s])
    BY <2>2, <2>5, <2>6 DEF EndTimeOf
  <2> HIDE DEF n, x, y
  <2>13. /\ c.sec = d.sec /\ c.status = d.status /\ c.start = d.start
         /\ c.endIdx = d.endIdx /\ c.remain = d.remain /\ c.idx = d.idx /\ c.data = d.data
         /\ c.endTime = d.endTime
    BY <2>3, <2>4, <2>7, <2>9, <2>11, <2>12, <2>17
  <2>14. c.ok = d.ok
    BY <2>7, <2>8, <2>9, <2>11 DEF SecInfo
  <2>15. \A e \in 1 .. 2 : c.stat[e] = d.stat[e]
    BY <2>7, <2>9, <2>11, <2>12
  <2>16. c = d
    BY <2>8, <2>13, <2>14, <2>15, SameInfo
  <2> QED BY <1>1, <2>7, <2>16
<1> QED BY <1>4, <1>5

----------------------------------------------------------------------------
(* MemoryAgain: the steps *)

LEMMA NothingRead ==
  ASSUME failing' \/ ruined' \/ pc' \in EndLabels \cup FormatLabels \cup {"CleanEnd", "Off"}
  PROVE  MemoryAgain'
BY DEF MemoryAgain, ReadAgain, EndLabels, FormatLabels, RecordLabels

\* The last time that is found depends on headers alone.
LEMMA SameLastTime ==
  ASSUME NEW a, NEW b, \A s \in Sector : read_header(a, s) = read_header(b, s),
         NEW c, c.sec \in Sector, NEW old
  PROVE  FindLastTime(a, c, old) = FindLastTime(b, c, old)
BY LastSectorType DEF FindLastTime

\* The sector that is taken reads like its header.
LEMMA TakenMemory ==
  ASSUME flash' \in Image, NEW s \in Sector, pc' = "SetUsing", cur' = read_header(flash', s),
         flash'[s].ok, flash'[s].store = "Empty"
  PROVE  MemoryAgain'
<1>1. cur'.sec = s
  BY DEF read_header
<1>2. read_sector_info(flash', s) = read_header(flash', s)
  BY InfoOfHeader
<1> QED BY <1>1, <1>2 DEF MemoryAgain, ReadAgain, RecordLabels

LEMMA SetFullMemory ==
  ASSUME TsIInv, flash' \in Image, NEW ok \in BOOLEAN, SetFull(ok)
  PROVE  MemoryAgain'
<1>1. flash \in Image /\ MediumType /\ pc \in AppendLabels
  BY TypeParts DEF TsIInv, SetFull, AppendLabels, EndLabels
<1>2. PICK image : Program(cur.sec, image, ok)
  BY DEF SetFull
<1>3. CASE ~ok
  BY <1>1, <1>2, <1>3, Programmed, NothingRead
<1>4. CASE ok
  <2>1. ~failing /\ flash' = [flash EXCEPT ![cur.sec] = image]
    BY <1>1, <1>2, <1>4, Programmed
  <2>2. cur.sec \in Sector /\ cur \in SecInfo
    BY <1>1, <2>1, InSector
  <2>3. CASE TakeSector(NextSector(cur.sec))
    <3>1. PICK s \in Sector : s = NextSector(cur.sec) /\ s # cur.sec
      BY <2>2, NextSectorType
    <3>2. flash'[s] = flash[s]
      BY <1>1, <2>1, <2>2, <3>1, OneSector
    <3>3. CASE read_header(flash, s).status = "Empty"
      <4>1. cur' = read_header(flash, s) /\ pc' = "SetUsing"
        BY <2>3, <3>1, <3>3 DEF TakeSector, Goto
      <4>2. flash[s].ok /\ flash[s].store = "Empty"
        BY <1>1, <3>3, HeaderEmptyOK
      <4>3. read_header(flash, s) = read_header(flash', s)
        BY <1>1, <3>2, SameHeader
      <4> QED BY <3>2, <4>1, <4>2, <4>3, TakenMemory
    <3>4. CASE read_header(flash, s).status # "Empty"
      <4>1. pc' = "FmtErase"
        BY <2>3, <3>1, <3>4 DEF TakeSector
      <4> QED BY <4>1, NothingRead DEF FormatLabels
    <3> QED BY <3>3, <3>4
  <2>4. CASE cur' = [cur EXCEPT !.status = "Full"] /\ Return("SavedFull")
    BY <2>2, <2>4 DEF MemoryAgain, ReadAgain, RecordLabels, Return, SecInfo
  <2> QED BY <1>4, <2>3, <2>4 DEF SetFull
<1> QED BY <1>3, <1>4

LEMMA SetUsingMemory ==
  ASSUME TsIInv, flash' \in Image, MemoryAgain, NEW ok \in BOOLEAN, SetUsing(ok)
  PROVE  MemoryAgain'
<1> DEFINE c == cur.sec
           image == [flash[c] EXCEPT !.store = "Using"]
<1>1. /\ flash \in Image /\ MediumType /\ pc = "SetUsing" /\ pc \in AppendLabels /\ ruined' = ruined
  BY TypeParts DEF TsIInv, SetUsing, AppendLabels, FirstLabels, client
<1>2. Program(c, image, ok) /\ cur' = [cur EXCEPT !.status = "Using", !.start = call.time]
  BY DEF SetUsing
<1>3. CASE ~ok \/ ruined
  BY <1>1, <1>2, <1>3, Programmed, NothingRead
<1>4. CASE ok /\ ~ruined
  <2>20. Then(ok, "SetStart")
    BY DEF SetUsing
  <2>21. pc' = "SetStart" /\ call' = call
    BY <1>4, <2>20 DEF Then, Goto
  <2>22. ~failing /\ flash' = [flash EXCEPT ![c] = image]
    BY <1>1, <1>2, <1>4, Programmed
  <2>1. ~failing /\ flash' = [flash EXCEPT ![c] = image] /\ pc' = "SetStart" /\ call' = call
    BY <2>21, <2>22
  <2>2. /\ c \in Sector /\ flash[c] \in SectorImage /\ SectorOK(flash[c]) /\ cur \in SecInfo
        /\ call.time \in Int
    BY <1>1, <2>1, InSector
  <2>3. cur = read_sector_info(flash, c) /\ cur.ok /\ flash[c].store = "Empty"
    BY <1>1, <1>4, <2>1 DEF MemoryAgain, ReadAgain, TsIInv, MemoryOK, FirstAgrees, Agrees, FirstLabels
  <2>4. flash[c].ok /\ flash[c].tsls = <<>>
    BY <1>1, <2>2, <2>3, InfoSector, FreshTimes
  <2>5. /\ image.ok = flash[c].ok /\ image.store = "Using" /\ image.start = flash[c].start
        /\ image.ends = flash[c].ends /\ image.tsls = flash[c].tsls
    BY <2>2 DEF SectorImage
  <2> HIDE DEF image, c
  <2>6. flash'[c] = image
    BY <1>1, <2>1, <2>2, OneSector
  <2>7. cur = read_header(flash, c)
    BY <1>1, <2>2, <2>3, InfoOfHeader
  <2>8. /\ cur.sec = c /\ cur.ok /\ cur.start = flash[c].start
        /\ cur.endTime = EndOf(flash[c]).time /\ cur.endIdx = EndOf(flash[c]).idx
        /\ \A e \in 1 .. 2 : cur.stat[e] = flash[c].ends[e].stat
        /\ cur.remain = SecSize - SECTOR_HDR_DATA_SIZE /\ cur.idx = 0 /\ cur.data = SecSize
    BY <1>1, <2>2, <2>4, <2>7, HeaderOf
  <2>9. PICK w : w = read_sector_info(flash', c)
    OBVIOUS
  <2>10. w = read_header(flash', c) /\ w \in SecInfo
    BY <2>2, <2>4, <2>5, <2>6, <2>9, InfoOfHeader, HeaderType
  <2>11. EndOf(image) = EndOf(flash[c])
    BY <2>5 DEF EndOf
  <2>12. /\ w.sec = c /\ w.ok /\ w.status = "Using"
         /\ w.endTime = EndOf(flash[c]).time /\ w.endIdx = EndOf(flash[c]).idx
         /\ \A e \in 1 .. 2 : w.stat[e] = flash[c].ends[e].stat
         /\ w.remain = SecSize - SECTOR_HDR_DATA_SIZE /\ w.idx = 0 /\ w.data = SecSize
    <3>1. flash'[c].ok /\ flash'[c].store = "Using" /\ EndOf(flash'[c]) = EndOf(flash[c])
          /\ flash'[c].ends = flash[c].ends
      BY <2>4, <2>5, <2>6, <2>11
    <3>2. LET h == read_header(flash', c) IN
          /\ h.sec = c /\ h.ok /\ h.status = flash'[c].store
          /\ h.endTime = EndOf(flash'[c]).time /\ h.endIdx = EndOf(flash'[c]).idx
          /\ \A e \in 1 .. 2 : h.stat[e] = flash'[c].ends[e].stat
          /\ h.remain = SecSize - SECTOR_HDR_DATA_SIZE /\ h.idx = 0 /\ h.data = SecSize
      BY <2>2, <3>1, HeaderOf
    <3> QED BY <2>10, <3>1, <3>2
  <2>13. PICK x, y : x = [cur EXCEPT !.status = "Using", !.start = call.time]
                     /\ y = [w EXCEPT !.start = call.time]
    OBVIOUS
  <2>14. /\ x \in SecInfo /\ x.sec = cur.sec /\ x.ok = cur.ok /\ x.status = "Using"
         /\ x.start = call.time /\ x.endTime = cur.endTime /\ x.endIdx = cur.endIdx /\ x.stat = cur.stat
         /\ x.remain = cur.remain /\ x.idx = cur.idx /\ x.data = cur.data
    BY <2>2, <2>13 DEF SecInfo, SectorStoreStatus
  <2>15. /\ y \in SecInfo /\ y.sec = w.sec /\ y.ok = w.ok /\ y.status = w.status
         /\ y.start = call.time /\ y.endTime = w.endTime /\ y.endIdx = w.endIdx /\ y.stat = w.stat
         /\ y.remain = w.remain /\ y.idx = w.idx /\ y.data = w.data
    BY <2>2, <2>10, <2>13 DEF SecInfo
  <2>16. cur.ok = w.ok
    BY <2>2, <2>8, <2>10, <2>12 DEF SecInfo
  <2>17. x = y
    <3>1. /\ x.sec = y.sec /\ x.ok = y.ok /\ x.status = y.status /\ x.start = y.start
          /\ x.endTime = y.endTime /\ x.endIdx = y.endIdx /\ x.remain = y.remain /\ x.idx = y.idx
          /\ x.data = y.data /\ \A e \in 1 .. 2 : x.stat[e] = y.stat[e]
      BY <2>8, <2>12, <2>14, <2>15, <2>16
    <3>2. x \in SecInfo /\ y \in SecInfo
      BY <2>14, <2>15
    <3> QED BY <3>1, <3>2, SameInfo
  <2>18. cur' = [read_sector_info(flash', c) EXCEPT !.start = call.time] /\ cur'.sec = c
    BY <1>2, <2>8, <2>9, <2>13, <2>14, <2>17
  <2>19. flash'[c].tsls = <<>>
    BY <2>4, <2>5, <2>6
  <2> QED BY <2>1, <2>18, <2>19 DEF MemoryAgain, ReadAgain, RecordLabels
<1> QED BY <1>3, <1>4

LEMMA SetStartMemory ==
  ASSUME TsIInv, flash' \in Image, MemoryAgain, NEW ok \in BOOLEAN, SetStart(ok)
  PROVE  MemoryAgain'
<1> DEFINE c == cur.sec
           image == [flash[c] EXCEPT !.start = call.time]
<1>1. /\ flash \in Image /\ MediumType /\ pc = "SetStart" /\ pc \in AppendLabels /\ ruined' = ruined
      /\ cur' = cur
  BY TypeParts DEF TsIInv, SetStart, AppendLabels, FirstLabels, client, ram
<1>2. Program(c, image, ok)
  BY DEF SetStart
<1>3. CASE ~ok \/ ruined
  BY <1>1, <1>2, <1>3, Programmed, NothingRead
<1>4. CASE ok /\ ~ruined
  <2>1. ~failing /\ flash' = [flash EXCEPT ![c] = image] /\ pc' = "TslPre"
    BY <1>1, <1>2, <1>4, Programmed DEF SetStart, Then, Goto
  <2>2. /\ c \in Sector /\ flash[c] \in SectorImage /\ cur \in SecInfo /\ call.time \in Int
    BY <1>1, <2>1, InSector
  <2>3. /\ cur = [read_sector_info(flash, c) EXCEPT !.start = call.time] /\ cur.ok
        /\ flash[c].tsls = <<>> /\ cur.status = "Using"
    BY <1>1, <1>4, <2>1 DEF MemoryAgain, ReadAgain, TsIInv, MemoryOK, FirstAgrees, FirstLabels
  <2>4. PICK w : w = read_header(flash, c)
    OBVIOUS
  <2>5. read_sector_info(flash, c) = w /\ w \in SecInfo
    BY <1>1, <2>2, <2>3, <2>4, InfoOfHeader, HeaderType
  <2>6. /\ cur.sec = w.sec /\ cur.ok = w.ok /\ cur.status = w.status /\ cur.start = call.time
        /\ cur.endTime = w.endTime /\ cur.endIdx = w.endIdx /\ cur.stat = w.stat
        /\ cur.remain = w.remain /\ cur.idx = w.idx /\ cur.data = w.data
    BY <2>3, <2>5 DEF SecInfo
  <2>7. flash[c].ok
    BY <2>3, <2>4, <2>6 DEF read_header, Blank
  <2>8. /\ w.sec = c /\ w.status = flash[c].store
        /\ w.endTime = EndOf(flash[c]).time /\ w.endIdx = EndOf(flash[c]).idx
        /\ \A e \in 1 .. 2 : w.stat[e] = flash[c].ends[e].stat
        /\ w.remain = SecSize - SECTOR_HDR_DATA_SIZE /\ w.idx = 0 /\ w.data = SecSize
    BY <1>1, <2>2, <2>4, <2>7, HeaderOf
  <2>9. /\ image.ok = flash[c].ok /\ image.store = flash[c].store /\ image.start = call.time
        /\ image.ends = flash[c].ends /\ image.tsls = flash[c].tsls
    BY <2>2 DEF SectorImage
  <2> HIDE DEF image, c
  <2>10. flash'[c] = image
    BY <1>1, <2>1, <2>2, OneSector
  <2>11. PICK v : v = read_sector_info(flash', c)
    OBVIOUS
  <2>12. v = read_header(flash', c) /\ v \in SecInfo
    BY <2>2, <2>3, <2>9, <2>10, <2>11, InfoOfHeader, HeaderType
  <2>13. EndOf(image) = EndOf(flash[c])
    BY <2>9 DEF EndOf
  <2>14. /\ v.sec = c /\ v.ok /\ v.status = flash[c].store /\ v.start = call.time
         /\ v.endTime = EndOf(flash[c]).time /\ v.endIdx = EndOf(flash[c]).idx
         /\ \A e \in 1 .. 2 : v.stat[e] = flash[c].ends[e].stat
         /\ v.remain = SecSize - SECTOR_HDR_DATA_SIZE /\ v.idx = 0 /\ v.data = SecSize
    <3>1. /\ flash'[c].ok /\ flash'[c].store = flash[c].store /\ EndOf(flash'[c]) = EndOf(flash[c])
          /\ flash'[c].ends = flash[c].ends /\ flash'[c].start = call.time
      BY <2>7, <2>9, <2>10, <2>13
    <3>2. LET h == read_header(flash', c) IN
          /\ h.sec = c /\ h.ok /\ h.status = flash'[c].store /\ h.start = flash'[c].start
          /\ h.endTime = EndOf(flash'[c]).time /\ h.endIdx = EndOf(flash'[c]).idx
          /\ \A e \in 1 .. 2 : h.stat[e] = flash'[c].ends[e].stat
          /\ h.remain = SecSize - SECTOR_HDR_DATA_SIZE /\ h.idx = 0 /\ h.data = SecSize
      BY <2>2, <3>1, HeaderOf
    <3> QED BY <2>12, <3>1, <3>2
  <2>15. cur.ok = v.ok
    BY <2>2, <2>3, <2>12, <2>14 DEF SecInfo
  <2>16. cur = v
    <3>1. /\ cur.sec = v.sec /\ cur.ok = v.ok /\ cur.status = v.status /\ cur.start = v.start
          /\ cur.endTime = v.endTime /\ cur.endIdx = v.endIdx /\ cur.remain = v.remain
          /\ cur.idx = v.idx /\ cur.data = v.data /\ \A e \in 1 .. 2 : cur.stat[e] = v.stat[e]
      BY <2>6, <2>8, <2>14, <2>15
    <3> QED BY <2>2, <2>12, <3>1, SameInfo
  <2>17. cur' = read_sector_info(flash', cur'.sec)
    BY <1>1, <2>11, <2>14, <2>16
  <2> QED BY <2>1, <2>17 DEF MemoryAgain, ReadAgain, RecordLabels
<1> QED BY <1>3, <1>4

\* The image without the last records of a sector.
LEMMA WithoutType ==
  ASSUME NEW img \in Image, NEW s \in Sector, NEW n \in 0 .. Len(img[s].tsls)
  PROVE  LET W == Without(img, s, n) IN
         /\ W \in Image /\ W[s].ok = img[s].ok /\ W[s].store = img[s].store
         /\ W[s].start = img[s].start /\ W[s].ends = img[s].ends
         /\ Len(W[s].tsls) = n /\ \A k \in 1 .. n : W[s].tsls[k] = img[s].tsls[k]
<1> DEFINE q == SubSeq(img[s].tsls, 1, n)
           sec == [img[s] EXCEPT !.tsls = q]
<1>1. img[s] \in SectorImage /\ img[s].tsls \in Seq(IndexRecord) /\ Len(img[s].tsls) \in Nat
  BY DEF Image, SectorImage
<1>2. q \in Seq(IndexRecord) /\ Len(q) = n /\ \A k \in 1 .. n : q[k] = img[s].tsls[k]
  BY <1>1
<1> HIDE DEF q
<1>3. /\ sec \in SectorImage /\ sec.ok = img[s].ok /\ sec.store = img[s].store
      /\ sec.start = img[s].start /\ sec.ends = img[s].ends /\ sec.tsls = q
  BY <1>1, <1>2 DEF SectorImage
<1>4. Without(img, s, n) = [img EXCEPT ![s] = sec]
  BY DEF Without, q
<1> HIDE DEF sec
<1>5. Without(img, s, n) \in Image /\ Without(img, s, n)[s] = sec
  BY <1>3, <1>4 DEF Image
<1> QED BY <1>2, <1>3, <1>5

LEMMA TslPreMemory ==
  ASSUME TsIInv, flash' \in Image, MemoryAgain, NEW ok \in BOOLEAN, TslPre(ok)
  PROVE  MemoryAgain'
<1> DEFINE c == cur.sec
           image == [flash[c] EXCEPT !.tsls = Append(@, Reserved)]
           n == Len(flash[c].tsls)
<1>1. /\ flash \in Image /\ MediumType /\ pc = "TslPre" /\ pc \in AppendLabels /\ ruined' = ruined
      /\ cur' = cur
  BY TypeParts DEF TsIInv, TslPre, AppendLabels, FirstLabels, client, ram
<1>2. Program(c, image, ok) /\ Then(ok, "TslIdx")
  BY DEF TslPre
<1>3. CASE ~ok \/ ruined
  BY <1>1, <1>2, <1>3, Programmed, NothingRead
<1>4. CASE ok /\ ~ruined
  <2>1. ~failing /\ flash' = [flash EXCEPT ![c] = image]
    BY <1>1, <1>2, <1>4, Programmed
  <2>2. pc' = "TslIdx"
    BY <1>2, <1>4 DEF Then, Goto
  <2>3. /\ c \in Sector /\ flash[c] \in SectorImage /\ cur \in SecInfo
        /\ flash[c].tsls \in Seq(IndexRecord) /\ n \in Nat
    BY <1>1, <2>1, InSector DEF SectorImage
  <2>4. cur = read_sector_info(flash, c)
    BY <1>1, <1>4, <2>1 DEF MemoryAgain, ReadAgain
  <2>5. Reserved \in IndexRecord
    BY <2>3 DEF Reserved, Torn, IndexRecord, TslStatus, ErasedTime, SecInfo
  <2>6. /\ image.ok = flash[c].ok /\ image.store = flash[c].store /\ image.start = flash[c].start
        /\ image.ends = flash[c].ends /\ image.tsls = Append(flash[c].tsls, Reserved)
    BY <2>3 DEF SectorImage
  <2>7. Len(image.tsls) = n + 1 /\ \A k \in 1 .. n : image.tsls[k] = flash[c].tsls[k]
    BY <2>3, <2>5, <2>6
  <2>8. flash'[c] = image
    BY <1>1, <2>1, <2>3, OneSector
  <2> HIDE DEF image, n, c
  <2>9. /\ n \in 0 .. Len(flash'[c].tsls) /\ Len(flash'[c].tsls) - 1 = n
    BY <2>3, <2>7, <2>8
  <2>10. LET W == Without(flash', c, n) IN
         /\ W \in Image /\ W[c].ok = flash'[c].ok /\ W[c].store = flash'[c].store
         /\ W[c].start = flash'[c].start /\ W[c].ends = flash'[c].ends
         /\ Len(W[c].tsls) = n /\ \A k \in 1 .. n : W[c].tsls[k] = flash'[c].tsls[k]
    BY <2>3, <2>9, WithoutType
  <2>11. SameFields(flash[c], Without(flash', c, n)[c])
    BY <2>6, <2>7, <2>8, <2>10 DEF SameFields, n
  <2>12. read_sector_info(flash, c) = read_sector_info(Without(flash', c, n), c)
    BY <1>1, <2>3, <2>10, <2>11, SameRead
  <2>13. /\ cur'.sec = c /\ Len(flash'[cur'.sec].tsls) - 1 = n
         /\ cur' = read_sector_info(Without(flash', cur'.sec, n), cur'.sec)
    BY <1>1, <2>4, <2>9, <2>12 DEF c
  <2> QED BY <2>2, <2>13 DEF MemoryAgain, ReadAgain, RecordLabels
<1> QED BY <1>3, <1>4

\* A write to the last record, which memory does not know of.
LEMMA RecordMemory ==
  ASSUME TsIInv, flash' \in Image, MemoryAgain, NEW ok \in BOOLEAN, pc \in RecordLabels, NEW r,
         NEW label \in {"TslData", "TslWrite"},
         Program(cur.sec, WithLast(r), ok), Then(ok, label), UNCHANGED <<ram, client>>
  PROVE  MemoryAgain'
<1> DEFINE c == cur.sec
           image == WithLast(r)
           n == Len(flash[c].tsls)
<1>1. flash \in Image /\ MediumType /\ ruined' = ruined /\ cur' = cur
  BY TypeParts DEF TsIInv, client, ram
<1>2. CASE ~ok \/ ruined
  BY <1>1, <1>2, Programmed, NothingRead
<1>3. CASE ok /\ ~ruined
  <2>1. ~failing /\ flash' = [flash EXCEPT ![c] = image]
    BY <1>1, <1>3, Programmed
  <2>2. pc' = label /\ label \in RecordLabels
    BY <1>3 DEF Then, Goto, RecordLabels
  <2>3. c \in Sector /\ flash[c] \in SectorImage /\ flash[c].tsls \in Seq(IndexRecord)
    BY <2>1, AtRecord DEF SectorImage
  <2>4. cur = read_sector_info(Without(flash, c, n - 1), c)
    BY <1>3, <2>1 DEF MemoryAgain, ReadAgain
  <2>5. /\ n \in Nat \ {0} /\ image.tsls = [flash[c].tsls EXCEPT ![n] = r]
        /\ image.store = flash[c].store /\ image.ok = flash[c].ok
        /\ image.ends = flash[c].ends /\ image.start = flash[c].start /\ Len(image.tsls) = n
    BY <2>1, LastWritten
  <2>6. flash'[c] = image
    BY <1>1, <2>1, <2>3, OneSector
  <2> HIDE DEF image, n, c
  <2>7. \A k \in 1 .. n-1 : image.tsls[k] = flash[c].tsls[k]
    BY <2>3, <2>5 DEF n
  <2>8. n - 1 \in 0 .. Len(flash[c].tsls) /\ n - 1 \in 0 .. Len(flash'[c].tsls)
    BY <2>5, <2>6 DEF n
  <2> DEFINE m == n - 1
  <2> HIDE DEF m
  <2>9. LET W == Without(flash, c, m) IN
         /\ W \in Image /\ W[c].ok = flash[c].ok /\ W[c].store = flash[c].store
         /\ W[c].start = flash[c].start /\ W[c].ends = flash[c].ends
         /\ Len(W[c].tsls) = m /\ \A k \in 1 .. m : W[c].tsls[k] = flash[c].tsls[k]
    BY <1>1, <2>3, <2>8, WithoutType DEF m
  <2>10. LET W == Without(flash', c, m) IN
         /\ W \in Image /\ W[c].ok = flash'[c].ok /\ W[c].store = flash'[c].store
         /\ W[c].start = flash'[c].start /\ W[c].ends = flash'[c].ends
         /\ Len(W[c].tsls) = m /\ \A k \in 1 .. m : W[c].tsls[k] = flash'[c].tsls[k]
    BY <2>3, <2>8, WithoutType DEF m
  <2>11. \A k \in 1 .. m : flash'[c].tsls[k] = flash[c].tsls[k]
    BY <2>6, <2>7 DEF m
  <2>12. SameFields(Without(flash, c, m)[c], Without(flash', c, m)[c])
    BY <2>5, <2>6, <2>9, <2>10, <2>11 DEF SameFields
  <2>13. read_sector_info(Without(flash, c, m), c) = read_sector_info(Without(flash', c, m), c)
    BY <2>3, <2>9, <2>10, <2>12, SameRead
  <2>14. /\ cur'.sec = c /\ Len(flash'[cur'.sec].tsls) - 1 = m
         /\ cur' = read_sector_info(Without(flash', cur'.sec, m), cur'.sec)
    BY <1>1, <2>4, <2>5, <2>6, <2>13 DEF c, m
  <2> QED BY <2>2, <2>14 DEF MemoryAgain, ReadAgain, RecordLabels
<1> QED BY <1>2, <1>3

\* A sector in use, with records or without.
LEMMA InfoOfUsing ==
  ASSUME NEW img \in Image, NEW s \in Sector, img[s].ok, img[s].store = "Using"
  PROVE  LET c == read_sector_info(img, s) IN
         /\ c \in SecInfo /\ c.sec = s /\ c.ok /\ c.status = "Using" /\ c.start = img[s].start
         /\ c.idx = Len(img[s].tsls) /\ c.remain = Free(img[s]) /\ c.data = EmptyData(img[s])
         /\ \A e \in 1 .. 2 : c.stat[e] = img[s].ends[e].stat
<1>1. read_sector_info(img, s) \in SecInfo
  BY SecInfoType
<1>2. CASE img[s].tsls = <<>>
  <2>1. read_sector_info(img, s) = read_header(img, s)
    BY <1>2, InfoOfHeader
  <2>2. LET h == read_header(img, s) IN
        /\ h.sec = s /\ h.ok /\ h.status = img[s].store /\ h.start = img[s].start
        /\ \A e \in 1 .. 2 : h.stat[e] = img[s].ends[e].stat
        /\ h.remain = SecSize - SECTOR_HDR_DATA_SIZE /\ h.idx = 0 /\ h.data = SecSize
    BY HeaderOf
  <2>3. Len(img[s].tsls) = 0 /\ EmptyData(img[s]) = SecSize
    BY <1>2 DEF EmptyData
  <2>4. Free(img[s]) = SecSize - SECTOR_HDR_DATA_SIZE
    BY <2>3, Geometry DEF Free, SECTOR_HDR_DATA_SIZE, LOG_IDX_DATA_SIZE
  <2> QED BY <1>1, <2>1, <2>2, <2>3, <2>4
<1>3. CASE img[s].tsls # <<>>
  BY <1>1, <1>3, InfoOfRecords
<1> QED BY <1>2, <1>3

\* What is read of the sector after the commit of its last record.
LEMMA CommitRead ==
  ASSUME TsIInv, TimesOK, MemoryAgain, ~ruined, TslWrite(TRUE), flash' \in Image
  PROVE  LET v == read_sector_info(flash', cur.sec)
             n == Len(flash[cur.sec].tsls)
         IN  /\ v \in SecInfo /\ v.sec = cur.sec /\ v.ok = cur.ok /\ v.status = "Using"
             /\ v.start = cur.start /\ \A e \in 1 .. 2 : v.stat[e] = cur.stat[e]
             /\ cur.idx = n - 1 /\ n \in Nat \ {0} /\ v.idx = n /\ v.endIdx = n
             /\ v.endTime = call.time
             /\ v.data = cur.data - call.len /\ v.remain = cur.remain - Cost(call.len)
<1> DEFINE c == cur.sec
           r == [Record EXCEPT !.status = "Write"]
           image == WithLast(r)
           n == Len(flash[c].tsls)
           m == n - 1
<1>1. flash \in Image /\ MediumType /\ pc = "TslWrite" /\ pc \in RecordLabels
  BY TypeParts DEF TsIInv, TslWrite, RecordLabels
<1>2. Program(c, image, TRUE)
  BY DEF TslWrite
<1>3. ~failing /\ flash' = [flash EXCEPT ![c] = image]
  BY <1>1, <1>2, Programmed
<1>4. /\ c \in Sector /\ cur \in SecInfo /\ flash[c] \in SectorImage /\ RecordAgrees
      /\ Record \in IndexRecord /\ call.len \in Nat
  BY <1>1, <1>3, AtRecord
<1>5. /\ cur.ok /\ flash[c].store = "Using" /\ RoomEnough /\ Record.top = cur.data
      /\ Record.len = call.len
  BY <1>1, <1>4 DEF RecordAgrees
<1>6. r.top = cur.data /\ r.len = call.len /\ ~Torn(r)
  BY <1>4, <1>5 DEF IndexRecord, Torn
<1> HIDE DEF r
<1>7. /\ n \in Nat \ {0} /\ image.store = flash[c].store /\ image.ok = flash[c].ok
      /\ image.ends = flash[c].ends /\ image.start = flash[c].start /\ Len(image.tsls) = n
      /\ image.tsls[n] = r
  BY <1>1, <1>3, LastWritten
<1>8. flash'[c] = image
  BY <1>1, <1>3, <1>4, OneSector
<1>9. cur = read_sector_info(Without(flash, c, m), c)
  BY <1>1, <1>3 DEF MemoryAgain, ReadAgain
<1>10. /\ Committed(flash'[c]) = Committed(flash[c]) \cup {n}
       /\ flash'[c].tsls[n].time = call.time /\ \A j \in Committed(flash[c]) : j \in 1 .. n-1
  BY Commits
<1> HIDE DEF c, image, n
<1>11. m \in 0 .. Len(flash[c].tsls) /\ m \in Nat /\ n = m + 1
  BY <1>7 DEF n
<1> HIDE DEF m
<1>12. LET W == Without(flash, c, m) IN
       /\ W \in Image /\ W[c].ok = flash[c].ok /\ W[c].store = flash[c].store
       /\ W[c].start = flash[c].start /\ W[c].ends = flash[c].ends
       /\ Len(W[c].tsls) = m
  BY <1>1, <1>4, <1>11, WithoutType
<1>13. flash[c].ok
  <2>1. cur.ok = Without(flash, c, m)[c].ok
    BY <1>4, <1>9, <1>12, InfoSector
  <2> QED BY <1>5, <1>12, <2>1
<1>14. LET W == Without(flash, c, m) IN
       /\ cur.sec = c /\ cur.ok /\ cur.status = "Using" /\ cur.start = W[c].start
       /\ cur.idx = Len(W[c].tsls) /\ cur.remain = Free(W[c]) /\ cur.data = EmptyData(W[c])
       /\ \A e \in 1 .. 2 : cur.stat[e] = W[c].ends[e].stat
  <2>1. LET W == Without(flash, c, m) IN W \in Image /\ W[c].ok /\ W[c].store = "Using"
    BY <1>5, <1>12, <1>13
  <2>2. PICK W \in Image : W = Without(flash, c, m) /\ W[c].ok /\ W[c].store = "Using"
    BY <2>1
  <2>3. cur = read_sector_info(W, c)
    BY <1>9, <2>2
  <2> QED BY <1>4, <2>2, <2>3, InfoOfUsing
<1>15. /\ cur.remain = LET room == cur.data - SECTOR_HDR_DATA_SIZE - LOG_IDX_DATA_SIZE * m
                       IN  IF room > 0 THEN room ELSE 0
  BY <1>12, <1>14 DEF Free
<1>16. flash'[c].ok /\ flash'[c].store = "Using" /\ flash'[c].tsls # <<>> /\ Len(flash'[c].tsls) = n
  <2>1. Len(flash'[c].tsls) # 0
    BY <1>7, <1>8
  <2> QED BY <1>5, <1>7, <1>8, <1>13, <2>1
<1>17. LET v == read_sector_info(flash', c) IN
       /\ v.sec = c /\ v.ok /\ v.status = "Using" /\ v.start = flash'[c].start
       /\ v.endIdx = n /\ v.idx = n
       /\ v.remain = Free(flash'[c]) /\ v.data = EmptyData(flash'[c])
       /\ v.endTime = EndTimeOf(flash'[c])
       /\ \A e \in 1 .. 2 : v.stat[e] = flash'[c].ends[e].stat
  BY <1>4, <1>16, InfoOfRecords
<1>18. Greatest(Committed(flash'[c])) = n
  <2> DEFINE C == Committed(flash'[c])
  <2>1. C \subseteq 0 .. n /\ n \in C /\ C # {}
    BY <1>7, <1>10
  <2> HIDE DEF C
  <2>2. Greatest(C) \in C /\ \A y \in C : y <= Greatest(C)
    BY <1>7, <2>1, GreatestExists
  <2>3. Greatest(C) \in 0 .. n /\ n <= Greatest(C)
    BY <2>1, <2>2
  <2> QED BY <1>7, <2>3 DEF C
<1>19. EmptyData(flash'[c]) = cur.data - call.len
  BY <1>6, <1>7, <1>8, <1>16 DEF EmptyData, LastRecord, ReadLen
<1>20. Free(flash'[c]) = cur.remain - Cost(call.len)
  <2>1. cur.data \in Int /\ cur.remain \in Int
    BY <1>4 DEF SecInfo
  <2>2. Free(flash'[c]) = LET room == cur.data - call.len - SECTOR_HDR_DATA_SIZE - LOG_IDX_DATA_SIZE * n
                          IN  IF room > 0 THEN room ELSE 0
    BY <1>16, <1>19 DEF Free
  <2>3. PICK d, r0, l : d = cur.data /\ r0 = cur.remain /\ l = call.len
    OBVIOUS
  <2>4. /\ d \in Int /\ l \in Nat /\ r0 >= 16 + l
        /\ r0 = IF d - 32 - 16 * m > 0 THEN d - 32 - 16 * m ELSE 0
    BY <1>4, <1>5, <1>15, <2>1, <2>3 DEF RoomEnough, Cost, SECTOR_HDR_DATA_SIZE, LOG_IDX_DATA_SIZE
  <2>5. Free(flash'[c]) = LET room == d - l - 32 - 16 * (m + 1) IN IF room > 0 THEN room ELSE 0
    BY <1>11, <2>2, <2>3 DEF SECTOR_HDR_DATA_SIZE, LOG_IDX_DATA_SIZE
  <2>6. Free(flash'[c]) = r0 - (16 + l)
    BY <1>11, <2>4, <2>5
  <2> QED BY <2>3, <2>6 DEF Cost, LOG_IDX_DATA_SIZE
<1>21. read_sector_info(flash', c) \in SecInfo
  BY <1>4, SecInfoType
<1>22. read_sector_info(flash', c).ok = cur.ok
  BY <1>4, <1>14, <1>17, <1>21 DEF SecInfo
<1>23. Committed(flash'[c]) # {}
  BY <1>10
<1>24. read_sector_info(flash', c).endTime = call.time
  BY <1>10, <1>17, <1>18, <1>23 DEF EndTimeOf
<1>25. /\ read_sector_info(flash', c).start = cur.start
       /\ \A e \in 1 .. 2 : read_sector_info(flash', c).stat[e] = cur.stat[e]
  BY <1>7, <1>8, <1>12, <1>14, <1>17
<1>26. cur.idx = n - 1
  BY <1>11, <1>12, <1>14
<1> QED BY <1>7, <1>14, <1>17, <1>19, <1>20, <1>21, <1>22, <1>24, <1>25, <1>26 DEF c, n

LEMMA TslWriteMemory ==
  ASSUME TsIInv, TimesOK, flash' \in Image, MemoryAgain, NEW ok \in BOOLEAN, TslWrite(ok)
  PROVE  MemoryAgain'
<1>1. flash \in Image /\ MediumType /\ ruined' = ruined /\ pc \in RecordLabels
  BY TypeParts DEF TsIInv, TslWrite, client, RecordLabels
<1>2. Program(cur.sec, WithLast([Record EXCEPT !.status = "Write"]), ok)
  BY DEF TslWrite
<1>3. CASE ~ok \/ ruined
  BY <1>1, <1>2, <1>3, Programmed, NothingRead
<1>4. CASE ok /\ ~ruined
  <2>1. ok = TRUE /\ TslWrite(TRUE)
    BY <1>4
  <2>2. PICK v, n : v = read_sector_info(flash', cur.sec) /\ n = Len(flash[cur.sec].tsls)
    OBVIOUS
  <2>3. /\ v \in SecInfo /\ v.sec = cur.sec /\ v.ok = cur.ok /\ v.status = "Using"
        /\ v.start = cur.start /\ \A e \in 1 .. 2 : v.stat[e] = cur.stat[e]
        /\ cur.idx = n - 1 /\ n \in Nat \ {0} /\ v.idx = n /\ v.endIdx = n
        /\ v.endTime = call.time
        /\ v.data = cur.data - call.len /\ v.remain = cur.remain - Cost(call.len)
    BY <1>4, <2>1, <2>2, CommitRead
  <2>4. ~failing
    BY <1>1, <1>2, <1>4, Programmed
  <2>5. cur \in SecInfo /\ call.len \in Nat /\ call.time \in Int /\ cur.status = "Using"
    BY <1>1, <2>4, AtRecord DEF RecordAgrees
  <2>6. cur' = WithRecord(cur) /\ lastTime' = call.time /\ pc' = "Idle"
    BY <2>1 DEF TslWrite, Return
  <2>7. /\ cur' \in SecInfo /\ cur'.sec = cur.sec /\ cur'.ok = cur.ok /\ cur'.status = "Using"
        /\ cur'.start = cur.start /\ cur'.stat = cur.stat
        /\ cur'.idx = cur.idx + 1 /\ cur'.endIdx = cur.idx + 1 /\ cur'.endTime = call.time
        /\ cur'.data = cur.data - call.len /\ cur'.remain = cur.remain - Cost(call.len)
    <3>1. PICK i, d, m, x : /\ i = cur.idx + 1 /\ d = cur.data - call.len
                            /\ m = cur.remain - Cost(call.len) /\ x = call.time
      OBVIOUS
    <3>2. i \in Nat /\ d \in Int /\ m \in Int /\ x \in Int
      BY <2>5, <3>1 DEF SecInfo, Cost, LOG_IDX_DATA_SIZE
    <3>3. cur' = [cur EXCEPT !.endIdx = i, !.endTime = x, !.idx = i, !.data = d, !.remain = m]
      BY <2>5, <2>6, <3>1 DEF WithRecord, SecInfo
    <3>4. /\ cur' \in SecInfo /\ cur'.sec = cur.sec /\ cur'.ok = cur.ok /\ cur'.status = "Using"
          /\ cur'.start = cur.start /\ cur'.stat = cur.stat
          /\ cur'.idx = i /\ cur'.endIdx = i /\ cur'.endTime = x /\ cur'.data = d /\ cur'.remain = m
      BY <2>5, <3>2, <3>3 DEF SecInfo
    <3> QED BY <3>1, <3>4
  <2>8. /\ cur'.sec = v.sec /\ cur'.ok = v.ok /\ cur'.status = v.status /\ cur'.start = v.start
        /\ cur'.endTime = v.endTime /\ cur'.endIdx = v.endIdx /\ cur'.remain = v.remain
        /\ cur'.idx = v.idx /\ cur'.data = v.data /\ \A e \in 1 .. 2 : cur'.stat[e] = v.stat[e]
    BY <2>3, <2>7
  <2>9. cur' = v
    BY <2>3, <2>7, <2>8, SameInfo
  <2>10. cur' = read_sector_info(flash', cur'.sec)
    BY <2>2, <2>3, <2>9
  <2>11. lastTime' = FindLastTime(flash', cur', oldest')
    BY <2>6, <2>7 DEF FindLastTime
  <2> QED BY <2>6, <2>10, <2>11 DEF MemoryAgain, ReadAgain, RecordLabels
<1> QED BY <1>3, <1>4

\* Nothing that is read changed: a step between two calls, or into an append.
LEMMA MemoryKept ==
  ASSUME MemoryAgain, flash \in Image, flash' \in Image, pc = "Idle",
         ~failing' /\ ~ruined' => ~failing /\ ~ruined,
         \A s \in Sector : SameFields(flash[s], flash'[s]),
         cur' = cur, lastTime' = lastTime, oldest' = oldest,
         ~failing /\ ~ruined => cur.sec \in Sector,
         \/ pc' = "Idle"
         \/ pc' \in {"SetUsing", "TslPre"} /\ cur.status \in {"Empty", "Using"}
         \/ pc' \in EndLabels
  PROVE  MemoryAgain'
<1>1. CASE failing' \/ ruined' \/ cur.status \notin {"Empty", "Using"} \/ pc' \in EndLabels
  BY <1>1 DEF MemoryAgain, ReadAgain, RecordLabels, EndLabels
<1>2. CASE ~(failing' \/ ruined' \/ cur.status \notin {"Empty", "Using"} \/ pc' \in EndLabels)
  <2>1. /\ cur.sec \in Sector /\ cur = read_sector_info(flash, cur.sec)
        /\ lastTime = FindLastTime(flash, cur, oldest)
    BY <1>2 DEF MemoryAgain, ReadAgain
  <2>2. \A s \in Sector : read_header(flash, s) = read_header(flash', s)
    BY SameRead
  <2>3. read_sector_info(flash, cur.sec) = read_sector_info(flash', cur.sec)
    BY <2>1, SameRead
  <2>4. FindLastTime(flash, cur, oldest) = FindLastTime(flash', cur, oldest)
    BY <2>1, <2>2, SameLastTime
  <2> QED BY <1>2, <2>1, <2>3, <2>4 DEF MemoryAgain, ReadAgain, RecordLabels
<1> QED BY <1>1, <1>2

LEMMA SameAll ==
  ASSUME flash' = flash PROVE \A s \in Sector : SameFields(flash[s], flash'[s])
BY DEF SameFields

LEMMA AppendMemory ==
  ASSUME TsIInv, flash' \in Image, RingOK, MemoryAgain, NEW len \in Lens, NEW t \in Int,
         AppendAt(len, t)
  PROVE  MemoryAgain'
<1>1. flash \in Image /\ RamType /\ MediumType
  BY TypeParts DEF TsIInv
<1>2. CASE TslAppend(len, t)
  <2>1. /\ flash' = flash /\ failing' = failing /\ cur' = cur /\ oldest' = oldest /\ pc = "Idle"
        /\ ruined' = ruined /\ lastTime' = lastTime
    BY <1>2, QuietType DEF TslAppend, ram
  <2>2. ~failing /\ ~ruined => cur.sec \in Sector
    BY <2>1 DEF RingOK, RingAgrees
  <2>3. \/ pc' = "Idle"
        \/ pc' \in {"SetUsing", "TslPre"} /\ cur.status \in {"Empty", "Using"}
        \/ pc' \in EndLabels
    BY <1>2 DEF TslAppend, Begin, Return, EndLabels
  <2> QED BY <1>1, <2>1, <2>2, <2>3, SameAll, MemoryKept
<1>3. CASE AppendPanics(len, t)
  BY <1>3, NothingRead DEF AppendPanics, Reset
<1>4. ASSUME NEW ok \in BOOLEAN, AppendNowhere(len, t, ok) PROVE MemoryAgain'
  <2>1. PICK image : Program(0, image, ok)
    BY <1>4 DEF AppendNowhere
  <2>2. pc = "Idle" /\ ~cur.ok /\ ruined' = ruined
    BY <1>4 DEF AppendNowhere
  <2>3. failing' = ~ok /\ (ok => ~failing)
    BY <1>1, <2>1, Programmed
  <2>4. ok => ruined
    BY <2>2, <2>3 DEF RingOK, RingAgrees
  <2> QED BY <2>2, <2>3, <2>4, NothingRead
<1> QED BY <1>2, <1>3, <1>4 DEF AppendAt

LEMMA SetStatusMemory ==
  ASSUME TsIInv, flash' \in Image, RingOK, MemoryAgain, NEW s \in Sector, NEW st \in Marks,
         NEW ok \in BOOLEAN, NEW j \in Committed(flash[s]), SetStatus(s, j, st, ok)
  PROVE  MemoryAgain'
<1>1. flash \in Image /\ MediumType
  BY TypeParts DEF TsIInv
<1>2. PICK r, image : /\ r = [flash[s].tsls[j] EXCEPT !.status = st]
                      /\ image = PutRecord(flash[s], j, r)
  OBVIOUS
<1>3. /\ Program(s, image, ok) /\ pc = "Idle" /\ pc' = "Idle" /\ cur' = cur
      /\ lastTime' = lastTime /\ oldest' = oldest /\ ruined' = ruined
  BY <1>2 DEF SetStatus, Return, ram, PutRecord
<1>4. SameFields(flash[s], image)
  BY <1>1, <1>2, MarkTimes DEF SameFields
<1>5. \A q \in Sector : SameFields(flash[q], flash'[q])
  <2>1. CASE ok
    <3>1. flash'[s] = image /\ \A q \in Sector : q # s => flash'[q] = flash[q]
      BY <1>1, <1>3, <2>1, Programmed, OneSector
    <3>2. \A q \in Sector : SameFields(flash[q], flash[q])
      BY DEF SameFields
    <3> QED BY <1>4, <3>1, <3>2
  <2>2. CASE ~ok
    BY <1>1, <1>3, <2>2, Programmed, SameAll
  <2> QED BY <2>1, <2>2
<1>6. ~failing' => ~failing
  BY <1>1, <1>3, Programmed
<1>7. ~failing /\ ~ruined => cur.sec \in Sector
  BY <1>3 DEF RingOK, RingAgrees
<1> QED BY <1>1, <1>3, <1>5, <1>6, <1>7, MemoryKept

LEMMA SetRolloverMemory ==
  ASSUME TsIInv, flash' \in Image, RingOK, MemoryAgain, SetRollover
  PROVE  MemoryAgain'
<1>1. /\ flash' = flash /\ failing' = failing /\ pc = "Idle" /\ pc' = "Idle" /\ cur' = cur
      /\ lastTime' = lastTime /\ oldest' = oldest /\ ruined' = ruined
  BY QuietType DEF SetRollover, Return, client
<1>2. ~failing /\ ~ruined => cur.sec \in Sector
  BY <1>1 DEF RingOK, RingAgrees
<1> QED BY <1>1, <1>2, SameAll, MemoryKept

LEMMA EndMemory ==
  ASSUME TsIInv, NEW ok \in BOOLEAN, EndPre(ok) \/ EndData(ok) \/ EndWrite(ok)
  PROVE  MemoryAgain'
<1>1. MediumType
  BY TypeParts DEF TsIInv
<1>2. PICK image, label : label \in EndLabels /\ Program(cur.sec, image, ok) /\ Then(ok, label)
  <2>1. CASE EndPre(ok)
    <3>1. Program(cur.sec, WithEnd([End EXCEPT !.stat = "PreWrite"]), ok) /\ Then(ok, "EndData")
      BY <2>1 DEF EndPre
    <3> QED BY <3>1 DEF EndLabels
  <2>2. CASE EndData(ok)
    <3>1. /\ Program(cur.sec, WithEnd([End EXCEPT !.time = lastTime, !.idx = cur.idx]), ok)
          /\ Then(ok, "EndWrite")
      BY <2>2 DEF EndData
    <3> QED BY <3>1 DEF EndLabels
  <2>3. CASE EndWrite(ok)
    <3>1. Program(cur.sec, WithEnd([End EXCEPT !.stat = "Write"]), ok) /\ Then(ok, "SetFull")
      BY <2>3 DEF EndWrite
    <3> QED BY <3>1 DEF EndLabels
  <2> QED BY <2>1, <2>2, <2>3
<1>3. failing' = ~ok
  BY <1>1, <1>2, Programmed
<1>4. ok => pc' = label
  BY <1>2 DEF Then, Goto
<1> QED BY <1>2, <1>3, <1>4, NothingRead

LEMMA TslIdxMemory ==
  ASSUME TsIInv, flash' \in Image, MemoryAgain, NEW ok \in BOOLEAN, TslIdx(ok)
  PROVE  MemoryAgain'
<1> DEFINE r == [Record EXCEPT !.time = call.time, !.len = call.len]
<1>1. /\ Program(cur.sec, WithLast(r), ok) /\ Then(ok, "TslData") /\ UNCHANGED <<ram, client>>
      /\ pc \in RecordLabels
  BY DEF TslIdx, RecordLabels
<1> HIDE DEF r
<1> QED BY <1>1, RecordMemory

LEMMA TslDataMemory ==
  ASSUME TsIInv, flash' \in Image, MemoryAgain, NEW ok \in BOOLEAN, TslData(ok)
  PROVE  MemoryAgain'
<1> DEFINE r == [Record EXCEPT !.data = TRUE]
<1>1. /\ Program(cur.sec, WithLast(r), ok) /\ Then(ok, "TslWrite") /\ UNCHANGED <<ram, client>>
      /\ pc \in RecordLabels
  BY DEF TslData, RecordLabels
<1> HIDE DEF r
<1> QED BY <1>1, RecordMemory

\* format_sector: only the header of the new current sector is read.
LEMMA FormatMemory ==
  ASSUME TsIInv, flash' \in Image, NEW ok \in BOOLEAN, FmtErase(ok) \/ FmtStatus(ok) \/ FmtMagic(ok)
  PROVE  MemoryAgain'
<1>1. flash \in Image /\ MediumType /\ pc \in FormatLabels
  BY TypeParts DEF TsIInv, FmtErase, FmtStatus, FmtMagic, FormatLabels
<1>2. PICK image : Program(call.sec, image, ok)
  BY DEF FmtErase, FmtStatus, FmtMagic
<1>3. CASE ~ok
  BY <1>1, <1>2, <1>3, Programmed, NothingRead
<1>4. CASE ok /\ ~(FmtMagic(ok) /\ call.op = "Append")
  <2>1. pc' \in FormatLabels \cup {"CleanEnd"}
    BY <1>4 DEF FmtErase, FmtStatus, FmtMagic, FmtReturn, Goto, FormatLabels
  <2> QED BY <2>1, NothingRead
<1>5. CASE ok /\ FmtMagic(ok) /\ call.op = "Append"
  <2> DEFINE new == [flash[call.sec] EXCEPT !.ok = TRUE]
  <2>1. /\ call.sec \in Sector /\ flash[call.sec] \in SectorImage /\ pc = "FmtMagic"
        /\ Program(call.sec, new, ok)
    BY <1>1, <1>5, InFormat DEF FmtMagic
  <2>2. ~failing /\ flash' = [flash EXCEPT ![call.sec] = new]
    BY <1>1, <1>5, <2>1, Programmed
  <2>3. flash[call.sec].store = "Empty"
    BY <1>1, <2>1, <2>2, InFormat DEF FormatAgrees
  <2>4. new.ok /\ new.store = "Empty"
    BY <2>1, <2>3 DEF SectorImage
  <2> HIDE DEF new
  <2>5. flash'[call.sec].ok /\ flash'[call.sec].store = "Empty"
    BY <1>1, <2>1, <2>2, <2>4, OneSector
  <2>6. pc' = "SetUsing" /\ cur' = read_header(flash', call.sec)
    BY <1>5 DEF FmtMagic, FmtReturn, Goto
  <2>7. PICK s \in Sector : s = call.sec
    BY <2>1
  <2> QED BY <2>5, <2>6, <2>7, TakenMemory
<1> QED BY <1>3, <1>4, <1>5

LEMMA CleanEndMemory ==
  ASSUME TsIInv, flash' \in Image, CleanEnd
  PROVE  MemoryAgain'
<1>1. /\ flash' = flash /\ failing' = failing /\ pc = "CleanEnd" /\ pc' = "Idle" /\ oldest' = 0
      /\ lastTime' = CleanLastTime
      /\ cur' = IF call.op = "Open" THEN read_sector_info(flash, 0) ELSE read_header(flash, 0)
  BY QuietType DEF CleanEnd, Return, client
<1>2. CASE failing
  BY <1>1, <1>2, NothingRead
<1>3. CASE ~failing
  <2>1. 0 \in Sector /\ flash \in Image
    BY Geometry, TypeParts DEF TsIInv
  <2>2. flash[0].store = "Empty" /\ flash[0].ok
    BY <1>1, <1>3, <2>1 DEF TsIInv, MemoryOK, CallAgrees, FormatAgrees
  <2>3. read_sector_info(flash, 0) = read_header(flash, 0)
    BY <2>1, <2>2, InfoOfHeader
  <2>4. read_header(flash, 0).sec = 0 /\ read_header(flash, 0).status = "Empty"
    BY <2>2 DEF read_header
  <2>5. lastTime' = FindLastTime(flash, cur', 0)
    BY <1>1, <2>3, <2>4 DEF CleanLastTime, FindLastTime
  <2> QED BY <1>1, <2>3, <2>4, <2>5 DEF MemoryAgain, ReadAgain, RecordLabels
<1> QED BY <1>2, <1>3

LEMMA OpenMemory ==
  ASSUME TsIInv, TimesOK, flash' \in Image, NEW strict \in BOOLEAN, Open(strict)
  PROVE  MemoryAgain'
<1>1. flash' = flash /\ pc = "Off"
  BY QuietType DEF Open
<1>2. CASE ~CheckFailed(flash) /\ Opened /\ Return("Ok") /\ ~ruined'
  <2>1. PICK f : f = FirstOpen(flash)
    OBVIOUS
  <2>2. f \in Sector
    BY <1>2, <2>1, FirstOpenIs DEF Opened
  <2>3. /\ cur' = read_sector_info(flash, f) /\ lastTime' = FindLastTime(flash, cur', oldest')
        /\ pc' = "Idle"
    BY <1>2, <2>1 DEF Opened, Return
  <2>4. cur'.sec = f
    BY <1>1, <2>2, <2>3, InfoSector
  <2> QED BY <1>1, <2>3, <2>4 DEF MemoryAgain, ReadAgain, RecordLabels
<1>3. CASE ruined' \/ pc' = "Off" \/ pc' = "FmtErase"
  BY <1>3, NothingRead DEF FormatLabels
<1> QED BY <1>1, <1>2, <1>3 DEF Open, CleanCall

LEMMA MemoryNext ==
  ASSUME TsIInv, flash' \in Image, TimesOK, RingOK, MemoryAgain, [Next]_vars
  PROVE  MemoryAgain'
<1>1. ASSUME NEW len \in Lens, AppendNow(len) \/ AppendAgain(len) PROVE MemoryAgain'
  <2>1. clock \in Int /\ \A t \in NextTimes : t \in Int
    BY TypeParts, TimesAssumption DEF TsIInv, ClientType, NextTimes
  <2> QED BY <1>1, <2>1, AppendMemory DEF AppendNow, AppendAgain
<1>2. CASE Client
  <2>1. CASE \E s \in Sector, st \in Marks, ok \in BOOLEAN :
                \E j \in Committed(flash[s]) : SetStatus(s, j, st, ok)
    BY <2>1, SetStatusMemory
  <2>2. CASE OpenPanics
    BY <2>2, NothingRead DEF OpenPanics
  <2>3. CASE Clean
    BY <2>3, NothingRead DEF Clean, CleanCall, FormatLabels
  <2>4. CASE Close
    BY <2>4, NothingRead DEF Close, Reset
  <2> QED BY <1>1, <1>2, <2>1, <2>2, <2>3, <2>4, OpenMemory, SetRolloverMemory DEF Client
<1>3. CASE Step
  BY <1>3, EndMemory, SetFullMemory, SetUsingMemory, SetStartMemory, TslPreMemory, TslIdxMemory,
     TslDataMemory, TslWriteMemory, FormatMemory, CleanEndMemory DEF Step
<1>4. CASE PowerLoss
  BY <1>4, NothingRead DEF PowerLoss, Reset
<1>5. CASE UNCHANGED vars
  <2>1. /\ flash' = flash /\ cur' = cur /\ lastTime' = lastTime /\ oldest' = oldest /\ pc' = pc
        /\ call' = call /\ failing' = failing /\ ruined' = ruined
    BY <1>5 DEF vars
  <2>2. ReadAgain' = ReadAgain
    BY <2>1 DEF ReadAgain
  <2> QED BY <2>1, <2>2 DEF MemoryAgain
<1> QED BY <1>2, <1>3, <1>4, <1>5 DEF Next

LEMMA MemoryInit ==
  ASSUME Init
  PROVE  MemoryAgain
BY DEF Init, Closed, MemoryAgain, ReadAgain, RecordLabels

----------------------------------------------------------------------------
(* ReopenAgrees *)

\* The ring begins in one place.
LEMMA OneBeginning ==
  ASSUME NEW img, NEW c \in Sector, NEW a, BeginsAt(img, c, a), NEW b, BeginsAt(img, c, b)
  PROVE  a = b
<1>1. a \in Nat /\ b \in Nat /\ c \in Nat
  BY DEF BeginsAt, Sector
<1>2. CASE a # 0
  <2>1. a \in Sector /\ c < a /\ a <= a
    BY <1>1, <1>2 DEF BeginsAt
  <2>2. b # 0 /\ b <= a
    BY <1>2, <2>1 DEF BeginsAt
  <2>3. b \in Sector /\ c < b /\ b <= b
    BY <1>1, <2>2 DEF BeginsAt
  <2>4. a <= b
    BY <2>2, <2>3 DEF BeginsAt
  <2> QED BY <1>1, <2>2, <2>4
<1>3. CASE a = 0 /\ b # 0
  <2>1. b \in Sector /\ c < b /\ b <= b
    BY <1>1, <1>3 DEF BeginsAt
  <2> QED BY <1>3, <2>1 DEF BeginsAt
<1> QED BY <1>2, <1>3

LEMMA ReopenHolds ==
  ASSUME TsIInv, TimesOK, RingOK, MemoryAgain
  PROVE  ReopenAgrees
<1> SUFFICES ASSUME Ready, ~CheckFailed(flash), FirstOpen(flash) # NoAddr
             PROVE  LET c == read_sector_info(flash, FirstOpen(flash))
                    IN  cur = c /\ oldest = FindOldest(flash) /\ lastTime = FindLastTime(flash, c, oldest)
  BY DEF ReopenAgrees
<1>1. PICK f, c : f = FirstOpen(flash) /\ c = cur.sec
  OBVIOUS
<1>2. /\ f \in Sector /\ flash[f].store \in {"Empty", "Using"}
      /\ \A s \in Sector : /\ flash[s].ok
                           /\ s # f => flash[s].store \in {"Empty", "Full"}
                           /\ s < f => flash[s].store = "Full"
  BY <1>1, FirstOpenIs
<1>3. /\ c \in Sector /\ Ring(flash, c) /\ BeginsAt(flash, c, oldest)
      /\ cur.status = flash[c].store /\ (cur.status = "Full" => c = N - 1)
  BY <1>1 DEF RingOK, RingAgrees, Ready
<1>4. c \in Int /\ f \in Int /\ N \in Int /\ f <= N - 1
  BY <1>2, <1>3, Geometry DEF Sector
<1>5. f = c
  <2>1. ~(f < c)
    BY <1>2, <1>3 DEF Ring
  <2>2. ASSUME c < f PROVE FALSE
    <3>1. flash[c].store = "Full"
      BY <1>2, <1>3, <2>2
    <3>2. c = N - 1
      BY <1>3, <3>1
    <3> QED BY <1>4, <2>2, <3>2
  <2> QED BY <1>4, <2>1, <2>2
<1>6. ~BrokenRing(flash)
  BY <1>1, <1>3, <1>5 DEF BrokenRing, Ring
<1>7. BeginsAt(flash, c, FindOldest(flash))
  <2>1. Remains(flash) /\ Whole(flash)
    BY <1>6 DEF RingOK, Ready, Whole
  <2> QED BY <1>1, <1>5, <2>1, WholeRing
<1>8. oldest = FindOldest(flash)
  BY <1>3, <1>7, OneBeginning
<1>9. cur = read_sector_info(flash, c) /\ lastTime = FindLastTime(flash, cur, oldest)
  BY <1>1, <1>2, <1>3, <1>5 DEF MemoryAgain, ReadAgain, Ready
<1> QED BY <1>1, <1>5, <1>8, <1>9

----------------------------------------------------------------------------
(* The theorems *)

\* In any session, after any failure and on any medium: time goes on in every sector, the
\* sectors are in the order of the ring, and what is in memory is what is on the medium.
THEOREM RingAlways == Spec => []TsRInv
<1>1. Init => TsRInv
  BY TimesInit, RingInit, MemoryInit DEF TsRInv
<1>2. ASSUME TsIInv, TsRInv, [Next]_vars PROVE TsRInv'
  <2>1. flash' \in Image
    BY <1>2, NextStep, TypePartsNext DEF TsIInv
  <2> QED BY <1>2, <2>1, TimesNext, RingNext, MemoryNext DEF TsRInv
<1>3. Spec => []TsIInv
  BY TsInductive
<1> QED BY <1>1, <1>2, <1>3, PTL DEF Spec

\* From the oldest sector on around the ring times increase (FindOldest, update_sec_status,
\* tsl_append): no append is taken twice, and no session reads the ring from its middle.
THEOREM TimesOrdered == Spec => []TimesIncrease
<1>1. TsIInv /\ TsRInv => TimesIncrease
  BY TimesAlong DEF TsRInv
<1> QED BY <1>1, RingAlways, TsInductive, PTL

\* Between two calls, init would find what is in memory (read_sector_info, init): the
\* current sector with its end and its room, the oldest sector and the last time.
THEOREM ReopenFinds == Spec => []ReopenAgrees
<1>1. TsIInv /\ TsRInv => ReopenAgrees
  BY ReopenHolds DEF TsRInv
<1> QED BY <1>1, RingAlways, TsInductive, PTL
=============================================================================
